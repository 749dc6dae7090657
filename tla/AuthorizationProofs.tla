------------------------- MODULE AuthorizationProofs --------------------------
(***************************************************************************)
(* Authorization: kiosk's authorizer decides as the one of Kubernetes, its *)
(* views agree, an account's binding reaches its members, and no role that *)
(* passes ConfirmNoEscalation escalates; for any users, namespaces,        *)
(* bindings, roles, rules and requests.  And WatchRegistry, where a user   *)
(* watches what the authorizer lets it see: no event is sent on a closed   *)
(* channel, and no client misses a change or sees one twice; for any       *)
(* number of watches, objects and events.                                  *)
(***************************************************************************)
EXTENDS Authorization, WatchRegistry, TLAPS

-----------------------------------------------------------------------------
(* Types.                                                                  *)

\* Types: subjects and rules are of the sets they are chosen from.
LEMMA PolicyTyped == Spec => []TypeOK
<1>1. Init => TypeOK
  BY DEF Init, TypeOK
<1>2. TypeOK /\ [Next]_vars => TypeOK'
  <2> SUFFICES ASSUME TypeOK, [Next]_vars PROVE TypeOK'
    OBVIOUS
  <2> USE DEF TypeOK
  <2>1. ASSUME NEW n \in Namespaces, CreateNamespace(n) PROVE TypeOK'
    BY <2>1 DEF CreateNamespace
  <2>2. ASSUME NEW n \in Namespaces, DeleteNamespace(n) PROVE TypeOK'
    BY <2>2 DEF DeleteNamespace
  <2>3. ASSUME NEW b \in Bindings, NEW S \in SubjectSets, SetSubjects(b, S) PROVE TypeOK'
    BY <2>3 DEF SetSubjects
  <2>4. ASSUME NEW r \in Roles, NEW R \in RuleSets, SetRules(r, R) PROVE TypeOK'
    BY <2>4 DEF SetRules
  <2>5. ASSUME NEW r \in Roles, DeleteRole(r) PROVE TypeOK'
    BY <2>5 DEF DeleteRole
  <2>6. ASSUME NEW a \in Accounts, NEW S \in SubjectSets, SetMembers(a, S) PROVE TypeOK'
    BY <2>6 DEF SetMembers
  <2>7. CASE UNCHANGED vars
    BY <2>7 DEF vars
  <2> QED
    BY <2>1, <2>2, <2>3, <2>4, <2>5, <2>6, <2>7 DEF Next
<1> QED
  BY <1>1, <1>2, PTL DEF Spec

-----------------------------------------------------------------------------
(* The index.                                                              *)

\* A key is its prefix and a name, and both can be read back.
LEMMA KeysDiffer ==
  ASSUME NEW N, NEW p \in N, NEW q \in N, NEW a \in Seq(N), NEW b \in Seq(N)
  PROVE  /\ <<p>> \o a = <<q>> \o b <=> p = q /\ a = b
         /\ <<p>> \o a # <<>>
<1>1. <<p>> \o a \in Seq(N) /\ <<q>> \o b \in Seq(N)
  OBVIOUS
<1>2. /\ Len(<<p>> \o a) = Len(a) + 1 /\ Len(<<q>> \o b) = Len(b) + 1
      /\ (<<p>> \o a)[1] = p /\ (<<q>> \o b)[1] = q
      /\ \A i \in 1..Len(a) : (<<p>> \o a)[i + 1] = a[i]
      /\ \A i \in 1..Len(b) : (<<q>> \o b)[i + 1] = b[i]
      /\ Len(a) \in Nat /\ Len(b) \in Nat
  OBVIOUS
<1>3. ASSUME <<p>> \o a = <<q>> \o b PROVE a = b
  <2>1. Len(a) = Len(b) /\ \A i \in 1..Len(a) : a[i] = b[i]
    BY <1>2, <1>3
  <2> QED
    BY <2>1
<1>4. <<p>> \o a = <<q>> \o b => p = q
  BY <1>2
<1>5. <<p>> \o a # <<>>
  BY <1>1, <1>2
<1> QED
  BY <1>3, <1>4, <1>5

\* The strings names and keys are made of.  (That a literal is in STRING is
\* not known to the provers.)
Words == STRING \cup {"", "user:", "group:", "system:serviceaccount"}

\* A sequence over a set is one over a larger set.
LEMMA SeqLarger ==
  ASSUME NEW S, NEW T, S \subseteq T
  PROVE  Seq(S) \subseteq Seq(T)
OBVIOUS

\* Users, subjects, namespaces and bindings are named by words.
LEMMA WordsTyped ==
  /\ \A u \in Users : u.name \in Seq(Words) /\ u.groups \subseteq Seq(Words)
  /\ \A s \in Subjects : s.name \in Seq(Words) /\ s.ns \in Words
  /\ Namespaces \cup {""} \subseteq Words
  /\ \A b \in Bindings : b.ns \in Words
<1>1. STRING \subseteq Words
  BY DEF Words
<1>2. Seq(STRING) \subseteq Seq(Words)
  BY <1>1, SeqLarger
<1> QED
  BY <1>1, <1>2, NamesTyped DEF Words

\* The name of a service account is a name.
LEMMA UsernameTyped ==
  ASSUME NEW n \in Words, NEW a \in Seq(Words)
  PROVE  MakeUsername(n, a) \in Seq(Words)
<1>1. "system:serviceaccount" \in Words
  BY DEF Words
<1>2. <<"system:serviceaccount", n>> \in Seq(Words)
  BY <1>1
<1> QED
  BY <1>2 DEF MakeUsername

\* A subject is found by the keys of a user exactly if it is that user, one of
\* the user's groups, or the service account that the user is.
LEMMA KeyFinds ==
  ASSUME NEW u \in Users, NEW s \in Subjects, NEW ns \in Words
  PROVE  AppliesToUser(u, s, ns) <=> ConvertSubject(ns, s) \in UserKeys(u) \ {NoKey}
<1>1. u.name \in Seq(Words) /\ u.groups \subseteq Seq(Words)
  BY WordsTyped
<1>2. s.name \in Seq(Words) /\ s.ns \in Words /\ SaNamespace(ns, s) \in Words
  BY WordsTyped DEF SaNamespace
<1>3. "user:" # "group:" /\ "user:" \in Words /\ "group:" \in Words
  BY DEF Words
<1>4. ASSUME NEW n \in Seq(Words)
      PROVE  /\ <<"user:">> \o n \in UserKeys(u) \ {NoKey} <=> n = u.name
             /\ <<"group:">> \o n \in UserKeys(u) \ {NoKey} <=> n \in u.groups
  <2>1. <<"user:">> \o n # NoKey /\ <<"group:">> \o n # NoKey
    BY <1>3, KeysDiffer DEF NoKey
  <2>2. /\ <<"user:">> \o n = <<"user:">> \o u.name <=> n = u.name
        /\ <<"group:">> \o n # <<"user:">> \o u.name
    <3>1. PICK a \in Seq(Words) : a = u.name
      BY <1>1
    <3>2. <<"user:">> \o n = <<"user:">> \o a <=> n = a
      BY <1>3, KeysDiffer
    <3>3. <<"group:">> \o n # <<"user:">> \o a
      BY <1>3, KeysDiffer
    <3> QED
      BY <3>1, <3>2, <3>3, Zenon
  <2>3. \A g \in u.groups : /\ <<"group:">> \o n = <<"group:">> \o g <=> n = g
                            /\ <<"user:">> \o n # <<"group:">> \o g
    BY <1>1, <1>3, KeysDiffer
  <2> QED
    BY <2>1, <2>2, <2>3, Zenon DEF UserKeys
<1>5. CASE s.kind = "User"
  BY <1>2, <1>4, <1>5 DEF AppliesToUser, ConvertSubject
<1>6. CASE s.kind = "Group"
  BY <1>2, <1>4, <1>6 DEF AppliesToUser, ConvertSubject
<1>7. CASE s.kind = "ServiceAccount" /\ SaNamespace(ns, s) # ""
  BY <1>2, <1>4, <1>7, UsernameTyped DEF AppliesToUser, ConvertSubject
<1>8. CASE s.kind \notin {"User", "Group"} /\ ~(s.kind = "ServiceAccount" /\ SaNamespace(ns, s) # "")
  BY <1>8 DEF AppliesToUser, ConvertSubject
<1> QED
  BY <1>5, <1>6, <1>7, <1>8

\* So it is for a set of subjects and the keys it is indexed by.
LEMMA IndexFinds ==
  ASSUME NEW u \in Users, NEW S \in SUBSET Subjects, NEW ns \in Words
  PROVE  AppliesTo(u, S, ns) <=> UserKeys(u) \cap IndexBySubjects(ns, S) # {}
<1>1. \A s \in S : AppliesToUser(u, s, ns) <=> ConvertSubject(ns, s) \in UserKeys(u) \ {NoKey}
  BY KeyFinds
<1> QED
  BY <1>1 DEF AppliesTo, IndexBySubjects

\* The bindings the index does not find do not apply to the user.
LEMMA IndexComplete ==
  ASSUME TypeOK, NEW u \in Users, NEW ns \in Words
  PROVE  RulesOf(u, ListBindings(u, ns)) = RulesOf(u, ListAllBindings(ns))
<1>1. \A b \in Bindings : subjects[b] \in SUBSET Subjects
  BY NamesTyped DEF TypeOK
<1>2. \A b \in ListAllBindings(ns) :
        AppliesTo(u, subjects[b], b.ns) <=> UserKeys(u) \cap IndexBySubjects(ns, subjects[b]) # {}
  BY <1>1, IndexFinds DEF ListAllBindings
<1>3. {b \in ListBindings(u, ns) : AppliesTo(u, subjects[b], b.ns)}
        = {b \in ListAllBindings(ns) : AppliesTo(u, subjects[b], b.ns)}
  BY <1>2 DEF ListBindings, ListAllBindings
<1> QED
  BY <1>3 DEF RulesOf

\* For every user, in every namespace and in the cluster.
LEMMA IndexExact == TypeOK => IndexIsExact
<1> SUFFICES ASSUME TypeOK, NEW u \in Users, NEW ns \in Namespaces \cup {""}
             PROVE  VisitRulesFor(u, ns) = KubeRulesFor(u, ns)
  BY DEF IndexIsExact
<1>1. ns \in Words /\ "" \in Words
  BY WordsTyped
<1> QED
  BY <1>1, IndexComplete DEF VisitRulesFor, KubeRulesFor

\* The resolver that looks bindings up by subject finds what the one that
\* looks at all of them finds: ConvertSubject hides no binding.
THEOREM IndexFaithful == Spec => []IndexIsExact
BY PolicyTyped, IndexExact, PTL

-----------------------------------------------------------------------------
(* The members of an account.                                              *)

\* The webhook has seen every subject of an account.
MembersValid == \A a \in Accounts : \A s \in members[a] : ValidateRoleBindingSubject(s)

\* Only SetMembers changes the subjects of an account, and it validates them.
LEMMA MembersStep == TypeOK /\ MembersValid /\ [Next]_vars => MembersValid'
<1> SUFFICES ASSUME TypeOK, MembersValid, [Next]_vars PROVE MembersValid'
  OBVIOUS
<1>1. ASSUME NEW a \in Accounts, NEW S \in SubjectSets, SetMembers(a, S) PROVE MembersValid'
  BY <1>1 DEF SetMembers, MembersValid, TypeOK
<1>2. CASE members' = members
  BY <1>2 DEF MembersValid
<1> QED
  BY <1>1, <1>2
  DEF Next, CreateNamespace, DeleteNamespace, SetSubjects, SetRules, DeleteRole, vars

\* A subject that passed the webhook has the same key in every namespace.
LEMMA ValidKeys ==
  ASSUME NEW s, NEW ns, ValidateRoleBindingSubject(s)
  PROVE  ConvertSubject(ns, s) = ConvertSubject("", s)
<1>1. CASE s.kind = "ServiceAccount"
  BY <1>1 DEF ValidateRoleBindingSubject, ConvertSubject, SaNamespace
<1>2. CASE s.kind \in {"User", "Group"}
  BY <1>2 DEF ConvertSubject
<1> QED
  BY <1>1, <1>2 DEF ValidateRoleBindingSubject

\* The role binding of a space reaches the members of its account and nobody
\* else, whatever namespace the space is: ValidateAccount lets no subject in
\* that would be another one in each namespace.
THEOREM MembersReach == Spec => []MembersReachSpaces
<1>1. Init => MembersValid
  BY DEF Init, MembersValid
<1>2. TypeOK /\ MembersValid => MembersReachSpaces
  <2> SUFFICES ASSUME TypeOK, MembersValid,
                      NEW u \in Users, NEW a \in Accounts, NEW ns \in Namespaces \cup {""}
               PROVE  AppliesTo(u, members[a], ns) <=> IsUserPartOfAccount(u, a)
    BY DEF MembersReachSpaces
  <2>1. members[a] \in SUBSET Subjects /\ ns \in Words
    BY NamesTyped, WordsTyped DEF TypeOK
  <2>2. IndexBySubjects(ns, members[a]) = IndexBySubjects("", members[a])
    BY ValidKeys DEF MembersValid, IndexBySubjects
  <2> QED
    BY <2>1, <2>2, IndexFinds DEF IsUserPartOfAccount
<1> QED
  BY <1>1, <1>2, MembersStep, PolicyTyped, PTL DEF Spec

\* The API server has validated the subjects of cluster role bindings.
ClusterBindingsValid ==
  \A b \in Bindings : b.ns = "" => \A s \in subjects[b] : ValidateRoleBindingSubject(s)

\* Namespaces come and go; only SetSubjects changes a cluster role binding.
LEMMA BindingsStep == TypeOK /\ ClusterBindingsValid /\ [Next]_vars => ClusterBindingsValid'
<1> SUFFICES ASSUME TypeOK, ClusterBindingsValid, [Next]_vars PROVE ClusterBindingsValid'
  OBVIOUS
<1>1. ASSUME NEW b \in Bindings, NEW S \in SubjectSets, SetSubjects(b, S)
      PROVE  ClusterBindingsValid'
  BY <1>1 DEF SetSubjects, ClusterBindingsValid, TypeOK
<1>2. ASSUME NEW n \in Namespaces, DeleteNamespace(n) PROVE ClusterBindingsValid'
  BY <1>2 DEF DeleteNamespace, ClusterBindingsValid
<1>3. CASE subjects' = subjects
  BY <1>3 DEF ClusterBindingsValid
<1> QED
  BY <1>1, <1>2, <1>3 DEF Next, CreateNamespace, SetRules, DeleteRole, SetMembers, vars

\* A subject that passed validation has a key, so the index does not drop it.
LEMMA ValidIndexed ==
  ASSUME NEW s \in Subjects, ValidateRoleBindingSubject(s)
  PROVE  ConvertSubject("", s) # NoKey
<1>1. s.name \in Seq(Words) /\ s.ns \in Words
  BY WordsTyped
<1>2. "user:" \in Words /\ "group:" \in Words
  BY DEF Words
<1>3. ASSUME NEW p \in Words, NEW n \in Seq(Words) PROVE <<p>> \o n # NoKey
  BY KeysDiffer DEF NoKey
<1>4. CASE s.kind = "User"
  BY <1>1, <1>2, <1>3, <1>4 DEF ConvertSubject
<1>5. CASE s.kind = "Group"
  BY <1>1, <1>2, <1>3, <1>5 DEF ConvertSubject
<1>6. CASE s.kind = "ServiceAccount" /\ s.ns # ""
  <2>1. MakeUsername(s.ns, s.name) \in Seq(Words)
    BY <1>1, UsernameTyped
  <2>2. ConvertSubject("", s) = <<"user:">> \o MakeUsername(s.ns, s.name)
    BY <1>6 DEF ConvertSubject, SaNamespace
  <2> QED
    BY <1>2, <1>3, <2>1, <2>2
<1> QED
  BY <1>4, <1>5, <1>6 DEF ValidateRoleBindingSubject

\* The subjects of accounts and of cluster role bindings: they count in every
\* namespace.
Everywhere ==
  UNION ({members[a] : a \in Accounts} \cup {subjects[b] : b \in {c \in Bindings : c.ns = ""}})

\* Validation lets no subject in among them that ConvertSubject would drop from
\* the index, or that would be one service account here and another one there
\* (ValidateRoleBindingSubject): each has a key, and the same from everywhere.
THEOREM ValidatedIndexed ==
  Spec => [](\A s \in Everywhere, ns \in Namespaces \cup {""} :
               ConvertSubject(ns, s) = ConvertSubject("", s) /\ ConvertSubject(ns, s) # NoKey)
<1>1. Init => MembersValid /\ ClusterBindingsValid
  BY DEF Init, MembersValid, ClusterBindingsValid
<1>2. TypeOK /\ MembersValid /\ ClusterBindingsValid =>
        \A s \in Everywhere, ns \in Namespaces \cup {""} :
          ConvertSubject(ns, s) = ConvertSubject("", s) /\ ConvertSubject(ns, s) # NoKey
  <2> SUFFICES ASSUME TypeOK, MembersValid, ClusterBindingsValid,
                      NEW s \in Everywhere, NEW ns \in Namespaces \cup {""}
               PROVE  ConvertSubject(ns, s) = ConvertSubject("", s) /\ ConvertSubject(ns, s) # NoKey
    OBVIOUS
  <2>1. CASE \E a \in Accounts : s \in members[a]
    BY <2>1, NamesTyped, ValidKeys, ValidIndexed DEF TypeOK, MembersValid
  <2>2. CASE \E b \in Bindings : b.ns = "" /\ s \in subjects[b]
    BY <2>2, NamesTyped, ValidKeys, ValidIndexed DEF TypeOK, ClusterBindingsValid
  <2> QED
    BY <2>1, <2>2 DEF Everywhere
<1> QED
  BY <1>1, <1>2, MembersStep, BindingsStep, PolicyTyped, PTL DEF Spec

-----------------------------------------------------------------------------
(* The views.                                                              *)

\* Requests that agree in what the rules look at are decided alike.
LEMMA SameQuestion ==
  ASSUME NEW a, NEW b, a.user = b.user, a.ns = b.ns, a.verb = b.verb, a.group = b.group,
         a.res = b.res, a.sub = b.sub, a.name = b.name, a.path = b.path,
         a.resourceRequest <=> b.resourceRequest
  PROVE  Authorize(a) <=> Authorize(b)
<1>1. \A rule : RuleAllows(a, rule) <=> RuleAllows(b, rule)
  BY DEF RuleAllows
<1> QED
  BY <1>1 DEF Authorize, AllowedBy

\* A list, a single read and a watch ask the authorizer the same question, and
\* for accounts so does the API server in front, by its own resolver.
THEOREM ViewsAgree == Spec => []OneView
<1>1. TypeOK => OneView
  <2> SUFFICES ASSUME TypeOK, NEW u \in Users
               PROVE  /\ ListSpaces(u) = {n \in namespaces : GetsSpace(u, n)}
                      /\ ListSpaces(u) = {n \in namespaces : ObservesSpace(u, n)}
                      /\ ListAccounts(u) = {a \in Accounts : FrontDoor(GetRequest(u, "accounts", a))}
                      /\ ListAccounts(u) = {a \in Accounts : ObservesAccount(u, a)}
    BY DEF OneView
  <2>1. ASSUME NEW n
        PROVE  Authorize(ChangeAttributesResource(GetRequest(u, "spaces", n), "", "namespaces", n))
                 <=> Authorize(Attributes(u, "get", "", "namespaces", n, n))
    <3> DEFINE a == ChangeAttributesResource(GetRequest(u, "spaces", n), "", "namespaces", n)
               b == Attributes(u, "get", "", "namespaces", n, n)
    <3>1. /\ a.user = b.user /\ a.ns = b.ns /\ a.verb = b.verb /\ a.group = b.group
          /\ a.res = b.res /\ a.sub = b.sub /\ a.name = b.name /\ a.path = b.path
      BY DEF ChangeAttributesResource, GetRequest, Attributes
    <3>2. a.resourceRequest /\ b.resourceRequest
      BY DEF ChangeAttributesResource, GetRequest, Attributes
    <3> HIDE DEF a, b
    <3>3. Authorize(a) <=> Authorize(b)
      BY <3>1, <3>2, SameQuestion
    <3> QED
      BY <3>3 DEF a, b
  <2>2. \A n : ListAttributes(u, "", "namespaces", n) = Attributes(u, "get", "", "namespaces", n, n)
    BY DEF ListAttributes
  <2>3. \A a : ListAttributes(u, "tenancy.kiosk.sh", "accounts", a)
                 = Attributes(u, "get", "tenancy.kiosk.sh", "accounts", "", a)
    BY DEF ListAttributes
  <2>4. \A a : Authorize(GetRequest(u, "accounts", a)) <=> FrontDoor(GetRequest(u, "accounts", a))
    <3>1. VisitRulesFor(u, "") = KubeRulesFor(u, "")
      BY IndexExact DEF IndexIsExact
    <3>2. \A a : GetRequest(u, "accounts", a).user = u /\ GetRequest(u, "accounts", a).ns = ""
      BY DEF GetRequest, Attributes
    <3> QED
      BY <3>1, <3>2 DEF Authorize, FrontDoor
  <2>5. ListSpaces(u) = {n \in namespaces : GetsSpace(u, n)}
    BY <2>1, <2>2 DEF ListSpaces, GetsSpace
  <2>6. ListSpaces(u) = {n \in namespaces : ObservesSpace(u, n)}
    <3>1. \A n : Authorize(ListAttributes(u, "", "namespaces", n)) <=> ObservesSpace(u, n)
      BY <2>2, Zenon DEF ObservesSpace
    <3> QED
      BY <3>1 DEF ListSpaces
  <2>7. ListAccounts(u) = {a \in Accounts : FrontDoor(GetRequest(u, "accounts", a))}
    BY <2>3, <2>4 DEF ListAccounts, GetRequest
  <2>8. ListAccounts(u) = {a \in Accounts : ObservesAccount(u, a)}
    <3>1. \A a : Authorize(ListAttributes(u, "tenancy.kiosk.sh", "accounts", a)) <=> ObservesAccount(u, a)
      BY <2>3, Zenon DEF ObservesAccount
    <3> QED
      BY <3>1 DEF ListAccounts
  <2> QED
    BY <2>5, <2>6, <2>7, <2>8
<1> QED
  BY <1>1, PolicyTyped, PTL

-----------------------------------------------------------------------------
(* The rule algebra.                                                       *)

\* The pieces of a rule: one verb, group, resource and name, or verb and url.
ResourcePiece(g, r, v, n) == [groups |-> {g}, resources |-> {r}, verbs |-> {v}, names |-> n, urls |-> {}]
URLPiece(v, u) == [groups |-> {}, resources |-> {}, verbs |-> {v}, names |-> {}, urls |-> {u}]

\* BreakdownRule by its pieces.
LEMMA Pieces ==
  ASSUME NEW rule, NEW sub
  PROVE  sub \in BreakdownRule(rule) <=>
           \/ \E g \in rule.groups, r \in rule.resources, v \in rule.verbs :
                \/ rule.names = {} /\ sub = ResourcePiece(g, r, v, {})
                \/ \E n \in rule.names : sub = ResourcePiece(g, r, v, {n})
           \/ \E u \in rule.urls, v \in rule.verbs : sub = URLPiece(v, u)
<1> DEFINE Names == IF rule.names = {} THEN {{}} ELSE {{n} : n \in rule.names}
<1>1. sub \in BreakdownRule(rule) <=>
        \/ \E g \in rule.groups, r \in rule.resources, v \in rule.verbs, n \in Names :
             sub = ResourcePiece(g, r, v, n)
        \/ \E u \in rule.urls, v \in rule.verbs : sub = URLPiece(v, u)
  <2> DEFINE A == {ResourcePiece(g, r, v, n) :
                     g \in rule.groups, r \in rule.resources, v \in rule.verbs, n \in Names}
             B == {URLPiece(v, u) : u \in rule.urls, v \in rule.verbs}
  <2>1. BreakdownRule(rule) = A \cup B
    BY DEF BreakdownRule, ResourcePiece, URLPiece
  <2>2. sub \in A <=> \E g \in rule.groups, r \in rule.resources, v \in rule.verbs, n \in Names :
                        sub = ResourcePiece(g, r, v, n)
    OBVIOUS
  <2>3. sub \in B <=> \E u \in rule.urls, v \in rule.verbs : sub = URLPiece(v, u)
    OBVIOUS
  <2> HIDE DEF A, B, Names
  <2> QED
    BY <2>1, <2>2, <2>3
<1>2. \A n : n \in Names <=> (rule.names = {} /\ n = {}) \/ \E m \in rule.names : n = {m}
  OBVIOUS
<1> HIDE DEF Names
<1> DEFINE Some(g, r, v) == \E n \in Names : sub = ResourcePiece(g, r, v, n)
           Either(g, r, v) == \/ rule.names = {} /\ sub = ResourcePiece(g, r, v, {})
                              \/ \E n \in rule.names : sub = ResourcePiece(g, r, v, {n})
<1>3. ASSUME NEW g, NEW r, NEW v
      PROVE  Some(g, r, v) <=> Either(g, r, v)
  BY <1>2
<1>4. (\E g \in rule.groups, r \in rule.resources, v \in rule.verbs, n \in Names :
         sub = ResourcePiece(g, r, v, n))
      <=> \E g \in rule.groups, r \in rule.resources, v \in rule.verbs : Some(g, r, v)
  OBVIOUS
<1>5. (\E g \in rule.groups, r \in rule.resources, v \in rule.verbs : Some(g, r, v))
      <=> \E g \in rule.groups, r \in rule.resources, v \in rule.verbs : Either(g, r, v)
  <2> HIDE DEF Some, Either
  <2> QED
    BY <1>3
<1> QED
  BY <1>1, <1>4, <1>5, Zenon

\* What a rule with one of each allows.
LEMMA PieceAllows ==
  ASSUME NEW q, NEW g, NEW r, NEW v, NEW n, NEW u
  PROVE  /\ RuleAllows(q, ResourcePiece(g, r, v, n)) <=>
              /\ q.resourceRequest
              /\ v \in {Star, q.verb} /\ g \in {Star, q.group}
              /\ \/ r = ResourceAll
                 \/ r = [res |-> q.res, sub |-> q.sub]
                 \/ q.sub # "" /\ r = [res |-> Star, sub |-> q.sub]
              /\ n = {} \/ q.name \in n
         /\ RuleAllows(q, URLPiece(v, u)) <=>
              /\ ~q.resourceRequest
              /\ v \in {Star, q.verb}
              /\ \/ u = NonResourceAll
                 \/ ~u.star /\ u.path = q.path
                 \/ u.star /\ IsPrefix(u.path, q.path)
<1> DEFINE p == ResourcePiece(g, r, v, n)
           w == URLPiece(v, u)
<1>1. /\ p.groups = {g} /\ p.resources = {r} /\ p.verbs = {v} /\ p.names = n /\ p.urls = {}
      /\ w.groups = {} /\ w.resources = {} /\ w.verbs = {v} /\ w.names = {} /\ w.urls = {u}
  BY DEF ResourcePiece, URLPiece
<1> HIDE DEF p, w
<1>2. /\ VerbMatches(p, q.verb) <=> v \in {Star, q.verb}
      /\ VerbMatches(w, q.verb) <=> v \in {Star, q.verb}
      /\ APIGroupMatches(p, q.group) <=> g \in {Star, q.group}
      /\ ~APIGroupMatches(w, q.group)
  BY <1>1 DEF VerbMatches, APIGroupMatches
<1>3. ResourceMatches(p, q.res, q.sub) <=>
        \/ r = ResourceAll
        \/ r = [res |-> q.res, sub |-> q.sub]
        \/ q.sub # "" /\ r = [res |-> Star, sub |-> q.sub]
  BY <1>1, Zenon DEF ResourceMatches
<1>4. ResourceNameMatches(p, q.name) <=> n = {} \/ q.name \in n
  BY <1>1 DEF ResourceNameMatches
<1>5. /\ ~NonResourceURLMatches(p, q.path)
      /\ NonResourceURLMatches(w, q.path) <=>
           \/ u = NonResourceAll
           \/ ~u.star /\ u.path = q.path
           \/ u.star /\ IsPrefix(u.path, q.path)
  BY <1>1, Zenon DEF NonResourceURLMatches
<1>6. RuleAllows(q, p) <=> q.resourceRequest /\ VerbMatches(p, q.verb) /\ APIGroupMatches(p, q.group)
        /\ ResourceMatches(p, q.res, q.sub) /\ ResourceNameMatches(p, q.name)
  BY <1>5, Zenon DEF RuleAllows
<1>7. RuleAllows(q, w) <=> ~q.resourceRequest /\ VerbMatches(w, q.verb) /\ NonResourceURLMatches(w, q.path)
  BY <1>2, Zenon DEF RuleAllows
<1> QED
  BY <1>2, <1>3, <1>4, <1>5, <1>6, <1>7, Zenon DEF p, w

\* Taking a rule apart changes nothing of what it allows.
LEMMA BreakdownAllows ==
  ASSUME NEW q, NEW rule
  PROVE  RuleAllows(q, rule) <=> \E sub \in BreakdownRule(rule) : RuleAllows(q, sub)
<1>1. ASSUME RuleAllows(q, rule), q.resourceRequest
      PROVE  \E sub \in BreakdownRule(rule) : RuleAllows(q, sub)
  <2>1. PICK v \in rule.verbs : v \in {Star, q.verb}
    BY <1>1 DEF RuleAllows, VerbMatches
  <2>2. PICK g \in rule.groups : g \in {Star, q.group}
    BY <1>1 DEF RuleAllows, APIGroupMatches
  <2>3. PICK r \in rule.resources :
          \/ r = ResourceAll
          \/ r = [res |-> q.res, sub |-> q.sub]
          \/ q.sub # "" /\ r = [res |-> Star, sub |-> q.sub]
    BY <1>1, Zenon DEF RuleAllows, ResourceMatches
  <2>4. rule.names = {} \/ q.name \in rule.names
    BY <1>1 DEF RuleAllows, ResourceNameMatches
  <2>5. CASE rule.names = {}
    <3>1. ResourcePiece(g, r, v, {}) \in BreakdownRule(rule)
      BY <2>5, Pieces, Zenon
    <3>2. RuleAllows(q, ResourcePiece(g, r, v, {}))
      BY <1>1, <2>1, <2>2, <2>3, PieceAllows, Zenon
    <3> QED
      BY <3>1, <3>2
  <2>6. CASE q.name \in rule.names
    <3>1. PICK m : m = {q.name}
      OBVIOUS
    <3>2. q.name \in m
      BY <3>1
    <3>3. ResourcePiece(g, r, v, m) \in BreakdownRule(rule)
      BY <2>6, <3>1, Pieces, Zenon
    <3>4. m = {} \/ q.name \in m
      BY <3>2
    <3>5. RuleAllows(q, ResourcePiece(g, r, v, m)) <=>
            /\ q.resourceRequest
            /\ v \in {Star, q.verb} /\ g \in {Star, q.group}
            /\ \/ r = ResourceAll
               \/ r = [res |-> q.res, sub |-> q.sub]
               \/ q.sub # "" /\ r = [res |-> Star, sub |-> q.sub]
            /\ m = {} \/ q.name \in m
      BY PieceAllows, Zenon
    <3>6. RuleAllows(q, ResourcePiece(g, r, v, m))
      BY <1>1, <2>1, <2>2, <2>3, <3>4, <3>5, Zenon
    <3> QED
      BY <3>3, <3>6
  <2> QED
    BY <2>4, <2>5, <2>6
<1>2. ASSUME RuleAllows(q, rule), ~q.resourceRequest
      PROVE  \E sub \in BreakdownRule(rule) : RuleAllows(q, sub)
  <2>1. PICK v \in rule.verbs : v \in {Star, q.verb}
    BY <1>2 DEF RuleAllows, VerbMatches
  <2>2. PICK u \in rule.urls :
          \/ u = NonResourceAll
          \/ ~u.star /\ u.path = q.path
          \/ u.star /\ IsPrefix(u.path, q.path)
    BY <1>2, Zenon DEF RuleAllows, NonResourceURLMatches
  <2>3. URLPiece(v, u) \in BreakdownRule(rule)
    BY Pieces, Zenon
  <2>4. RuleAllows(q, URLPiece(v, u))
    BY <1>2, <2>1, <2>2, PieceAllows, Zenon
  <2> QED
    BY <2>3, <2>4
<1>3. ASSUME NEW sub \in BreakdownRule(rule), RuleAllows(q, sub)
      PROVE  RuleAllows(q, rule)
  <2>1. CASE \E g \in rule.groups, r \in rule.resources, v \in rule.verbs :
               \/ rule.names = {} /\ sub = ResourcePiece(g, r, v, {})
               \/ \E n \in rule.names : sub = ResourcePiece(g, r, v, {n})
    <3>1. PICK g \in rule.groups, r \in rule.resources, v \in rule.verbs :
               \/ rule.names = {} /\ sub = ResourcePiece(g, r, v, {})
               \/ \E n \in rule.names : sub = ResourcePiece(g, r, v, {n})
      BY <2>1
    <3>2. PICK m : sub = ResourcePiece(g, r, v, m) /\ (rule.names = {} \/ \E n \in rule.names : m = {n})
      BY <3>1
    <3>3. /\ q.resourceRequest
          /\ v \in {Star, q.verb} /\ g \in {Star, q.group}
          /\ \/ r = ResourceAll
             \/ r = [res |-> q.res, sub |-> q.sub]
             \/ q.sub # "" /\ r = [res |-> Star, sub |-> q.sub]
          /\ m = {} \/ q.name \in m
      BY <1>3, <3>2, PieceAllows, Zenon
    <3>4. VerbMatches(rule, q.verb) /\ APIGroupMatches(rule, q.group)
      BY <3>3 DEF VerbMatches, APIGroupMatches
    <3>5. ResourceMatches(rule, q.res, q.sub)
      BY <3>3, Zenon DEF ResourceMatches
    <3>6. ResourceNameMatches(rule, q.name)
      BY <3>2, <3>3 DEF ResourceNameMatches
    <3> QED
      BY <3>3, <3>4, <3>5, <3>6 DEF RuleAllows
  <2>2. CASE \E u \in rule.urls, v \in rule.verbs : sub = URLPiece(v, u)
    <3>1. PICK u \in rule.urls, v \in rule.verbs : sub = URLPiece(v, u)
      BY <2>2
    <3>2. /\ ~q.resourceRequest
          /\ v \in {Star, q.verb}
          /\ \/ u = NonResourceAll
             \/ ~u.star /\ u.path = q.path
             \/ u.star /\ IsPrefix(u.path, q.path)
      BY <1>3, <3>1, PieceAllows, Zenon
    <3>3. VerbMatches(rule, q.verb)
      BY <3>2 DEF VerbMatches
    <3>4. NonResourceURLMatches(rule, q.path)
      BY <3>2, Zenon DEF NonResourceURLMatches
    <3> QED
      BY <3>2, <3>3, <3>4 DEF RuleAllows
  <2> QED
    BY <1>3, <2>1, <2>2, Pieces, Zenon
<1> QED
  BY <1>1, <1>2, <1>3

-----------------------------------------------------------------------------
(* Escalation.                                                             *)

URL == [path : Seq(STRING), star : BOOLEAN]

\* Prefixes, by their elements.
LEMMA PrefixElements ==
  ASSUME NEW N, NEW s \in Seq(N), NEW t \in Seq(N)
  PROVE  IsPrefix(s, t) <=> Len(s) <= Len(t) /\ \A i \in 1..Len(s) : s[i] = t[i]
<1>1. Len(s) \in Nat /\ Len(t) \in Nat
  OBVIOUS
<1>2. CASE Len(s) <= Len(t)
  <2> DEFINE a == SubSeq(s, 1, Len(s))
             b == SubSeq(t, 1, Len(s))
  <2>1. a \in Seq(N) /\ b \in Seq(N) /\ Len(a) = Len(s) /\ Len(b) = Len(s)
    BY <1>1, <1>2
  <2>2. \A i \in 1..Len(s) : a[i] = s[i] /\ b[i] = t[i]
    BY <1>1, <1>2
  <2>3. IsPrefix(s, t) <=> a = b
    BY <1>2 DEF IsPrefix
  <2> HIDE DEF a, b
  <2>4. a = b <=> \A i \in 1..Len(s) : a[i] = b[i]
    BY <2>1
  <2> QED
    BY <1>2, <2>2, <2>3, <2>4
<1> QED
  BY <1>2 DEF IsPrefix

\* A prefix of a prefix is a prefix, and nothing is a prefix of anything.
LEMMA PrefixesChain ==
  ASSUME NEW N, NEW s \in Seq(N), NEW t \in Seq(N), NEW w \in Seq(N), IsPrefix(s, t)
  PROVE  /\ IsPrefix(t, w) => IsPrefix(s, w)
         /\ t = <<>> => IsPrefix(s, w)
<1>1. Len(s) \in Nat /\ Len(t) \in Nat /\ Len(w) \in Nat
  OBVIOUS
<1>2. Len(s) <= Len(t) /\ \A i \in 1..Len(s) : s[i] = t[i]
  BY PrefixElements
<1>3. ASSUME IsPrefix(t, w) PROVE IsPrefix(s, w)
  <2>1. Len(t) <= Len(w) /\ \A i \in 1..Len(t) : t[i] = w[i]
    BY <1>3, PrefixElements
  <2>2. Len(s) <= Len(w) /\ \A i \in 1..Len(s) : s[i] = w[i]
    BY <1>1, <1>2, <2>1
  <2> QED
    BY <2>2, PrefixElements
<1>4. ASSUME t = <<>> PROVE IsPrefix(s, w)
  <2>1. Len(s) = 0
    BY <1>1, <1>2, <1>4
  <2>2. Len(s) <= Len(w) /\ \A i \in 1..Len(s) : s[i] = w[i]
    BY <1>1, <2>1
  <2> QED
    BY <2>2, PrefixElements
<1> QED
  BY <1>3, <1>4

\* A rule that covers another allows what it allows.
LEMMA CoversAllows ==
  ASSUME NEW q, NEW owner, NEW sub, RuleCovers(owner, sub), RuleAllows(q, sub),
         q.path \in Seq(STRING), owner.urls \subseteq URL, sub.urls \subseteq URL
  PROVE  RuleAllows(q, owner)
<1>1. VerbMatches(owner, q.verb)
  BY DEF RuleAllows, RuleCovers, VerbMatches
<1>2. CASE q.resourceRequest
  <2>1. APIGroupMatches(owner, q.group)
    BY <1>2 DEF RuleAllows, RuleCovers, APIGroupMatches
  <2>2. ResourceMatches(owner, q.res, q.sub)
    <3>1. PICK r \in sub.resources :
            \/ r = ResourceAll
            \/ r = [res |-> q.res, sub |-> q.sub]
            \/ q.sub # "" /\ r = [res |-> Star, sub |-> q.sub]
      BY <1>2, Zenon DEF RuleAllows, ResourceMatches
    <3>2. \/ ResourceAll \in owner.resources
          \/ r \in owner.resources
          \/ r.sub # "" /\ [res |-> Star, sub |-> r.sub] \in owner.resources
      BY Zenon DEF RuleCovers, ResourceCoversAll
    <3>3. ResourceAll.sub = "" /\ [res |-> q.res, sub |-> q.sub].sub = q.sub
          /\ [res |-> Star, sub |-> q.sub].sub = q.sub
      BY DEF ResourceAll
    <3>4. CASE ResourceAll \in owner.resources
      BY <3>4, Zenon DEF ResourceMatches
    <3>5. CASE r \in owner.resources
      BY <3>1, <3>5, Zenon DEF ResourceMatches
    <3>6. CASE r.sub # "" /\ [res |-> Star, sub |-> r.sub] \in owner.resources
      <4>1. r.sub = q.sub
        BY <3>1, <3>3, <3>6
      <4> QED
        BY <3>6, <4>1, Zenon DEF ResourceMatches
    <3> QED
      BY <3>2, <3>4, <3>5, <3>6
  <2>3. ResourceNameMatches(owner, q.name)
    BY <1>2 DEF RuleAllows, RuleCovers, ResourceNameMatches
  <2> QED
    BY <1>1, <1>2, <2>1, <2>2, <2>3 DEF RuleAllows
<1>3. CASE ~q.resourceRequest
  <2>1. PICK u \in sub.urls :
          \/ u = NonResourceAll
          \/ ~u.star /\ u.path = q.path
          \/ u.star /\ IsPrefix(u.path, q.path)
    BY <1>3, Zenon DEF RuleAllows, NonResourceURLMatches
  <2>2. PICK o \in owner.urls : o = u \/ (o.star /\ IsPrefix(o.path, u.path))
    BY Zenon DEF RuleCovers, NonResourceURLsCoversAll, NonResourceURLCovers
  <2>3. CASE o = u
    BY <1>1, <1>3, <2>1, <2>2, <2>3, Zenon DEF RuleAllows, NonResourceURLMatches
  <2>4. CASE o.star /\ IsPrefix(o.path, u.path)
    <3>1. o.path \in Seq(STRING) /\ u.path \in Seq(STRING)
      BY DEF URL
    <3>2. NonResourceAll.path = <<>>
      BY DEF NonResourceAll
    <3>3. IsPrefix(o.path, q.path)
      <4>1. CASE u = NonResourceAll
        BY <2>4, <3>1, <3>2, <4>1, PrefixesChain
      <4>2. CASE u.path = q.path
        BY <2>4, <4>2
      <4>3. CASE IsPrefix(u.path, q.path)
        BY <2>4, <3>1, <4>3, PrefixesChain
      <4> QED
        BY <2>1, <4>1, <4>2, <4>3
    <3>4. NonResourceURLMatches(owner, q.path)
      BY <2>4, <3>3, Zenon DEF NonResourceURLMatches
    <3> QED
      BY <1>1, <1>3, <3>4 DEF RuleAllows
  <2> QED
    BY <2>2, <2>3, <2>4
<1> QED
  BY <1>2, <1>3

\* Every rule in force is one of the given rules.
LEMMA RulesInForce ==
  ASSUME TypeOK, NEW u, NEW ns
  PROVE  KubeRulesFor(u, ns) \subseteq PolicyRule
<1>1. \A r \in Roles : \A R \in rules[r] : R \in RuleSets
  BY DEF TypeOK
<1>2. ASSUME NEW ref, NEW m
      PROVE  UNION RoleReferenceRules(ref, m) \subseteq PolicyRule
  <2> DEFINE role == [kind |-> ref.kind, name |-> ref.name,
                      ns |-> IF ref.kind = "Role" THEN m ELSE ""]
  <2>1. RoleReferenceRules(ref, m) = IF role \in Roles THEN rules[role] ELSE {}
    BY DEF RoleReferenceRules
  <2> HIDE DEF role
  <2> QED
    BY <1>1, <2>1, RulesTyped
<1>3. ASSUME NEW B
      PROVE  RulesOf(u, B) \subseteq PolicyRule
  BY <1>2 DEF RulesOf
<1> QED
  BY <1>3 DEF KubeRulesFor

\* The pieces of a typed rule have typed urls.
LEMMA PiecesTyped ==
  ASSUME NEW rule \in PolicyRule, NEW sub \in BreakdownRule(rule)
  PROVE  sub.urls \subseteq rule.urls /\ rule.urls \subseteq URL
<1>1. rule.urls \subseteq URL
  BY DEF PolicyRule, URL
<1>2. \A g, r, v, n : ResourcePiece(g, r, v, n).urls = {}
  BY DEF ResourcePiece
<1>3. \A v, u : URLPiece(v, u).urls = {u}
  BY DEF URLPiece
<1>4. CASE \E g \in rule.groups, r \in rule.resources, v \in rule.verbs :
             \/ rule.names = {} /\ sub = ResourcePiece(g, r, v, {})
             \/ \E n \in rule.names : sub = ResourcePiece(g, r, v, {n})
  <2>1. PICK g, r, v, n : sub = ResourcePiece(g, r, v, n)
    BY <1>4, Zenon
  <2> QED
    BY <1>1, <1>2, <2>1
<1>5. CASE \E u \in rule.urls, v \in rule.verbs : sub = URLPiece(v, u)
  BY <1>1, <1>3, <1>5
<1> QED
  BY <1>4, <1>5, Pieces, Zenon

\* A user who passes ConfirmNoEscalation hands out nothing he may not do.
THEOREM NothingEscalates == Spec => []NoEscalation
<1>1. TypeOK => NoEscalation
  <2> SUFFICES ASSUME TypeOK, NEW u \in Users, NEW ns \in Namespaces \cup {""}, NEW r \in Roles,
                      NEW R \in rules[r], ConfirmNoEscalation(u, ns, R),
                      NEW q \in Requests, AllowedBy(R, q)
               PROVE  AllowedBy(KubeRulesFor(u, ns), q)
    BY DEF NoEscalation
  <2>1. R \subseteq PolicyRule /\ q.path \in Seq(STRING)
    <3>1. R \in RuleSets
      <4>1. rules[r] \in {{}} \cup {{Q} : Q \in RuleSets}
        BY DEF TypeOK
      <4> QED
        BY <4>1
    <3> QED
      BY <3>1, RulesTyped
  <2>2. PICK rule \in R : RuleAllows(q, rule)
    BY DEF AllowedBy
  <2>3. PICK sub \in BreakdownRule(rule) : RuleAllows(q, sub)
    BY <2>2, BreakdownAllows
  <2>4. PICK owner \in KubeRulesFor(u, ns) : RuleCovers(owner, sub)
    BY <2>3 DEF ConfirmNoEscalation, Uncovered
  <2>5. sub.urls \subseteq URL /\ owner.urls \subseteq URL
    <3>1. rule \in PolicyRule /\ owner \in PolicyRule
      BY <2>1, RulesInForce
    <3> QED
      BY <3>1, PiecesTyped DEF PolicyRule, URL
  <2>6. RuleAllows(q, owner)
    BY <2>1, <2>3, <2>4, <2>5, CoversAllows
  <2> QED
    BY <2>6 DEF AllowedBy
<1> QED
  BY <1>1, PolicyTyped, PTL

-----------------------------------------------------------------------------
(* Putting pieces together.                                                *)

\* A rule with the verbs of many, which agree in all else, allows what they do.
LEMMA VerbsJoin ==
  ASSUME NEW q, NEW S, NEW m, m.verbs = UNION {s.verbs : s \in S}, S # {},
         \A s \in S : /\ s.groups = m.groups /\ s.resources = m.resources
                      /\ s.names = m.names /\ s.urls = m.urls
  PROVE  RuleAllows(q, m) <=> \E s \in S : RuleAllows(q, s)
<1>1. VerbMatches(m, q.verb) <=> \E s \in S : VerbMatches(s, q.verb)
  BY DEF VerbMatches
<1>2. ASSUME NEW s \in S
      PROVE  /\ APIGroupMatches(s, q.group) <=> APIGroupMatches(m, q.group)
             /\ ResourceMatches(s, q.res, q.sub) <=> ResourceMatches(m, q.res, q.sub)
             /\ ResourceNameMatches(s, q.name) <=> ResourceNameMatches(m, q.name)
             /\ NonResourceURLMatches(s, q.path) <=> NonResourceURLMatches(m, q.path)
  BY Zenon DEF APIGroupMatches, ResourceMatches, ResourceNameMatches, NonResourceURLMatches
<1> DEFINE Rest(s) == IF q.resourceRequest
                      THEN /\ APIGroupMatches(s, q.group)
                           /\ ResourceMatches(s, q.res, q.sub)
                           /\ ResourceNameMatches(s, q.name)
                      ELSE NonResourceURLMatches(s, q.path)
<1>3. \A s \in S : Rest(s) <=> Rest(m)
  BY <1>2
<1>4. \A s : RuleAllows(q, s) <=> VerbMatches(s, q.verb) /\ Rest(s)
  BY DEF RuleAllows
<1> HIDE DEF Rest
<1> QED
  BY <1>1, <1>3, <1>4

\* Compacting pieces changes nothing of what they allow.
LEMMA CompactAllows ==
  ASSUME NEW q, NEW X,
         \A x \in X : \/ \E g, r, v, n : x = ResourcePiece(g, r, v, n)
                      \/ \E v, u : x = URLPiece(v, u)
  PROVE  AllowedBy(CompactRules(X), q) <=> AllowedBy(X, q)
<1> DEFINE simple == {rule \in X : IsSimpleResourceRule(rule)}
           Like(rule) == {s \in simple : SimpleResource(s) = SimpleResource(rule)}
           First(rule) == CHOOSE s \in Like(rule) : TRUE
           Merged(rule) == [First(rule) EXCEPT !.verbs = UNION {s.verbs : s \in Like(rule)}]
<1>1. CompactRules(X) = (X \ simple) \cup {Merged(rule) : rule \in simple}
  BY DEF CompactRules
<1>2. \A rule \in simple : rule \in Like(rule) /\ First(rule) \in Like(rule)
  OBVIOUS
<1>3. ASSUME NEW rule \in simple
      PROVE  RuleAllows(q, Merged(rule)) <=> \E s \in Like(rule) : RuleAllows(q, s)
  <2>1. PICK f : f = First(rule)
    OBVIOUS
  <2>2. PICK V : V = UNION {s.verbs : s \in Like(rule)}
    OBVIOUS
  <2>3. Merged(rule) = [f EXCEPT !.verbs = V]
    BY <2>1, <2>2
  <2>4. f \in Like(rule)
    BY <1>2, <2>1
  <2>5. f \in X /\ f.urls = {}
    BY <2>4 DEF IsSimpleResourceRule
  <2>6. PICK g, r, v, n : f = ResourcePiece(g, r, v, n)
    <3>1. \A v, u : URLPiece(v, u).urls # {}
      BY DEF URLPiece
    <3> QED
      BY <2>5, <3>1
  <2> DEFINE m == [f EXCEPT !.verbs = V]
  <2>7. /\ m.verbs = V /\ m.groups = f.groups /\ m.resources = f.resources
        /\ m.names = f.names /\ m.urls = f.urls
    BY <2>6 DEF ResourcePiece
  <2>8. ASSUME NEW s \in Like(rule)
        PROVE  /\ s.groups = f.groups /\ s.resources = f.resources
               /\ s.names = f.names /\ s.urls = f.urls
    <3>1. SimpleResource(s) = SimpleResource(f)
      BY <2>4
    <3>2. s.urls = {}
      BY DEF IsSimpleResourceRule
    <3> QED
      BY <2>5, <3>1, <3>2 DEF SimpleResource
  <2> HIDE DEF m, Merged, Like
  <2>9. RuleAllows(q, m) <=> \E s \in Like(rule) : RuleAllows(q, s)
    BY <2>2, <2>4, <2>7, <2>8, VerbsJoin
  <2> QED
    BY <2>3, <2>9 DEF m
<1>4. ASSUME AllowedBy(CompactRules(X), q)
      PROVE  AllowedBy(X, q)
  <2> HIDE DEF Merged
  <2>1. PICK x \in (X \ simple) \cup {Merged(rule) : rule \in simple} : RuleAllows(q, x)
    BY <1>1, <1>4 DEF AllowedBy
  <2>2. CASE x \in X
    BY <2>1, <2>2 DEF AllowedBy
  <2>3. CASE x \in {Merged(rule) : rule \in simple}
    BY <1>3, <2>1, <2>3 DEF AllowedBy
  <2> QED
    BY <2>1, <2>2, <2>3
<1>5. ASSUME AllowedBy(X, q)
      PROVE  AllowedBy(CompactRules(X), q)
  <2>1. PICK x \in X : RuleAllows(q, x)
    BY <1>5 DEF AllowedBy
  <2>2. CASE x \in simple
    <3>1. RuleAllows(q, Merged(x))
      BY <1>2, <1>3, <2>1, <2>2
    <3> HIDE DEF Merged, simple
    <3>2. Merged(x) \in CompactRules(X)
      BY <1>1, <2>2
    <3> QED
      BY <3>1, <3>2 DEF AllowedBy
  <2>3. CASE x \notin simple
    BY <1>1, <2>1, <2>3 DEF AllowedBy
  <2> QED
    BY <2>2, <2>3
<1> QED
  BY <1>4, <1>5

\* Taking the rules of a role apart and compacting the pieces changes nothing.
THEOREM TakenApartExactly == Spec => []BreakdownExact
<1>1. BreakdownExact
  <2> SUFFICES ASSUME NEW R, NEW q
               PROVE  AllowedBy(CompactRules(UNION {BreakdownRule(rule) : rule \in R}), q)
                        <=> AllowedBy(R, q)
    BY DEF BreakdownExact
  <2> DEFINE X == UNION {BreakdownRule(rule) : rule \in R}
  <2>1. ASSUME NEW x \in X
        PROVE  \/ \E g, r, v, n : x = ResourcePiece(g, r, v, n)
               \/ \E v, u : x = URLPiece(v, u)
    <3>1. PICK rule \in R : x \in BreakdownRule(rule)
      OBVIOUS
    <3>2. CASE \E g \in rule.groups, r \in rule.resources, v \in rule.verbs :
                 \/ rule.names = {} /\ x = ResourcePiece(g, r, v, {})
                 \/ \E n \in rule.names : x = ResourcePiece(g, r, v, {n})
      <4>1. PICK g, r, v, n : x = ResourcePiece(g, r, v, n)
        BY <3>2, Zenon
      <4> QED
        BY <4>1
    <3>3. CASE \E u \in rule.urls, v \in rule.verbs : x = URLPiece(v, u)
      BY <3>3
    <3> QED
      BY <3>1, <3>2, <3>3, Pieces, Zenon
  <2>2. AllowedBy(X, q) <=> AllowedBy(R, q)
    <3>1. \A rule : RuleAllows(q, rule) <=> \E sub \in BreakdownRule(rule) : RuleAllows(q, sub)
      BY BreakdownAllows
    <3> QED
      BY <3>1 DEF AllowedBy
  <2> HIDE DEF X
  <2>3. AllowedBy(CompactRules(X), q) <=> AllowedBy(X, q)
    BY <2>1, CompactAllows
  <2> QED
    BY <2>2, <2>3 DEF X
<1> QED
  BY <1>1, PTL

-----------------------------------------------------------------------------
(* The watches of WatchRegistry.  They share no state with the policy      *)
(* above: what a watcher's user may see is, there, part of a notification. *)

(***************************************************************************)
(* Why no send meets a closed channel: the walk visits only subscribed     *)
(* watchers, a watcher that has closed its channel is not subscribed, and  *)
(* the subscribed watchers do not change during a walk.                    *)
(***************************************************************************)
WalkInv ==
  /\ wpc \in [Watchers -> WatchPC]
  /\ NoSendOnClosed
  /\ rest \subseteq watcher
  /\ dpc = "idle" => rest = {}
  /\ dpc \in {"rlock", "send"} => cur \in rest
  /\ \A w \in Watchers : wpc[w] \in {"unsubscribed", "stopped"} => w \notin watcher

\* Every step keeps WalkInv: Unsubscribe, the only removal, finds no walk in
\* progress, and ObserveSend serves a watcher of the walk.
LEMMA WalkStep == WalkInv /\ [WatchNext]_watchVars => WalkInv'
<1> SUFFICES ASSUME WalkInv, [WatchNext]_watchVars PROVE WalkInv'
  OBVIOUS
<1> USE DEF WalkInv, NoSendOnClosed, WatchPC
<1>1. ASSUME NEW o \in Objects, Change(o) PROVE WalkInv'
  BY <1>1 DEF Change, dispatchVars, clientVars
<1>2. CASE Dispatch
  BY <1>2 DEF Dispatch, Visits, clientVars
<1>3. ASSUME NEW w \in Watchers, ObserveSkip(w) PROVE WalkInv'
  BY <1>3 DEF ObserveSkip, clientVars
<1>4. ASSUME NEW w \in Watchers, ObservePass(w) PROVE WalkInv'
  BY <1>4 DEF ObservePass, clientVars
<1>5. ASSUME NEW w \in Watchers, ObserveLock(w) PROVE WalkInv'
  BY <1>5 DEF ObserveLock, clientVars
<1>6. ASSUME NEW w \in Watchers, ObserveSend(w) PROVE WalkInv'
  <2>1. w \in watcher /\ wpc[w] = "watching"
    BY <1>6 DEF ObserveSend
  <2> QED
    BY <1>6, <2>1 DEF ObserveSend
<1>7. CASE DispatchEnd
  BY <1>7 DEF DispatchEnd, clientVars
<1>8. ASSUME NEW w \in Watchers, Watch(w) PROVE WalkInv'
  BY <1>8 DEF Watch, RegistryFree, dispatchVars
<1>9. ASSUME NEW w \in Watchers, Leave(w) PROVE WalkInv'
  BY <1>9 DEF Leave, dispatchVars
<1>10. ASSUME NEW w \in Watchers, StopLock(w) PROVE WalkInv'
  BY <1>10 DEF StopLock, dispatchVars
<1>11. ASSUME NEW w \in Watchers, StopUnsubscribe(w) PROVE WalkInv'
  BY <1>11 DEF StopUnsubscribe, Unsubscribe, RegistryFree, dispatchVars
<1>12. ASSUME NEW w \in Watchers, StopClose(w) PROVE WalkInv'
  BY <1>12 DEF StopClose, dispatchVars
<1>13. CASE UNCHANGED watchVars
  BY <1>13 DEF watchVars, dispatchVars, clientVars
<1> QED
  BY <1>1, <1>2, <1>3, <1>4, <1>5, <1>6, <1>7, <1>8, <1>9, <1>10, <1>11, <1>12, <1>13
  DEF WatchNext, Observe, Stop

\* The informer's goroutine never panics on a closed watch channel, however
\* many watches come and go while events are delivered.
THEOREM ClosedIsSilent == WatchSpec => []NoSendOnClosed
<1>1. WatchInit => WalkInv
  BY DEF WatchInit, WalkInv, NoSendOnClosed, WatchPC
<1>2. WalkInv => NoSendOnClosed
  BY DEF WalkInv
<1> QED
  BY <1>1, <1>2, WalkStep, PTL DEF WatchSpec

-----------------------------------------------------------------------------
(* Types.  The goroutine has an event in hand exactly while it walks.      *)

Walking == dpc \in {"walk", "rlock", "send"}

TypeInv == WatchTypeOK /\ (Walking => event[1] \in Event)

\* A notification becomes an event of the same object for the same watchers.
LEMMA EventTyped ==
  ASSUME NEW n \in Notification
  PROVE  EventOf(n) \in Event
BY DEF EventOf, Event, Notification

\* So does what the clients are owed, unless the object was absent both
\* before and after the change.
LEMMA OwedTyped ==
  ASSUME NEW n \in Notification
  PROVE  Owed(n) \in Event
<1>1. n.before \in BOOLEAN /\ n.after \in BOOLEAN /\ n.obj \in Objects /\ n.seenBy \in SUBSET Watchers
  BY DEF Notification
<1>2. CASE ~n.before /\ ~n.after
  BY <1>1, <1>2 DEF Owed, Event
<1>3. CASE n.before /\ ~n.after
  BY <1>1, <1>3 DEF Owed, Event
<1>4. CASE ~n.before /\ n.after
  BY <1>1, <1>4 DEF Owed, Event
<1>5. CASE n.before /\ n.after
  BY <1>1, <1>5 DEF Owed, Event
<1> QED
  BY <1>1, <1>2, <1>3, <1>4, <1>5

\* Every step keeps the types; a delivery appends to one client's events.
LEMMA TypeStep == TypeInv /\ [WatchNext]_watchVars => TypeInv'
<1> SUFFICES ASSUME TypeInv, [WatchNext]_watchVars PROVE TypeInv'
  OBVIOUS
<1> USE WatchAssumption DEF TypeInv, WatchTypeOK, WatchPC, DispatchPC, Walking
<1>1. ASSUME NEW o \in Objects, Change(o) PROVE TypeInv'
  <2>1. PICK h \in {"OnAdd", "OnUpdate", "OnDelete"}, u \in BOOLEAN, S \in SUBSET Watchers :
          /\ reported < MaxEvents
          /\ live' = CASE h = "OnAdd" -> live \cup {o}
                       [] h = "OnUpdate" -> live
                       [] h = "OnDelete" -> live \ {o}
          /\ pending' = Append(pending,
                    [handler |-> h, obj |-> o, unknown |-> u, seenBy |-> S,
                     before |-> o \in live, after |-> o \in live'])
          /\ reported' = reported + 1
          /\ UNCHANGED <<watcher, dispatchVars, clientVars, due>>
    BY <1>1 DEF Change
  <2>2. (o \in live) \in BOOLEAN /\ (o \in live') \in BOOLEAN
    OBVIOUS
  <2>3. [handler |-> h, obj |-> o, unknown |-> u, seenBy |-> S,
         before |-> o \in live, after |-> o \in live'] \in Notification
    BY <2>2 DEF Notification
  <2>4. pending' \in Seq(Notification)
    BY <2>1, <2>3
  <2>5. live' \subseteq Objects
    BY <2>1
  <2> QED
    BY <2>1, <2>4, <2>5 DEF dispatchVars, clientVars
<1>2. CASE Dispatch
  <2> DEFINE n == Head(pending)
  <2>1. n \in Notification /\ Tail(pending) \in Seq(Notification)
    BY <1>2 DEF Dispatch
  <2>2. EventOf(n) \in Event /\ Owed(n) \in Event
    BY <2>1, EventTyped, OwedTyped
  <2>3. Visits(n) \subseteq Watchers
    BY DEF Visits
  <2>4. /\ event' = <<EventOf(n)>>
        /\ rest' = Visits(n)
        /\ due' = [w \in Watchers |->
                     IF w \in n.seenBy /\ wpc[w] = "watching"
                     THEN Append(due[w], Owed(n)) ELSE due[w]]
        /\ pending' = Tail(pending)
        /\ dpc' = "walk"
        /\ UNCHANGED <<live, reported, watcher, cur, clientVars>>
    BY <1>2 DEF Dispatch
  <2> HIDE DEF n
  <2>5. event' \in Seq(Event) /\ event' # <<>> /\ event'[1] \in Event
    BY <2>2, <2>4
  <2>6. \A w \in Watchers : Append(due[w], Owed(n)) \in Seq(Event)
    BY <2>2
  <2>7. due' \in [Watchers -> Seq(Event)]
    BY <2>4, <2>6
  <2>8. rest' \subseteq Watchers /\ pending' \in Seq(Notification)
    BY <2>1, <2>3, <2>4, Zenon DEF n
  <2> QED
    BY <2>4, <2>5, <2>7, <2>8 DEF clientVars
<1>3. ASSUME NEW w \in Watchers, ObserveSkip(w) PROVE TypeInv'
  BY <1>3 DEF ObserveSkip, informerVars, clientVars
<1>4. ASSUME NEW w \in Watchers, ObservePass(w) PROVE TypeInv'
  BY <1>4 DEF ObservePass, informerVars, clientVars
<1>5. ASSUME NEW w \in Watchers, ObserveLock(w) PROVE TypeInv'
  BY <1>5 DEF ObserveLock, informerVars, clientVars
<1>6. ASSUME NEW w \in Watchers, ObserveSend(w) PROVE TypeInv'
  <2>1. event[1] \in Event /\ received[w] \in Seq(Event)
    BY <1>6 DEF ObserveSend
  <2>2. Append(received[w], event[1]) \in Seq(Event)
    BY <2>1
  <2>3. received' \in [Watchers -> Seq(Event)]
    BY <1>6, <2>2 DEF ObserveSend
  <2> QED
    BY <1>6, <2>1, <2>3 DEF ObserveSend, informerVars
<1>7. CASE DispatchEnd
  BY <1>7 DEF DispatchEnd, informerVars, clientVars
<1>8. ASSUME NEW w \in Watchers, Watch(w) PROVE TypeInv'
  BY <1>8 DEF Watch, informerVars, dispatchVars
<1>9. ASSUME NEW w \in Watchers, Leave(w) PROVE TypeInv'
  BY <1>9 DEF Leave, informerVars, dispatchVars
<1>10. ASSUME NEW w \in Watchers, StopLock(w) PROVE TypeInv'
  BY <1>10 DEF StopLock, informerVars, dispatchVars
<1>11. ASSUME NEW w \in Watchers, StopUnsubscribe(w) PROVE TypeInv'
  BY <1>11 DEF StopUnsubscribe, Unsubscribe, informerVars, dispatchVars
<1>12. ASSUME NEW w \in Watchers, StopClose(w) PROVE TypeInv'
  BY <1>12 DEF StopClose, informerVars, dispatchVars
<1>13. CASE UNCHANGED watchVars
  BY <1>13 DEF watchVars, informerVars, dispatchVars, clientVars
<1> QED
  BY <1>1, <1>2, <1>3, <1>4, <1>5, <1>6, <1>7, <1>8, <1>9, <1>10, <1>11, <1>12, <1>13
  DEF WatchNext, Observe, Stop

\* The registry, its walk and the clients' event streams keep their types.
THEOREM RegistryTyped == WatchSpec => []WatchTypeOK
<1>1. WatchInit => TypeInv
  BY WatchAssumption DEF WatchInit, TypeInv, WatchTypeOK, WatchPC, DispatchPC, Walking
<1>2. TypeInv => WatchTypeOK
  BY DEF TypeInv
<1> QED
  BY <1>1, <1>2, TypeStep, PTL DEF WatchSpec

-----------------------------------------------------------------------------
(* No gaps.  A notification tells what happened to its object, so that the *)
(* handler's event is the one its clients are owed; and a client that is   *)
(* still there has received what it was owed, or all but the event of the  *)
(* walk that has yet to reach it.                                          *)

\* n names the handler that fits the change; only a deletion is unknown.
Truthful(n) ==
  /\ n.handler = "OnAdd" => ~n.before /\ n.after
  /\ n.handler = "OnUpdate" => n.before /\ n.after
  /\ n.handler = "OnDelete" => n.before /\ ~n.after
  /\ n.unknown => n.handler = "OnDelete"

PendingTruthful == \A i \in 1..Len(pending) : Truthful(pending[i])

\* A watcher stays subscribed from Watch until Stop holds both locks.
Subscribed == \A w \in Watchers : wpc[w] \in {"watching", "gone", "locked"} => w \in watcher

\* Observe passes only the watchers that may see the object.
Serving == dpc \in {"rlock", "send"} => cur \in rest \cap event[1].seenBy

\* The walk has yet to deliver its event to w.
Awaits(w) == Walking /\ w \in rest \cap event[1].seenBy

\* d goes on from where r ends.
IsBegun(r, d) == Len(r) <= Len(d) /\ r = SubSeq(d, 1, Len(r))

Delivered ==
  \A w \in Watchers :
    /\ IsBegun(received[w], due[w])
    /\ wpc[w] = "new" => due[w] = received[w]
    /\ wpc[w] = "watching" /\ Awaits(w) => due[w] = Append(received[w], event[1])
    /\ wpc[w] = "watching" /\ ~Awaits(w) => due[w] = received[w]

GapInv == PendingTruthful /\ Subscribed /\ Serving /\ Delivered

\* What was received in full goes on from its end.
LEMMA BegunSame ==
  ASSUME NEW s \in Seq(Event)
  PROVE  IsBegun(s, s)
BY DEF IsBegun

\* Appending to what is owed leaves what was received a prefix of it.
LEMMA BegunAppend ==
  ASSUME NEW r \in Seq(Event), NEW d \in Seq(Event), NEW e \in Event, IsBegun(r, d)
  PROVE  IsBegun(r, Append(d, e))
<1>1. Append(d, e) \in Seq(Event) /\ Len(Append(d, e)) = Len(d) + 1
  OBVIOUS
<1>2. SubSeq(Append(d, e), 1, Len(r)) = SubSeq(d, 1, Len(r))
  BY DEF IsBegun
<1> QED
  BY <1>1, <1>2 DEF IsBegun

\* The registry's handler gives the event the type its clients are owed.
LEMMA TruthfulOwed ==
  ASSUME NEW n \in Notification, Truthful(n)
  PROVE  Owed(n) = EventOf(n) /\ Visits(n) = watcher
<1>1. n.before \in BOOLEAN /\ n.after \in BOOLEAN /\ n.unknown \in BOOLEAN
      /\ n.handler \in {"OnAdd", "OnUpdate", "OnDelete"}
  BY DEF Notification
<1>2. CASE n.handler = "OnAdd"
  BY <1>1, <1>2 DEF Truthful, Owed, EventOf, Visits
<1>3. CASE n.handler = "OnUpdate"
  BY <1>1, <1>3 DEF Truthful, Owed, EventOf, Visits
<1>4. CASE n.handler = "OnDelete"
  BY <1>1, <1>4 DEF Truthful, Owed, EventOf, Visits
<1> QED
  BY <1>1, <1>2, <1>3, <1>4

\* Every step keeps GapInv.  A walk owes its event to the clients watching
\* when it starts, visits each of them, and removes one from the walk as it
\* delivers to it; clients come and go between walks, or stop being owed.
LEMMA GapStep == TypeInv /\ WalkInv /\ GapInv /\ [WatchNext]_watchVars => GapInv'
<1> SUFFICES ASSUME TypeInv, WalkInv, GapInv, [WatchNext]_watchVars PROVE GapInv'
  OBVIOUS
<1>t. /\ pending \in Seq(Notification) /\ watcher \subseteq Watchers /\ rest \subseteq Watchers
      /\ wpc \in [Watchers -> WatchPC]
      /\ received \in [Watchers -> Seq(Event)] /\ due \in [Watchers -> Seq(Event)]
      /\ Walking => event[1] \in Event
  BY DEF TypeInv, WatchTypeOK
<1>w. rest \subseteq watcher /\ (dpc = "idle" => rest = {})
  BY DEF WalkInv
<1>1. ASSUME NEW o \in Objects, Change(o) PROVE GapInv'
  <2>1. PICK h \in {"OnAdd", "OnUpdate", "OnDelete"}, u \in BOOLEAN, S \in SUBSET Watchers :
          /\ (h = "OnAdd") <=> (o \notin live)
          /\ u => h = "OnDelete"
          /\ live' = CASE h = "OnAdd" -> live \cup {o}
                       [] h = "OnUpdate" -> live
                       [] h = "OnDelete" -> live \ {o}
          /\ pending' = Append(pending,
                    [handler |-> h, obj |-> o, unknown |-> u, seenBy |-> S,
                     before |-> o \in live, after |-> o \in live'])
          /\ UNCHANGED <<watcher, dispatchVars, clientVars, due>>
    BY <1>1 DEF Change
  <2> DEFINE n == [handler |-> h, obj |-> o, unknown |-> u, seenBy |-> S,
                   before |-> o \in live, after |-> o \in live']
  <2>2. Truthful(n)
    <3>1. CASE h = "OnAdd"
      BY <2>1, <3>1 DEF Truthful
    <3>2. CASE h = "OnUpdate"
      BY <2>1, <3>2 DEF Truthful
    <3>3. CASE h = "OnDelete"
      BY <2>1, <3>3 DEF Truthful
    <3> QED
      BY <3>1, <3>2, <3>3
  <2>3. n \in Notification
    <3>1. (o \in live) \in BOOLEAN /\ (o \in live') \in BOOLEAN
      OBVIOUS
    <3> QED
      BY <3>1 DEF Notification
  <2>4. pending' = Append(pending, n)
    BY <2>1
  <2> HIDE DEF n
  <2>5. ASSUME NEW i \in 1..Len(pending') PROVE Truthful(pending'[i])
    <3>1. CASE i <= Len(pending)
      <4>1. pending'[i] = pending[i] /\ i \in 1..Len(pending)
        BY <1>t, <2>3, <2>4, <3>1
      <4> QED
        BY <4>1 DEF GapInv, PendingTruthful
    <3>2. CASE i > Len(pending)
      <4>1. pending'[i] = n
        BY <1>t, <2>3, <2>4, <3>2
      <4> QED
        BY <2>2, <4>1
    <3> QED
      BY <1>t, <3>1, <3>2
  <2>6. PendingTruthful'
    BY <2>5 DEF PendingTruthful
  <2> QED
    BY <2>1, <2>6
      DEF GapInv, Subscribed, Serving, Delivered, Awaits, Walking, IsBegun, dispatchVars,
        clientVars
<1>2. CASE Dispatch
  <2> DEFINE n == Head(pending)
  <2>1. n \in Notification /\ n = pending[1] /\ 1 \in 1..Len(pending)
    BY <1>2, <1>t DEF Dispatch
  <2>2. Owed(n) = EventOf(n) /\ Visits(n) = watcher /\ EventOf(n) \in Event
    BY <2>1, TruthfulOwed, EventTyped DEF GapInv, PendingTruthful
  <2>3. EventOf(n).seenBy = n.seenBy
    BY DEF EventOf
  <2>4. /\ dpc = "idle" /\ pending # <<>>
        /\ event' = <<EventOf(n)>>
        /\ rest' = watcher
        /\ due' = [w \in Watchers |->
                     IF w \in n.seenBy /\ wpc[w] = "watching"
                     THEN Append(due[w], EventOf(n)) ELSE due[w]]
        /\ pending' = Tail(pending)
        /\ dpc' = "walk"
        /\ watcher' = watcher /\ wpc' = wpc /\ received' = received
    BY <1>2, <2>2 DEF Dispatch, clientVars
  <2> DEFINE e == EventOf(n)
  <2>5. event'[1] = e
    BY <2>4
  <2>6. PendingTruthful'
    <3>1. ASSUME NEW i \in 1..Len(pending') PROVE Truthful(pending'[i])
      <4>1. pending'[i] = pending[i + 1] /\ i + 1 \in 1..Len(pending)
        BY <1>t, <2>4
      <4> QED
        BY <4>1 DEF GapInv, PendingTruthful
    <3> QED
      BY <3>1 DEF PendingTruthful
  <2> HIDE DEF n, e
  <2>7. ASSUME NEW w \in Watchers
        PROVE  /\ IsBegun(received[w], due'[w])
               /\ wpc[w] = "new" => due'[w] = received[w]
               /\ wpc[w] = "watching" /\ Awaits(w)' => due'[w] = Append(received[w], event'[1])
               /\ wpc[w] = "watching" /\ ~Awaits(w)' => due'[w] = received[w]
    <3>1. ~Awaits(w) /\ (Awaits(w)' <=> w \in watcher /\ w \in n.seenBy)
      BY <2>3, <2>4, <2>5 DEF Awaits, Walking, e
    <3>2. /\ IsBegun(received[w], due[w])
          /\ wpc[w] = "new" => due[w] = received[w]
          /\ wpc[w] = "watching" => due[w] = received[w] /\ w \in watcher
      BY <3>1 DEF GapInv, Delivered, Subscribed
    <3>3. CASE w \in n.seenBy /\ wpc[w] = "watching"
      <4>1. due'[w] = Append(due[w], e)
        BY <2>4, <3>3 DEF e
      <4>2. IsBegun(received[w], Append(due[w], e))
        BY <1>t, <2>2, <3>2, BegunAppend DEF e
      <4> QED
        BY <2>5, <3>1, <3>2, <3>3, <4>1, <4>2
    <3>4. CASE ~(w \in n.seenBy /\ wpc[w] = "watching")
      <4>1. due'[w] = due[w]
        BY <2>4, <3>4
      <4> QED
        BY <3>1, <3>2, <3>4, <4>1
    <3> QED
      BY <3>3, <3>4
  <2>8. Delivered'
    BY <2>4, <2>7 DEF Delivered
  <2>9. Serving' /\ Subscribed'
    BY <2>4 DEF Serving, Subscribed, GapInv
  <2> QED
    BY <2>6, <2>8, <2>9 DEF GapInv
<1>3. ASSUME NEW w \in Watchers, ObserveSkip(w) PROVE GapInv'
  <2>1. \A x \in Watchers : Awaits(x)' <=> Awaits(x)
    BY <1>3 DEF ObserveSkip, Awaits, Walking
  <2> QED
    BY <1>3, <2>1
      DEF ObserveSkip, GapInv, PendingTruthful, Subscribed, Serving, Delivered, informerVars,
        clientVars
<1>4. ASSUME NEW w \in Watchers, ObservePass(w) PROVE GapInv'
  <2>1. \A x \in Watchers : Awaits(x)' <=> Awaits(x)
    BY <1>4 DEF ObservePass, Awaits, Walking
  <2> QED
    BY <1>4, <2>1
      DEF ObservePass, GapInv, PendingTruthful, Subscribed, Serving, Delivered, informerVars,
        clientVars
<1>5. ASSUME NEW w \in Watchers, ObserveLock(w) PROVE GapInv'
  <2>1. \A x \in Watchers : Awaits(x)' <=> Awaits(x)
    BY <1>5 DEF ObserveLock, Awaits, Walking
  <2> QED
    BY <1>5, <2>1
      DEF ObserveLock, GapInv, PendingTruthful, Subscribed, Serving, Delivered, informerVars,
        clientVars
<1>6. ASSUME NEW w \in Watchers, ObserveSend(w) PROVE GapInv'
  <2>1. dpc = "send" /\ w = cur /\ w \in rest \cap event[1].seenBy /\ Awaits(w)
    BY <1>6 DEF ObserveSend, GapInv, Serving, Awaits, Walking
  <2>2. wpc[w] = "watching"
    BY <1>6, <1>w, <2>1 DEF ObserveSend, WalkInv
  <2>3. /\ dpc' = "walk" /\ rest' = rest \ {w}
        /\ received' = [received EXCEPT ![w] = Append(@, event[1])]
        /\ pending' = pending /\ watcher' = watcher /\ event' = event /\ wpc' = wpc /\ due' = due
    BY <1>6, <2>2 DEF ObserveSend, informerVars
  <2>4. ~Awaits(w)' /\ \A x \in Watchers \ {w} : Awaits(x)' <=> Awaits(x)
    BY <2>1, <2>3 DEF Awaits, Walking
  <2>5. received'[w] = due[w] /\ \A x \in Watchers \ {w} : received'[x] = received[x]
    BY <1>t, <2>1, <2>2, <2>3 DEF GapInv, Delivered
  <2>6. IsBegun(received'[w], due'[w])
    BY <1>t, <2>3, <2>5, BegunSame
  <2>7. Delivered'
    BY <2>2, <2>3, <2>4, <2>5, <2>6 DEF Delivered, GapInv
  <2> QED
    BY <2>3, <2>7 DEF GapInv, PendingTruthful, Subscribed, Serving
<1>7. CASE DispatchEnd
  <2>1. \A x \in Watchers : ~Awaits(x) /\ ~Awaits(x)'
    BY <1>7 DEF DispatchEnd, Awaits, Walking
  <2> QED
    BY <1>7, <2>1
      DEF DispatchEnd, GapInv, PendingTruthful, Subscribed, Serving, Delivered, informerVars,
        clientVars
<1>8. ASSUME NEW w \in Watchers, Watch(w) PROVE GapInv'
  <2>1. \A x \in Watchers : ~Awaits(x) /\ ~Awaits(x)'
    BY <1>8 DEF Watch, RegistryFree, Awaits, Walking, dispatchVars
  <2> QED
    BY <1>8, <1>t, <2>1
    DEF Watch, RegistryFree, GapInv, PendingTruthful, Subscribed, Serving, Delivered,
      informerVars, dispatchVars
<1>9. ASSUME NEW w \in Watchers, Leave(w) PROVE GapInv'
  <2>1. \A x \in Watchers : Awaits(x)' <=> Awaits(x)
    BY <1>9 DEF Leave, Awaits, Walking, dispatchVars
  <2> QED
    BY <1>9, <1>t, <2>1
    DEF Leave, GapInv, PendingTruthful, Subscribed, Serving, Delivered, informerVars,
      dispatchVars
<1>10. ASSUME NEW w \in Watchers, StopLock(w) PROVE GapInv'
  <2>1. \A x \in Watchers : Awaits(x)' <=> Awaits(x)
    BY <1>10 DEF StopLock, Awaits, Walking, dispatchVars
  <2> QED
    BY <1>10, <1>t, <2>1
    DEF StopLock, GapInv, PendingTruthful, Subscribed, Serving, Delivered, informerVars,
      dispatchVars
<1>11. ASSUME NEW w \in Watchers, StopUnsubscribe(w) PROVE GapInv'
  <2>1. \A x \in Watchers : Awaits(x)' <=> Awaits(x)
    BY <1>11 DEF StopUnsubscribe, Awaits, Walking, dispatchVars
  <2> QED
    BY <1>11, <1>t, <2>1
    DEF StopUnsubscribe, Unsubscribe, GapInv, PendingTruthful, Subscribed, Serving,
      Delivered, informerVars, dispatchVars
<1>12. ASSUME NEW w \in Watchers, StopClose(w) PROVE GapInv'
  <2>1. \A x \in Watchers : Awaits(x)' <=> Awaits(x)
    BY <1>12 DEF StopClose, Awaits, Walking, dispatchVars
  <2> QED
    BY <1>12, <1>t, <2>1
    DEF StopClose, GapInv, PendingTruthful, Subscribed, Serving, Delivered, informerVars,
      dispatchVars
<1>13. CASE UNCHANGED watchVars
  <2>1. \A x \in Watchers : Awaits(x)' <=> Awaits(x)
    BY <1>13 DEF watchVars, Awaits, Walking, dispatchVars
  <2> QED
    BY <1>13, <2>1
    DEF watchVars, GapInv, PendingTruthful, Subscribed, Serving, Delivered, informerVars,
      dispatchVars, clientVars
<1> QED
  BY <1>1, <1>2, <1>3, <1>4, <1>5, <1>6, <1>7, <1>8, <1>9, <1>10, <1>11, <1>12, <1>13
  DEF WatchNext, Observe, Stop

\* A client sees every change of every object it may see, once, in order and
\* as what it was, from Watch until it leaves: what it has received is always
\* a prefix of what was dispatched to it, and all of it between two walks.
THEOREM NoGaps == WatchSpec => []GapFree
<1>1. WatchInit => TypeInv /\ WalkInv /\ GapInv
  <2> SUFFICES ASSUME WatchInit PROVE TypeInv /\ WalkInv /\ GapInv
    OBVIOUS
  <2>1. TypeInv
    BY WatchAssumption DEF WatchInit, TypeInv, WatchTypeOK, WatchPC, DispatchPC, Walking
  <2>2. WalkInv
    BY DEF WatchInit, WalkInv, NoSendOnClosed, WatchPC
  <2>3. \A w \in Watchers : IsBegun(received[w], due[w]) /\ received[w] = due[w] /\ wpc[w] = "new"
    <3>1. <<>> \in Seq(Event)
      OBVIOUS
    <3>2. IsBegun(<<>>, <<>>)
      BY <3>1, BegunSame
    <3> QED
      BY <3>2 DEF WatchInit
  <2>4. \A w \in Watchers : ~Awaits(w)
    BY DEF WatchInit, Awaits, Walking
  <2>5. Delivered
    BY <2>3, <2>4 DEF Delivered
  <2> QED
    BY <2>1, <2>2, <2>5 DEF WatchInit, GapInv, PendingTruthful, Subscribed, Serving
<1>2. TypeInv /\ GapInv => GapFree
  <2> SUFFICES ASSUME TypeInv, GapInv, NEW w \in Watchers
               PROVE  /\ IsBegun(received[w], due[w])
                      /\ wpc[w] = "watching" /\ dpc = "idle" => received[w] = due[w]
    BY DEF GapFree, IsBegun
  <2> QED
    BY DEF GapInv, Delivered, Awaits, Walking
<1> QED
  BY <1>1, <1>2, WalkStep, TypeStep, GapStep, PTL DEF WatchSpec

=============================================================================
