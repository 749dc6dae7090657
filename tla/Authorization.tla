---------------------------- MODULE Authorization ----------------------------
(***************************************************************************)
(* Who may see which space and account: kiosk's own RBAC authorizer        *)
(* (pkg/authorization/rbac), which finds bindings through an index by      *)
(* subject (pkg/manager/controllers/controller_indices.go), the filtered   *)
(* lists (pkg/authorization/filter.go), the single reads and the watches   *)
(* that ask it, and the membership of an account.  Next to it stands the   *)
(* resolver of Kubernetes that looks at every binding                      *)
(* (kube/pkg/registry/rbac/validation/rule.go): the API server in front of *)
(* kiosk decides that way.                                                 *)
(*                                                                         *)
(* The state is what the authorizer's caches hold.  Administrators change  *)
(* it; a decision is a function of it.  Names are sequences, so that a     *)
(* string that is put together is a concatenation.                         *)
(***************************************************************************)
EXTENDS RbacRules

CONSTANTS
  Users,        \* [name, groups]
  Namespaces,   \* names of spaces
  Accounts,     \* names of accounts
  Subjects,     \* [kind, name, ns]
  SubjectSets,  \* the sets of subjects a binding or an account may have
  RuleSets,     \* the sets of rules a role may have
  Bindings,     \* [id, ns, roleRef]; ns = "" for a cluster role binding
  Roles,        \* [kind, ns, name]; ns = "" for a cluster role
  Requests      \* requests the rule algebra is judged by

ASSUME NamesTyped ==
  /\ Users \subseteq [name : Seq(STRING), groups : SUBSET Seq(STRING)]
  /\ Subjects \subseteq [kind : STRING, name : Seq(STRING), ns : STRING]
  /\ SubjectSets \subseteq SUBSET Subjects
  /\ Namespaces \subseteq STRING \ {""}
  /\ \A b \in Bindings : b.ns \in STRING

ASSUME RulesTyped ==
  /\ RuleSets \subseteq SUBSET PolicyRule
  /\ \A q \in Requests : q.path \in Seq(STRING)

VARIABLES
  namespaces,   \* the namespaces that exist
  subjects,     \* the subjects of each binding
  rules,        \* the rules of each role, a set of one set; {} if it is missing
  members       \* spec.subjects of each account

vars == <<namespaces, subjects, rules, members>>

TypeOK ==
  /\ namespaces \subseteq Namespaces
  /\ subjects \in [Bindings -> SubjectSets \cup {{}}]
  /\ rules \in [Roles -> {{}} \cup {{R} : R \in RuleSets}]
  /\ members \in [Accounts -> SubjectSets \cup {{}}]

-----------------------------------------------------------------------------
(* Subjects and users *)

\* serviceaccount.MakeUsername
MakeUsername(ns, name) == <<"system:serviceaccount", ns>> \o name
NoKey == <<>>

SaNamespace(ns, s) == IF s.ns # "" THEN s.ns ELSE ns

\* Mutant of ConvertSubject: the namespace of a service account has no default.
ConvertSubjectQualified(ns, s) ==
  CASE s.kind = "User" -> <<"user:">> \o s.name
    [] s.kind = "Group" -> <<"group:">> \o s.name
    [] s.kind = "ServiceAccount" /\ s.ns # "" ->
         <<"user:">> \o MakeUsername(s.ns, s.name)
    [] OTHER -> NoKey

\* The key of a subject in the index, of a binding in namespace ns.
ConvertSubject(ns, s) ==
  CASE s.kind = "User" -> <<"user:">> \o s.name
    [] s.kind = "Group" -> <<"group:">> \o s.name
    [] s.kind = "ServiceAccount" /\ SaNamespace(ns, s) # "" ->
         <<"user:">> \o MakeUsername(SaNamespace(ns, s), s.name)
    [] OTHER -> NoKey

\* AddManagerIndices: what a list of subjects is indexed by.
IndexBySubjects(ns, S) == {ConvertSubject(ns, s) : s \in S} \ {NoKey}

\* The keys a user is looked up by.
UserKeys(u) == {<<"user:">> \o u.name} \cup {<<"group:">> \o g : g \in u.groups}

AppliesToUser(u, s, ns) ==
  CASE s.kind = "User" -> u.name = s.name
    [] s.kind = "Group" -> s.name \in u.groups
    [] s.kind = "ServiceAccount" /\ SaNamespace(ns, s) # "" ->
         u.name = MakeUsername(SaNamespace(ns, s), s.name)
    [] OTHER -> FALSE

AppliesTo(u, S, ns) == \E s \in S : AppliesToUser(u, s, ns)

IsUserPartOfAccount(u, account) ==
  UserKeys(u) \cap IndexBySubjects("", members[account]) # {}

\* Mutant of ValidateRoleBindingSubject: as for the subjects of a role binding.
ValidateRoleBindingSubjectNamespaced(s) ==
  s.kind \in {"User", "Group", "ServiceAccount"}

\* isNamespaced is false: a service account must name its namespace.
ValidateRoleBindingSubject(s) ==
  \/ s.kind \in {"User", "Group"}
  \/ s.kind = "ServiceAccount" /\ s.ns # ""

-----------------------------------------------------------------------------
(* The resolver *)

\* GetRoleReferenceRules: a set of one set of rules, or none for an error.
RoleReferenceRules(ref, ns) ==
  LET role == [kind |-> ref.kind, name |-> ref.name,
               ns |-> IF ref.kind = "Role" THEN ns ELSE ""]
  IN  IF role \in Roles THEN rules[role] ELSE {}

\* The bindings of namespace ns ("" is the cluster), found through the index.
ListBindings(u, ns) ==
  {b \in Bindings : b.ns = ns /\ UserKeys(u) \cap IndexBySubjects(ns, subjects[b]) # {}}

\* ListAll, and the listers of Kubernetes.
ListAllBindings(ns) == {b \in Bindings : b.ns = ns}

\* The rules of bindings that apply to the user.  An error stops nothing.
RulesOf(u, B) ==
  UNION UNION {RoleReferenceRules(b.roleRef, b.ns) :
                 b \in {b \in B : AppliesTo(u, subjects[b], b.ns)}}

\* VisitRulesFor: role bindings are looked at in a namespace only.
VisitRulesFor(u, ns) ==
  RulesOf(u, ListBindings(u, "")) \cup
  (IF ns = "" THEN {} ELSE RulesOf(u, ListBindings(u, ns)))

\* The RulesFor of Kubernetes.
KubeRulesFor(u, ns) ==
  RulesOf(u, ListAllBindings("")) \cup
  (IF ns = "" THEN {} ELSE RulesOf(u, ListAllBindings(ns)))

Authorize(a) == AllowedBy(VisitRulesFor(a.user, a.ns), a)

\* ConfirmNoEscalation: u may hand out the rules R in namespace ns.
ConfirmNoEscalation(u, ns, R) == Uncovered(KubeRulesFor(u, ns), R) = {}

-----------------------------------------------------------------------------
(* Reading spaces and accounts *)

\* The attributes of a request for an object of this resource.
Attributes(u, verb, group, res, ns, name) ==
  [user |-> u, verb |-> verb, group |-> group, res |-> res, sub |-> "",
   ns |-> ns, name |-> name, resourceRequest |-> TRUE, path |-> <<>>]

\* A get of one object by its name, as it arrives.
GetRequest(u, res, name) == Attributes(u, "get", "tenancy.kiosk.sh", res, "", name)

ChangeAttributesResource(a, group, res, ns) ==
  [a EXCEPT !.group = group, !.res = res, !.ns = ns]

\* spaceStorage.Get
GetsSpace(u, n) ==
  /\ Authorize(ChangeAttributesResource(GetRequest(u, "spaces", n), "", "namespaces", n))
  /\ n \in namespaces

\* Mutant of ListAttributes: a namespace is asked for in the cluster.
ListAttributesCluster(u, group, res, name) == Attributes(u, "get", group, res, "", name)

\* filter.List: what is asked for each object.  nameAsNamespace.
ListAttributes(u, group, res, name) ==
  Attributes(u, "get", group, res,
             IF group = "" /\ res = "namespaces" THEN name ELSE "", name)

ListSpaces(u) ==
  {n \in namespaces : Authorize(ListAttributes(u, "", "namespaces", n))}

ListAccounts(u) ==
  {a \in Accounts : Authorize(ListAttributes(u, "tenancy.kiosk.sh", "accounts", a))}

\* The watchers' Observe: whether an event about the object is passed on.
ObservesSpace(u, n) == Authorize(Attributes(u, "get", "", "namespaces", n, n))
ObservesAccount(u, a) == Authorize(Attributes(u, "get", "tenancy.kiosk.sh", "accounts", "", a))

\* The API server in front lets a request for an account through.
FrontDoor(a) == AllowedBy(KubeRulesFor(a.user, a.ns), a)

-----------------------------------------------------------------------------
(* What administrators change *)

Init ==
  /\ namespaces = {}
  /\ subjects = [b \in Bindings |-> {}]
  /\ rules = [r \in Roles |-> {}]
  /\ members = [a \in Accounts |-> {}]

CreateNamespace(n) ==
  /\ n \notin namespaces
  /\ namespaces' = namespaces \cup {n}
  /\ UNCHANGED <<subjects, rules, members>>

\* Everything in the namespace goes with it.
DeleteNamespace(n) ==
  /\ n \in namespaces
  /\ namespaces' = namespaces \ {n}
  /\ subjects' = [b \in Bindings |-> IF b.ns = n THEN {} ELSE subjects[b]]
  /\ rules' = [r \in Roles |-> IF r.ns = n THEN {} ELSE rules[r]]
  /\ UNCHANGED members

Exists(ns) == ns \in namespaces \cup {""}

\* The API server asks for a namespace in cluster role bindings only.
SetSubjects(b, S) ==
  /\ Exists(b.ns)
  /\ b.ns = "" => \A s \in S : ValidateRoleBindingSubject(s)
  /\ subjects' = [subjects EXCEPT ![b] = S]
  /\ UNCHANGED <<namespaces, rules, members>>

SetRules(r, R) ==
  /\ Exists(r.ns)
  /\ rules' = [rules EXCEPT ![r] = {R}]
  /\ UNCHANGED <<namespaces, subjects, members>>

DeleteRole(r) ==
  /\ rules[r] # {}
  /\ rules' = [rules EXCEPT ![r] = {}]
  /\ UNCHANGED <<namespaces, subjects, members>>

\* The webhook's ValidateAccount and ValidateAccountUpdate.
SetMembers(a, S) ==
  /\ \A s \in S : ValidateRoleBindingSubject(s)
  /\ members' = [members EXCEPT ![a] = S]
  /\ UNCHANGED <<namespaces, subjects, rules>>

Next ==
  \/ \E n \in Namespaces : CreateNamespace(n) \/ DeleteNamespace(n)
  \/ \E b \in Bindings, S \in SubjectSets : SetSubjects(b, S)
  \/ \E r \in Roles, R \in RuleSets : SetRules(r, R)
  \/ \E r \in Roles : DeleteRole(r)
  \/ \E a \in Accounts, S \in SubjectSets : SetMembers(a, S)

Spec == Init /\ [][Next]_vars

-----------------------------------------------------------------------------
(* Properties *)

\* For every user and namespace, the resolver that looks bindings up by subject
\* finds the rules that the resolver of Kubernetes finds by looking at all of
\* them: no binding is hidden by the key it is indexed under (ConvertSubject).
IndexIsExact ==
  \A u \in Users, ns \in Namespaces \cup {""} :
    VisitRulesFor(u, ns) = KubeRulesFor(u, ns)

\* A list, a single read and a watch agree on what a user may see, and for
\* accounts, where a single read asks nothing itself, they agree with what the
\* API server in front lets through (filter.List, Get, Observe).
OneView ==
  \A u \in Users :
    /\ ListSpaces(u) = {n \in namespaces : GetsSpace(u, n)}
    /\ ListSpaces(u) = {n \in namespaces : ObservesSpace(u, n)}
    /\ ListAccounts(u) = {a \in Accounts : FrontDoor(GetRequest(u, "accounts", a))}
    /\ ListAccounts(u) = {a \in Accounts : ObservesAccount(u, a)}

\* The role binding of a space has its account's subjects.  It reaches the
\* members of the account and nobody else, whatever the namespace is called: a
\* service account without a namespace would be another one in each space, and
\* no member (ValidateAccount, IsUserPartOfAccount, GetRoleBinding).
MembersReachSpaces ==
  \A u \in Users, a \in Accounts, ns \in Namespaces \cup {""} :
    AppliesTo(u, members[a], ns) <=> IsUserPartOfAccount(u, a)

\* If ConfirmNoEscalation lets a user hand out the rules of a role, the role
\* allows nothing the user may not do already.
NoEscalation ==
  \A u \in Users, ns \in Namespaces \cup {""}, r \in Roles :
    \A R \in rules[r] :
      ConfirmNoEscalation(u, ns, R) =>
        \A q \in Requests :
          AllowedBy(R, q) => AllowedBy(KubeRulesFor(u, ns), q)

\* Taking the rules of a role apart and compacting the pieces, which is how
\* ConfirmNoEscalation describes missing rights, changes nothing of what they
\* allow (BreakdownRule, CompactRules).
BreakdownExact ==
  \A r \in Roles : \A R \in rules[r] : \A q \in Requests :
    AllowedBy(CompactRules(UNION {BreakdownRule(rule) : rule \in R}), q)
      <=> AllowedBy(R, q)
=============================================================================
