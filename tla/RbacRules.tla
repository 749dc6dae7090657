------------------------------ MODULE RbacRules ------------------------------
(***************************************************************************)
(* The algebra of RBAC rules: what a rule allows                           *)
(* (kube/pkg/apis/rbac/v1/evaluation_helpers.go, RuleAllows) and how rules *)
(* are taken apart, compared and put together again                        *)
(* (kube/pkg/registry/rbac/validation/policy_comparator.go and             *)
(* policy_compact.go).                                                     *)
(*                                                                         *)
(* A rule has sets of verbs, groups, resources, names and urls.  The       *)
(* resource "pods/status" is [res |-> "pods", sub |-> "status"] and a      *)
(* resource without subresource has sub = "".  A url is a sequence; a url  *)
(* in a rule has a flag for the "*" at its end.                            *)
(***************************************************************************)
EXTENDS FiniteSets, SequencesExt

Star == "*"
ResourceAll == [res |-> Star, sub |-> ""]
NonResourceAll == [path |-> <<>>, star |-> TRUE]

PolicyRule ==
  [verbs : SUBSET STRING, groups : SUBSET STRING, names : SUBSET STRING,
   resources : SUBSET [res : STRING, sub : STRING],
   urls : SUBSET [path : Seq(STRING), star : BOOLEAN]]

-----------------------------------------------------------------------------
(* What a rule allows *)

VerbMatches(rule, verb) == {Star, verb} \cap rule.verbs # {}

APIGroupMatches(rule, group) == {Star, group} \cap rule.groups # {}

\* Everything, the resource itself, or "*/subresource".
ResourceMatches(rule, res, sub) ==
  \E r \in rule.resources :
    \/ r = ResourceAll
    \/ r = [res |-> res, sub |-> sub]
    \/ sub # "" /\ r = [res |-> Star, sub |-> sub]

ResourceNameMatches(rule, name) == rule.names = {} \/ name \in rule.names

NonResourceURLMatches(rule, path) ==
  \E u \in rule.urls :
    \/ u = NonResourceAll
    \/ ~u.star /\ u.path = path
    \/ u.star /\ IsPrefix(u.path, path)

RuleAllows(a, rule) ==
  /\ VerbMatches(rule, a.verb)
  /\ IF a.resourceRequest
     THEN /\ APIGroupMatches(rule, a.group)
          /\ ResourceMatches(rule, a.res, a.sub)
          /\ ResourceNameMatches(rule, a.name)
     ELSE NonResourceURLMatches(rule, a.path)

AllowedBy(rules, a) == \E rule \in rules : RuleAllows(a, rule)

-----------------------------------------------------------------------------
(* Covers *)

\* Rules with at most one verb, group, resource and name, or one url.
BreakdownRule(rule) ==
  LET Names == IF rule.names = {} THEN {{}} ELSE {{n} : n \in rule.names} IN
  {[groups |-> {g}, resources |-> {r}, verbs |-> {v}, names |-> n, urls |-> {}] :
      g \in rule.groups, r \in rule.resources, v \in rule.verbs, n \in Names}
  \cup
  {[groups |-> {}, resources |-> {}, verbs |-> {v}, names |-> {}, urls |-> {u}] :
      u \in rule.urls, v \in rule.verbs}

\* A "*", the same resource, or "*/subresource" for one with a subresource.
ResourceCoversAll(set, covers) ==
  \/ ResourceAll \in set
  \/ \A r \in covers :
       r \in set \/ (r.sub # "" /\ [res |-> Star, sub |-> r.sub] \in set)

\* The "*" of a covered url is an ordinary character to HasPrefix.
NonResourceURLCovers(owner, u) ==
  owner = u \/ (owner.star /\ IsPrefix(owner.path, u.path))

NonResourceURLsCoversAll(set, covers) ==
  \A u \in covers : \E owner \in set : NonResourceURLCovers(owner, u)

\* Mutant of RuleCovers: a rule without names is covered by one with names.
RuleCoversUnnamed(owner, sub) ==
  /\ Star \in owner.verbs \/ sub.verbs \subseteq owner.verbs
  /\ Star \in owner.groups \/ sub.groups \subseteq owner.groups
  /\ ResourceCoversAll(owner.resources, sub.resources)
  /\ NonResourceURLsCoversAll(owner.urls, sub.urls)
  /\ owner.names = {} \/ sub.names \subseteq owner.names

RuleCovers(owner, sub) ==
  /\ Star \in owner.verbs \/ sub.verbs \subseteq owner.verbs
  /\ Star \in owner.groups \/ sub.groups \subseteq owner.groups
  /\ ResourceCoversAll(owner.resources, sub.resources)
  /\ NonResourceURLsCoversAll(owner.urls, sub.urls)
  /\ owner.names = {} \/ (sub.names # {} /\ sub.names \subseteq owner.names)

\* The rights of the servant rules that the owner rules lack.
Uncovered(ownerRules, servantRules) ==
  {sub \in UNION {BreakdownRule(s) : s \in servantRules} :
     ~\E owner \in ownerRules : RuleCovers(owner, sub)}

-----------------------------------------------------------------------------
(* CompactRules *)

\* One group, one resource, at most one name and no url.
IsSimpleResourceRule(rule) ==
  /\ rule.urls = {}
  /\ Cardinality(rule.groups) = 1
  /\ Cardinality(rule.resources) = 1
  /\ Cardinality(rule.names) <= 1

\* Mutant of SimpleResource: the name is not part of the key.
SimpleResourceUnnamed(rule) == <<rule.groups, rule.resources>>

\* What the rules that are merged have in common.
SimpleResource(rule) == <<rule.groups, rule.resources, rule.names>>

\* Simple rules of the same resource become one that has all their verbs.
CompactRules(rules) ==
  LET simple == {rule \in rules : IsSimpleResourceRule(rule)}
      Like(rule) == {s \in simple : SimpleResource(s) = SimpleResource(rule)}
      First(rule) == CHOOSE s \in Like(rule) : TRUE
  IN  (rules \ simple) \cup
      {[First(rule) EXCEPT !.verbs = UNION {s.verbs : s \in Like(rule)}] : rule \in simple}
=============================================================================
