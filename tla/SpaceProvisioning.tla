------------------------- MODULE SpaceProvisioning -------------------------
(***************************************************************************)
(* The storage of spaces (pkg/apiserver/registry/space/rest.go) and the    *)
(* deletion of accounts (pkg/apiserver/registry/account/rest.go).          *)
(*                                                                         *)
(* A space is a namespace with the label of its account.  Creating one is  *)
(* a sequence of calls to the API server without a transaction: count the  *)
(* account's namespaces, create the namespace, create its template         *)
(* instances and wait for them, create the role binding, remove the        *)
(* annotation that says it is initializing; a failure on the way deletes   *)
(* the namespace again.  Other requests, administrators, the template      *)
(* controller and the garbage collector act in between, and every call     *)
(* names the namespace and not the object: a namespace that was deleted    *)
(* and created again under the same name is taken for the first one.       *)
(*                                                                         *)
(* The storage's client is not cached.  The authorizer's is, but what it   *)
(* decides late only delays Create, which ignores it.                      *)
(***************************************************************************)
EXTENDS Naturals, Sequences, FiniteSets

CONSTANTS
  Names,        \* names of namespaces
  Accounts,
  NoAccount,    \* the empty spec.account
  Users,
  Admin,        \* the users with cluster-wide rights
  Members,      \* the users an account's subjects stand for
  Limit,        \* an account's spec.space.limit, or NoLimit
  NoLimit,
  Instances,    \* the templates of spec.space.templateInstances, in order
  NoTemplate,   \* an entry without a template
  Generated,    \* templates whose instances get a generated name
  HasRole,      \* accounts whose spec.space.clusterRole is not empty
  Clients,      \* requests that are in progress at the same time
  Gone,         \* no namespace of that name
  MaxUid        \* bound: namespaces that are ever created

Templates == (UNION {{Instances[a][k] : k \in DOMAIN Instances[a]} : a \in Accounts}) \ {NoTemplate}

ASSUME SpaceAssumption ==
  /\ NoAccount \notin Accounts
  /\ Admin \subseteq Users /\ Members \in [Accounts -> SUBSET Users]
  /\ NoLimit \notin Nat /\ Limit \in [Accounts -> Nat \cup {NoLimit}]
  /\ DOMAIN Instances = Accounts
  /\ \A a \in Accounts : DOMAIN Instances[a] = 1..Len(Instances[a])
  /\ HasRole \subseteq Accounts
  /\ IsFiniteSet(Names) /\ IsFiniteSet(Clients) /\ Clients # {}
  /\ MaxUid \in Nat

VARIABLES
  accounts,   \* the accounts that exist
  spaces,     \* the namespace of each name, or Gone
  uids,       \* how many namespaces were created
  pc,         \* where each client's request is
  req,        \* what it asks for
  uid,        \* the namespace it has created
  made        \* the template instances it has created: the name for each entry

vars == <<accounts, spaces, uids, pc, req, uid, made>>
clientVars == <<pc, req, uid, made>>

\* A name is the template's, or generated: then nothing else has it.
InstName == [template : Templates, by : 0..MaxUid, entry : Nat]
InstStatus == {"Pending", "Deployed", "Failed"}
Space == [uid : 1..MaxUid, owner : Accounts \cup {NoAccount}, initializing : BOOLEAN, terminating : BOOLEAN,
          moved : BOOLEAN,                      \* history: its owner was changed
          fate : {"creating", "ok", "failed", "left"},  \* history: how its creation went
          insts : SUBSET [name : InstName, status : InstStatus],
          deployed : SUBSET InstName,           \* history: instances that were deployed once
          bindings : SUBSET [by : 1..MaxUid, account : Accounts, owner : Accounts \cup {NoAccount}]]
Request == [name : Names, account : Accounts \cup {NoAccount}]
NoRequest == [name |-> Gone, account |-> NoAccount]

Exists(n) == spaces[n] # Gone

Labels == {"idle", "count", "create", "instances", "poll", "bind", "patch", "rollback", "access", "delete"}

\* A request that has created a namespace and is not done with it.
Working(c) == pc[c] \in {"instances", "poll", "bind", "patch", "rollback", "access"}

SpacesTyped ==
  /\ DOMAIN spaces = Names
  /\ \A n \in Names : Exists(n) => spaces[n] \in Space /\ spaces[n].uid <= uids
RequestsTyped ==
  /\ pc \in [Clients -> Labels]
  /\ req \in [Clients -> Request \cup {NoRequest}]
  /\ uid \in [Clients -> 0..uids]
  /\ DOMAIN made = Clients
  /\ \A c \in Clients :
       /\ DOMAIN made[c] \subseteq Nat /\ \A k \in DOMAIN made[c] : made[c][k] \in InstName
       /\ Working(c) => uid[c] > 0 /\ req[c] \in Request /\ req[c].account # NoAccount
       /\ pc[c] # "idle" => req[c] \in Request
TypeOK ==
  /\ accounts \subseteq Accounts
  /\ uids \in 0..MaxUid
  /\ SpacesTyped /\ RequestsTyped

Init ==
  /\ accounts = Accounts
  /\ spaces = [n \in Names |-> Gone]
  /\ uids = 0
  /\ pc = [c \in Clients |-> "idle"]
  /\ req = [c \in Clients |-> NoRequest]
  /\ uid = [c \in Clients |-> 0]
  /\ made = [c \in Clients |-> <<>>]

-----------------------------------------------------------------------------
Active(n) == Exists(n) /\ ~spaces[n].terminating
Owned(a) == {n \in Names : Exists(n) /\ spaces[n].owner = a}
SpaceOf(c) == req[c].name

\* The RBAC authorizer for a namespace: cluster-wide rights, or a role binding
\* of an account whose subjects the user is one of.
Authorized(u, n) ==
  u \in Admin \/ (Exists(n) /\ \E b \in spaces[n].bindings : u \in Members[b.account])

Goto(c, label) == pc' = [pc EXCEPT ![c] = label]
Return(c) ==
  /\ Goto(c, "idle")
  /\ uid' = [uid EXCEPT ![c] = 0]
  /\ made' = [made EXCEPT ![c] = <<>>]
  /\ req' = [req EXCEPT ![c] = NoRequest]

\* The request c ends with this result; the namespace it created may be gone.
Settled(now, c, result) ==
  [n \in Names |-> IF now[n] # Gone /\ now[n].uid = uid[c] THEN [now[n] EXCEPT !.fate = result] ELSE now[n]]

-----------------------------------------------------------------------------
(* Create.                                                                 *)

\* Up to and including the Get of the account and the two authorizations.  A
\* request that is refused here changes nothing.
MayCreate(u, a) ==
  IF a = NoAccount THEN u \in Admin
  ELSE a \in accounts /\ (u \in Members[a] \/ u \in Admin)

CreateStart(c, n, a) ==
  /\ pc[c] = "idle"
  /\ uids < MaxUid
  /\ \E u \in Users : MayCreate(u, a)
  /\ req' = [req EXCEPT ![c] = [name |-> n, account |-> a]]
  /\ Goto(c, IF a # NoAccount /\ Limit[a] # NoLimit THEN "count" ELSE "create")
  /\ UNCHANGED <<accounts, spaces, uids, uid, made>>

\* Mutant of AtLimit: off by one.
AtLimitLate(a) == Cardinality(Owned(a)) > Limit[a]

AtLimit(a) == Cardinality(Owned(a)) >= Limit[a]

\* The list of the account's namespaces, which may fail.
CountSpaces(c) ==
  /\ pc[c] = "count"
  /\ \/ ~AtLimit(req[c].account) /\ Goto(c, "create") /\ UNCHANGED <<req, uid, made>>
     \/ Return(c)
  /\ UNCHANGED <<accounts, spaces, uids>>

NewSpace(c, fate) ==
  [uid |-> uids + 1, owner |-> req[c].account, initializing |-> req[c].account # NoAccount,
   terminating |-> FALSE, moved |-> FALSE, fate |-> fate, insts |-> {}, deployed |-> {}, bindings |-> {}]

\* The namespace is created, refused because the name is taken (or the call
\* fails), or created although the call reports an error.
CreateNamespace(c) ==
  /\ pc[c] = "create"
  /\ \/ /\ ~Exists(SpaceOf(c))
        /\ uids < MaxUid
        /\ uids' = uids + 1
        /\ \/ /\ req[c].account # NoAccount
              /\ spaces' = [spaces EXCEPT ![SpaceOf(c)] = NewSpace(c, "creating")]
              /\ uid' = [uid EXCEPT ![c] = uids + 1]
              /\ Goto(c, "instances")
              /\ UNCHANGED <<req, made>>
           \/ /\ req[c].account = NoAccount
              /\ spaces' = [spaces EXCEPT ![SpaceOf(c)] = NewSpace(c, "ok")]
              /\ Return(c)
           \/ /\ spaces' = [spaces EXCEPT ![SpaceOf(c)] = NewSpace(c, "left")]
              /\ Return(c)
     \/ /\ Return(c)
        /\ UNCHANGED <<spaces, uids>>
  /\ UNCHANGED accounts

\* initializeSpace: the entries of the account that name a template, and those
\* whose instances are still to be created.
Entries(a) == {k \in DOMAIN Instances[a] : Instances[a][k] # NoTemplate}
ToCreate(c) == Entries(req[c].account) \ DOMAIN made[c]
NameFor(c, k) ==
  LET t == Instances[req[c].account][k]
      generated == t \in Generated
  IN  [template |-> t, by |-> IF generated THEN uid[c] ELSE 0, entry |-> IF generated THEN k ELSE 0]
Taken(n, i) == \E x \in spaces[n].insts : x.name = i

AddInstance(n, i) ==
  spaces' = [spaces EXCEPT ![n].insts = @ \cup {[name |-> i, status |-> "Pending"]}]

\* One instance after the other, in the order of the entries.
CreateInstance(c) ==
  /\ pc[c] = "instances"
  /\ \/ /\ ToCreate(c) = {}
        /\ Goto(c, "poll")
        /\ UNCHANGED <<spaces, made>>
     \/ \E k \in ToCreate(c) :
          /\ \A l \in ToCreate(c) : k <= l
          /\ Active(SpaceOf(c)) /\ ~Taken(SpaceOf(c), NameFor(c, k))
          /\ AddInstance(SpaceOf(c), NameFor(c, k))
          /\ made' = [made EXCEPT ![c] =
                        [l \in DOMAIN @ \cup {k} |-> IF l = k THEN NameFor(c, k) ELSE @[l]]]
          /\ pc' = pc
     \/ /\ ToCreate(c) # {}
        /\ Goto(c, "rollback")
        /\ UNCHANGED <<spaces, made>>
  /\ UNCHANGED <<accounts, uids, req, uid>>

\* The poll goes through the instances in the order of their creation: the
\* first that is not deployed decides.
StatusIn(n, i) ==
  IF Exists(n) /\ Taken(n, i) THEN (CHOOSE x \in spaces[n].insts : x.name = i).status ELSE "NotFound"

\* Mutant of Undeployed: only an instance that failed is not deployed.
UndeployedFailed(c) == {k \in DOMAIN made[c] : StatusIn(SpaceOf(c), made[c][k]) = "Failed"}

Undeployed(c) == {k \in DOMAIN made[c] : StatusIn(SpaceOf(c), made[c][k]) # "Deployed"}
FirstUndeployed(c) == CHOOSE k \in Undeployed(c) : \A l \in Undeployed(c) : k <= l
AllDeployed(c) == Undeployed(c) = {}
OneFailed(c) ==
  ~AllDeployed(c) /\ StatusIn(SpaceOf(c), made[c][FirstUndeployed(c)]) = "Failed"

\* One round of the poll that ends it.
Poll(c) ==
  /\ pc[c] = "poll"
  /\ \/ AllDeployed(c) /\ Goto(c, "bind")
     \/ OneFailed(c) /\ Goto(c, "rollback")
  /\ UNCHANGED <<accounts, spaces, uids, req, uid, made>>

\* Mutant of PollTimeout: a poll without a deadline.
PollForever(c) == FALSE /\ UNCHANGED vars

\* The deadline of a minute, or a list that fails.
PollTimeout(c) ==
  /\ pc[c] = "poll"
  /\ Goto(c, "rollback")
  /\ UNCHANGED <<accounts, spaces, uids, req, uid, made>>

\* Mutant of NewBinding: SetControllerReference is missing.
NewBindingUnowned(c) ==
  [by |-> uid[c], account |-> req[c].account, owner |-> NoAccount]

\* CreateRoleBinding, with the account that the request has read as owner.
NewBinding(c) ==
  [by |-> uid[c], account |-> req[c].account, owner |-> req[c].account]

CreateRoleBinding(c) ==
  /\ pc[c] = "bind"
  /\ \/ /\ req[c].account \notin HasRole
        /\ Goto(c, "patch")
        /\ UNCHANGED spaces
     \/ /\ req[c].account \in HasRole /\ Active(SpaceOf(c))
        /\ spaces' = [spaces EXCEPT ![SpaceOf(c)].bindings = @ \cup {NewBinding(c)}]
        /\ \/ Goto(c, "patch")
           \/ Goto(c, "rollback")
     \/ /\ req[c].account \in HasRole
        /\ Goto(c, "rollback")
        /\ UNCHANGED spaces
  /\ UNCHANGED <<accounts, uids, req, uid, made>>

\* Mutant of PatchNamespace: the annotation stays.
PatchNamespaceSkipped(c) ==
  /\ pc[c] = "patch"
  /\ Goto(c, "access")
  /\ UNCHANGED <<accounts, spaces, uids, req, uid, made>>

\* The annotation is removed by a merge patch, which carries no version.
PatchNamespace(c) ==
  /\ pc[c] = "patch"
  /\ \/ /\ Exists(SpaceOf(c))
        /\ spaces' = [spaces EXCEPT ![SpaceOf(c)].initializing = FALSE]
        /\ Goto(c, "access")
     \/ /\ Goto(c, "rollback")
        /\ UNCHANGED spaces
  /\ UNCHANGED <<accounts, uids, req, uid, made>>

\* waitForAccess: Create succeeds whether or not the authorizer grants access
\* within five seconds.
WaitForAccess(c) ==
  /\ pc[c] = "access"
  /\ spaces' = Settled(spaces, c, "ok")
  /\ Return(c)
  /\ UNCHANGED <<accounts, uids>>

Terminated(n) == IF Exists(n) THEN [spaces EXCEPT ![n].terminating = TRUE] ELSE spaces

\* Mutant of Rollback: the request's context, which is cancelled.
RollbackCancelled(c) ==
  /\ pc[c] = "rollback"
  /\ spaces' = Settled(spaces, c, "failed")
  /\ Return(c)
  /\ UNCHANGED <<accounts, uids>>

\* The deletion after a failure does not use the request's context.  It deletes
\* whatever has the name; if it fails the error is only logged.
Rollback(c) ==
  /\ pc[c] = "rollback"
  /\ \/ spaces' = Settled(Terminated(SpaceOf(c)), c, "failed")
     \/ spaces' = Settled(spaces, c, "left")
  /\ Return(c)
  /\ UNCHANGED <<accounts, uids>>

-----------------------------------------------------------------------------
(* Update and Delete.                                                      *)

\* Authorize, Get, Update: stored only if the namespace is still the one that
\* was read.  Of a namespace only the label of the account is kept here:
\* ConvertSpace.  Bound: the owner of a namespace changes once.
UpdateOwner(c, n, a) ==
  /\ pc[c] = "idle"
  /\ Exists(n)
  /\ \E u \in Users : Authorized(u, n)
  /\ a # spaces[n].owner /\ ~spaces[n].moved
  /\ spaces' = [spaces EXCEPT ![n].owner = a, ![n].moved = TRUE]
  /\ UNCHANGED <<accounts, uids, clientVars>>

DeleteStart(c, n) ==
  /\ pc[c] = "idle"
  /\ Exists(n)
  /\ \E u \in Users : Authorized(u, n)
  /\ req' = [req EXCEPT ![c] = [name |-> n, account |-> NoAccount]]
  /\ Goto(c, "delete")
  /\ UNCHANGED <<accounts, spaces, uids, uid, made>>

\* By name: the client overwrites the preconditions (and DryRun) of Raw options.
Delete(c) ==
  /\ pc[c] = "delete"
  /\ \/ spaces' = Terminated(SpaceOf(c))
     \/ UNCHANGED spaces
  /\ Return(c)
  /\ UNCHANGED <<accounts, uids>>

\* The process that serves the request ends.
Crash(c) ==
  /\ pc[c] # "idle"
  /\ spaces' = Settled(spaces, c, "left")
  /\ Return(c)
  /\ UNCHANGED <<accounts, uids>>

-----------------------------------------------------------------------------
(* Accounts, and what others do.                                           *)

DeleteAccount(a) ==
  /\ a \in accounts
  /\ accounts' = accounts \ {a}
  /\ UNCHANGED <<spaces, uids, clientVars>>

\* The namespace controller removes a terminating namespace and what is in it.
Finalize(n) ==
  /\ Exists(n) /\ spaces[n].terminating
  /\ spaces' = [spaces EXCEPT ![n] = Gone]
  /\ UNCHANGED <<accounts, uids, clientVars>>

\* The garbage collector: objects whose controller is gone.
Dependents(n) == {b \in spaces[n].bindings : b.owner \in Accounts \ accounts}
Collect(n) ==
  /\ Exists(n) /\ Dependents(n) # {}
  /\ spaces' = [spaces EXCEPT ![n].bindings = @ \ Dependents(n)]
  /\ UNCHANGED <<accounts, uids, clientVars>>

\* The template controller decides an instance (TemplateInstance).
DecideInstance(n, x, s) ==
  /\ Exists(n) /\ x \in spaces[n].insts
  /\ s \in {"Deployed", "Failed"} \ {x.status}
  /\ spaces' = [spaces EXCEPT
       ![n].insts = (@ \ {x}) \cup {[x EXCEPT !.status = s]},
       ![n].deployed = IF s = "Deployed" THEN @ \cup {x.name} ELSE @]
  /\ UNCHANGED <<accounts, uids, clientVars>>

Step(c) ==
  \/ CountSpaces(c) \/ CreateNamespace(c) \/ CreateInstance(c)
  \/ Poll(c) \/ PollTimeout(c) \/ CreateRoleBinding(c) \/ PatchNamespace(c)
  \/ WaitForAccess(c) \/ Rollback(c) \/ Delete(c)

Start(c) ==
  \E n \in Names :
    \/ \E a \in Accounts \cup {NoAccount} : CreateStart(c, n, a)
    \/ \E a \in Accounts \cup {NoAccount} : UpdateOwner(c, n, a)
    \/ DeleteStart(c, n)

Environment ==
  \/ \E a \in Accounts : DeleteAccount(a)
  \/ \E n \in Names : Finalize(n) \/ Collect(n)
  \/ \E n \in Names : Exists(n) /\ \E x \in spaces[n].insts, s \in InstStatus : DecideInstance(n, x, s)

Next == (\E c \in Clients : Start(c) \/ Step(c) \/ Crash(c)) \/ Environment

Spec == Init /\ [][Next]_vars

\* Go runs a request to its end, polls have a deadline, and the garbage
\* collector visits what is left.
FairSpec ==
  /\ Spec
  /\ \A c \in Clients : WF_vars(Step(c))
  /\ \A n \in Names : WF_vars(Collect(n))

-----------------------------------------------------------------------------
(* Properties.                                                             *)

\* Create lists the account's namespaces and creates one later: requests in
\* progress at the same time may pass the limit together, each counting the
\* same namespaces.  An account claims the spaces it owns, however it came by
\* them, and one for each request that has counted and not yet created.
Asking(a) == {c \in Clients : pc[c] = "create" /\ req[c].account = a}
Claims(a) == Cardinality(Owned(a)) + Cardinality(Asking(a))

\* A namespace that is there is given to the account, by a change of its label.
GivenTo(a) == \E n \in Owned(a)' \ Owned(a) : Exists(n)

\* Create never takes what an account claims past its limit and one for each
\* other request, however many requests, deletions, crashes and changes of owner
\* there were before: spaces that the account was given count like the others.
\* Update gives a space without a look at the limit, although AccountSpace.Limit
\* is said to be how many spaces the account may own.
LimitHolds ==
  [][\A a \in Accounts : Limit[a] # NoLimit /\ Claims(a)' > Claims(a) =>
       Claims(a)' <= Limit[a] + Cardinality(Clients) - 1 \/ GivenTo(a)]_vars

\* initializeSpace creates the role binding last: in the namespace that the
\* request has created it exists only once every template instance of the
\* account was seen deployed there.
AccessAfterTemplates ==
  \A n \in Names : Exists(n) =>
    \A b \in spaces[n].bindings : b.by = spaces[n].uid =>
      \A k \in Entries(b.account) :
        \E i \in spaces[n].deployed : i.template = Instances[b.account][k]

\* A space that Create answered with success, and nobody has deleted since, is
\* completely set up: not initializing any more, and with the account's role
\* binding unless the account is gone.
SuccessIsReady ==
  \A n \in Names : Active(n) /\ spaces[n].fate = "ok" =>
    /\ ~spaces[n].initializing
    /\ \A a \in HasRole \cap accounts :
         spaces[n].owner = a /\ ~spaces[n].moved =>
           \E b \in spaces[n].bindings : b.by = spaces[n].uid

\* A namespace marked as initializing is one whose request is still at work,
\* unless its process ended, or a call was carried out and reported an error,
\* or the deletion itself failed: no error path of Create forgets it.
NoneForgotten ==
  \A n \in Names : Active(n) =>
    /\ spaces[n].fate # "failed"
    /\ spaces[n].initializing => spaces[n].fate \in {"creating", "left"}

\* Every request is answered: the poll for the template instances has a
\* deadline, and nothing else in Create waits for another actor.
Answered == \A c \in Clients : pc[c] # "idle" ~> pc[c] = "idle"

\* When an account is deleted its role bindings disappear from all namespaces,
\* the ones that a request in progress creates after the deletion included.
AccessEnds ==
  \A a \in Accounts :
    a \notin accounts ~> [](\A n \in Names : Exists(n) => \A b \in spaces[n].bindings : b.account # a)
=============================================================================
