-------------------------- MODULE AccountReconciler -------------------------
(***************************************************************************)
(* The account controller (pkg/manager/controllers/account_controller.go): *)
(* it gives the subjects of an account their role bindings, one cluster    *)
(* role and a binding to it, and records the account's namespaces in its   *)
(* status.                                                                 *)
(*                                                                         *)
(* Every read is from a cache that lags, object by object; every write     *)
(* goes to the API server under optimistic locking and then waits for the  *)
(* cache (pkg/manager/blockingcacheclient).  Meanwhile administrators edit *)
(* and delete the same objects, and space creation adds role bindings      *)
(* built from the account as it was when the request started.              *)
(*                                                                         *)
(* One account: reconciliations of different accounts share nothing.       *)
(***************************************************************************)
EXTENDS Naturals, Sequences, FiniteSets

CONSTANTS
  Acct,                \* the Account
  Namespaces,
  RoleBindings,        \* names of role bindings in the account's spaces
  ClusterRoles,        \* names the API server generates, none used twice
  ClusterRoleBindings, \* the same
  SubjectLists,        \* values of Spec.Subjects
  FirstSubjects,
  Absent,              \* the value of an object that does not exist
  MaxEdits,            \* bound: changes made by others
  MaxErrors            \* bound: calls that fail without a cause in the model

Objects == {Acct} \cup Namespaces \cup RoleBindings \cup ClusterRoles \cup ClusterRoleBindings
Rules == {"rules", "others"}    \* getClusterRoleRules(account), or something else

ASSUME ReconcilerAssumption ==
  /\ FirstSubjects \in SubjectLists
  /\ Absent \notin SubjectLists
  /\ MaxEdits \in Nat /\ MaxErrors \in Nat

VARIABLES
  hist,      \* [Objects -> Seq]: stored versions; the resourceVersion of a
             \* version is its position
  cache,     \* [Objects -> version in the manager's cache]
  queued,    \* whether the workqueue has the account to hand out
  rpc,       \* pc of Reconcile
  copy,      \* version of the account that Reconcile works on
  listed,    \* namespaceList
  todo,      \* objects, with the version listed, that are yet to be written
  keep,      \* clusterRoles[0].Name
  found,     \* whether a cluster role binding for it was listed
  wait,      \* the object the blocking client waits for
  edits, errors

reconcileVars == <<copy, listed, todo, keep, found, wait>>
vars == <<hist, cache, queued, rpc, reconcileVars, edits, errors>>

Latest(o) == Len(hist[o])
Now(o) == hist[o][Latest(o)]
Cached(o) == hist[o][cache[o]]
Subjects == hist[Acct][copy].subjects

Account == [subjects : SubjectLists, status : SUBSET Namespaces]
Binding == [role : ClusterRoles, subjects : SubjectLists]
PC == {"idle", "namespaces", "bindings", "binding", "role", "deleteRole", "newRole", "createRole",
       "crbs", "crb", "createCrb", "status"}

TypeOK ==
  /\ DOMAIN hist = Objects
  /\ hist[Acct] \in Seq(Account)
  /\ \A n \in Namespaces : hist[n] \in Seq(BOOLEAN)
  /\ \A b \in RoleBindings : hist[b] \in Seq(SubjectLists \cup {Absent})
  /\ \A c \in ClusterRoles : hist[c] \in Seq(Rules \cup {Absent})
  /\ \A b \in ClusterRoleBindings : hist[b] \in Seq(Binding \cup {Absent})
  /\ cache \in [Objects -> Nat] /\ \A o \in Objects : cache[o] \in 1..Latest(o)
  /\ queued \in BOOLEAN
  /\ rpc \in PC
  /\ copy \in 1..Latest(Acct)
  /\ listed \subseteq Namespaces
  /\ \A i \in todo : i[1] \in Objects /\ i[2] \in 1..Latest(i[1])
  /\ keep \in ClusterRoles \cup {Absent}
  /\ rpc \in {"role", "deleteRole", "createRole", "crbs", "crb", "createCrb"} => keep # Absent
  /\ found \in BOOLEAN
  /\ wait \in Objects \cup {Absent}
  /\ edits \in 0..MaxEdits /\ errors \in 0..MaxErrors

\* A new account: its creation has reached the cache and the workqueue.
Init ==
  /\ hist = [o \in Objects |->
       CASE o = Acct -> <<[subjects |-> FirstSubjects, status |-> {}]>>
         [] o \in Namespaces -> <<FALSE>>
         [] OTHER -> <<Absent>>]
  /\ cache = [o \in Objects |-> 1]
  /\ queued = TRUE
  /\ rpc = "idle"
  /\ copy = 1 /\ listed = {} /\ todo = {} /\ keep = Absent /\ found = FALSE /\ wait = Absent
  /\ edits = 0 /\ errors = 0

\* GenerateName: some name that was never used.
NewName(S) == CHOOSE o \in S : hist[o] = <<Absent>>

Put(o, v) == hist' = [hist EXCEPT ![o] = Append(@, v)]

-----------------------------------------------------------------------------
(* Others.                                                                 *)

EditSubjects(s) ==
  /\ edits < MaxEdits
  /\ edits' = edits + 1
  /\ s # Now(Acct).subjects
  /\ Put(Acct, [Now(Acct) EXCEPT !.subjects = s])
  /\ UNCHANGED <<cache, queued, rpc, reconcileVars, errors>>

\* A namespace joins or leaves the account: created, deleted or relabelled.
MoveNamespace(n) ==
  /\ edits < MaxEdits
  /\ edits' = edits + 1
  /\ Put(n, ~Now(n))
  /\ UNCHANGED <<cache, queued, rpc, reconcileVars, errors>>

\* CreateRoleBinding of space creation, with the subjects of the account as
\* it was when the request read it.
SpaceBinding(b) ==
  /\ edits < MaxEdits
  /\ edits' = edits + 1
  /\ hist[b] = <<Absent>>
  /\ \E i \in 1..Latest(Acct) : Put(b, hist[Acct][i].subjects)
  /\ UNCHANGED <<cache, queued, rpc, reconcileVars, errors>>

\* An administrator deletes a role or a binding, or changes a role's rules.
Tamper(o) ==
  /\ edits < MaxEdits
  /\ edits' = edits + 1
  /\ Now(o) # Absent
  /\ \/ Put(o, Absent)
     \/ o \in ClusterRoles /\ Put(o, "others")
  /\ UNCHANGED <<cache, queued, rpc, reconcileVars, errors>>

\* Mutant of CacheEvent: only the new owner of a namespace is enqueued.
CacheEventNewOwner(o) ==
  /\ cache[o] < Latest(o)
  /\ cache' = [cache EXCEPT ![o] = @ + 1]
  /\ queued' = (queued \/ (o \in Namespaces => hist[o][cache[o] + 1]))
  /\ UNCHANGED <<hist, rpc, reconcileVars, edits, errors>>

\* The watch delivers the next version of o.  Whatever it is, the account is
\* enqueued: For(Account), Owns(the three kinds), and NamespaceEventHandler
\* for a namespace that joins or leaves.
CacheEvent(o) ==
  /\ cache[o] < Latest(o)
  /\ cache' = [cache EXCEPT ![o] = @ + 1]
  /\ queued' = TRUE
  /\ UNCHANGED <<hist, rpc, reconcileVars, edits, errors>>

-----------------------------------------------------------------------------
(* Reconcile.                                                              *)

\* It returns: an error puts the account back into the workqueue.
Return(failed) ==
  /\ rpc' = "idle"
  /\ queued' = (queued \/ failed)
  /\ copy' = 1 /\ listed' = {} /\ todo' = {} /\ keep' = Absent /\ found' = FALSE /\ wait' = Absent

\* A conflict, an object that is gone, or any other error of a call.
Fail ==
  /\ Return(TRUE)
  /\ UNCHANGED <<hist, cache, edits>>

\* A call that has stored its object may still return an error: the blocking
\* client has given up after two seconds.
StoredButFails ==
  /\ errors < MaxErrors
  /\ errors' = errors + 1
  /\ Return(TRUE)
  /\ UNCHANGED <<cache, edits>>

Goto(l) == rpc' = l /\ UNCHANGED <<queued, cache, edits, errors>>

Get ==
  /\ rpc = "idle"
  /\ queued
  /\ queued' = FALSE
  /\ copy' = cache[Acct]
  /\ rpc' = "namespaces"
  /\ UNCHANGED <<hist, cache, listed, todo, keep, found, wait, edits, errors>>

ListNamespaces ==
  /\ rpc = "namespaces"
  /\ listed' = {n \in Namespaces : Cached(n)}
  /\ Goto("bindings")
  /\ UNCHANGED <<hist, copy, todo, keep, found, wait>>

\* Mutant of ListBindings: the subjects of existing bindings are left alone.
ListBindingsOnce ==
  /\ rpc = "bindings"
  /\ todo' = {}
  /\ Goto("binding")
  /\ UNCHANGED <<hist, copy, listed, keep, found, wait>>

\* syncRoleBindings: those whose subjects differ from the account's.
ListBindings ==
  /\ rpc = "bindings"
  /\ todo' = {<<b, cache[b]>> : b \in {r \in RoleBindings : Cached(r) \notin {Absent, Subjects}}}
  /\ Goto("binding")
  /\ UNCHANGED <<hist, copy, listed, keep, found, wait>>

\* Update with the version listed; the wait for the cache may end early.
Write(i, v, after) ==
  IF i[2] = Latest(i[1])
    THEN /\ Put(i[1], v)
         /\ \/ /\ todo' = todo \ {i}
               /\ Goto(after)
               /\ UNCHANGED <<copy, listed, keep, found, wait>>
            \/ StoredButFails
    ELSE Fail /\ UNCHANGED errors

UpdateBinding ==
  /\ rpc = "binding"
  /\ \E i \in todo : Write(i, Subjects, "binding")

\* SyncClusterRoles keeps the first of the listed roles, in whatever order
\* the index returns them, corrects its rules and deletes the others.
ListRoles ==
  LET roles == {c \in ClusterRoles : Cached(c) # Absent}
  IN  /\ rpc = "binding"
      /\ todo = {}
      /\ \/ /\ roles = {}
            /\ Goto("newRole")
            /\ UNCHANGED <<keep, todo>>
         \/ \E first \in roles :
              /\ keep' = first
              /\ todo' = {<<c, cache[c]>> : c \in {r \in roles : r # first \/ Cached(r) # "rules"}}
              /\ Goto("role")
      /\ UNCHANGED <<hist, copy, listed, found, wait>>

CorrectRole ==
  /\ rpc = "role"
  /\ \E i \in todo : i[1] = keep /\ Write(i, "rules", "role")

DeleteRole ==
  /\ rpc = "role"
  /\ \E i \in todo :
       /\ \A j \in todo : j[1] # keep
       /\ IF Now(i[1]) # Absent
            THEN /\ Put(i[1], Absent)
                 /\ todo' = todo \ {i}
                 /\ wait' = i[1]
                 /\ Goto("deleteRole")
                 /\ UNCHANGED <<copy, listed, keep, found>>
            ELSE Fail /\ UNCHANGED errors

\* blockDelete: until the cache has lost the object.
BlockDelete ==
  /\ rpc = "deleteRole"
  /\ \/ /\ Cached(wait) = Absent
        /\ wait' = Absent
        /\ Goto("role")
        /\ UNCHANGED <<hist, copy, listed, todo, keep, found>>
     \/ StoredButFails /\ UNCHANGED hist

CreateRole ==
  /\ rpc = "newRole"
  /\ LET c == NewName(ClusterRoles)
     IN  Put(c, "rules") /\ keep' = c /\ wait' = c
  /\ Goto("createRole")
  /\ UNCHANGED <<copy, listed, todo, found>>

\* blockCreate: until the cache has the object.  If somebody deleted it in
\* the meantime, the cache may never show it.
BlockCreate(at, after) ==
  /\ rpc = at
  /\ \/ /\ Cached(wait) # Absent
        /\ wait' = Absent
        /\ Goto(after)
        /\ UNCHANGED <<hist, copy, listed, todo, keep, found>>
     \/ StoredButFails /\ UNCHANGED hist
     \/ /\ cache[wait] > 1 /\ Cached(wait) = Absent
        /\ Fail /\ UNCHANGED errors

BlockCreateRole == BlockCreate("createRole", "crbs")
BlockCreateBinding == BlockCreate("createCrb", "status")

\* The cluster role bindings: whose subjects differ, and whether there is
\* one for the role.
ListClusterBindings ==
  LET bound == {b \in ClusterRoleBindings : Cached(b) # Absent}
  IN  /\ rpc = "crbs" \/ (rpc = "role" /\ todo = {})
      /\ todo' = {<<b, cache[b]>> : b \in {r \in bound : Cached(r).subjects # Subjects}}
      /\ found' = \E b \in bound : Cached(b).role = keep
      /\ Goto("crb")
      /\ UNCHANGED <<hist, copy, listed, keep, wait>>

UpdateClusterBinding ==
  /\ rpc = "crb"
  /\ \E i \in todo : Write(i, [hist[i[1]][i[2]] EXCEPT !.subjects = Subjects], "crb")

\* Mutant of CreateClusterBinding: a binding for any role will do.
CreateClusterBindingLoose ==
  /\ rpc = "crb"
  /\ todo = {}
  /\ IF found \/ \E b \in ClusterRoleBindings : Cached(b) # Absent
       THEN /\ Goto("status")
            /\ UNCHANGED <<hist, wait>>
       ELSE /\ LET b == NewName(ClusterRoleBindings)
               IN  Put(b, [role |-> keep, subjects |-> Subjects]) /\ wait' = b
            /\ Goto("createCrb")
  /\ UNCHANGED <<copy, listed, todo, keep, found>>

CreateClusterBinding ==
  /\ rpc = "crb"
  /\ todo = {}
  /\ IF found
       THEN /\ Goto("status")
            /\ UNCHANGED <<hist, wait>>
       ELSE /\ LET b == NewName(ClusterRoleBindings)
               IN  Put(b, [role |-> keep, subjects |-> Subjects]) /\ wait' = b
            /\ Goto("createCrb")
  /\ UNCHANGED <<copy, listed, todo, keep, found>>

\* Status().Update is always sent; one that changes nothing stores nothing.
UpdateStatus ==
  /\ rpc = "status"
  /\ IF copy = Latest(Acct)
       THEN /\ IF Now(Acct).status = listed THEN UNCHANGED hist
               ELSE Put(Acct, [Now(Acct) EXCEPT !.status = listed])
            /\ \/ Return(FALSE) /\ UNCHANGED <<cache, edits, errors>>
               \/ StoredButFails
       ELSE Fail /\ UNCHANGED errors

Reconcile ==
  \/ Get \/ ListNamespaces \/ ListBindings \/ UpdateBinding
  \/ ListRoles \/ CorrectRole \/ DeleteRole \/ BlockDelete \/ CreateRole \/ BlockCreateRole
  \/ ListClusterBindings \/ UpdateClusterBinding \/ CreateClusterBinding \/ BlockCreateBinding
  \/ UpdateStatus

\* Nothing to do: the controller waits for an event.
Rest ==
  /\ rpc = "idle" /\ ~queued
  /\ \A o \in Objects : cache[o] = Latest(o)
  /\ UNCHANGED vars

Next ==
  \/ Reconcile
  \/ Rest
  \/ \E o \in Objects : CacheEvent(o)
  \/ \E s \in SubjectLists : EditSubjects(s)
  \/ \E n \in Namespaces : MoveNamespace(n)
  \/ \E b \in RoleBindings : SpaceBinding(b)
  \/ \E o \in RoleBindings \cup ClusterRoles \cup ClusterRoleBindings : Tamper(o)

Spec == Init /\ [][Next]_vars

\* The watches deliver and the controller's goroutine runs.
Fairness ==
  /\ \A o \in Objects : WF_vars(CacheEvent(o))
  /\ WF_vars(Reconcile)

FairSpec == Spec /\ Fairness

-----------------------------------------------------------------------------
(* Properties.                                                             *)

Live(S) == {o \in S : Now(o) # Absent}

\* Who is removed from an account loses, and who is added gains, access to
\* its spaces and to the account: the bindings end up with the subjects of
\* the account, also those created from an older copy of it.
SubjectsConverge ==
  <>[](/\ \A b \in Live(RoleBindings) : Now(b) = Now(Acct).subjects
       /\ \A b \in Live(ClusterRoleBindings) : Now(b).subjects = Now(Acct).subjects)

\* "make sure there is at least one cluster role binding for the cluster role
\* ensured above": the account ends up with one role, its rules right, and a
\* binding to it, whatever duplicates failed calls have left and whatever was
\* deleted.
RoleConverges ==
  <>[](\E c \in ClusterRoles :
         /\ Live(ClusterRoles) = {c}
         /\ Now(c) = "rules"
         /\ \E b \in Live(ClusterRoleBindings) : Now(b).role = c)

\* Status.Namespaces ends up as the namespaces of the account.
StatusConverges == <>[](Now(Acct).status = {n \in Namespaces : Now(n)})
=============================================================================
