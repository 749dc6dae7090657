-------------------------- MODULE TemplateInstance --------------------------
(***************************************************************************)
(* The template instance controller                                        *)
(* (pkg/manager/controllers/templateinstance_controller.go) and the merge  *)
(* of manifests it applies (pkg/manager/merge).                            *)
(*                                                                         *)
(* An instance names a template, whether it follows it (Spec.Sync), and    *)
(* records in its status how the last deployment went, of which version of *)
(* the template, and the manifests that were rendered.  A deployment goes  *)
(* from the recorded manifests to the new ones object by object, and any   *)
(* call may fail in between.                                               *)
(*                                                                         *)
(* One instance: deployments of different instances share nothing but the  *)
(* template.  The objects are changed by nobody else.                      *)
(***************************************************************************)
EXTENDS Naturals, Sequences, FiniteSets

CONSTANTS
  Objs,        \* the objects that templates name
  Custom,      \* those of kinds without a strategic merge patch
  Kept,        \* those annotated with the resource policy "keep"
  Contents,
  Absent,
  Templates,   \* what a template renders to: the content of each of its objects
  Broken,      \* a template that cannot be rendered
  MaxEdits,    \* bound: edits of the template and of the instance
  MaxErrors    \* bound: calls that fail without a cause in the model

Nothing == [o \in Objs |-> Absent]

ASSUME TemplateAssumption ==
  /\ Custom \subseteq Objs /\ Kept \subseteq Objs
  /\ Absent \notin Contents
  /\ Templates \subseteq [Objs -> Contents \cup {Absent}]
  /\ {Broken, Absent} \cap Templates = {}
  /\ MaxEdits \in Nat /\ MaxErrors \in Nat

VARIABLES
  thist,    \* the stored versions of the template
  ihist,    \* the stored versions of the instance; Absent before its creation
  tcache,   \* the version of the template in the manager's cache
  icache,   \* the version of the instance in it
  live,     \* the objects in the cluster
  queued,   \* whether the workqueue has the instance to hand out
  timer,    \* whether RequeueAfter is running
  rpc,      \* pc of Reconcile
  copy,     \* version of the instance Reconcile works on
  status,   \* its Status in memory
  old,      \* oldManifests
  target,   \* manifests
  todo,     \* objects the merge has yet to visit, or to delete
  failed,   \* whether updateErrors is not empty
  edits, errors

deployVars == <<copy, status, old, target, todo, failed>>
vars == <<thist, ihist, tcache, icache, live, queued, timer, rpc, deployVars, edits, errors>>

Manifests == [Objs -> Contents \cup {Absent}]
Status == [status : {"Pending", "Deployed", "Failed"}, template : Nat, manifests : Manifests]
Instance == [sync : BOOLEAN, status : Status]
PendingStatus == [status |-> "Pending", template |-> 0, manifests |-> Nothing]

TypeOK ==
  /\ thist \in Seq(Templates \cup {Broken, Absent}) /\ tcache \in 1..Len(thist)
  /\ ihist \in Seq(Instance \cup {Absent}) /\ icache \in 1..Len(ihist)
  /\ ihist[Len(ihist)] \in Instance
  /\ live \in Manifests
  /\ queued \in BOOLEAN /\ timer \in BOOLEAN
  /\ rpc \in {"idle", "template", "visit", "prune", "record", "fail"}
  /\ copy \in 1..Len(ihist)
  /\ rpc # "idle" => ihist[copy] \in Instance
  /\ status \in Status /\ old \in Manifests /\ target \in Manifests
  /\ todo \subseteq Objs /\ failed \in BOOLEAN
  /\ edits \in 0..MaxEdits /\ errors \in 0..MaxErrors

Template == thist[Len(thist)]
Inst == ihist[Len(ihist)]

Init ==
  /\ thist \in {<<t>> : t \in Templates \cup {Broken, Absent}}
  /\ ihist \in {<<Absent, [sync |-> s, status |-> PendingStatus]>> : s \in BOOLEAN}
  /\ tcache = 1 /\ icache = 1
  /\ live = Nothing
  /\ queued = FALSE /\ timer = FALSE
  /\ rpc = "idle"
  /\ copy = 1 /\ status = PendingStatus /\ old = Nothing /\ target = Nothing
  /\ todo = {} /\ failed = FALSE
  /\ edits = 0 /\ errors = 0

-----------------------------------------------------------------------------
(* Administrators and users.                                               *)

EditTemplate(t) ==
  /\ edits < MaxEdits
  /\ edits' = edits + 1
  /\ t # Template
  /\ thist' = Append(thist, t)
  /\ UNCHANGED <<ihist, tcache, icache, live, queued, timer, rpc, deployVars, errors>>

\* Spec.Template is immutable (ValidateTemplateInstanceUpdate); Sync is not.
EditSync ==
  /\ edits < MaxEdits
  /\ edits' = edits + 1
  /\ ihist' = Append(ihist, [Inst EXCEPT !.sync = ~@])
  /\ UNCHANGED <<thist, tcache, icache, live, queued, timer, rpc, deployVars, errors>>

-----------------------------------------------------------------------------
(* Events.                                                                 *)

\* For(&TemplateInstance{})
InstanceEvent ==
  /\ icache < Len(ihist)
  /\ icache' = icache + 1
  /\ queued' = TRUE
  /\ UNCHANGED <<thist, ihist, tcache, live, timer, rpc, deployVars, edits, errors>>

\* mapTemplateInstances: the instances of the template, as the cache has them,
\* that sync.
MapTemplateInstances == ihist[icache] # Absent /\ ihist[icache].sync

TemplateEvent ==
  /\ tcache < Len(thist)
  /\ tcache' = tcache + 1
  /\ queued' = (queued \/ MapTemplateInstances)
  /\ UNCHANGED <<thist, ihist, icache, live, timer, rpc, deployVars, edits, errors>>

TimerFires ==
  /\ timer
  /\ timer' = FALSE
  /\ queued' = TRUE
  /\ UNCHANGED <<thist, ihist, tcache, icache, live, rpc, deployVars, edits, errors>>

-----------------------------------------------------------------------------
(* Reconcile.                                                              *)

\* It returns: an error requeues at once, RequeueAfter in five minutes.
Return(error, requeueAfter) ==
  /\ rpc' = "idle"
  /\ queued' = (queued \/ error)
  /\ timer' = (timer \/ requeueAfter)
  /\ copy' = 1 /\ status' = PendingStatus /\ old' = Nothing /\ target' = Nothing
  /\ todo' = {} /\ failed' = FALSE

Goto(l) == rpc' = l /\ UNCHANGED <<queued, timer>>

\* A call fails, for a reason outside the model.
Error == errors < MaxErrors /\ errors' = errors + 1

\* Mutant of Ignored: whatever does not sync is left alone.
IgnoredUnsynced(i) == i = Absent \/ ~i.sync

\* "If not pending and syncing then stop"
Ignored(i) == i = Absent \/ (~i.sync /\ i.status.status # "Pending")

Get ==
  /\ rpc = "idle"
  /\ queued
  /\ queued' = FALSE
  /\ IF Ignored(ihist[icache])
       THEN UNCHANGED <<rpc, copy, status>>
       ELSE rpc' = "template" /\ copy' = icache /\ status' = ihist[icache].status
  /\ UNCHANGED <<thist, ihist, tcache, icache, live, timer, old, target, todo, failed, edits, errors>>

\* Mutant of UpToDate: the version alone.
UpToDateVersion == status.template = tcache

\* "Check if template instance has changed to last deployment"
UpToDate == status.template = tcache /\ status.status = "Deployed"

\* deploy: parameters, manifests and chart turn into objects, or do not.
Renders(t) == t \in Templates

\* The template as the cache has it: missing, as deployed before, impossible
\* to render, or to be applied.  The status
\* in memory has the template's new version from here on.
GetTemplate ==
  LET t == thist[tcache]
  IN  /\ rpc = "template"
      /\ \/ /\ t = Absent
            /\ Goto("fail")
            /\ UNCHANGED deployVars
         \/ t # Absent /\ UpToDate /\ Return(FALSE, FALSE)
         \/ /\ t # Absent /\ ~UpToDate /\ ~Renders(t)
            /\ Goto("fail")
            /\ UNCHANGED deployVars
         \/ /\ ~UpToDate /\ Renders(t)
            /\ status' = [status EXCEPT !.status = "Deployed", !.template = tcache]
            /\ old' = status.manifests
            /\ target' = t
            /\ IF t = status.manifests
                 THEN Goto("record") /\ todo' = {}
                 ELSE Goto("visit") /\ todo' = {o \in Objs : t[o] # Absent}
            /\ UNCHANGED <<copy, failed>>
      /\ UNCHANGED <<thist, ihist, tcache, icache, live, edits, errors>>

\* updateResource: a three-way merge, or for custom kinds the difference of
\* the two manifests alone.
Patched(o) == IF o \in Custom /\ old[o] = target[o] THEN live[o] ELSE target[o]

Visit(o) ==
  /\ rpc = "visit"
  /\ o \in todo
  /\ todo' = todo \ {o}
  /\ live' = [live EXCEPT ![o] = IF @ = Absent THEN target[o] ELSE Patched(o)]
  /\ UNCHANGED <<thist, ihist, tcache, icache, queued, timer, rpc, copy, status, old, target, failed,
                 edits, errors>>

\* A failing patch is remembered and the visit goes on.
VisitUpdateFails(o) ==
  /\ rpc = "visit"
  /\ o \in todo /\ live[o] # Absent
  /\ Error
  /\ todo' = todo \ {o}
  /\ failed' = TRUE
  /\ UNCHANGED <<thist, ihist, tcache, icache, live, queued, timer, rpc, copy, status, old, target, edits>>

\* A failing read, or a failing creation, stored or not, ends the merge.
VisitFails(o) ==
  /\ rpc = "visit"
  /\ o \in todo
  /\ Error
  /\ live' \in {live, [live EXCEPT ![o] = IF @ = Absent THEN target[o] ELSE @]}
  /\ Goto("fail")
  /\ UNCHANGED <<thist, ihist, tcache, icache, deployVars, edits>>

\* Mutant of Visited: updateErrors is forgotten.
VisitedRegardless ==
  /\ rpc = "visit"
  /\ todo = {}
  /\ Goto("prune")
  /\ todo' = {o \in Objs \ Kept : old[o] # Absent /\ target[o] = Absent}
  /\ UNCHANGED <<thist, ihist, tcache, icache, live, copy, status, old, target, failed, edits, errors>>

\* Only when all went well are the objects deleted that are no more in the
\* manifests: original.Difference(target).
Visited ==
  /\ rpc = "visit"
  /\ todo = {}
  /\ IF failed
       THEN Goto("fail") /\ UNCHANGED todo
       ELSE Goto("prune") /\ todo' = {o \in Objs \ Kept : old[o] # Absent /\ target[o] = Absent}
  /\ UNCHANGED <<thist, ihist, tcache, icache, live, copy, status, old, target, failed, edits, errors>>

Prune(o) ==
  /\ rpc = "prune"
  /\ o \in todo
  /\ todo' = todo \ {o}
  /\ live' = [live EXCEPT ![o] = Absent]
  /\ UNCHANGED <<thist, ihist, tcache, icache, queued, timer, rpc, copy, status, old, target, failed,
                 edits, errors>>

PruneFails(o) ==
  /\ rpc = "prune"
  /\ o \in todo /\ live[o] # Absent
  /\ Error
  /\ live' \in {live, [live EXCEPT ![o] = Absent]}
  /\ Goto("fail")
  /\ UNCHANGED <<thist, ihist, tcache, icache, deployVars, edits>>

Pruned ==
  /\ rpc = "prune"
  /\ todo = {}
  /\ Goto("record")
  /\ UNCHANGED <<thist, ihist, tcache, icache, live, deployVars, edits, errors>>

\* Status().Update.  An update that changes nothing stores nothing.
Stored(s) ==
  ihist' = IF Inst.status = s THEN ihist ELSE Append(ihist, [Inst EXCEPT !.status = s])

\* The end of deployObjects.  When the blocking client gives up the update is
\* stored, the copy has its version, and setFailed follows all the same.
Record ==
  LET recorded == [status EXCEPT !.manifests = target]
  IN  /\ rpc = "record"
      /\ \/ /\ copy = Len(ihist)
            /\ Stored(recorded)
            /\ \/ Return(FALSE, FALSE) /\ UNCHANGED errors
               \/ /\ Error
                  /\ Goto("fail")
                  /\ copy' = Len(ihist')
                  /\ status' = recorded
                  /\ UNCHANGED <<old, target, todo, failed>>
         \/ /\ IF copy = Len(ihist) THEN Error ELSE UNCHANGED errors
            /\ Goto("fail")
            /\ status' = recorded
            /\ UNCHANGED <<ihist, copy, old, target, todo, failed>>
      /\ UNCHANGED <<thist, tcache, icache, live, edits>>

SetFailed ==
  /\ rpc = "fail"
  /\ IF copy = Len(ihist)
       THEN \/ /\ Stored([status EXCEPT !.status = "Failed"])
               /\ \/ Return(FALSE, TRUE) /\ UNCHANGED errors
                  \/ Error /\ Return(TRUE, FALSE)
            \/ Error /\ Return(TRUE, FALSE) /\ UNCHANGED ihist
       ELSE Return(TRUE, FALSE) /\ UNCHANGED <<ihist, errors>>
  /\ UNCHANGED <<thist, tcache, icache, live, edits>>

Reconcile ==
  \/ Get \/ GetTemplate
  \/ \E o \in Objs : Visit(o) \/ VisitUpdateFails(o) \/ VisitFails(o) \/ Prune(o) \/ PruneFails(o)
  \/ Visited \/ Pruned \/ Record \/ SetFailed

\* Nothing to do: the controller waits for an event.
Rest ==
  /\ rpc = "idle" /\ ~queued /\ ~timer
  /\ tcache = Len(thist) /\ icache = Len(ihist)
  /\ UNCHANGED vars

Next ==
  \/ Reconcile
  \/ InstanceEvent \/ TemplateEvent \/ TimerFires
  \/ \E t \in Templates \cup {Broken, Absent} : EditTemplate(t)
  \/ EditSync
  \/ Rest

Spec == Init /\ [][Next]_vars

\* The watches deliver, timers expire and the controller's goroutine runs.
Fairness ==
  /\ WF_vars(InstanceEvent) /\ WF_vars(TemplateEvent) /\ WF_vars(TimerFires)
  /\ WF_vars(Reconcile)

FairSpec == Spec /\ Fairness

-----------------------------------------------------------------------------
(* Properties.                                                             *)

\* The manifests an instance records are what has been applied: every object
\* of them is in the cluster as rendered (custom kinds apart, whose patch does
\* not look at the cluster), and what only the manifests before had is gone.
\* A later deployment starts from this record and looks at nothing else.
AppliedAs(before, after) ==
  \A o \in Objs :
    IF after[o] # Absent THEN o \in Custom \/ live[o] = after[o]
    ELSE before[o] # Absent /\ o \notin Kept => live[o] = Absent

RecordedIsApplied ==
  [][Inst'.status.manifests # Inst.status.manifests
       => AppliedAs(Inst.status.manifests, Inst'.status.manifests)]_vars

\* An instance that syncs ends up with its template's last version deployed,
\* or failed when there is nothing that could be deployed, whatever events
\* the caches were late for and whichever calls failed.
FollowsTemplate ==
  <>[](Inst.sync => IF Template \in Templates
                      THEN Inst.status.status = "Deployed" /\ Inst.status.template = Len(thist)
                      ELSE Inst.status.status = "Failed")

\* Every instance is decided: space creation waits for that.
Decided == <>[](Inst.status.status # "Pending")
=============================================================================
