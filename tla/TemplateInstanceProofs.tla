------------------------ MODULE TemplateInstanceProofs ------------------------
(***************************************************************************)
(* TemplateInstance: the manifests an instance records have been applied,  *)
(* for any templates, objects, edits and failing calls.                    *)
(***************************************************************************)
EXTENDS TemplateInstance, TLAPS

-----------------------------------------------------------------------------
(* What Reconcile knows at each of its steps.  The status it will write    *)
(* carries the manifests of the version it read until Record puts the      *)
(* applied ones in their place; if that write does not go through, the     *)
(* status in memory has them all the same, and SetFailed may write it.     *)

\* The object is in the cluster as the manifests have it.
AsRendered(o) == target[o] # Absent => o \in Custom \/ live[o] = target[o]

\* The object is one the manifests before had and these have not.
Dropped(o) == target[o] = Absent /\ old[o] # Absent /\ o \notin Kept

Reading == rpc = "template" => status = ihist[copy].status

Applying ==
  rpc \in {"visit", "prune", "record"} =>
    old = ihist[copy].status.manifests /\ status.manifests = old

Visiting ==
  rpc = "visit" =>
    /\ \A o \in todo : target[o] # Absent
    /\ ~failed => \A o \in Objs \ todo : AsRendered(o)

Pruning ==
  rpc = "prune" =>
    /\ \A o \in todo : target[o] = Absent
    /\ \A o \in Objs : AsRendered(o)
    /\ \A o \in Objs \ todo : Dropped(o) => live[o] = Absent

Recording == rpc = "record" => target = old \/ AppliedAs(old, target)

Failing ==
  rpc = "fail" /\ copy = Len(ihist) =>
    \/ status.manifests = Inst.status.manifests
    \/ AppliedAs(Inst.status.manifests, status.manifests)

DeployInv == Reading /\ Applying /\ Visiting /\ Pruning /\ Recording /\ Failing

-----------------------------------------------------------------------------
(* Types.                                                                  *)

\* The rendered templates are manifests, and the empty manifests are.
LEMMA ManifestsTyped == Templates \subseteq Manifests /\ Nothing \in Manifests /\ PendingStatus \in Status
BY TemplateAssumption DEF Manifests, Nothing, PendingStatus, Status

\* The instance stored last, whatever the version.
LEMMA AppendInstance ==
  ASSUME NEW h \in Seq(Instance \cup {Absent}), NEW i \in Instance
  PROVE  /\ Append(h, i) \in Seq(Instance \cup {Absent})
         /\ Len(Append(h, i)) = Len(h) + 1
         /\ Append(h, i)[Len(h) + 1] = i
         /\ \A j \in 1..Len(h) : Append(h, i)[j] = h[j]
OBVIOUS

\* An update of the status stores a version with it, or finds it stored; the
\* versions stored before stay.
LEMMA StoredTyped ==
  ASSUME ihist \in Seq(Instance \cup {Absent}), Inst \in Instance, NEW s \in Status, Stored(s),
         Len(ihist) >= 1
  PROVE  /\ ihist' \in Seq(Instance \cup {Absent})
         /\ Inst' \in Instance
         /\ Inst'.status = s
         /\ Len(ihist) <= Len(ihist')
         /\ \A i \in 1..Len(ihist) : ihist'[i] = ihist[i]
<1>1. CASE Inst.status = s
  BY <1>1 DEF Stored, Inst
<1>2. CASE Inst.status # s
  <2> DEFINE j == [Inst EXCEPT !.status = s]
  <2>1. ihist' = Append(ihist, j)
    BY <1>2 DEF Stored
  <2>2. j \in Instance /\ j.status = s
    BY DEF Instance
  <2> HIDE DEF j
  <2>3. ihist' \in Seq(Instance \cup {Absent}) /\ Len(ihist') = Len(ihist) + 1 /\ ihist'[Len(ihist) + 1] = j
        /\ \A i \in 1..Len(ihist) : ihist'[i] = ihist[i]
    BY <2>1, <2>2, AppendInstance
  <2>4. Inst' = j
    BY <2>3 DEF Inst
  <2> QED
    BY <2>2, <2>3, <2>4
<1> QED
  BY <1>1, <1>2

\* Between two runs of Reconcile nothing is held in memory.
LEMMA ReturnTyped ==
  ASSUME TypeOK, NEW e \in BOOLEAN, NEW r \in BOOLEAN, Return(e, r),
         UNCHANGED <<thist, tcache, icache, live, edits>>, errors' \in 0..MaxErrors,
         ihist' \in Seq(Instance \cup {Absent}), Inst' \in Instance, Len(ihist) <= Len(ihist')
  PROVE  TypeOK'
<1>1. /\ rpc' = "idle" /\ queued' \in BOOLEAN /\ timer' \in BOOLEAN
      /\ copy' = 1 /\ status' \in Status /\ old' \in Manifests /\ target' \in Manifests
      /\ todo' \subseteq Objs /\ failed' \in BOOLEAN
  BY ManifestsTyped DEF Return, TypeOK
<1>2. 1 \in 1..Len(ihist') /\ icache \in 1..Len(ihist')
  BY DEF TypeOK
<1> QED
  BY <1>1, <1>2 DEF TypeOK, Inst

\* What the controller's steps that neither store nor render leave typed.
LEMMA StepTyped ==
  ASSUME TypeOK, UNCHANGED <<thist, ihist, tcache, icache, edits>>,
         live' \in Manifests, queued' \in BOOLEAN, timer' \in BOOLEAN,
         rpc' \in {"visit", "prune", "record", "fail"}, rpc # "idle",
         UNCHANGED <<copy, status, old, target>>,
         todo' \subseteq Objs, failed' \in BOOLEAN,
         errors' \in 0..MaxErrors
  PROVE  TypeOK'
BY DEF TypeOK

\* The object's content is a content, or it is absent.
LEMMA LiveTyped ==
  ASSUME TypeOK, NEW o \in Objs
  PROVE  /\ [live EXCEPT ![o] = Absent] \in Manifests
         /\ [live EXCEPT ![o] = IF @ = Absent THEN target[o] ELSE @] \in Manifests
         /\ [live EXCEPT ![o] = IF @ = Absent THEN target[o] ELSE Patched(o)] \in Manifests
BY DEF TypeOK, Manifests, Patched

\* A failing call is counted, within the bound.
LEMMA ErrorTyped == TypeOK /\ Error => errors' \in 0..MaxErrors
BY TemplateAssumption DEF TypeOK, Error

\* Every step keeps the types.
LEMMA TypeStep == TypeOK /\ [Next]_vars => TypeOK'
<1> SUFFICES ASSUME TypeOK, [Next]_vars PROVE TypeOK'
  OBVIOUS
<1> USE TemplateAssumption
<1>t. /\ thist \in Seq(Templates \cup {Broken, Absent}) /\ tcache \in 1..Len(thist)
      /\ ihist \in Seq(Instance \cup {Absent}) /\ icache \in 1..Len(ihist) /\ copy \in 1..Len(ihist)
      /\ Inst \in Instance /\ Len(ihist) >= 1
      /\ live \in Manifests /\ status \in Status /\ target \in Manifests /\ old \in Manifests
      /\ todo \subseteq Objs /\ failed \in BOOLEAN /\ queued \in BOOLEAN /\ timer \in BOOLEAN
      /\ edits \in 0..MaxEdits /\ errors \in 0..MaxErrors
  BY DEF TypeOK, Inst
<1>1. CASE Get
  <2>1. CASE Ignored(ihist[icache])
    BY <1>1, <2>1 DEF Get, TypeOK
  <2>2. CASE ~Ignored(ihist[icache])
    <3>1. ihist[icache] \in Instance
      BY <1>t, <2>2 DEF Ignored
    <3>2. ihist[icache].status \in Status
      BY <3>1 DEF Instance
    <3> QED
      BY <1>1, <2>2, <3>1, <3>2 DEF Get, TypeOK
  <2> QED
    BY <2>1, <2>2
<1>2. CASE GetTemplate
  <2> DEFINE t == thist[tcache]
  <2>1. CASE Goto("fail") /\ UNCHANGED deployVars
    BY <1>2, <2>1 DEF GetTemplate, Goto, deployVars, TypeOK
  <2>2. CASE Return(FALSE, FALSE)
    <3>1. UNCHANGED <<thist, ihist, tcache, icache, live, edits, errors>>
      BY <1>2 DEF GetTemplate
    <3>2. /\ ihist' \in Seq(Instance \cup {Absent}) /\ Inst' \in Instance /\ Len(ihist) <= Len(ihist')
          /\ errors' \in 0..MaxErrors
      BY <1>t, <3>1 DEF Inst
    <3>3. FALSE \in BOOLEAN
      OBVIOUS
    <3> QED
      BY <2>2, <3>1, <3>2, <3>3, ReturnTyped
  <2>3. CASE /\ Renders(t)
             /\ status' = [status EXCEPT !.status = "Deployed", !.template = tcache]
             /\ old' = status.manifests
             /\ target' = t
             /\ IF t = status.manifests
                  THEN Goto("record") /\ todo' = {}
                  ELSE Goto("visit") /\ todo' = {o \in Objs : t[o] # Absent}
             /\ UNCHANGED <<copy, failed>>
    <3>1. status' \in Status
      <4>1. tcache \in Nat
        BY <1>t
      <4> QED
        BY <1>t, <2>3, <4>1 DEF Status
    <3>2. old' \in Manifests
      BY <1>t, <2>3 DEF Status
    <3>3. target' \in Manifests
      BY <2>3, ManifestsTyped DEF Renders
    <3>4. todo' \subseteq Objs /\ rpc' \in {"record", "visit"} /\ queued' = queued /\ timer' = timer
      BY <2>3 DEF Goto
    <3> QED
      BY <1>2, <2>3, <3>1, <3>2, <3>3, <3>4 DEF GetTemplate, TypeOK
  <2> QED
    BY <1>2, <2>1, <2>2, <2>3 DEF GetTemplate
<1>3. ASSUME NEW o \in Objs, Visit(o) PROVE TypeOK'
  BY <1>3, <1>t, StepTyped, LiveTyped DEF Visit
<1>4. ASSUME NEW o \in Objs, VisitUpdateFails(o) PROVE TypeOK'
  BY <1>4, <1>t, StepTyped, ErrorTyped DEF VisitUpdateFails
<1>5. ASSUME NEW o \in Objs, VisitFails(o) PROVE TypeOK'
  <2>1. live' \in Manifests
    BY <1>5, <1>t, LiveTyped DEF VisitFails
  <2> QED
    BY <1>5, <1>t, <2>1, StepTyped, ErrorTyped DEF VisitFails, Goto, deployVars
<1>6. ASSUME NEW o \in Objs, Prune(o) PROVE TypeOK'
  BY <1>6, <1>t, StepTyped, LiveTyped DEF Prune
<1>7. ASSUME NEW o \in Objs, PruneFails(o) PROVE TypeOK'
  <2>1. live' \in Manifests
    BY <1>7, <1>t, LiveTyped DEF PruneFails
  <2> QED
    BY <1>7, <1>t, <2>1, StepTyped, ErrorTyped DEF PruneFails, Goto, deployVars
<1>8. CASE Visited
  <2>1. rpc' \in {"fail", "prune"} /\ todo' \subseteq Objs /\ queued' = queued /\ timer' = timer /\ rpc # "idle"
    BY <1>8, <1>t DEF Visited, Goto
  <2> QED
    BY <1>8, <1>t, <2>1, StepTyped DEF Visited
<1>9. CASE Pruned
  BY <1>9, <1>t, StepTyped DEF Pruned, Goto, deployVars
<1>10. CASE Record
  <2> DEFINE recorded == [status EXCEPT !.manifests = target]
  <2>1. recorded \in Status
    BY <1>t DEF Status
  <2>2. rpc = "record" /\ UNCHANGED <<thist, tcache, icache, live, edits>>
    BY <1>10 DEF Record
  <2>3. CASE Stored(recorded) /\ copy = Len(ihist) /\ Return(FALSE, FALSE) /\ UNCHANGED errors
    <3>1. /\ ihist' \in Seq(Instance \cup {Absent}) /\ Inst' \in Instance /\ Len(ihist) <= Len(ihist')
          /\ \A i \in 1..Len(ihist) : ihist'[i] = ihist[i]
      BY <1>t, <2>1, <2>3, StoredTyped
    <3> QED
      BY <1>t, <2>2, <2>3, <3>1, ReturnTyped
  <2>4. CASE /\ Stored(recorded) /\ copy = Len(ihist) /\ Error /\ Goto("fail")
             /\ copy' = Len(ihist') /\ status' = recorded
             /\ UNCHANGED <<old, target, todo, failed>>
    <3>1. /\ ihist' \in Seq(Instance \cup {Absent}) /\ Inst' \in Instance /\ Len(ihist) <= Len(ihist')
      BY <1>t, <2>1, <2>4, StoredTyped
    <3> HIDE DEF recorded
    <3> QED
      BY <1>t, <2>1, <2>2, <2>4, <3>1, ErrorTyped DEF TypeOK, Inst, Goto
  <2>5. CASE /\ IF copy = Len(ihist) THEN Error ELSE UNCHANGED errors
             /\ Goto("fail") /\ status' = recorded
             /\ UNCHANGED <<ihist, copy, old, target, todo, failed>>
    <3>1. errors' \in 0..MaxErrors
      BY <1>t, <2>5, ErrorTyped
    <3> HIDE DEF recorded
    <3> QED
      BY <1>t, <2>1, <2>2, <2>5, <3>1 DEF TypeOK, Inst, Goto
  <2> QED
    BY <1>10, <2>3, <2>4, <2>5 DEF Record
<1>11. CASE SetFailed
  <2> DEFINE s == [status EXCEPT !.status = "Failed"]
  <2>1. s \in Status
    BY <1>t DEF Status
  <2>2. UNCHANGED <<thist, tcache, icache, live, edits>>
    BY <1>11 DEF SetFailed
  <2>3. (Return(FALSE, TRUE) \/ Return(TRUE, FALSE)) /\ (Stored(s) \/ ihist' = ihist)
    BY <1>11 DEF SetFailed
  <2>4. errors' \in 0..MaxErrors
    BY <1>11, <1>t, ErrorTyped DEF SetFailed
  <2>5. /\ ihist' \in Seq(Instance \cup {Absent}) /\ Inst' \in Instance /\ Len(ihist) <= Len(ihist')
    BY <1>t, <2>1, <2>3, StoredTyped DEF Inst
  <2> HIDE DEF s
  <2> QED
    BY <1>t, <2>2, <2>3, <2>4, <2>5, ReturnTyped
<1>12. CASE InstanceEvent
  BY <1>12 DEF InstanceEvent, TypeOK, deployVars
<1>13. CASE TemplateEvent
  <2>1. queued' \in BOOLEAN
    <3>1. CASE MapTemplateInstances
      BY <1>13, <3>1 DEF TemplateEvent
    <3>2. CASE ~MapTemplateInstances
      BY <1>13, <1>t, <3>2 DEF TemplateEvent
    <3> QED
      BY <3>1, <3>2
  <2> QED
    BY <1>13, <2>1 DEF TemplateEvent, TypeOK, deployVars
<1>14. CASE TimerFires
  BY <1>14 DEF TimerFires, TypeOK, deployVars
<1>15. ASSUME NEW t \in Templates \cup {Broken, Absent}, EditTemplate(t) PROVE TypeOK'
  <2>1. thist' \in Seq(Templates \cup {Broken, Absent}) /\ tcache' \in 1..Len(thist')
    BY <1>15, <1>t DEF EditTemplate
  <2>2. edits' \in 0..MaxEdits
    BY <1>15, <1>t DEF EditTemplate
  <2> QED
    BY <1>15, <2>1, <2>2 DEF EditTemplate, TypeOK, deployVars
<1>16. CASE EditSync
  <2> DEFINE i == [Inst EXCEPT !.sync = ~@]
  <2>1. i \in Instance
    BY <1>t DEF Instance
  <2>2. ihist' = Append(ihist, i) /\ edits' \in 0..MaxEdits
    BY <1>16, <1>t DEF EditSync
  <2> HIDE DEF i
  <2>3. /\ ihist' \in Seq(Instance \cup {Absent}) /\ Len(ihist') = Len(ihist) + 1
        /\ ihist'[Len(ihist')] \in Instance
        /\ \A j \in 1..Len(ihist) : ihist'[j] = ihist[j]
    BY <1>t, <2>1, <2>2, AppendInstance
  <2> QED
    BY <1>16, <1>t, <2>2, <2>3 DEF EditSync, TypeOK, deployVars
<1>17. CASE UNCHANGED vars
  BY <1>17 DEF vars, deployVars, TypeOK
<1> QED
  BY <1>1, <1>2, <1>3, <1>4, <1>5, <1>6, <1>7, <1>8, <1>9, <1>10, <1>11, <1>12, <1>13, <1>14, <1>15, <1>16, <1>17
  DEF Next, Reconcile, Rest

\* At the start the instance is new and nothing has been applied.
LEMMA InitTyped == Init => TypeOK
<1> SUFFICES ASSUME Init PROVE TypeOK
  OBVIOUS
<1>1. PICK s \in BOOLEAN : ihist = <<Absent, [sync |-> s, status |-> PendingStatus]>>
  BY DEF Init
<1>2. [sync |-> s, status |-> PendingStatus] \in Instance
  BY ManifestsTyped DEF Instance
<1>3. ihist \in Seq(Instance \cup {Absent}) /\ Len(ihist) = 2 /\ ihist[2] \in Instance
  BY <1>1, <1>2
<1>4. thist \in Seq(Templates \cup {Broken, Absent}) /\ Len(thist) = 1
  BY DEF Init
<1>5. /\ tcache = 1 /\ icache = 1 /\ live = Nothing /\ queued = FALSE /\ timer = FALSE /\ rpc = "idle"
      /\ copy = 1 /\ status = PendingStatus /\ old = Nothing /\ target = Nothing
      /\ todo = {} /\ failed = FALSE /\ edits = 0 /\ errors = 0
  BY DEF Init
<1>6. live \in Manifests /\ status \in Status /\ old \in Manifests /\ target \in Manifests
  BY <1>5, ManifestsTyped
<1>7. edits \in 0..MaxEdits /\ errors \in 0..MaxErrors
  BY <1>5, TemplateAssumption
<1>8. tcache \in 1..Len(thist) /\ icache \in 1..Len(ihist) /\ copy \in 1..Len(ihist)
  BY <1>3, <1>4, <1>5
<1>9. ihist[Len(ihist)] \in Instance
  BY <1>3
<1> QED
  BY <1>3, <1>4, <1>5, <1>6, <1>7, <1>8, <1>9 DEF TypeOK

\* The controller, the stored versions and the cluster keep their types.
THEOREM DeploymentTyped == Spec => []TypeOK
BY InitTyped, TypeStep, PTL DEF Spec

-----------------------------------------------------------------------------
(* The deployment.                                                         *)

\* Nothing has been promised while Reconcile does not run.
LEMMA IdleDeploys == rpc = "idle" => DeployInv
BY DEF DeployInv, Reading, Applying, Visiting, Pruning, Recording, Failing

\* A status that keeps its manifests keeps Failing true.
LEMMA FailsUnchanged ==
  ASSUME TypeOK, rpc' = "fail", UNCHANGED <<ihist, copy>>,
         status'.manifests = ihist[copy].status.manifests
  PROVE  DeployInv'
<1>1. copy = Len(ihist) => status'.manifests = Inst'.status.manifests
  BY DEF Inst
<1> QED
  BY <1>1 DEF DeployInv, Reading, Applying, Visiting, Pruning, Recording, Failing

\* What does not touch a run of Reconcile, the copy it works on included.
LEMMA AsideDeploys ==
  ASSUME TypeOK, DeployInv, UNCHANGED <<live, rpc, deployVars>>,
         Len(ihist) <= Len(ihist'), copy = Len(ihist') => ihist' = ihist,
         ihist'[copy] = ihist[copy]
  PROVE  DeployInv'
<1>1. Reading' /\ Applying'
  BY DEF DeployInv, Reading, Applying, deployVars
<1>2. Visiting' /\ Pruning' /\ Recording'
  BY DEF DeployInv, Visiting, Pruning, Recording, AsRendered, Dropped, AppliedAs, deployVars
<1>3. Failing'
  BY DEF DeployInv, Failing, Inst, AppliedAs, deployVars
<1> QED
  BY <1>1, <1>2, <1>3 DEF DeployInv

\* Every step keeps what Reconcile knows: an object visited stays as rendered,
\* one pruned stays absent, and a step that gives up leaves the record alone.
LEMMA DeployStep == TypeOK /\ DeployInv /\ [Next]_vars => DeployInv'
<1> SUFFICES ASSUME TypeOK, DeployInv, [Next]_vars PROVE DeployInv'
  OBVIOUS
<1>t. /\ ihist \in Seq(Instance \cup {Absent}) /\ copy \in 1..Len(ihist)
      /\ Inst \in Instance /\ Len(ihist) >= 1
      /\ live \in Manifests /\ status \in Status /\ target \in Manifests /\ old \in Manifests
      /\ todo \subseteq Objs
  BY DEF TypeOK, Inst
<1>1. CASE Get
  <2>1. CASE Ignored(ihist[icache])
    BY <1>1, <2>1, IdleDeploys DEF Get, DeployInv, Reading, Applying, Visiting, Pruning, Recording, Failing
  <2>2. CASE ~Ignored(ihist[icache])
    BY <1>1, <2>2 DEF Get, DeployInv, Reading, Applying, Visiting, Pruning, Recording, Failing
  <2> QED
    BY <2>1, <2>2
<1>2. CASE GetTemplate
  <2> DEFINE t == thist[tcache]
  <2>0. rpc = "template" /\ status = ihist[copy].status /\ UNCHANGED <<ihist, live>>
    BY <1>2 DEF GetTemplate, DeployInv, Reading
  <2>1. CASE Goto("fail") /\ UNCHANGED deployVars
    BY <2>0, <2>1, FailsUnchanged DEF Goto, deployVars
  <2>2. CASE Return(FALSE, FALSE)
    BY <2>2 DEF Return, DeployInv, Reading, Applying, Visiting, Pruning, Recording, Failing
  <2>3. CASE /\ Renders(t)
             /\ status' = [status EXCEPT !.status = "Deployed", !.template = tcache]
             /\ old' = status.manifests
             /\ target' = t
             /\ IF t = status.manifests
                  THEN Goto("record") /\ todo' = {}
                  ELSE Goto("visit") /\ todo' = {o \in Objs : t[o] # Absent}
             /\ UNCHANGED <<copy, failed>>
    <3>1. status'.manifests = status.manifests
      BY <1>t, <2>3 DEF Status
    <3>2. Applying'
      BY <2>0, <2>3, <3>1 DEF Applying
    <3>3. rpc' \in {"record", "visit"} /\ (rpc' = "record" => target' = old')
      BY <2>3 DEF Goto
    <3>4. Visiting'
      BY <2>3 DEF Visiting, Goto, AsRendered
    <3> QED
      BY <3>2, <3>3, <3>4 DEF DeployInv, Reading, Pruning, Recording, Failing
  <2> QED
    BY <1>2, <2>1, <2>2, <2>3 DEF GetTemplate
<1>3. ASSUME NEW o \in Objs, Visit(o) PROVE DeployInv'
  <2>1. /\ rpc = "visit" /\ o \in todo /\ todo' = todo \ {o}
        /\ live' = [live EXCEPT ![o] = IF @ = Absent THEN target[o] ELSE Patched(o)]
        /\ UNCHANGED <<ihist, rpc, copy, status, old, target, failed>>
    BY <1>3 DEF Visit
  <2>2. /\ old = ihist[copy].status.manifests /\ status.manifests = old
        /\ \A p \in todo : target[p] # Absent
        /\ ~failed => \A p \in Objs \ todo : AsRendered(p)
    BY <2>1 DEF DeployInv, Applying, Visiting
  <2>3. \A p \in Objs \ {o} : live'[p] = live[p]
    BY <1>t, <2>1 DEF Manifests
  <2>4. AsRendered(o)'
    BY <1>t, <2>1 DEF Manifests, AsRendered, Patched
  <2>5. Visiting' /\ Applying'
    BY <2>1, <2>2, <2>3, <2>4 DEF Visiting, Applying, AsRendered
  <2> QED
    BY <2>1, <2>5 DEF DeployInv, Reading, Pruning, Recording, Failing
<1>4. ASSUME NEW o \in Objs, VisitUpdateFails(o) PROVE DeployInv'
  BY <1>4 DEF VisitUpdateFails, DeployInv, Reading, Applying, Visiting, Pruning, Recording, Failing
<1>5. ASSUME NEW o \in Objs, VisitFails(o) PROVE DeployInv'
  <2>1. rpc = "visit" /\ rpc' = "fail" /\ UNCHANGED <<ihist, copy, status>>
    BY <1>5 DEF VisitFails, Goto, deployVars
  <2> QED
    BY <2>1, FailsUnchanged DEF DeployInv, Applying
<1>6. ASSUME NEW o \in Objs, Prune(o) PROVE DeployInv'
  <2>1. /\ rpc = "prune" /\ o \in todo /\ todo' = todo \ {o}
        /\ live' = [live EXCEPT ![o] = Absent]
        /\ UNCHANGED <<ihist, rpc, copy, status, old, target, failed>>
    BY <1>6 DEF Prune
  <2>2. /\ old = ihist[copy].status.manifests /\ status.manifests = old
        /\ \A p \in todo : target[p] = Absent
        /\ \A p \in Objs : AsRendered(p)
        /\ \A p \in Objs \ todo : Dropped(p) => live[p] = Absent
    BY <2>1 DEF DeployInv, Applying, Pruning
  <2>3. live'[o] = Absent /\ \A p \in Objs \ {o} : live'[p] = live[p]
    BY <1>t, <2>1 DEF Manifests
  <2>4. Pruning' /\ Applying'
    BY <2>1, <2>2, <2>3 DEF Pruning, Applying, AsRendered, Dropped
  <2> QED
    BY <2>1, <2>4 DEF DeployInv, Reading, Visiting, Recording, Failing
<1>7. ASSUME NEW o \in Objs, PruneFails(o) PROVE DeployInv'
  <2>1. rpc = "prune" /\ rpc' = "fail" /\ UNCHANGED <<ihist, copy, status>>
    BY <1>7 DEF PruneFails, Goto, deployVars
  <2> QED
    BY <2>1, FailsUnchanged DEF DeployInv, Applying
<1>8. CASE Visited
  <2>1. rpc = "visit" /\ todo = {} /\ UNCHANGED <<ihist, live, copy, status, old, target, failed>>
    BY <1>8 DEF Visited
  <2>2. old = ihist[copy].status.manifests /\ status.manifests = old
    BY <2>1 DEF DeployInv, Applying
  <2>3. CASE failed
    <3>1. rpc' = "fail"
      BY <1>8, <2>3 DEF Visited, Goto
    <3> QED
      BY <2>1, <2>2, <3>1, FailsUnchanged
  <2>4. CASE ~failed
    <3>1. rpc' = "prune" /\ todo' = {o \in Objs \ Kept : old[o] # Absent /\ target[o] = Absent}
      BY <1>8, <2>4 DEF Visited, Goto
    <3>2. \A o \in Objs : AsRendered(o)
      BY <2>1, <2>4 DEF DeployInv, Visiting
    <3>3. Pruning'
      BY <2>1, <3>1, <3>2 DEF Pruning, AsRendered, Dropped
    <3> QED
      BY <2>1, <2>2, <3>1, <3>3 DEF DeployInv, Reading, Applying, Visiting, Recording, Failing
  <2> QED
    BY <2>3, <2>4
<1>9. CASE Pruned
  <2>1. rpc = "prune" /\ todo = {} /\ rpc' = "record" /\ UNCHANGED <<ihist, live, copy, status, old, target>>
    BY <1>9 DEF Pruned, Goto, deployVars
  <2>2. AppliedAs(old, target)
    BY <2>1 DEF DeployInv, Pruning, AsRendered, Dropped, AppliedAs
  <2>3. Recording'
    BY <2>1, <2>2 DEF Recording, AppliedAs
  <2> QED
    BY <2>1, <2>3 DEF DeployInv, Reading, Applying, Visiting, Pruning, Failing
<1>10. CASE Record
  <2> DEFINE recorded == [status EXCEPT !.manifests = target]
  <2>1. recorded \in Status /\ recorded.manifests = target
    BY <1>t DEF Status
  <2>2. /\ rpc = "record" /\ live' = live
        /\ old = ihist[copy].status.manifests
        /\ target = old \/ AppliedAs(old, target)
    BY <1>10 DEF Record, DeployInv, Applying, Recording
  <2>3. CASE Return(FALSE, FALSE)
    BY <2>3 DEF Return, DeployInv, Reading, Applying, Visiting, Pruning, Recording, Failing
  <2>4. CASE /\ Stored(recorded) /\ Goto("fail") /\ status' = recorded
    <3>1. Inst'.status = recorded
      BY <1>t, <2>1, <2>4, StoredTyped
    <3> QED
      BY <2>4, <3>1 DEF Goto, DeployInv, Reading, Applying, Visiting, Pruning, Recording, Failing
  <2>5. CASE Goto("fail") /\ status' = recorded /\ UNCHANGED <<ihist, copy, old, target, todo, failed>>
    <3>1. copy = Len(ihist) => Inst'.status.manifests = old
      BY <2>2, <2>5 DEF Inst
    <3>2. AppliedAs(old, target) => AppliedAs(old, target)'
      BY <2>2, <2>5 DEF AppliedAs
    <3>3. Failing'
      BY <2>1, <2>2, <2>5, <3>1, <3>2 DEF Failing
    <3> QED
      BY <2>5, <3>3 DEF Goto, DeployInv, Reading, Applying, Visiting, Pruning, Recording
  <2> QED
    BY <1>10, <2>3, <2>4, <2>5 DEF Record
<1>11. CASE SetFailed
  <2>1. rpc' = "idle"
    BY <1>11 DEF SetFailed, Return
  <2> QED
    BY <2>1 DEF DeployInv, Reading, Applying, Visiting, Pruning, Recording, Failing
<1>12. CASE InstanceEvent \/ TemplateEvent \/ TimerFires \/ UNCHANGED vars
  <2>1. UNCHANGED <<ihist, live, rpc, deployVars>>
    BY <1>12 DEF InstanceEvent, TemplateEvent, TimerFires, vars
  <2> QED
    BY <1>t, <2>1, AsideDeploys
<1>13. ASSUME NEW t \in Templates \cup {Broken, Absent}, EditTemplate(t) PROVE DeployInv'
  <2>1. UNCHANGED <<ihist, live, rpc, deployVars>>
    BY <1>13 DEF EditTemplate
  <2> QED
    BY <1>t, <2>1, AsideDeploys
<1>14. CASE EditSync
  <2> DEFINE i == [Inst EXCEPT !.sync = ~@]
  <2>1. i \in Instance
    BY <1>t DEF Instance
  <2>2. ihist' = Append(ihist, i) /\ UNCHANGED <<live, rpc, deployVars>>
    BY <1>14 DEF EditSync
  <2> HIDE DEF i
  <2>3. Len(ihist') = Len(ihist) + 1 /\ ihist'[copy] = ihist[copy]
    BY <1>t, <2>1, <2>2, AppendInstance
  <2> QED
    BY <1>t, <2>2, <2>3, AsideDeploys
<1> QED
  BY <1>1, <1>2, <1>3, <1>4, <1>5, <1>6, <1>7, <1>8, <1>9, <1>10, <1>11, <1>12, <1>13, <1>14
  DEF Next, Reconcile, Rest

\* Only Record and SetFailed change the manifests of the instance stored last,
\* and both find them applied.
LEMMA ApplyStep ==
  ASSUME TypeOK, DeployInv, [Next]_vars, Inst'.status.manifests # Inst.status.manifests
  PROVE  AppliedAs(Inst.status.manifests, Inst'.status.manifests)
<1>t. /\ ihist \in Seq(Instance \cup {Absent}) /\ copy \in 1..Len(ihist)
      /\ Inst \in Instance /\ Len(ihist) >= 1 /\ status \in Status /\ target \in Manifests
  BY DEF TypeOK, Inst
<1>1. ihist' # ihist
  BY DEF Inst
<1>2. CASE Record
  <2> DEFINE recorded == [status EXCEPT !.manifests = target]
  <2>1. recorded \in Status /\ recorded.manifests = target
    BY <1>t DEF Status
  <2>2. Stored(recorded) /\ rpc = "record" /\ copy = Len(ihist)
    BY <1>1, <1>2 DEF Record
  <2>3. Inst'.status = recorded
    BY <1>t, <2>1, <2>2, StoredTyped
  <2>4. Inst.status.manifests = old /\ (target = old \/ AppliedAs(old, target))
    BY <2>2 DEF DeployInv, Applying, Recording, Inst
  <2> QED
    BY <2>1, <2>3, <2>4
<1>3. CASE SetFailed
  <2> DEFINE s == [status EXCEPT !.status = "Failed"]
  <2>1. s \in Status /\ s.manifests = status.manifests
    BY <1>t DEF Status
  <2>2. Stored(s) /\ rpc = "fail" /\ copy = Len(ihist)
    BY <1>1, <1>3 DEF SetFailed
  <2>3. Inst'.status = s
    BY <1>t, <2>1, <2>2, StoredTyped
  <2> QED
    BY <2>1, <2>2, <2>3 DEF DeployInv, Failing
<1>4. CASE EditSync
  <2> DEFINE i == [Inst EXCEPT !.sync = ~@]
  <2>1. i \in Instance /\ i.status = Inst.status
    BY <1>t DEF Instance
  <2>2. ihist' = Append(ihist, i)
    BY <1>4 DEF EditSync
  <2> HIDE DEF i
  <2>3. Inst' = i
    BY <1>t, <2>1, <2>2, AppendInstance DEF Inst
  <2> QED
    BY <2>1, <2>3
<1> QED
  <2>1. CASE \E o \in Objs : Visit(o) \/ VisitUpdateFails(o) \/ VisitFails(o) \/ Prune(o) \/ PruneFails(o)
    BY <1>1, <2>1 DEF Visit, VisitUpdateFails, VisitFails, Prune, PruneFails
  <2>2. CASE Get \/ GetTemplate \/ Visited \/ Pruned
    BY <1>1, <2>2 DEF Get, GetTemplate, Visited, Pruned
  <2>3. CASE InstanceEvent \/ TemplateEvent \/ TimerFires \/ UNCHANGED vars
    BY <1>1, <2>3 DEF InstanceEvent, TemplateEvent, TimerFires, vars
  <2>4. CASE \E t \in Templates \cup {Broken, Absent} : EditTemplate(t)
    BY <1>1, <2>4 DEF EditTemplate
  <2> QED
    BY <1>2, <1>3, <1>4, <2>1, <2>2, <2>3, <2>4 DEF Next, Reconcile, Rest

\* The manifests an instance records are what has been applied, whichever of
\* the calls of a deployment fail and whatever is stored in between.
THEOREM RecordsWhatItApplied == Spec => RecordedIsApplied
<1>1. Init => TypeOK /\ DeployInv
  BY InitTyped, IdleDeploys DEF Init
<1>2. TypeOK /\ DeployInv /\ [Next]_vars
        => [Inst'.status.manifests # Inst.status.manifests
              => AppliedAs(Inst.status.manifests, Inst'.status.manifests)]_vars
  BY ApplyStep
<1> QED
  BY <1>1, <1>2, TypeStep, DeployStep, PTL DEF Spec, RecordedIsApplied

=============================================================================
