------------------------ MODULE QuotaEvaluatorProofs ------------------------
(***************************************************************************)
(* The batching of the quota evaluator, for every set of namespaces,       *)
(* requests and workers.                                                   *)
(***************************************************************************)
EXTENDS QuotaEvaluator, TLAPS

USE EvaluatorAssumption DEF EvaluatorAssumption

-----------------------------------------------------------------------------
(* The inductive invariant.                                                *)

\* The workqueue hands out a namespace only when nobody is processing it.
QueueInv ==
  /\ \A i \in 1..Len(queue) : queue[i] \in dirty /\ queue[i] \notin processing
  /\ \A i, j \in 1..Len(queue) : queue[i] = queue[j] => i = j

\* A worker owns its namespace in the workqueue from Get to Done, and in
\* inProgress from the end of getWork to the end of completeWork.
OwnsQueue ==
  \A k \in Workers : wpc[k] \in {"got", "check", "done"} => wns[k] \in processing

OwnsInProgress ==
  \A k \in Workers : wpc[k] \in {"check", "done", "swap"} => wns[k] \in inProgress

OneOwner ==
  \A k1, k2 \in Workers :
    /\ wns[k1] = wns[k2]
    /\ \/ wpc[k1] \in {"got", "check", "done"} /\ wpc[k2] \in {"got", "check", "done"}
       \/ wpc[k1] \in {"check", "done", "swap"} /\ wpc[k2] \in {"check", "done", "swap"}
    => k1 = k2

InProgressOwned ==
  \A ns \in inProgress :
    \E k \in Workers : wns[k] = ns /\ wpc[k] \in {"check", "done", "swap"}

OwnInv == OwnsQueue /\ OwnsInProgress /\ OneOwner /\ InProgressOwned

\* A caller between the halves of addWork has made its namespace awaited.
AddingInv == \A w \in Waiters : epc[w] = "adding" => Awaited(NsOf[w])

IInv == TypeOK /\ QueueInv /\ OwnInv /\ AddingInv /\ NoLostWakeup

-----------------------------------------------------------------------------
(* TypeOK: getWork, completeWork, addWork and Evaluate keep every variable *)
(* in its set.                                                             *)
THEOREM TypeCorrect == Spec => []TypeOK
<1>1. Init => TypeOK
  BY DEF Init, TypeOK, WorkerPC, EvaluatePC
<1>2. TypeOK /\ [Next]_vars => TypeOK'
  <2> SUFFICES ASSUME TypeOK, [Next]_vars PROVE TypeOK'
    OBVIOUS
  <2> USE DEF TypeOK, WorkerPC, EvaluatePC, queueVars, workVars, workerVars, waiterVars
  <2>1. ASSUME NEW w \in Waiters, EvaluateUntracked(w) PROVE TypeOK'
    BY <2>1 DEF EvaluateUntracked
  <2>2. ASSUME NEW w \in Waiters, AddWorkQueue(w) PROVE TypeOK'
    BY <2>2 DEF AddWorkQueue, QueueAdd
  <2>3. ASSUME NEW w \in Waiters, AddWorkFile(w) PROVE TypeOK'
    <3>1. NsOf[w] \in Namespaces
      OBVIOUS
    <3>2. \A f \in [Namespaces -> Seq(Waiters)] :
            [f EXCEPT ![NsOf[w]] = Append(@, w)] \in [Namespaces -> Seq(Waiters)]
      <4> SUFFICES ASSUME NEW f \in [Namespaces -> Seq(Waiters)]
                   PROVE  [f EXCEPT ![NsOf[w]] = Append(@, w)] \in [Namespaces -> Seq(Waiters)]
        OBVIOUS
      <4>1. Append(f[NsOf[w]], w) \in Seq(Waiters)
        BY <3>1
      <4> QED
        BY <4>1
    <3>3. /\ work' \in {work, [work EXCEPT ![NsOf[w]] = Append(@, w)]}
          /\ dirtyWork' \in {dirtyWork, [dirtyWork EXCEPT ![NsOf[w]] = Append(@, w)]}
      BY <2>3 DEF AddWorkFile
    <3>4. work' \in [Namespaces -> Seq(Waiters)] /\ dirtyWork' \in [Namespaces -> Seq(Waiters)]
      <4>1. work \in [Namespaces -> Seq(Waiters)] /\ dirtyWork \in [Namespaces -> Seq(Waiters)]
        OBVIOUS
      <4>2. /\ [work EXCEPT ![NsOf[w]] = Append(@, w)] \in [Namespaces -> Seq(Waiters)]
            /\ [dirtyWork EXCEPT ![NsOf[w]] = Append(@, w)] \in [Namespaces -> Seq(Waiters)]
        BY <3>2, <4>1, Zenon
      <4> QED
        BY <3>3, <4>1, <4>2, Zenon
    <3>5. /\ epc' = [epc EXCEPT ![w] = "waiting"]
          /\ UNCHANGED <<inProgress, finished, queueVars, workerVars>>
      BY <2>3 DEF AddWorkFile
    <3> QED
      BY <3>4, <3>5
  <2>4. ASSUME NEW w \in Waiters, EvaluateReturn(w) PROVE TypeOK'
    BY <2>4 DEF EvaluateReturn
  <2>5. ASSUME NEW w \in Waiters, EvaluateTimeout(w) PROVE TypeOK'
    BY <2>5 DEF EvaluateTimeout
  <2>6. ASSUME NEW k \in Workers, GetWorkPop(k) PROVE TypeOK'
    BY <2>6 DEF GetWorkPop, QueueGet
  <2>7. ASSUME NEW k \in Workers, GetWorkTake(k) PROVE TypeOK'
    BY <2>7 DEF GetWorkTake
  <2>8. ASSUME NEW k \in Workers, DoWorkEmpty(k) PROVE TypeOK'
    BY <2>8 DEF DoWorkEmpty
  <2>9. ASSUME NEW k \in Workers, CheckAttributes(k) PROVE TypeOK'
    BY <2>9 DEF CheckAttributes, Range
  <2>10. ASSUME NEW k \in Workers, CompleteWorkDone(k) PROVE TypeOK'
    BY <2>10 DEF CompleteWorkDone, QueueDone
  <2>11. ASSUME NEW k \in Workers, CompleteWorkSwap(k) PROVE TypeOK'
    BY <2>11 DEF CompleteWorkSwap
  <2>12. CASE UNCHANGED vars
    BY <2>12 DEF vars
  <2>13. QED
    BY <2>1, <2>2, <2>3, <2>4, <2>5, <2>6, <2>7, <2>8, <2>9, <2>10, <2>11, <2>12
    DEF Next, Caller, Worker, Quiescent
<1>3. QED
  BY <1>1, <1>2, PTL DEF Spec

-----------------------------------------------------------------------------
(* The workqueue half of the invariant: no namespace is queued twice or    *)
(* while it is processed, and one owner per namespace.                     *)

\* The elements of a sequence after queue.Add and queue.Done append to it.
LEMMA AppendElements ==
  ASSUME NEW S, NEW s \in Seq(S), NEW e \in S
  PROVE  /\ Len(Append(s, e)) = Len(s) + 1
         /\ \A i \in 1..Len(s) : Append(s, e)[i] = s[i]
         /\ Append(s, e)[Len(s) + 1] = e
         /\ Len(s) \in Nat
OBVIOUS

\* The elements of a sequence after queue.Get pops its head.
LEMMA TailElements ==
  ASSUME NEW S, NEW s \in Seq(S), s # <<>>
  PROVE  /\ Len(s) \in Nat /\ Len(s) >= 1
         /\ Head(s) = s[1] /\ Head(s) \in S
         /\ Len(Tail(s)) = Len(s) - 1
         /\ \A i \in 1..Len(Tail(s)) : Tail(s)[i] = s[i + 1]
OBVIOUS

\* Appending a namespace that is awaited but not processed keeps QueueInv.
LEMMA QueueAppend ==
  ASSUME queue \in Seq(Namespaces), QueueInv, NEW ns \in Namespaces,
         queue' = Append(queue, ns), ns \in dirty', ns \notin processing',
         \A i \in 1..Len(queue) :
            queue[i] # ns /\ queue[i] \in dirty' /\ queue[i] \notin processing'
  PROVE  QueueInv'
<1>1. /\ Len(queue') = Len(queue) + 1 /\ Len(queue) \in Nat
      /\ \A i \in 1..Len(queue) : queue'[i] = queue[i]
      /\ queue'[Len(queue) + 1] = ns
  BY AppendElements
<1>2. \A i \in 1..Len(queue') : i \in 1..Len(queue) \/ i = Len(queue) + 1
  BY <1>1
<1>3. \A i \in 1..Len(queue') : queue'[i] \in dirty' /\ queue'[i] \notin processing'
  BY <1>1, <1>2
<1>4. \A i, j \in 1..Len(queue') : queue'[i] = queue'[j] => i = j
  BY <1>1, <1>2 DEF QueueInv
<1> QED
  BY <1>3, <1>4 DEF QueueInv

\* queue.Add, queue.Get and queue.Done keep a namespace queued at most once,
\* and never while it is processed.
LEMMA QueueStep == IInv /\ [Next]_vars => QueueInv'
<1> SUFFICES ASSUME IInv, [Next]_vars PROVE QueueInv'
  OBVIOUS
<1> USE DEF IInv, TypeOK, QueueInv, queueVars, workVars, workerVars, waiterVars
<1>1. ASSUME NEW w \in Waiters, AddWorkQueue(w) PROVE QueueInv'
  <2>1. NsOf[w] \in Namespaces /\ dirty' = dirty \cup {NsOf[w]} /\ processing' = processing
    BY <1>1 DEF AddWorkQueue, QueueAdd
  <2>2. CASE NsOf[w] \in dirty \cup processing
    BY <1>1, <2>1, <2>2 DEF AddWorkQueue, QueueAdd
  <2>3. CASE NsOf[w] \notin dirty \cup processing
    <3>1. queue' = Append(queue, NsOf[w])
      BY <1>1, <2>3 DEF AddWorkQueue, QueueAdd
    <3>2. \A i \in 1..Len(queue) :
            queue[i] # NsOf[w] /\ queue[i] \in dirty' /\ queue[i] \notin processing'
      BY <2>1, <2>3
    <3>3. NsOf[w] \in dirty' /\ NsOf[w] \notin processing'
      BY <2>1, <2>3
    <3> QED
      BY <2>1, <3>1, <3>2, <3>3, QueueAppend
  <2> QED
    BY <2>2, <2>3
<1>2. ASSUME NEW k \in Workers, GetWorkPop(k) PROVE QueueInv'
  <2>1. /\ queue # <<>> /\ queue' = Tail(queue)
        /\ processing' = processing \cup {Head(queue)} /\ dirty' = dirty \ {Head(queue)}
    BY <1>2 DEF GetWorkPop, QueueGet
  <2>2. /\ Len(queue) \in Nat /\ Len(queue) >= 1 /\ Head(queue) = queue[1]
        /\ Len(queue') = Len(queue) - 1
        /\ \A i \in 1..Len(queue') : queue'[i] = queue[i + 1]
    BY <2>1, TailElements
  <2>3. \A i \in 1..Len(queue') : i + 1 \in 1..Len(queue) /\ 1 \in 1..Len(queue) /\ i + 1 # 1
    BY <2>2
  <2>4. \A i \in 1..Len(queue') : queue'[i] # Head(queue)
    BY <2>2, <2>3
  <2>5. \A i \in 1..Len(queue') : queue'[i] \in dirty' /\ queue'[i] \notin processing'
    BY <2>1, <2>2, <2>3, <2>4
  <2>6. \A i, j \in 1..Len(queue') : queue'[i] = queue'[j] => i = j
    <3> SUFFICES ASSUME NEW i \in 1..Len(queue'), NEW j \in 1..Len(queue'),
                        queue'[i] = queue'[j]
                 PROVE  i = j
      OBVIOUS
    <3>1. queue[i + 1] = queue[j + 1]
      BY <2>2
    <3>2. i + 1 \in 1..Len(queue) /\ j + 1 \in 1..Len(queue)
      BY <2>3
    <3>3. i + 1 = j + 1
      BY <3>1, <3>2
    <3> QED
      BY <2>2, <3>3
  <2> QED
    BY <2>5, <2>6
<1>3. ASSUME NEW k \in Workers, CompleteWorkDone(k) PROVE QueueInv'
  <2>1. /\ wns[k] \in Namespaces /\ wns[k] \in processing
        /\ dirty' = dirty /\ processing' = processing \ {wns[k]}
    BY <1>3 DEF CompleteWorkDone, QueueDone, OwnInv, OwnsQueue
  <2>2. CASE wns[k] \notin dirty
    BY <1>3, <2>1, <2>2 DEF CompleteWorkDone, QueueDone
  <2>3. CASE wns[k] \in dirty
    <3>1. queue' = Append(queue, wns[k])
      BY <1>3, <2>3 DEF CompleteWorkDone, QueueDone
    <3>2. \A i \in 1..Len(queue) :
            queue[i] # wns[k] /\ queue[i] \in dirty' /\ queue[i] \notin processing'
      BY <2>1
    <3>3. wns[k] \in dirty' /\ wns[k] \notin processing'
      BY <2>1, <2>3
    <3> QED
      BY <2>1, <3>1, <3>2, <3>3, QueueAppend
  <2> QED
    BY <2>2, <2>3
<1>4. CASE UNCHANGED queueVars
  BY <1>4
<1>5. QED
  BY <1>1, <1>2, <1>3, <1>4
  DEF Next, Caller, Worker, Quiescent, vars, EvaluateUntracked, AddWorkFile,
      EvaluateReturn, EvaluateTimeout, GetWorkTake, DoWorkEmpty,
      CheckAttributes, CompleteWorkSwap

\* A namespace that is processed has one worker: getWork gives it away once
\* and only that worker's completeWork returns it.
LEMMA OwnStep == IInv /\ [Next]_vars => OwnInv'
<1> SUFFICES ASSUME IInv, [Next]_vars PROVE OwnInv'
  OBVIOUS
<1> USE DEF IInv, TypeOK, OwnInv, OwnsQueue, OwnsInProgress, OneOwner,
            InProgressOwned, queueVars, workVars, workerVars, waiterVars
<1>1. ASSUME NEW w \in Waiters, Caller(w) PROVE OwnInv'
  BY <1>1 DEF Caller, EvaluateUntracked, AddWorkQueue, QueueAdd, AddWorkFile,
              EvaluateReturn, EvaluateTimeout
<1>2. ASSUME NEW k \in Workers, GetWorkPop(k) PROVE OwnInv'
  <2>1. PICK ns \in Namespaces : QueueGet(ns) /\ wns' = [wns EXCEPT ![k] = ns]
    BY <1>2 DEF GetWorkPop
  <2>2. ns \notin processing
    <3>1. ns = queue[1] /\ 1 \in 1..Len(queue)
      BY <2>1, TailElements DEF QueueGet
    <3> QED
      BY <3>1 DEF QueueInv
  <2>3. wpc' = [wpc EXCEPT ![k] = "got"] /\ wpc[k] = "get" /\ inProgress' = inProgress
    BY <1>2 DEF GetWorkPop
  <2>4. processing' = processing \cup {ns}
    BY <2>1 DEF QueueGet
  <2>5. \A j \in Workers : wns'[j] = (IF j = k THEN ns ELSE wns[j])
                          /\ wpc'[j] = (IF j = k THEN "got" ELSE wpc[j])
    BY <2>1, <2>3
  <2>6. \A j \in Workers : wpc[j] \in {"got", "check", "done"} => wns[j] # ns
    BY <2>2
  <2>7. OwnsQueue'
    BY <2>4, <2>5
  <2>8. OwnsInProgress'
    BY <2>3, <2>5
  <2>9. OneOwner'
    <3> SUFFICES ASSUME NEW k1 \in Workers, NEW k2 \in Workers, wns'[k1] = wns'[k2],
                        \/ wpc'[k1] \in {"got", "check", "done"} /\ wpc'[k2] \in {"got", "check", "done"}
                        \/ wpc'[k1] \in {"check", "done", "swap"} /\ wpc'[k2] \in {"check", "done", "swap"}
                 PROVE  k1 = k2
      OBVIOUS
    <3>1. CASE k1 # k /\ k2 # k
      BY <2>5, <3>1
    <3>2. CASE k1 = k \/ k2 = k
      BY <2>5, <2>6, <3>2
    <3> QED
      BY <3>1, <3>2
  <2>10. InProgressOwned'
    <3> SUFFICES ASSUME NEW m \in inProgress
                 PROVE  \E j \in Workers : wns'[j] = m /\ wpc'[j] \in {"check", "done", "swap"}
      BY <2>3
    <3>1. PICK j \in Workers : wns[j] = m /\ wpc[j] \in {"check", "done", "swap"}
      OBVIOUS
    <3>2. j # k
      BY <2>3, <3>1
    <3> QED
      BY <2>5, <3>1, <3>2
  <2> QED
    BY <2>7, <2>8, <2>9, <2>10
<1>3. ASSUME NEW k \in Workers, GetWorkTake(k) PROVE OwnInv'
  BY <1>3 DEF GetWorkTake, WorkLockFree, WorkerPC
<1>4. ASSUME NEW k \in Workers, DoWorkEmpty(k) PROVE OwnInv'
  <2>1. /\ wpc[k] = "check" /\ wpc'[k] = "done" /\ \A j \in Workers \ {k} : wpc'[j] = wpc[j]
        /\ wns' = wns /\ processing' = processing /\ inProgress' = inProgress
    BY <1>4 DEF DoWorkEmpty
  <2>2. \A j \in Workers :
          /\ wpc'[j] \in {"got", "check", "done"} <=> wpc[j] \in {"got", "check", "done"}
          /\ wpc'[j] \in {"check", "done", "swap"} <=> wpc[j] \in {"check", "done", "swap"}
    BY <2>1
  <2>3. OwnsQueue' /\ OwnsInProgress'
    BY <2>1, <2>2
  <2>4. OneOwner'
    BY <2>1, <2>2
  <2>5. InProgressOwned'
    BY <2>1, <2>2
  <2> QED
    BY <2>3, <2>4, <2>5
<1>5. ASSUME NEW k \in Workers, CheckAttributes(k) PROVE OwnInv'
  BY <1>5 DEF CheckAttributes
<1>6. ASSUME NEW k \in Workers, CompleteWorkDone(k) PROVE OwnInv'
  BY <1>6 DEF CompleteWorkDone, QueueDone
<1>7. ASSUME NEW k \in Workers, CompleteWorkSwap(k) PROVE OwnInv'
  BY <1>7 DEF CompleteWorkSwap
<1>8. CASE UNCHANGED vars
  BY <1>8 DEF vars
<1>9. QED
  BY <1>1, <1>2, <1>3, <1>4, <1>5, <1>6, <1>7, <1>8 DEF Next, Worker, Quiescent

-----------------------------------------------------------------------------
(* The wakeups: what is filed is awaited.                                  *)

\* Awaited(ns) ends only with a getWork that takes ns under workLock.
LEMMA AwaitedStep ==
  ASSUME IInv, Next, NEW ns \in Namespaces, Awaited(ns),
         ~ \E k \in Workers : GetWorkTake(k) /\ wns[k] = ns
  PROVE  Awaited(ns)'
<1> USE DEF IInv, TypeOK, Awaited, queueVars, workVars, workerVars, waiterVars
<1>1. ASSUME NEW w \in Waiters, Caller(w) PROVE Awaited(ns)'
  BY <1>1 DEF Caller, EvaluateUntracked, AddWorkQueue, QueueAdd, AddWorkFile,
              EvaluateReturn, EvaluateTimeout
<1>2. ASSUME NEW k \in Workers, GetWorkPop(k) PROVE Awaited(ns)'
  <2>1. PICK m \in Namespaces : QueueGet(m) /\ wns' = [wns EXCEPT ![k] = m]
    BY <1>2 DEF GetWorkPop
  <2>2. wpc' = [wpc EXCEPT ![k] = "got"] /\ wpc[k] = "get" /\ dirty' = dirty \ {m}
    BY <1>2, <2>1 DEF GetWorkPop, QueueGet
  <2>3. CASE ns = m
    BY <2>1, <2>2, <2>3
  <2>4. CASE ns # m
    BY <2>1, <2>2, <2>4
  <2> QED
    BY <2>3, <2>4
<1>3. ASSUME NEW k \in Workers, GetWorkTake(k) PROVE Awaited(ns)'
  BY <1>3 DEF GetWorkTake
<1>4. ASSUME NEW k \in Workers, DoWorkEmpty(k) PROVE Awaited(ns)'
  BY <1>4 DEF DoWorkEmpty
<1>5. ASSUME NEW k \in Workers, CheckAttributes(k) PROVE Awaited(ns)'
  BY <1>5 DEF CheckAttributes
<1>6. ASSUME NEW k \in Workers, CompleteWorkDone(k) PROVE Awaited(ns)'
  BY <1>6 DEF CompleteWorkDone, QueueDone
<1>7. ASSUME NEW k \in Workers, CompleteWorkSwap(k) PROVE Awaited(ns)'
  BY <1>7 DEF CompleteWorkSwap
<1>8. CASE UNCHANGED vars
  BY <1>8 DEF vars
<1>9. QED
  BY <1>1, <1>2, <1>3, <1>4, <1>5, <1>6, <1>7, <1>8 DEF Next, Worker, Quiescent

\* Between the halves of addWork the caller holds workLock alone, and its
\* namespace stays awaited.
LEMMA AddingStep == IInv /\ [Next]_vars => AddingInv'
<1> SUFFICES ASSUME IInv, [Next]_vars, NEW w \in Waiters, epc'[w] = "adding"
             PROVE  Awaited(NsOf[w])'
  BY DEF AddingInv
<1> USE DEF IInv, TypeOK, queueVars, workVars, workerVars, waiterVars
<1>1. CASE UNCHANGED vars
  BY <1>1 DEF vars, AddingInv, Awaited
<1>2. CASE AddWorkQueue(w)
  BY <1>2 DEF AddWorkQueue, QueueAdd, Awaited
<1>3. CASE Next /\ ~AddWorkQueue(w)
  <2>1. epc[w] = "adding"
    BY <1>3 DEF Next, Caller, Worker, Quiescent, vars, EvaluateUntracked, AddWorkQueue,
                AddWorkFile, EvaluateReturn, EvaluateTimeout, GetWorkPop, GetWorkTake,
                DoWorkEmpty, CheckAttributes, CompleteWorkDone, CompleteWorkSwap
  <2>2. ~ \E k \in Workers : GetWorkTake(k)
    BY <2>1 DEF GetWorkTake, WorkLockFree
  <2>3. NsOf[w] \in Namespaces /\ Awaited(NsOf[w])
    BY <2>1 DEF AddingInv
  <2> QED
    BY <1>3, <2>2, <2>3, AwaitedStep
<1>4. QED
  BY <1>1, <1>2, <1>3

\* Every step of addWork, getWork and completeWork keeps NoLostWakeup: what
\* is filed, or moved from dirtyWork to work, is filed under an awaited name.
LEMMA WakeupStep == IInv /\ [Next]_vars => NoLostWakeup'
<1> SUFFICES ASSUME IInv, [Next]_vars, NEW ns \in Namespaces
             PROVE  /\ work'[ns] # <<>> => Awaited(ns)' /\ ns \notin inProgress'
                    /\ dirtyWork'[ns] # <<>> => Awaited(ns)' /\ ns \in inProgress'
  BY DEF NoLostWakeup
<1> DEFINE Goal == /\ work'[ns] # <<>> => Awaited(ns)' /\ ns \notin inProgress'
                   /\ dirtyWork'[ns] # <<>> => Awaited(ns)' /\ ns \in inProgress'
<1> USE DEF queueVars, workVars, workerVars, waiterVars
<1>1. /\ work[ns] # <<>> => Awaited(ns) /\ ns \notin inProgress
      /\ dirtyWork[ns] # <<>> => Awaited(ns) /\ ns \in inProgress
  BY DEF IInv, NoLostWakeup
<1>2. CASE UNCHANGED vars
  BY <1>1, <1>2 DEF vars, Awaited
<1>3. ASSUME NEW w \in Waiters, AddWorkFile(w) PROVE Goal
  <2>1. NsOf[w] \in Namespaces /\ Awaited(NsOf[w])
    BY <1>3 DEF IInv, AddingInv, AddWorkFile
  <2>2. Awaited(ns)' <=> Awaited(ns)
    BY <1>3 DEF AddWorkFile, Awaited
  <2>3. inProgress' = inProgress
    BY <1>3 DEF AddWorkFile
  <2>4. CASE ns = NsOf[w]
    <3>1. CASE ns \in inProgress
      BY <1>1, <1>3, <2>1, <2>2, <2>3, <2>4, <3>1 DEF AddWorkFile, IInv, TypeOK
    <3>2. CASE ns \notin inProgress
      BY <1>1, <1>3, <2>1, <2>2, <2>3, <2>4, <3>2 DEF AddWorkFile, IInv, TypeOK
    <3> QED
      BY <3>1, <3>2
  <2>5. CASE ns # NsOf[w]
    BY <1>1, <1>3, <2>2, <2>3, <2>5 DEF AddWorkFile, IInv, TypeOK
  <2> QED
    BY <2>4, <2>5
<1>4. ASSUME NEW k \in Workers, GetWorkTake(k) PROVE Goal
  <2>1. wns[k] \in Namespaces
    BY <1>4 DEF GetWorkTake, IInv, TypeOK
  <2>2. CASE ns = wns[k]
    BY <1>4, <2>1, <2>2 DEF GetWorkTake, IInv, TypeOK
  <2>3. CASE ns # wns[k]
    <3>1. /\ work'[ns] = work[ns] /\ dirtyWork'[ns] = dirtyWork[ns]
          /\ ns \in inProgress' <=> ns \in inProgress
      BY <1>4, <2>1, <2>3 DEF GetWorkTake, IInv, TypeOK
    <3>2. Awaited(ns) => Awaited(ns)'
      BY <1>4, <2>3 DEF GetWorkTake, Awaited, IInv, TypeOK
    <3> QED
      BY <1>1, <3>1, <3>2
  <2> QED
    BY <2>2, <2>3
<1>5. ASSUME NEW k \in Workers, CompleteWorkSwap(k) PROVE Goal
  <2>1. wns[k] \in Namespaces
    BY <1>5 DEF CompleteWorkSwap, IInv, TypeOK
  <2>2. Awaited(ns) => Awaited(ns)'
    BY <1>5 DEF CompleteWorkSwap, Awaited, IInv, TypeOK
  <2>3. CASE ns = wns[k]
    <3>1. work'[ns] = dirtyWork[ns] /\ dirtyWork'[ns] = <<>> /\ ns \notin inProgress'
      BY <1>5, <2>1, <2>3 DEF CompleteWorkSwap, IInv, TypeOK
    <3> QED
      BY <1>1, <2>2, <3>1
  <2>4. CASE ns # wns[k]
    <3>1. /\ work'[ns] = work[ns] /\ dirtyWork'[ns] = dirtyWork[ns]
          /\ ns \in inProgress' <=> ns \in inProgress
      BY <1>5, <2>1, <2>4 DEF CompleteWorkSwap, IInv, TypeOK
    <3> QED
      BY <1>1, <2>2, <3>1
  <2> QED
    BY <2>3, <2>4
<1>6. CASE Next /\ UNCHANGED workVars /\ ~ \E k \in Workers : GetWorkTake(k)
  <2>1. Awaited(ns) => Awaited(ns)'
    BY <1>6, AwaitedStep
  <2> QED
    BY <1>1, <1>6, <2>1
<1>7. QED
  BY <1>2, <1>3, <1>4, <1>5, <1>6
  DEF Next, Caller, Worker, Quiescent, EvaluateUntracked, AddWorkQueue, EvaluateReturn,
      EvaluateTimeout, GetWorkPop, DoWorkEmpty, CheckAttributes, CompleteWorkDone

-----------------------------------------------------------------------------
\* The inductive invariant of the evaluator's queue, maps and lock, from which
\* the three theorems below follow.
THEOREM Inductive == Spec => []IInv
<1>1. Init => IInv
  BY DEF Init, IInv, TypeOK, WorkerPC, EvaluatePC, QueueInv, OwnInv, OwnsQueue,
         OwnsInProgress, OneOwner, InProgressOwned, AddingInv, NoLostWakeup
<1>2. IInv /\ [Next]_vars => QueueInv' /\ OwnInv' /\ AddingInv' /\ NoLostWakeup'
  BY QueueStep, OwnStep, AddingStep, WakeupStep
<1>3. Spec => [](QueueInv /\ OwnInv /\ AddingInv /\ NoLostWakeup) /\ []TypeOK
  BY <1>1, <1>2, TypeCorrect, PTL DEF Spec, IInv
<1>4. QED
  BY <1>3, PTL DEF IInv

\* No two workers check batches of one namespace at a time.
THEOREM Exclusive == Spec => []ExclusiveNamespace
<1>1. IInv => ExclusiveNamespace
  BY DEF IInv, OwnInv, OneOwner, ExclusiveNamespace
<1>2. QED
  BY <1>1, Inductive, PTL

\* addWork, getWork and completeWork never leave a filed request behind.
THEOREM WakeupNotLost == Spec => []NoLostWakeup
<1>1. IInv => NoLostWakeup
  BY DEF IInv
<1>2. QED
  BY <1>1, Inductive, PTL

\* getWork's delete of the dirty list never discards a waiter.
THEOREM NothingDropped == Spec => []DeleteDropsNothing
<1>1. IInv => DeleteDropsNothing
  <2> SUFFICES ASSUME IInv, NEW k \in Workers, wpc[k] = "got", WorkLockFree,
                      dirtyWork[wns[k]] # <<>>
               PROVE  FALSE
    BY DEF DeleteDropsNothing
  <2>1. wns[k] \in inProgress
    BY DEF IInv, TypeOK, NoLostWakeup
  <2>2. PICK j \in Workers : wns[j] = wns[k] /\ wpc[j] \in {"check", "done", "swap"}
    BY <2>1 DEF IInv, OwnInv, InProgressOwned
  <2>3. wpc[j] \in {"check", "done"}
    BY <2>2 DEF WorkLockFree
  <2>4. j = k
    BY <2>2, <2>3 DEF IInv, OwnInv, OneOwner
  <2> QED
    BY <2>3, <2>4
<1>2. QED
  BY <1>1, Inductive, PTL

-----------------------------------------------------------------------------
(* The refinement: the maps, the lists and the batches together are the    *)
(* plain line of BatchAdmission.                                           *)

\* A request that has not been filed is nowhere: not in a list, not in a
\* batch, not among the answered.
FiledOnce ==
  \A w \in Waiters : epc[w] \in {"start", "adding"} =>
    /\ w \notin finished
    /\ \A ns \in Namespaces : w \notin Range(work[ns]) /\ w \notin Range(dirtyWork[ns])
    /\ \A k \in Workers : w \notin Range(batch[k])

\* A worker that is not checking holds no batch.
BatchesChecked == \A k \in Workers : wpc[k] # "check" => batch[k] = <<>>

LineInv == FiledOnce /\ BatchesChecked

\* Filing a request adds it, and nothing else, to a list.
LEMMA RangeAppend ==
  ASSUME NEW s \in Seq(Waiters), NEW w \in Waiters, NEW x, x # w, x \notin Range(s)
  PROVE  x \notin Range(Append(s, w))
<1>1. /\ Len(Append(s, w)) = Len(s) + 1 /\ Append(s, w)[Len(s) + 1] = w
      /\ \A i \in 1..Len(s) : Append(s, w)[i] = s[i]
      /\ DOMAIN Append(s, w) = 1..(Len(s) + 1) /\ DOMAIN s = 1..Len(s) /\ Len(s) \in Nat
  OBVIOUS
<1> QED
  BY <1>1 DEF Range

\* An empty list holds no request.
LEMMA RangeEmpty == \A x : x \notin Range(<<>>)
BY DEF Range

\* Every step keeps LineInv: a request is filed once, by its own caller, and
\* then moves from list to batch to the answered.
LEMMA LineStep == IInv /\ LineInv /\ [Next]_vars => LineInv'
<1> SUFFICES ASSUME IInv, LineInv, [Next]_vars PROVE LineInv'
  OBVIOUS
<1> USE DEF LineInv, queueVars, workVars, workerVars, waiterVars
<1>t. TypeOK
  BY DEF IInv
<1>1. ASSUME NEW w \in Waiters, AddWorkFile(w) PROVE LineInv'
  <2>1. /\ NsOf[w] \in Namespaces /\ epc' = [epc EXCEPT ![w] = "waiting"]
        /\ UNCHANGED <<finished, wpc, batch>>
    BY <1>1 DEF AddWorkFile
  <2>2. ASSUME NEW x \in Waiters, epc'[x] \in {"start", "adding"}, NEW ns \in Namespaces
        PROVE  x \notin Range(work'[ns]) /\ x \notin Range(dirtyWork'[ns])
    <3>1. x # w /\ epc[x] \in {"start", "adding"}
      BY <1>t, <2>1, <2>2 DEF TypeOK
    <3>2. x \notin Range(work[ns]) /\ x \notin Range(dirtyWork[ns])
      BY <3>1 DEF FiledOnce
    <3>3. x \notin Range(Append(work[ns], w)) /\ x \notin Range(Append(dirtyWork[ns], w))
      BY <1>t, <3>1, <3>2, RangeAppend DEF TypeOK
    <3>4. /\ work' \in {work, [work EXCEPT ![NsOf[w]] = Append(@, w)]}
          /\ dirtyWork' \in {dirtyWork, [dirtyWork EXCEPT ![NsOf[w]] = Append(@, w)]}
      BY <1>1 DEF AddWorkFile
    <3>5. \A f \in [Namespaces -> Seq(Waiters)] :
            [f EXCEPT ![NsOf[w]] = Append(@, w)][ns] \in {f[ns], Append(f[ns], w)}
      BY <2>1
    <3>6. /\ work'[ns] \in {work[ns], Append(work[ns], w)}
          /\ dirtyWork'[ns] \in {dirtyWork[ns], Append(dirtyWork[ns], w)}
      BY <1>t, <3>4, <3>5 DEF TypeOK
    <3> QED
      BY <3>2, <3>3, <3>6
  <2>3. FiledOnce'
    BY <1>t, <2>1, <2>2 DEF FiledOnce, TypeOK
  <2> QED
    BY <2>1, <2>3 DEF BatchesChecked
<1>2. ASSUME NEW k \in Workers, GetWorkTake(k) PROVE LineInv'
  <2>1. /\ wns[k] \in Namespaces /\ epc' = epc /\ finished' = finished
        /\ wpc' = [wpc EXCEPT ![k] = "check"]
        /\ batch' = [batch EXCEPT ![k] = work[wns[k]]]
        /\ work' = [work EXCEPT ![wns[k]] = <<>>]
        /\ dirtyWork' = [dirtyWork EXCEPT ![wns[k]] = <<>>]
    BY <1>2, <1>t DEF GetWorkTake, TypeOK
  <2>2. FiledOnce'
    BY <1>t, <2>1, RangeEmpty DEF FiledOnce, TypeOK
  <2>3. BatchesChecked'
    BY <1>t, <2>1 DEF BatchesChecked, TypeOK
  <2> QED
    BY <2>2, <2>3
<1>3. ASSUME NEW k \in Workers, CheckAttributes(k) PROVE LineInv'
  <2>1. /\ epc' = epc /\ work' = work /\ dirtyWork' = dirtyWork
        /\ finished' = finished \cup Range(batch[k])
        /\ batch' = [batch EXCEPT ![k] = <<>>]
        /\ wpc' = [wpc EXCEPT ![k] = "done"]
    BY <1>3 DEF CheckAttributes
  <2>2. FiledOnce'
    BY <1>t, <2>1, RangeEmpty DEF FiledOnce, TypeOK
  <2>3. BatchesChecked'
    BY <1>t, <2>1 DEF BatchesChecked, TypeOK
  <2> QED
    BY <2>2, <2>3
<1>4. ASSUME NEW k \in Workers, CompleteWorkSwap(k) PROVE LineInv'
  <2>1. /\ wns[k] \in Namespaces /\ epc' = epc /\ finished' = finished /\ batch' = batch
        /\ wpc' = [wpc EXCEPT ![k] = "get"] /\ wpc[k] = "swap"
        /\ work' = [work EXCEPT ![wns[k]] = dirtyWork[wns[k]]]
        /\ dirtyWork' = [dirtyWork EXCEPT ![wns[k]] = <<>>]
    BY <1>4, <1>t DEF CompleteWorkSwap, TypeOK
  <2>2. FiledOnce'
    BY <1>t, <2>1, RangeEmpty DEF FiledOnce, TypeOK
  <2>3. BatchesChecked'
    BY <1>t, <2>1 DEF BatchesChecked, TypeOK
  <2> QED
    BY <2>2, <2>3
<1>5. ASSUME NEW k \in Workers, GetWorkPop(k) \/ DoWorkEmpty(k) \/ CompleteWorkDone(k) PROVE LineInv'
  <2>1. /\ UNCHANGED <<work, dirtyWork, batch, epc, finished>>
        /\ \E l \in WorkerPC \ {"check"} : wpc' = [wpc EXCEPT ![k] = l]
        /\ wpc[k] # "check" \/ batch[k] = <<>>
    BY <1>5 DEF GetWorkPop, DoWorkEmpty, CompleteWorkDone, WorkerPC
  <2>2. FiledOnce'
    BY <2>1 DEF FiledOnce
  <2>3. BatchesChecked'
    BY <1>t, <2>1 DEF BatchesChecked, TypeOK
  <2> QED
    BY <2>2, <2>3
<1>6. ASSUME NEW w \in Waiters, EvaluateUntracked(w) \/ AddWorkQueue(w) \/ EvaluateReturn(w) \/ EvaluateTimeout(w)
      PROVE LineInv'
  <2>1. UNCHANGED <<work, dirtyWork, batch, wpc, finished>>
    BY <1>6 DEF EvaluateUntracked, AddWorkQueue, EvaluateReturn, EvaluateTimeout
  <2>2. \A x \in Waiters : epc'[x] \in {"start", "adding"} => epc[x] \in {"start", "adding"}
    BY <1>6, <1>t DEF EvaluateUntracked, AddWorkQueue, EvaluateReturn, EvaluateTimeout, TypeOK
  <2>3. FiledOnce'
    BY <2>1, <2>2 DEF FiledOnce
  <2> QED
    BY <2>1, <2>3 DEF BatchesChecked
<1>7. CASE UNCHANGED vars
  BY <1>7 DEF vars, FiledOnce, BatchesChecked
<1> QED
  BY <1>1, <1>2, <1>3, <1>4, <1>5, <1>6, <1>7 DEF Next, Caller, Worker, Quiescent

-----------------------------------------------------------------------------
(* Sequences: the line of a namespace is its batch, then what is filed,    *)
(* then what is set aside.                                                 *)

\* Two sequences of the same elements in the same places are the same.
LEMMA SameElements ==
  ASSUME NEW S, NEW s \in Seq(S), NEW t \in Seq(S), Len(s) = Len(t),
         \A i \in 1..Len(s) : s[i] = t[i]
  PROVE  s = t
OBVIOUS

\* The elements of a concatenation.
LEMMA ConcatElements ==
  ASSUME NEW S, NEW s \in Seq(S), NEW t \in Seq(S)
  PROVE  /\ s \o t \in Seq(S)
         /\ Len(s \o t) = Len(s) + Len(t)
         /\ \A i \in 1..Len(s) : (s \o t)[i] = s[i]
         /\ \A i \in 1..Len(t) : (s \o t)[Len(s) + i] = t[i]
OBVIOUS

\* Filing at the end of the second half is filing at the end.
LEMMA ConcatAppend ==
  ASSUME NEW S, NEW s \in Seq(S), NEW t \in Seq(S), NEW e \in S
  PROVE  s \o Append(t, e) = Append(s \o t, e)
<1>1. s \o Append(t, e) \in Seq(S) /\ Append(s \o t, e) \in Seq(S)
  OBVIOUS
<1>2. Len(s \o Append(t, e)) = Len(s) + Len(t) + 1 /\ Len(Append(s \o t, e)) = Len(s) + Len(t) + 1
  OBVIOUS
<1>3. \A i \in 1..(Len(s) + Len(t) + 1) : (s \o Append(t, e))[i] = Append(s \o t, e)[i]
  OBVIOUS
<1> QED
  BY <1>1, <1>2, <1>3, SameElements

\* An empty half does not count.
LEMMA ConcatEmpty ==
  ASSUME NEW S, NEW s \in Seq(S)
  PROVE  s \o <<>> = s /\ <<>> \o s = s
<1>1. s \o <<>> \in Seq(S) /\ <<>> \o s \in Seq(S) /\ Len(s \o <<>>) = Len(s) /\ Len(<<>> \o s) = Len(s)
  OBVIOUS
<1>2. \A i \in 1..Len(s) : (s \o <<>>)[i] = s[i] /\ (<<>> \o s)[i] = s[i]
  OBVIOUS
<1> QED
  BY <1>1, <1>2, SameElements

\* The front of a concatenation is its first half, and the rest its second.
LEMMA ConcatSplit ==
  ASSUME NEW S, NEW s \in Seq(S), NEW t \in Seq(S), s # <<>>
  PROVE  /\ Len(s) \in 1..Len(s \o t)
         /\ SubSeq(s \o t, 1, Len(s)) = s
         /\ SubSeq(s \o t, Len(s) + 1, Len(s \o t)) = t
<1>1. Len(s \o t) = Len(s) + Len(t) /\ Len(s) \in Nat /\ Len(t) \in Nat /\ Len(s) >= 1
  OBVIOUS
<1>2. SubSeq(s \o t, 1, Len(s)) \in Seq(S) /\ SubSeq(s \o t, Len(s) + 1, Len(s \o t)) \in Seq(S)
  OBVIOUS
<1>3. Len(SubSeq(s \o t, 1, Len(s))) = Len(s) /\ Len(SubSeq(s \o t, Len(s) + 1, Len(s \o t))) = Len(t)
  OBVIOUS
<1>4. \A i \in 1..Len(s) : SubSeq(s \o t, 1, Len(s))[i] = s[i]
  OBVIOUS
<1>5. \A i \in 1..Len(t) : SubSeq(s \o t, Len(s) + 1, Len(s \o t))[i] = t[i]
  OBVIOUS
<1> QED
  BY <1>1, <1>2, <1>3, <1>4, <1>5, SameElements

\* A concatenation holds what one of its halves holds.
LEMMA RangeConcat ==
  ASSUME NEW S, NEW s \in Seq(S), NEW t \in Seq(S), NEW x, x \notin Range(s), x \notin Range(t)
  PROVE  x \notin Range(s \o t)
<1>1. DOMAIN s = 1..Len(s) /\ DOMAIN t = 1..Len(t) /\ DOMAIN (s \o t) = 1..(Len(s) + Len(t))
      /\ Len(s) \in Nat /\ Len(t) \in Nat
  OBVIOUS
<1>2. ASSUME NEW i \in 1..(Len(s) + Len(t)) PROVE (s \o t)[i] # x
  <2>1. CASE i <= Len(s)
    BY <1>1, <2>1 DEF Range
  <2>2. CASE i > Len(s)
    <3>1. i - Len(s) \in 1..Len(t) /\ (s \o t)[i] = t[i - Len(s)]
      BY <1>1, <2>2
    <3> QED
      BY <1>1, <3>1 DEF Range
  <2> QED
    BY <1>1, <2>1, <2>2
<1> QED
  BY <1>1, <1>2 DEF Range

-----------------------------------------------------------------------------
(* The steps of the evaluator are steps of the line, or leave it alone.    *)

\* The worker, if any, that is checking a batch of ns.
Checking(ns) == {k \in Workers : wns[k] = ns /\ wpc[k] = "check"}

\* There is at most one checker, and its batch is the one in the line.
LEMMA BatchOfChecker ==
  ASSUME NEW ns
  PROVE  /\ Checking(ns) = {} => BatchOf(ns) = <<>>
         /\ \A k : Checking(ns) = {k} => BatchOf(ns) = batch[k]
BY DEF BatchOf, Checking

\* The batch in a line stays while its checker does.
LEMMA SameBatch ==
  ASSUME NEW ns, Checking(ns)' = Checking(ns), \A k \in Checking(ns) : batch'[k] = batch[k]
  PROVE  BatchOf(ns)' = BatchOf(ns)
<1>1. BatchOf(ns) = IF Checking(ns) = {} THEN <<>> ELSE batch[CHOOSE k \in Checking(ns) : TRUE]
  BY DEF BatchOf, Checking
<1>2. BatchOf(ns)' = IF Checking(ns)' = {} THEN <<>> ELSE batch'[CHOOSE k \in Checking(ns)' : TRUE]
  BY DEF BatchOf, Checking
<1> HIDE DEF Checking
<1> QED
  BY <1>1, <1>2

\* The line consists of requests.
LEMMA LineTyped ==
  ASSUME IInv, NEW ns \in Namespaces
  PROVE  /\ BatchOf(ns) \in Seq(Waiters) /\ work[ns] \in Seq(Waiters) /\ dirtyWork[ns] \in Seq(Waiters)
         /\ BatchOf(ns) \o work[ns] \in Seq(Waiters)
         /\ LineOf(ns) \in Seq(Waiters)
<1>1. BatchOf(ns) \in Seq(Waiters)
  <2>1. CASE Checking(ns) = {}
    <3>1. BatchOf(ns) = <<>>
      BY <2>1, BatchOfChecker
    <3> QED
      BY <3>1
  <2>2. CASE Checking(ns) # {}
    <3>1. PICK k \in Workers : Checking(ns) = {k}
      BY <2>2 DEF Checking, IInv, OwnInv, OneOwner
    <3> QED
      <4>1. BatchOf(ns) = batch[k]
        BY <3>1, BatchOfChecker
      <4> QED
        BY <4>1 DEF IInv, TypeOK
  <2> QED
    BY <2>1, <2>2
<1> QED
  BY <1>1 DEF LineOf, IInv, TypeOK

\* Who checks what, and what is filed and answered, does not change.
LEMMA LineKept ==
  ASSUME UNCHANGED <<work, dirtyWork, finished>>,
         \A ns \in Namespaces : BatchOf(ns)' = BatchOf(ns)
  PROVE  UNCHANGED <<Pending, finished>>
BY DEF Pending, LineOf

\* addWork files a request: it joins the end of its line, where it was not.
LEMMA FileSubmits ==
  ASSUME IInv, LineInv, NEW w \in Waiters, AddWorkFile(w)
  PROVE  /\ w \notin finished
         /\ \A ns \in Namespaces : w \notin Range(Pending[ns])
         /\ Pending' = [Pending EXCEPT ![NsOf[w]] = Append(@, w)]
         /\ finished' = finished
<1>t. work \in [Namespaces -> Seq(Waiters)] /\ dirtyWork \in [Namespaces -> Seq(Waiters)]
  BY DEF IInv, TypeOK
<1>1. /\ epc[w] = "adding" /\ NsOf[w] \in Namespaces
      /\ UNCHANGED <<inProgress, finished, wpc, wns, batch>>
  BY DEF AddWorkFile, workerVars
<1>2. w \notin finished
  BY <1>1 DEF LineInv, FiledOnce
<1>3. ASSUME NEW ns \in Namespaces PROVE w \notin Range(Pending[ns])
  <2>1. w \notin Range(work[ns]) /\ w \notin Range(dirtyWork[ns]) /\ \A k \in Workers : w \notin Range(batch[k])
    BY <1>1 DEF LineInv, FiledOnce
  <2>2. w \notin Range(BatchOf(ns))
    <3>1. CASE Checking(ns) = {}
      BY <3>1, BatchOfChecker, RangeEmpty
    <3>2. CASE Checking(ns) # {}
      <4>1. PICK k \in Workers : Checking(ns) = {k}
        BY <3>2 DEF Checking, IInv, OwnInv, OneOwner
      <4> QED
        BY <2>1, <4>1, BatchOfChecker
    <3> QED
      BY <3>1, <3>2
  <2>3. w \notin Range(BatchOf(ns) \o work[ns])
    BY <2>1, <2>2, LineTyped, RangeConcat
  <2>4. w \notin Range(LineOf(ns))
    BY <2>1, <2>3, LineTyped, RangeConcat DEF LineOf
  <2> QED
    BY <2>4 DEF Pending
<1>4. \A ns \in Namespaces : BatchOf(ns)' = BatchOf(ns)
  BY <1>1 DEF BatchOf
<1>5. ASSUME NEW ns \in Namespaces
      PROVE  LineOf(ns)' = IF ns = NsOf[w] THEN Append(LineOf(ns), w) ELSE LineOf(ns)
  <2>1. CASE ns # NsOf[w]
    BY <1>t, <1>1, <1>4, <2>1 DEF AddWorkFile, LineOf
  <2>2. CASE ns = NsOf[w] /\ ns \in inProgress
    <3>1. work'[ns] = work[ns] /\ dirtyWork'[ns] = Append(dirtyWork[ns], w)
      BY <1>t, <2>2 DEF AddWorkFile
    <3>2. (BatchOf(ns) \o work[ns]) \o Append(dirtyWork[ns], w) = Append(LineOf(ns), w)
      <4>1. BatchOf(ns) \o work[ns] \in Seq(Waiters) /\ dirtyWork[ns] \in Seq(Waiters)
        BY LineTyped
      <4> DEFINE front == BatchOf(ns) \o work[ns]
      <4>2. front \in Seq(Waiters)
        BY <4>1
      <4> HIDE DEF front
      <4>3. front \o Append(dirtyWork[ns], w) = Append(front \o dirtyWork[ns], w)
        BY <4>1, <4>2, ConcatAppend
      <4> QED
        BY <4>3 DEF LineOf, front
    <3> QED
      BY <1>4, <2>2, <3>1, <3>2 DEF LineOf
  <2>3. CASE ns = NsOf[w] /\ ns \notin inProgress
    <3>1. work'[ns] = Append(work[ns], w) /\ dirtyWork'[ns] = dirtyWork[ns]
      BY <1>t, <2>3 DEF AddWorkFile
    <3>2. dirtyWork[ns] = <<>>
      BY <2>3 DEF IInv, NoLostWakeup
    <3>3. BatchOf(ns) \o Append(work[ns], w) = Append(BatchOf(ns) \o work[ns], w)
      <4>1. BatchOf(ns) \in Seq(Waiters) /\ work[ns] \in Seq(Waiters)
        BY LineTyped
      <4> QED
        BY <4>1, ConcatAppend
    <3>4. LineOf(ns) = BatchOf(ns) \o work[ns]
      BY <3>2, LineTyped, ConcatEmpty DEF LineOf
    <3>5. Append(BatchOf(ns) \o work[ns], w) \in Seq(Waiters)
      BY LineTyped
    <3>6. LineOf(ns)' = Append(BatchOf(ns) \o work[ns], w) \o <<>>
      BY <1>4, <3>1, <3>2, <3>3 DEF LineOf
    <3> QED
      BY <2>3, <3>4, <3>5, <3>6, ConcatEmpty
  <2> QED
    BY <2>1, <2>2, <2>3
<1>6. Pending' = [Pending EXCEPT ![NsOf[w]] = Append(@, w)]
  <2>1. Pending' = [ns \in Namespaces |-> IF ns = NsOf[w] THEN Append(LineOf(ns), w) ELSE LineOf(ns)]
    BY <1>5, Zenon DEF Pending
  <2> QED
    BY <1>1, <2>1 DEF Pending
<1> QED
  BY <1>1, <1>2, <1>3, <1>6

\* getWork takes the whole list of a namespace that nobody checks, and finds
\* nothing set aside: the line stays as it was.
LEMMA TakeKeeps ==
  ASSUME IInv, LineInv, NEW k \in Workers, GetWorkTake(k)
  PROVE  UNCHANGED <<Pending, finished>>
<1>1. /\ wpc[k] = "got" /\ wns[k] \in Namespaces /\ WorkLockFree
      /\ wpc' = [wpc EXCEPT ![k] = "check"] /\ wns' = wns /\ finished' = finished
      /\ batch' = [batch EXCEPT ![k] = work[wns[k]]]
      /\ work' = [work EXCEPT ![wns[k]] = <<>>]
      /\ dirtyWork' = [dirtyWork EXCEPT ![wns[k]] = <<>>]
  BY DEF GetWorkTake, waiterVars, IInv, TypeOK
<1>t. /\ work \in [Namespaces -> Seq(Waiters)] /\ dirtyWork \in [Namespaces -> Seq(Waiters)]
      /\ batch \in [Workers -> Seq(Waiters)] /\ wpc \in [Workers -> WorkerPC]
  BY DEF IInv, TypeOK
<1>2. dirtyWork[wns[k]] = <<>>
  <2> SUFFICES ASSUME dirtyWork[wns[k]] # <<>> PROVE FALSE
    OBVIOUS
  <2>1. PICK j \in Workers : wns[j] = wns[k] /\ wpc[j] \in {"check", "done", "swap"}
    BY <1>1 DEF IInv, NoLostWakeup, OwnInv, InProgressOwned
  <2>2. wpc[j] \in {"check", "done"}
    BY <1>1, <2>1 DEF WorkLockFree
  <2> QED
    BY <1>1, <2>1, <2>2 DEF IInv, OwnInv, OneOwner
<1>3. Checking(wns[k]) = {}
  BY <1>1 DEF Checking, IInv, OwnInv, OneOwner
<1>4. Checking(wns[k])' = {k}
  BY <1>1, <1>3, <1>t DEF Checking
<1>5. ASSUME NEW ns \in Namespaces PROVE LineOf(ns)' = LineOf(ns)
  <2>1. CASE ns = wns[k]
    <3>1. BatchOf(ns) = <<>>
      BY <1>3, <2>1, BatchOfChecker
    <3>2. BatchOf(ns)' = work[ns]
      <4>1. BatchOf(ns)' = batch'[CHOOSE j \in {k} : TRUE]
        BY <1>1, <1>4, <2>1 DEF BatchOf, Checking
      <4> QED
        BY <1>1, <1>t, <2>1, <4>1
    <3>3. work'[ns] = <<>> /\ dirtyWork'[ns] = <<>>
      BY <1>1, <1>t, <2>1
    <3>4. LineOf(ns) = work[ns]
      BY <1>2, <2>1, <3>1, LineTyped, ConcatEmpty DEF LineOf
    <3>5. LineOf(ns)' = (work[ns] \o <<>>) \o <<>>
      BY <3>2, <3>3 DEF LineOf
    <3> QED
      BY <3>4, <3>5, LineTyped, ConcatEmpty
  <2>2. CASE ns # wns[k]
    <3>1. Checking(ns)' = Checking(ns) /\ \A j \in Checking(ns) : batch'[j] = batch[j]
      BY <1>1, <1>t, <2>2 DEF Checking
    <3>2. BatchOf(ns)' = BatchOf(ns)
      BY <3>1, SameBatch
    <3> QED
      BY <1>1, <1>t, <2>2, <3>2 DEF LineOf
  <2> QED
    BY <2>1, <2>2
<1> QED
  BY <1>1, <1>5 DEF Pending

\* checkAttributes answers its batch, which is the front of the line.
LEMMA CheckAnswers ==
  ASSUME IInv, LineInv, NEW k \in Workers, CheckAttributes(k)
  PROVE  \E n \in 1..Len(Pending[wns[k]]) :
           /\ finished' = finished \cup Range(SubSeq(Pending[wns[k]], 1, n))
           /\ Pending' = [Pending EXCEPT ![wns[k]] = SubSeq(@, n + 1, Len(@))]
<1>0. PICK m \in Namespaces : m = wns[k]
  BY DEF CheckAttributes, IInv, TypeOK
<1>1. /\ wpc[k] = "check" /\ batch[k] # <<>>
      /\ wpc' = [wpc EXCEPT ![k] = "done"] /\ wns' = wns
      /\ finished' = finished \cup Range(batch[k])
      /\ batch' = [batch EXCEPT ![k] = <<>>]
      /\ work' = work /\ dirtyWork' = dirtyWork
  BY DEF CheckAttributes, workVars
<1>t. /\ work \in [Namespaces -> Seq(Waiters)] /\ dirtyWork \in [Namespaces -> Seq(Waiters)]
      /\ batch \in [Workers -> Seq(Waiters)] /\ wpc \in [Workers -> WorkerPC]
  BY DEF IInv, TypeOK
<1>2. Checking(m) = {k}
  BY <1>0, <1>1 DEF Checking, IInv, OwnInv, OneOwner
<1>3. BatchOf(m) = batch[k]
  BY <1>2, BatchOfChecker
<1>4. Checking(m)' = {}
  BY <1>0, <1>1, <1>2, <1>t DEF Checking
<1>5. BatchOf(m)' = <<>>
  BY <1>4 DEF BatchOf, Checking
<1>6. m \in inProgress /\ work[m] = <<>>
  BY <1>0, <1>1 DEF IInv, OwnInv, OwnsInProgress, NoLostWakeup
<1>7. LineOf(m) = batch[k] \o dirtyWork[m]
  <2>1. batch[k] \o <<>> = batch[k]
    BY <1>t, ConcatEmpty
  <2> QED
    BY <1>3, <1>6, <2>1 DEF LineOf
<1>8. LineOf(m)' = dirtyWork[m]
  <2>1. <<>> \in Seq(Waiters) /\ dirtyWork[m] \in Seq(Waiters)
    BY <1>1, <1>t
  <2>2. <<>> \o <<>> = <<>> /\ <<>> \o dirtyWork[m] = dirtyWork[m]
    BY <2>1, ConcatEmpty
  <2> QED
    BY <1>1, <1>5, <1>6, <2>2 DEF LineOf
<1>9. ASSUME NEW ns \in Namespaces, ns # m PROVE LineOf(ns)' = LineOf(ns)
  <2>1. Checking(ns)' = Checking(ns) /\ \A j \in Checking(ns) : batch'[j] = batch[j]
    BY <1>0, <1>1, <1>t, <1>9 DEF Checking
  <2>2. BatchOf(ns)' = BatchOf(ns)
    BY <2>1, SameBatch
  <2> QED
    BY <1>1, <2>2 DEF LineOf
<1> DEFINE n == Len(batch[k])
<1>10. Pending[m] = batch[k] \o dirtyWork[m]
  BY <1>1, <1>7 DEF Pending
<1>11. /\ n \in 1..Len(Pending[m])
       /\ SubSeq(Pending[m], 1, n) = batch[k]
       /\ SubSeq(Pending[m], n + 1, Len(Pending[m])) = dirtyWork[m]
  <2>1. PICK b \in Seq(Waiters) : b = batch[k] /\ b # <<>>
    BY <1>1, <1>t
  <2>2. PICK d \in Seq(Waiters) : d = dirtyWork[m]
    BY <1>t
  <2>3. b # <<>>
    BY <2>1
  <2>4. /\ Len(b) \in 1..Len(b \o d)
        /\ SubSeq(b \o d, 1, Len(b)) = b
        /\ SubSeq(b \o d, Len(b) + 1, Len(b \o d)) = d
    BY <2>3, ConcatSplit
  <2> QED
    BY <1>10, <2>1, <2>2, <2>4
<1> HIDE DEF n
<1>12. Pending' = [Pending EXCEPT ![m] = dirtyWork[m]]
  <2>1. \A ns \in Namespaces : LineOf(ns)' = IF ns = m THEN dirtyWork[m] ELSE LineOf(ns)
    BY <1>8, <1>9
  <2>2. Pending' = [ns \in Namespaces |-> IF ns = m THEN dirtyWork[m] ELSE LineOf(ns)]
    BY <2>1, Zenon DEF Pending
  <2> QED
    BY <1>1, <2>2 DEF Pending
<1>13. Pending' = [Pending EXCEPT ![m] = SubSeq(Pending[m], n + 1, Len(Pending[m]))]
  BY <1>11, <1>12
<1>14. finished' = finished \cup Range(SubSeq(Pending[m], 1, n))
  BY <1>1, <1>11
<1> QED
  BY <1>0, <1>11, <1>13, <1>14

\* completeWork moves what was set aside to the front of an empty list.
LEMMA SwapKeeps ==
  ASSUME IInv, LineInv, NEW k \in Workers, CompleteWorkSwap(k)
  PROVE  UNCHANGED <<Pending, finished>>
<1>1. /\ wpc[k] = "swap" /\ wns[k] \in Namespaces
      /\ wpc' = [wpc EXCEPT ![k] = "get"] /\ wns' = [wns EXCEPT ![k] = NoNs]
      /\ finished' = finished /\ batch' = batch
      /\ work' = [work EXCEPT ![wns[k]] = dirtyWork[wns[k]]]
      /\ dirtyWork' = [dirtyWork EXCEPT ![wns[k]] = <<>>]
  BY DEF CompleteWorkSwap, waiterVars, IInv, TypeOK
<1>t. /\ work \in [Namespaces -> Seq(Waiters)] /\ dirtyWork \in [Namespaces -> Seq(Waiters)]
      /\ wpc \in [Workers -> WorkerPC] /\ wns \in [Workers -> Namespaces \cup {NoNs}]
  BY DEF IInv, TypeOK
<1>2. work[wns[k]] = <<>>
  BY <1>1 DEF IInv, OwnInv, OwnsInProgress, NoLostWakeup
<1>3. ASSUME NEW ns \in Namespaces PROVE LineOf(ns)' = LineOf(ns)
  <2>1. Checking(ns)' = Checking(ns)
    BY <1>1, <1>t DEF Checking
  <2>2. BatchOf(ns)' = BatchOf(ns)
    BY <1>1, <2>1, SameBatch
  <2>3. CASE ns = wns[k]
    <3> DEFINE b == BatchOf(ns)
               d == dirtyWork[ns]
    <3>1. b \in Seq(Waiters) /\ d \in Seq(Waiters) /\ b \o d \in Seq(Waiters)
      BY LineTyped
    <3>2. b \o <<>> = b /\ (b \o d) \o <<>> = b \o d
      BY <3>1, ConcatEmpty
    <3>3. work'[ns] = d /\ dirtyWork'[ns] = <<>>
      BY <1>1, <1>t, <2>3
    <3> QED
      BY <1>2, <2>2, <2>3, <3>2, <3>3 DEF LineOf
  <2>4. CASE ns # wns[k]
    BY <1>1, <1>t, <2>2, <2>4 DEF LineOf
  <2> QED
    BY <2>3, <2>4
<1> QED
  BY <1>1, <1>3 DEF Pending

\* A worker with an empty batch, or between its batches, changes no line.
LEMMA WorkerKeeps ==
  ASSUME IInv, LineInv, NEW k \in Workers, GetWorkPop(k) \/ DoWorkEmpty(k) \/ CompleteWorkDone(k)
  PROVE  UNCHANGED <<Pending, finished>>
<1>t. /\ wpc \in [Workers -> WorkerPC] /\ wns \in [Workers -> Namespaces \cup {NoNs}]
  BY DEF IInv, TypeOK
<1>1. UNCHANGED <<work, dirtyWork, batch, finished>>
  BY DEF GetWorkPop, DoWorkEmpty, CompleteWorkDone, workVars, waiterVars
<1>2. CASE GetWorkPop(k) \/ CompleteWorkDone(k)
  <2>1. \A ns \in Namespaces : Checking(ns)' = Checking(ns)
    BY <1>2, <1>t DEF Checking, GetWorkPop, CompleteWorkDone
  <2>2. \A ns \in Namespaces : BatchOf(ns)' = BatchOf(ns)
    BY <1>1, <2>1, SameBatch
  <2> QED
    BY <1>1, <2>2, LineKept
<1>3. CASE DoWorkEmpty(k)
  <2>1. wpc[k] = "check" /\ batch[k] = <<>> /\ wpc' = [wpc EXCEPT ![k] = "done"] /\ wns' = wns
    BY <1>3 DEF DoWorkEmpty
  <2>2. ASSUME NEW ns \in Namespaces PROVE BatchOf(ns)' = BatchOf(ns)
    <3>1. CASE ns = wns[k]
      <4>1. Checking(ns) = {k}
        BY <2>1, <3>1 DEF Checking, IInv, OwnInv, OneOwner
      <4>2. Checking(ns)' = {}
        BY <1>t, <2>1, <4>1 DEF Checking
      <4>3. BatchOf(ns) = <<>>
        BY <2>1, <4>1, BatchOfChecker
      <4>4. BatchOf(ns)' = <<>>
        BY <4>2 DEF BatchOf, Checking
      <4> QED
        BY <4>3, <4>4
    <3>2. CASE ns # wns[k]
      <4>1. Checking(ns)' = Checking(ns)
        BY <1>t, <2>1, <3>2 DEF Checking
      <4> QED
        BY <1>1, <4>1, SameBatch
    <3> QED
      BY <3>1, <3>2
  <2> QED
    BY <1>1, <2>2, LineKept
<1> QED
  BY <1>2, <1>3

\* Evaluate touches no line, except in the second half of addWork.
LEMMA CallerKeeps ==
  ASSUME NEW w \in Waiters,
         EvaluateUntracked(w) \/ AddWorkQueue(w) \/ EvaluateReturn(w) \/ EvaluateTimeout(w)
  PROVE  UNCHANGED <<Pending, finished>>
<1>1. UNCHANGED <<work, dirtyWork, finished, batch, wpc, wns>>
  BY DEF EvaluateUntracked, AddWorkQueue, EvaluateReturn, EvaluateTimeout, workVars, workerVars
<1> QED
  BY <1>1, LineKept DEF BatchOf

\* The abstract module reads the requests of a line as this one does.
LEMMA LineRange == \A f : Line!Range(f) = Range(f)
BY DEF Line!Range, Range

\* The evaluator steps as the line does: addWork submits, checkAttributes
\* answers a batch from the front, and everything else is invisible.
LEMMA LineNext == IInv /\ LineInv /\ [Next]_vars => [Line!Next]_(Line!vars)
<1> SUFFICES ASSUME IInv, LineInv, [Next]_vars PROVE [Line!Next]_(Line!vars)
  OBVIOUS
<1>1. UNCHANGED <<Pending, finished>> => UNCHANGED Line!vars
  BY DEF Line!vars
<1>2. ASSUME NEW w \in Waiters, AddWorkFile(w) PROVE Line!Next
  <2>1. Line!Submit(w)
    BY <1>2, FileSubmits, LineRange DEF Line!Submit
  <2> QED
    BY <2>1 DEF Line!Next
<1>3. ASSUME NEW k \in Workers, CheckAttributes(k) PROVE Line!Next
  <2>1. wns[k] \in Namespaces
    BY <1>3 DEF CheckAttributes, IInv, TypeOK
  <2>2. Line!AnswerBatch(wns[k])
    BY <1>3, CheckAnswers, LineRange DEF Line!AnswerBatch
  <2>3. \E ns \in Namespaces : Line!AnswerBatch(ns)
    BY <2>1, <2>2
  <2> QED
    BY <2>3 DEF Line!Next
<1>4. CASE UNCHANGED vars
  <2>1. UNCHANGED <<work, dirtyWork, finished, batch, wpc, wns>>
    BY <1>4 DEF vars, workVars, workerVars, waiterVars
  <2>2. UNCHANGED <<Pending, finished>>
    BY <2>1, LineKept DEF BatchOf
  <2> QED
    BY <1>1, <2>2
<1> QED
  BY <1>1, <1>2, <1>3, <1>4, TakeKeeps, SwapKeeps, WorkerKeeps, CallerKeeps
  DEF Next, Caller, Worker, Quiescent

\* addWork, getWork and completeWork together implement BatchAdmission: no
\* request is lost, overtaken in its namespace or answered twice, whatever the
\* goroutines' interleaving.  The other half of ImplementsLine, that a line is
\* eventually served, rests on fairness.
THEOREM LineImplemented == Spec => Line!Init /\ [][Line!Next]_(Line!vars)
<1>1. Init => LineInv
  BY RangeEmpty DEF Init, LineInv, FiledOnce, BatchesChecked
<1>2. Init => Line!Init
  <2> SUFFICES ASSUME Init PROVE Line!Init
    OBVIOUS
  <2>1. \A ns \in Namespaces : Checking(ns) = {}
    BY DEF Init, Checking
  <2>2. <<>> \in Seq(Waiters)
    OBVIOUS
  <2>3. <<>> \o <<>> = <<>>
    BY <2>2, ConcatEmpty
  <2>4. \A ns \in Namespaces : LineOf(ns) = <<>>
    BY <2>1, <2>3, BatchOfChecker DEF Init, LineOf
  <2> QED
    BY <2>4 DEF Init, Line!Init, Pending
<1> QED
  BY <1>1, <1>2, LineStep, LineNext, Inductive, PTL DEF Spec
=============================================================================
