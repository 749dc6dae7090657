--------------------------- MODULE QuotaEvaluator ---------------------------
(***************************************************************************)
(* The request batching of the quota evaluator                             *)
(* (kube/plugin/pkg/admission/resourcequota/controller.go).                *)
(*                                                                         *)
(* Every admission request that may consume quota becomes a waiter.        *)
(* addWork files it under its namespace and adds the namespace to a        *)
(* workqueue; worker goroutines take a namespace with everything filed     *)
(* under it, decide the batch and close each waiter's channel.  work,      *)
(* dirtyWork and inProgress are guarded by workLock; the workqueue has a   *)
(* lock of its own, and addWork and completeWork call it while they hold   *)
(* workLock, so a worker may pop a namespace between the two halves of     *)
(* either.  Each half is therefore an action of its own.                   *)
(*                                                                         *)
(* How a batch is decided belongs to AccountQuotaAdmission; here only that *)
(* it is decided, and its waiters are told, matters.                       *)
(***************************************************************************)
EXTENDS Naturals, Sequences, Functions

CONSTANTS
  Namespaces,   \* namespace names, the keys of the workqueue
  Waiters,      \* admission requests, each evaluated once
  Workers,      \* the goroutines run() starts
  NsOf,         \* NsOf[w]: the namespace of request w
  Untracked,    \* requests for an ignored resource or an unhandled operation
  NoNs          \* a worker waiting in queue.Get has no namespace

ASSUME EvaluatorAssumption ==
  /\ NsOf \in [Waiters -> Namespaces]
  /\ Untracked \subseteq Waiters
  /\ NoNs \notin Namespaces

VARIABLES
  queue,        \* workqueue: namespaces ready to be popped, in order
  dirty,        \* workqueue: namespaces that need processing
  processing,   \* workqueue: namespaces popped and not Done
  work,         \* [Namespaces -> Seq(Waiters)]
  dirtyWork,    \* [Namespaces -> Seq(Waiters)], filed while in progress
  inProgress,   \* namespaces between getWork and completeWork
  wpc,          \* [Workers -> pc in doWork]
  wns,          \* [Workers -> namespace being worked on, or NoNs]
  batch,        \* [Workers -> waiters taken by getWork]
  epc,          \* [Waiters -> pc in Evaluate]
  finished      \* waiters whose finished channel is closed

queueVars == <<queue, dirty, processing>>
workVars == <<work, dirtyWork, inProgress>>
workerVars == <<wpc, wns, batch>>
waiterVars == <<epc, finished>>
vars == <<queueVars, workVars, workerVars, waiterVars>>

WorkerPC == {"get", "got", "check", "done", "swap"}
EvaluatePC == {"start", "adding", "waiting", "returned", "timeout"}

TypeOK ==
  /\ queue \in Seq(Namespaces)
  /\ dirty \subseteq Namespaces
  /\ processing \subseteq Namespaces
  /\ work \in [Namespaces -> Seq(Waiters)]
  /\ dirtyWork \in [Namespaces -> Seq(Waiters)]
  /\ inProgress \subseteq Namespaces
  /\ wpc \in [Workers -> WorkerPC]
  /\ wns \in [Workers -> Namespaces \cup {NoNs}]
  /\ \A k \in Workers : wpc[k] # "get" => wns[k] \in Namespaces
  /\ batch \in [Workers -> Seq(Waiters)]
  /\ epc \in [Waiters -> EvaluatePC]
  /\ finished \subseteq Waiters

(***************************************************************************)
(* workLock is held exactly by a caller between the halves of addWork and  *)
(* by a worker between the halves of completeWork.                         *)
(***************************************************************************)
WorkLockFree ==
  /\ \A w \in Waiters : epc[w] # "adding"
  /\ \A k \in Workers : wpc[k] # "swap"

Init ==
  /\ queue = <<>> /\ dirty = {} /\ processing = {}
  /\ work = [ns \in Namespaces |-> <<>>]
  /\ dirtyWork = [ns \in Namespaces |-> <<>>]
  /\ inProgress = {}
  /\ wpc = [k \in Workers |-> "get"]
  /\ wns = [k \in Workers |-> NoNs]
  /\ batch = [k \in Workers |-> <<>>]
  /\ epc = [w \in Waiters |-> "start"]
  /\ finished = {}

-----------------------------------------------------------------------------
(* The workqueue's three operations on an item.                            *)

QueueAdd(ns) ==
  /\ dirty' = dirty \cup {ns}
  /\ queue' = IF ns \in dirty \cup processing THEN queue ELSE Append(queue, ns)
  /\ UNCHANGED processing

\* Mutant of QueueGet: the item is not marked as being processed.
QueueGetUnmarked(ns) ==
  /\ queue # <<>>
  /\ ns = Head(queue)
  /\ queue' = Tail(queue)
  /\ dirty' = dirty \ {ns}
  /\ UNCHANGED processing

QueueGet(ns) ==
  /\ queue # <<>>
  /\ ns = Head(queue)
  /\ queue' = Tail(queue)
  /\ processing' = processing \cup {ns}
  /\ dirty' = dirty \ {ns}

QueueDone(ns) ==
  /\ processing' = processing \ {ns}
  /\ queue' = IF ns \in dirty THEN Append(queue, ns) ELSE queue
  /\ UNCHANGED dirty

-----------------------------------------------------------------------------
(* Evaluate, in the caller's goroutine.                                    *)

\* The resource is ignored, or its evaluator does not handle the operation.
EvaluateUntracked(w) ==
  /\ w \in Untracked
  /\ epc[w] = "start"
  /\ epc' = [epc EXCEPT ![w] = "returned"]
  /\ UNCHANGED <<finished, queueVars, workVars, workerVars>>

\* addWork up to and including queue.Add.
AddWorkQueue(w) ==
  /\ w \notin Untracked
  /\ epc[w] = "start"
  /\ WorkLockFree
  /\ epc' = [epc EXCEPT ![w] = "adding"]
  /\ QueueAdd(NsOf[w])
  /\ UNCHANGED <<finished, workVars, workerVars>>

\* The rest of addWork: file the waiter, unlock, wait.
AddWorkFile(w) ==
  /\ epc[w] = "adding"
  /\ epc' = [epc EXCEPT ![w] = "waiting"]
  /\ IF NsOf[w] \in inProgress
       THEN /\ dirtyWork' = [dirtyWork EXCEPT ![NsOf[w]] = Append(@, w)]
            /\ UNCHANGED work
       ELSE /\ work' = [work EXCEPT ![NsOf[w]] = Append(@, w)]
            /\ UNCHANGED dirtyWork
  /\ UNCHANGED <<inProgress, finished, queueVars, workerVars>>

\* select: the finished channel is closed.
EvaluateReturn(w) ==
  /\ epc[w] = "waiting"
  /\ w \in finished
  /\ epc' = [epc EXCEPT ![w] = "returned"]
  /\ UNCHANGED <<finished, queueVars, workVars, workerVars>>

\* select: the 10 seconds are over.  The waiter stays where it is filed.
EvaluateTimeout(w) ==
  /\ epc[w] = "waiting"
  /\ epc' = [epc EXCEPT ![w] = "timeout"]
  /\ UNCHANGED <<finished, queueVars, workVars, workerVars>>

-----------------------------------------------------------------------------
(* doWork, in a worker's goroutine.                                        *)

\* getWork up to queue.Get returning a namespace.
GetWorkPop(k) ==
  /\ wpc[k] = "get"
  /\ \E ns \in Namespaces :
       /\ QueueGet(ns)
       /\ wns' = [wns EXCEPT ![k] = ns]
  /\ wpc' = [wpc EXCEPT ![k] = "got"]
  /\ UNCHANGED <<batch, workVars, waiterVars>>

\* Mutant of GetWorkTake: workLock is not taken.
GetWorkTakeUnlocked(k) ==
  /\ wpc[k] = "got"
  /\ batch' = [batch EXCEPT ![k] = work[wns[k]]]
  /\ work' = [work EXCEPT ![wns[k]] = <<>>]
  /\ dirtyWork' = [dirtyWork EXCEPT ![wns[k]] = <<>>]
  /\ inProgress' = inProgress \cup {wns[k]}
  /\ wpc' = [wpc EXCEPT ![k] = "check"]
  /\ UNCHANGED <<wns, queueVars, waiterVars>>

\* The rest of getWork, under workLock.
GetWorkTake(k) ==
  /\ wpc[k] = "got"
  /\ WorkLockFree
  /\ batch' = [batch EXCEPT ![k] = work[wns[k]]]
  /\ work' = [work EXCEPT ![wns[k]] = <<>>]
  /\ dirtyWork' = [dirtyWork EXCEPT ![wns[k]] = <<>>]
  /\ inProgress' = inProgress \cup {wns[k]}
  /\ wpc' = [wpc EXCEPT ![k] = "check"]
  /\ UNCHANGED <<wns, queueVars, waiterVars>>

\* len(admissionAttributes) == 0: straight to completeWork.
DoWorkEmpty(k) ==
  /\ wpc[k] = "check"
  /\ batch[k] = <<>>
  /\ wpc' = [wpc EXCEPT ![k] = "done"]
  /\ UNCHANGED <<wns, batch, queueVars, workVars, waiterVars>>

\* Mutant of CheckAttributes: an early return, as for an error of GetQuotas,
\* leaves the channels open.
CheckAttributesSilent(k) ==
  /\ wpc[k] = "check"
  /\ batch[k] # <<>>
  /\ finished' \in {finished, finished \cup Range(batch[k])}
  /\ batch' = [batch EXCEPT ![k] = <<>>]
  /\ wpc' = [wpc EXCEPT ![k] = "done"]
  /\ UNCHANGED <<wns, epc, queueVars, workVars>>

\* checkAttributes: decide every waiter of the batch, then close its channel.
CheckAttributes(k) ==
  /\ wpc[k] = "check"
  /\ batch[k] # <<>>
  /\ finished' = finished \cup Range(batch[k])
  /\ batch' = [batch EXCEPT ![k] = <<>>]
  /\ wpc' = [wpc EXCEPT ![k] = "done"]
  /\ UNCHANGED <<wns, epc, queueVars, workVars>>

\* completeWork up to and including queue.Done.
CompleteWorkDone(k) ==
  /\ wpc[k] = "done"
  /\ WorkLockFree
  /\ QueueDone(wns[k])
  /\ wpc' = [wpc EXCEPT ![k] = "swap"]
  /\ UNCHANGED <<wns, batch, workVars, waiterVars>>

\* Mutant of CompleteWorkSwap: the namespace stays in progress.
CompleteWorkSwapStays(k) ==
  /\ wpc[k] = "swap"
  /\ work' = [work EXCEPT ![wns[k]] = dirtyWork[wns[k]]]
  /\ dirtyWork' = [dirtyWork EXCEPT ![wns[k]] = <<>>]
  /\ wpc' = [wpc EXCEPT ![k] = "get"]
  /\ wns' = [wns EXCEPT ![k] = NoNs]
  /\ UNCHANGED <<inProgress, batch, queueVars, waiterVars>>

\* The rest of completeWork: the dirty list becomes the work list.
CompleteWorkSwap(k) ==
  /\ wpc[k] = "swap"
  /\ work' = [work EXCEPT ![wns[k]] = dirtyWork[wns[k]]]
  /\ dirtyWork' = [dirtyWork EXCEPT ![wns[k]] = <<>>]
  /\ inProgress' = inProgress \ {wns[k]}
  /\ wpc' = [wpc EXCEPT ![k] = "get"]
  /\ wns' = [wns EXCEPT ![k] = NoNs]
  /\ UNCHANGED <<batch, queueVars, waiterVars>>

-----------------------------------------------------------------------------
Caller(w) ==
  \/ EvaluateUntracked(w) \/ AddWorkQueue(w) \/ AddWorkFile(w)
  \/ EvaluateReturn(w) \/ EvaluateTimeout(w)

Worker(k) ==
  \/ GetWorkPop(k) \/ GetWorkTake(k) \/ DoWorkEmpty(k)
  \/ CheckAttributes(k) \/ CompleteWorkDone(k) \/ CompleteWorkSwap(k)

\* Everything was evaluated and every worker blocks in queue.Get.
Quiescent ==
  /\ \A w \in Waiters : epc[w] \in {"returned", "timeout"}
  /\ \A k \in Workers : wpc[k] = "get"
  /\ queue = <<>>
  /\ UNCHANGED vars

Next ==
  \/ \E w \in Waiters : Caller(w)
  \/ \E k \in Workers : Worker(k)
  \/ Quiescent

(***************************************************************************)
(* A goroutine that can run does run: every step of a worker, and the half *)
(* of addWork that holds workLock.  Nothing obliges a caller to start, and *)
(* nothing obliges its timer to fire.                                      *)
(***************************************************************************)
Fairness ==
  /\ \A k \in Workers : WF_vars(Worker(k))
  /\ \A w \in Waiters : WF_vars(AddWorkFile(w))

Spec == Init /\ [][Next]_vars
FairSpec == Spec /\ Fairness

-----------------------------------------------------------------------------
(* Properties.                                                             *)

\* The checking of a namespace: never two workers of one namespace decide
\* batches at a time, so that the quotas charged for it are charged by one
\* worker (the comment on queue: "we bundle up on a per-namespace basis").
ExclusiveNamespace ==
  \A k1, k2 \in Workers :
    (wns[k1] = wns[k2] /\ wpc[k1] = "check" /\ wpc[k2] = "check") => k1 = k2

\* Somebody will still look at what is filed under ns.
Awaited(ns) ==
  \/ ns \in dirty
  \/ \E k \in Workers : wns[k] = ns /\ wpc[k] = "got"

\* A namespace with filed requests is never forgotten: either the workqueue
\* still has it to hand out, or the worker that popped it has yet to look.
\* Requests set aside in dirtyWork belong to a namespace in progress, whose
\* completeWork moves them before getWork's delete(e.dirtyWork, ns) runs.
NoLostWakeup ==
  \A ns \in Namespaces :
    /\ work[ns] # <<>> => Awaited(ns) /\ ns \notin inProgress
    /\ dirtyWork[ns] # <<>> => Awaited(ns) /\ ns \in inProgress

\* delete(e.dirtyWork, ns) in getWork would drop whatever is set aside there.
\* Nothing is: at that point the namespace is not in progress.
DeleteDropsNothing ==
  \A k \in Workers :
    (wpc[k] = "got" /\ WorkLockFree) => dirtyWork[wns[k]] = <<>>

\* The batching implements the plain line of BatchAdmission.
BatchOf(ns) ==
  LET owner == {k \in Workers : wns[k] = ns /\ wpc[k] = "check"}
  IN  IF owner = {} THEN <<>> ELSE batch[CHOOSE k \in owner : TRUE]

\* The line of ns is its batch, then what is filed, then what is set aside.
LineOf(ns) == BatchOf(ns) \o work[ns] \o dirtyWork[ns]
Pending == [ns \in Namespaces |-> LineOf(ns)]

Line == INSTANCE BatchAdmission WITH pending <- Pending, answered <- finished

\* getWork, addWork and completeWork together neither lose, reorder nor
\* answer twice a request, and every request filed is eventually answered,
\* also when its caller gave up after 10 seconds.
ImplementsLine == Line!Spec
=============================================================================
