---------------------------- MODULE WatchRegistry ----------------------------
(***************************************************************************)
(* Watches on spaces and accounts: pkg/watch/watch.go and the two watcher  *)
(* types of pkg/apiserver/registry/{space,account}/watcher.go, which       *)
(* differ only in the object they convert.                                 *)
(*                                                                         *)
(* One goroutine of the shared informer calls the registry's OnAdd,        *)
(* OnUpdate and OnDelete.  Each walks the subscribed watchers under the    *)
(* registry's read lock; Observe sends on the watcher's unbuffered channel *)
(* under the watcher's own read lock.  Every watch request has a goroutine *)
(* that receives from the channel until the client leaves and then calls   *)
(* Stop, which holds the watcher's write lock while it unsubscribes (the   *)
(* registry's write lock) and closes the channel.                          *)
(*                                                                         *)
(* Subscribe and Unsubscribe hold the registry's lock for their whole      *)
(* body, so each is one step; the walk over the watchers is not.  The      *)
(* slice of watchers is a set here and the walk takes them in any order,   *)
(* the slice's order included: no property tells the orders apart.         *)
(***************************************************************************)
EXTENDS Naturals, Sequences

CONSTANTS
  Watchers,     \* watch requests
  Objects,      \* namespaces or accounts
  MaxEvents,    \* bound: changes the informer reports
  NoWatcher     \* no watcher is being served

ASSUME WatchAssumption == MaxEvents \in Nat /\ NoWatcher \notin Watchers

VARIABLES
  live,         \* objects in the informer's cache
  pending,      \* notifications waiting in the informer's listener
  reported,     \* number of notifications so far
  watcher,      \* registry.watcher: the subscribed watchers
  dpc,          \* pc of the goroutine that calls the registry
  rest,         \* watchers the current OnAdd/OnUpdate/OnDelete has yet to visit
  cur,          \* the watcher whose Observe is running
  event,        \* sequence holding the event being dispatched, or empty
  wpc,          \* [Watchers -> pc of the watch request]
  received,     \* [Watchers -> events received from the channel]
  due           \* [Watchers -> events dispatched while subscribed] (history)

informerVars == <<live, pending, reported>>
dispatchVars == <<dpc, rest, cur, event>>
clientVars == <<wpc, received>>
watchVars == <<informerVars, watcher, dispatchVars, clientVars, due>>

DispatchPC == {"idle", "walk", "rlock", "send", "panic"}
WatchPC == {"new", "watching", "gone", "locked", "unsubscribed", "stopped"}

\* What the informer hands over: the handler it calls, the object, whether a
\* deletion is only known from a relist (DeletedFinalStateUnknown), the
\* watchers whose user may get the object and whose label selector matches it,
\* and, for the history, whether the object existed before and exists after.
Notification == [handler : {"OnAdd", "OnUpdate", "OnDelete"}, obj : Objects,
                 unknown : BOOLEAN, seenBy : SUBSET Watchers,
                 before : BOOLEAN, after : BOOLEAN]
Event == [type : {"Added", "Modified", "Deleted"}, obj : Objects,
          seenBy : SUBSET Watchers]

WatchTypeOK ==
  /\ live \subseteq Objects
  /\ pending \in Seq(Notification)
  /\ reported \in 0..MaxEvents
  /\ watcher \subseteq Watchers
  /\ dpc \in DispatchPC
  /\ rest \subseteq Watchers
  /\ cur \in Watchers \cup {NoWatcher}
  /\ dpc \in {"rlock", "send"} => cur # NoWatcher
  /\ event \in Seq(Event)
  /\ dpc \in {"walk", "rlock", "send"} => event # <<>>
  /\ wpc \in [Watchers -> WatchPC]
  /\ received \in [Watchers -> Seq(Event)]
  /\ due \in [Watchers -> Seq(Event)]

WatchInit ==
  /\ live = {} /\ pending = <<>> /\ reported = 0
  /\ watcher = {}
  /\ dpc = "idle" /\ rest = {} /\ cur = NoWatcher /\ event = <<>>
  /\ wpc = [w \in Watchers |-> "new"]
  /\ received = [w \in Watchers |-> <<>>]
  /\ due = [w \in Watchers |-> <<>>]

\* The registry's lock: the dispatcher reads, Subscribe and Unsubscribe write.
RegistryFree == dpc = "idle"

\* The write lock of watcher w is held by its Stop, the read lock by Observe.
StopHolds(w) == wpc[w] \in {"locked", "unsubscribed"}
ObserveHolds(w) == dpc = "send" /\ cur = w

-----------------------------------------------------------------------------
(* The informer: an object is added, then updated, then deleted.           *)

Change(o) ==
  \E h \in {"OnAdd", "OnUpdate", "OnDelete"}, u \in BOOLEAN, S \in SUBSET Watchers :
    /\ reported < MaxEvents
    /\ (h = "OnAdd") <=> (o \notin live)
    /\ u => h = "OnDelete"
    /\ live' = CASE h = "OnAdd" -> live \cup {o}
                 [] h = "OnUpdate" -> live
                 [] h = "OnDelete" -> live \ {o}
    /\ pending' = Append(pending,
                    [handler |-> h, obj |-> o, unknown |-> u, seenBy |-> S,
                     before |-> o \in live, after |-> o \in live'])
    /\ reported' = reported + 1
    /\ UNCHANGED <<watcher, dispatchVars, clientVars, due>>

-----------------------------------------------------------------------------
(* The registry's handlers and Observe.                                    *)

\* OnAdd, OnUpdate and OnDelete differ in the type they give the event.
EventOf(n) ==
  [type |-> CASE n.handler = "OnAdd" -> "Added"
              [] n.handler = "OnUpdate" -> "Modified"
              [] n.handler = "OnDelete" -> "Deleted",
   obj |-> n.obj, seenBy |-> n.seenBy]

\* Mutant of Visits: OnDelete does not unwrap the tombstone either.
VisitsPlain(n) == IF n.unknown THEN {} ELSE watcher

\* The watchers the handler walks: none if it was not given an object.
\* OnDelete looks inside a DeletedFinalStateUnknown, the others do not.
Visits(n) == IF n.unknown /\ n.handler # "OnDelete" THEN {} ELSE watcher

\* What a client that may see the object is owed: what became of the object.
Owed(n) ==
  [type |-> CASE ~n.before -> "Added"
              [] n.before /\ n.after -> "Modified"
              [] ~n.after -> "Deleted",
   obj |-> n.obj, seenBy |-> n.seenBy]

\* A handler begins: it takes the registry's read lock.
Dispatch ==
  /\ dpc = "idle"
  /\ pending # <<>>
  /\ LET n == Head(pending) IN
       /\ event' = <<EventOf(n)>>
       /\ rest' = Visits(n)
       /\ due' = [w \in Watchers |->
                    IF w \in n.seenBy /\ wpc[w] = "watching"
                    THEN Append(due[w], Owed(n)) ELSE due[w]]
  /\ pending' = Tail(pending)
  /\ dpc' = "walk"
  /\ UNCHANGED <<live, reported, watcher, cur, clientVars>>

\* Observe returns without sending: not authorized, or not selected.
ObserveSkip(w) ==
  /\ dpc = "walk"
  /\ w \in rest \ event[1].seenBy
  /\ rest' = rest \ {w}
  /\ UNCHANGED <<informerVars, watcher, dpc, cur, event, clientVars, due>>

\* Observe has passed the checks and asks for the watcher's read lock.
ObservePass(w) ==
  /\ dpc = "walk"
  /\ w \in rest \cap event[1].seenBy
  /\ cur' = w
  /\ dpc' = "rlock"
  /\ UNCHANGED <<informerVars, watcher, rest, event, clientVars, due>>

ObserveLock(w) ==
  /\ dpc = "rlock"
  /\ w = cur
  /\ ~StopHolds(w)
  /\ dpc' = "send"
  /\ UNCHANGED <<informerVars, watcher, rest, cur, event, clientVars, due>>

\* The channel is unbuffered: a send meets a request that is receiving.  A
\* send on a closed channel panics.
ObserveSend(w) ==
  /\ dpc = "send"
  /\ w = cur
  /\ wpc[w] \in {"watching", "stopped"}
  /\ dpc' = IF wpc[w] = "stopped" THEN "panic" ELSE "walk"
  /\ received' = IF wpc[w] = "stopped" THEN received
                 ELSE [received EXCEPT ![w] = Append(@, event[1])]
  /\ rest' = rest \ {w}
  /\ cur' = NoWatcher
  /\ UNCHANGED <<informerVars, watcher, event, wpc, due>>

\* Mutant of DispatchEnd: the lock is kept until the next notification.
DispatchEndDeferred ==
  /\ dpc = "walk"
  /\ rest = {}
  /\ pending # <<>>
  /\ dpc' = "idle"
  /\ event' = <<>>
  /\ UNCHANGED <<informerVars, watcher, rest, cur, clientVars, due>>

\* The handler returns and releases the registry's lock.
DispatchEnd ==
  /\ dpc = "walk"
  /\ rest = {}
  /\ dpc' = "idle"
  /\ event' = <<>>
  /\ UNCHANGED <<informerVars, watcher, rest, cur, clientVars, due>>

-----------------------------------------------------------------------------
(* A watch request.                                                        *)

\* Watch: a new watcher subscribes; the request starts to receive.
Watch(w) ==
  /\ wpc[w] = "new"
  /\ RegistryFree
  /\ watcher' = watcher \cup {w}
  /\ wpc' = [wpc EXCEPT ![w] = "watching"]
  /\ UNCHANGED <<informerVars, dispatchVars, received, due>>

\* The client closes the connection or the request times out: the request
\* stops receiving and its deferred Stop runs.
Leave(w) ==
  /\ wpc[w] = "watching"
  /\ wpc' = [wpc EXCEPT ![w] = "gone"]
  /\ UNCHANGED <<informerVars, watcher, dispatchVars, received, due>>

StopLock(w) ==
  /\ wpc[w] = "gone"
  /\ ~ObserveHolds(w)
  /\ wpc' = [wpc EXCEPT ![w] = "locked"]
  /\ UNCHANGED <<informerVars, watcher, dispatchVars, received, due>>

\* Mutant of Unsubscribe: the filtered list is not stored.
UnsubscribeUnstored(w) == UNCHANGED watcher

Unsubscribe(w) == watcher' = watcher \ {w}

StopUnsubscribe(w) ==
  /\ wpc[w] = "locked"
  /\ RegistryFree
  /\ Unsubscribe(w)
  /\ wpc' = [wpc EXCEPT ![w] = "unsubscribed"]
  /\ UNCHANGED <<informerVars, dispatchVars, received, due>>

StopClose(w) ==
  /\ wpc[w] = "unsubscribed"
  /\ wpc' = [wpc EXCEPT ![w] = "stopped"]
  /\ UNCHANGED <<informerVars, watcher, dispatchVars, received, due>>

Observe ==
  \E w \in Watchers : ObserveSkip(w) \/ ObservePass(w) \/ ObserveLock(w) \/ ObserveSend(w)
Stop(w) == StopLock(w) \/ StopUnsubscribe(w) \/ StopClose(w)

WatchNext ==
  \/ \E o \in Objects : Change(o)
  \/ Dispatch
  \/ Observe
  \/ DispatchEnd
  \/ \E w \in Watchers : Watch(w) \/ Leave(w) \/ Stop(w)

WatchSpec == WatchInit /\ [][WatchNext]_watchVars

\* The Go runtime runs every goroutine that can run.  Nothing obliges the
\* cluster to change, nor a client to watch or to leave.
Fairness ==
  /\ WF_watchVars(Dispatch \/ Observe \/ DispatchEnd)
  /\ \A w \in Watchers : WF_watchVars(Stop(w))

FairSpec == WatchSpec /\ Fairness

-----------------------------------------------------------------------------
\* The informer's goroutine never sends on a channel that Stop has closed:
\* the panic would end the process.  Observe takes the watcher's lock without
\* looking at w.stopped, so this rests on Stop unsubscribing before it closes
\* and on the walk holding the registry's lock.
NoSendOnClosed == dpc # "panic"

\* A client sees every change of every object it may see, once, in order and
\* as what it was, from the moment it subscribed until it leaves: what it has
\* received is what was dispatched to it, up to the event being delivered
\* now.  A deletion the informer missed and learnt of by a relist counts.
GapFree ==
  \A w \in Watchers :
    /\ Len(received[w]) <= Len(due[w])
    /\ received[w] = SubSeq(due[w], 1, Len(received[w]))
    /\ (wpc[w] = "watching" /\ dpc = "idle") => received[w] = due[w]

\* The two ways in which the goroutines block each other for good: an event
\* is being sent to a client that has left, so that nobody receives it and
\* Stop waits for Observe's lock; and Observe waits for the lock of a Stop
\* that waits for the registry's lock, which the walk holds.
Blocked ==
  \/ dpc = "send" /\ wpc[cur] = "gone"
  \/ dpc = "rlock" /\ wpc[cur] = "locked"

\* Stop closes the channel and releases what the watch uses: once the client
\* is gone it returns, however many handlers and other watches want the same
\* two locks, or the goroutines are in one of those two deadlocks.
StopReturns == \A w \in Watchers : (wpc[w] = "gone") ~> (wpc[w] = "stopped" \/ Blocked)
=============================================================================
