--------------------------- MODULE QuotaController --------------------------
(***************************************************************************)
(* The recalculation of an AccountQuota                                    *)
(* (pkg/manager/quota/controller/controller.go and monitor.go): events of  *)
(* namespaces, of the AccountQuota and of the counted objects, and a       *)
(* periodic timer, put the quota into one of two workqueues; a worker of   *)
(* each recounts what the account's namespaces use and stores it.          *)
(*                                                                         *)
(* Everything is read from caches, and each cache lags on its own: the     *)
(* quota, the namespaces and the counted objects.  Meanwhile admission     *)
(* (AccountQuotaAdmission) charges the same status before the objects      *)
(* exist.                                                                  *)
(*                                                                         *)
(* One AccountQuota with one counted resource: recalculations of different *)
(* quotas share nothing.  A handler runs in the step in which its cache    *)
(* changes; the monitor's events have a queue of their own, as in the      *)
(* code.  Watches do not miss events.                                      *)
(***************************************************************************)
EXTENDS Sums, Sequences

CONSTANTS
  Namespaces,
  Objects,      \* objects of the counted resource
  NsOf,         \* [Objects -> Namespaces]
  Hards,        \* limits an admin sets
  FirstHard,    \* Spec.Quota.Hard at the start
  FirstStatus,  \* Status.Total.Hard at the start, Unset for a new quota
  FirstOwned,   \* namespaces of the account at the start
  Unset,
  MaxMoves,     \* bound: namespaces that join or leave the account
  MaxHardEdits, \* bound: edits of the limit
  MaxErrors     \* bound: failing calls

ASSUME ControllerAssumption ==
  /\ IsFiniteSet(Namespaces) /\ IsFiniteSet(Objects)
  /\ NsOf \in [Objects -> Namespaces]
  /\ Hards \subseteq Nat /\ FirstHard \in Nat
  /\ Unset \notin Nat
  /\ FirstStatus \in {FirstHard, Unset}
  /\ FirstOwned \subseteq Namespaces
  /\ MaxMoves \in Nat /\ MaxHardEdits \in Nat /\ MaxErrors \in Nat

VARIABLES
  quota,        \* the stored AccountQuota
  qwatch,       \* its versions that are not in the cache yet
  qcache,       \* the AccountQuota in the cache
  owned,        \* namespaces labelled with the account
  ownedCache,   \* the same according to the cache
  obj,          \* [Objects -> life of the object]
  lister,       \* [Objects -> life of the object in the lister's cache]
  changes,      \* QuotaMonitor.resourceChanges: deleted objects
  dirty,        \* workqueues that have the quota to hand out
  wpc,          \* [Queues -> pc of the queue's worker]
  wquota,       \* [Queues -> AccountQuota the sync works on]
  wtodo,        \* [Queues -> namespaces yet to be counted]
  wused,        \* [Queues -> [Namespaces -> counted usage]]
  werr,         \* [Queues -> whether the sync met an error]
  moves, hardEdits, errors

apiVars == <<quota, qwatch, owned, obj>>
cacheVars == <<qcache, ownedCache, lister>>
syncVars == <<wpc, wquota, wtodo, wused, werr>>
controllerBounds == <<moves, hardEdits, errors>>
controllerVars == <<apiVars, cacheVars, changes, dirty, syncVars, controllerBounds>>

Queues == {"queue", "missingUsageQueue"}
Quota == [rv : Nat, spec : Nat, hard : Nat \cup {Unset}, total : Nat,
          ns : [Namespaces -> Nat]]
Sum(f) == SumOver(f, Namespaces)
Nothing == [n \in Namespaces |-> 0]
Blank == [rv |-> 0, spec |-> 0, hard |-> Unset, total |-> 0, ns |-> Nothing]

ControllerTypeOK ==
  /\ quota \in Quota /\ qcache \in Quota /\ qwatch \in Seq(Quota)
  /\ owned \subseteq Namespaces /\ ownedCache \subseteq Namespaces
  /\ obj \in [Objects -> {"new", "admitted", "live", "deleted"}]
  /\ lister \in [Objects -> {"none", "present", "gone"}]
  /\ changes \subseteq Objects
  /\ dirty \subseteq Queues
  /\ wpc \in [Queues -> {"idle", "list", "usage", "write"}]
  /\ wquota \in [Queues -> Quota]
  /\ wtodo \in [Queues -> SUBSET Namespaces]
  /\ \A k \in Queues : (wpc[k] = "usage") <=> (wtodo[k] # {})
  /\ wused \in [Queues -> [Namespaces -> Nat]]
  /\ werr \in [Queues -> BOOLEAN]
  /\ moves \in 0..MaxMoves /\ hardEdits \in 0..MaxHardEdits /\ errors \in 0..MaxErrors

\* addQuota: a quota whose limits are not yet in its status goes first, and so
\* does one with a limit in its status for which no usage was ever stored (here
\* not told from a usage of 0).
QueuesFor(q) ==
  IF q.spec # q.hard THEN {"missingUsageQueue"}
  ELSE IF q.total = 0 THEN Queues
  ELSE {"queue"}

\* The controller starts with the quota in its cache: addQuota has run.
ControllerInit ==
  /\ quota = [rv |-> 1, spec |-> FirstHard, hard |-> FirstStatus, total |-> 0, ns |-> Nothing]
  /\ qwatch = <<>> /\ qcache = quota
  /\ owned = FirstOwned /\ ownedCache = FirstOwned
  /\ obj = [o \in Objects |-> "new"]
  /\ lister = [o \in Objects |-> "none"]
  /\ changes = {}
  /\ \E k \in QueuesFor(quota) : dirty = {k}
  /\ wpc = [k \in Queues |-> "idle"]
  /\ wquota = [k \in Queues |-> Blank]
  /\ wtodo = [k \in Queues |-> {}]
  /\ wused = [k \in Queues |-> Nothing]
  /\ werr = [k \in Queues |-> FALSE]
  /\ moves = 0 /\ hardEdits = 0 /\ errors = 0

-----------------------------------------------------------------------------
(* The cluster.                                                            *)

\* The API server stores a version; the watch will deliver it.
Store(q) ==
  /\ quota' = [q EXCEPT !.rv = quota.rv + 1]
  /\ qwatch' = Append(qwatch, quota')

\* Admission: a request that fits is charged to the newest version.  A quota
\* whose status has no limits yet restricts, and is charged, nothing.
Admit(o) ==
  /\ obj[o] = "new"
  /\ obj' = [obj EXCEPT ![o] = "admitted"]
  /\ IF NsOf[o] \in owned /\ quota.hard # Unset
       THEN /\ quota.total < quota.hard
            /\ Store([quota EXCEPT !.total = @ + 1, !.ns[NsOf[o]] = @ + 1])
       ELSE UNCHANGED <<quota, qwatch>>
  /\ UNCHANGED <<owned, cacheVars, changes, dirty, syncVars, controllerBounds>>

\* An admitted object is created, or never is.
CreateObject(o) ==
  /\ obj[o] = "admitted"
  /\ obj' = [obj EXCEPT ![o] = "live"]
  /\ UNCHANGED <<quota, qwatch, owned, cacheVars, changes, dirty, syncVars, controllerBounds>>

\* It is deleted or, if a pod, ends.
DeleteObject(o) ==
  /\ obj[o] = "live"
  /\ obj' = [obj EXCEPT ![o] = "deleted"]
  /\ UNCHANGED <<quota, qwatch, owned, cacheVars, changes, dirty, syncVars, controllerBounds>>

\* A namespace gets, or loses, the account's label.  (The watch delivers
\* every change: one waits for the one before to arrive.)
Move(n) ==
  /\ moves < MaxMoves
  /\ moves' = moves + 1
  /\ ownedCache \cap {n} = owned \cap {n}
  /\ owned' = IF n \in owned THEN owned \ {n} ELSE owned \cup {n}
  /\ UNCHANGED <<quota, qwatch, obj, cacheVars, changes, dirty, syncVars, hardEdits, errors>>

EditHard(h) ==
  /\ hardEdits < MaxHardEdits
  /\ hardEdits' = hardEdits + 1
  /\ h # quota.spec
  /\ Store([quota EXCEPT !.spec = h])
  /\ UNCHANGED <<owned, obj, cacheVars, changes, dirty, syncVars, moves, errors>>

-----------------------------------------------------------------------------
(* The caches and their handlers.                                          *)

\* UpdateFunc of the AccountQuotas reacts to a change of the limits only.
QuotaEvent ==
  /\ qwatch # <<>>
  /\ qcache' = Head(qwatch)
  /\ qwatch' = Tail(qwatch)
  /\ \/ Head(qwatch).spec = qcache.spec /\ dirty' = dirty
     \/ /\ Head(qwatch).spec # qcache.spec
        /\ \E k \in QueuesFor(Head(qwatch)) : dirty' = dirty \cup {k}
  /\ UNCHANGED <<quota, owned, obj, ownedCache, lister, changes, syncVars, controllerBounds>>

\* enqueueNamespace, for the old and the new account of the namespace.
NamespaceEvent(n) ==
  /\ owned \cap {n} # ownedCache \cap {n}
  /\ ownedCache' = (ownedCache \ {n}) \cup (owned \cap {n})
  /\ dirty' = dirty \cup {"queue"}
  /\ UNCHANGED <<apiVars, qcache, lister, changes, syncVars, controllerBounds>>

\* The monitor has no handler for new objects ...
ObjectAdded(o) ==
  /\ lister[o] = "none"
  /\ obj[o] \in {"live", "deleted"}
  /\ lister' = [lister EXCEPT ![o] = "present"]
  /\ UNCHANGED <<apiVars, qcache, ownedCache, changes, dirty, syncVars, controllerBounds>>

\* ... and queues those that are gone.
ObjectDeleted(o) ==
  /\ lister[o] = "present"
  /\ obj[o] = "deleted"
  /\ lister' = [lister EXCEPT ![o] = "gone"]
  /\ changes' = changes \cup {o}
  /\ UNCHANGED <<apiVars, qcache, ownedCache, dirty, syncVars, controllerBounds>>

\* replenishQuota finds the namespace's account in one cache and its quotas,
\* if their status counts the resource, in another.
ReplenishQuota(o) ==
  /\ o \in changes
  /\ changes' = changes \ {o}
  /\ dirty' = IF NsOf[o] \in ownedCache /\ qcache.hard # Unset
              THEN dirty \cup {"queue"} ELSE dirty
  /\ UNCHANGED <<apiVars, cacheVars, syncVars, controllerBounds>>

\* The timer of Run.
EnqueueAll ==
  /\ dirty' = dirty \cup {"queue"}
  /\ UNCHANGED <<apiVars, cacheVars, changes, syncVars, controllerBounds>>

-----------------------------------------------------------------------------
(* A worker: syncAccountQuotaFromKey and syncAccountQuota.                 *)

\* queue.Get, then the quota from the cache.
SyncGet(k) ==
  /\ wpc[k] = "idle"
  /\ k \in dirty
  /\ dirty' = dirty \ {k}
  /\ wquota' = [wquota EXCEPT ![k] = qcache]
  /\ wpc' = [wpc EXCEPT ![k] = "list"]
  /\ UNCHANGED <<apiVars, cacheVars, changes, wtodo, wused, werr, controllerBounds>>

\* The sync returns: queue.Done, and AddRateLimited if there was an error.
Return(k, failed) ==
  /\ dirty' = IF failed THEN dirty \cup {k} ELSE dirty
  /\ wpc' = [wpc EXCEPT ![k] = "idle"]
  /\ wquota' = [wquota EXCEPT ![k] = Blank]
  /\ wused' = [wused EXCEPT ![k] = Nothing]
  /\ werr' = [werr EXCEPT ![k] = FALSE]
  /\ UNCHANGED <<owned, obj, cacheVars, changes, wtodo, moves, hardEdits>>

SyncList(k) ==
  /\ wpc[k] = "list"
  /\ wtodo' = [wtodo EXCEPT ![k] = ownedCache]
  /\ wused' = [wused EXCEPT ![k] = Nothing]
  /\ wpc' = [wpc EXCEPT ![k] = IF ownedCache = {} THEN "write" ELSE "usage"]
  /\ UNCHANGED <<apiVars, cacheVars, changes, dirty, wquota, werr, controllerBounds>>

Counted(n) == Cardinality({o \in Objects : lister[o] = "present" /\ NsOf[o] = n})

\* One round of the loop over the namespaces: the usage so far, overwritten
\* by what CalculateUsage could count.
SyncUsage(k, n) ==
  /\ wpc[k] = "usage"
  /\ n \in wtodo[k]
  /\ wtodo' = [wtodo EXCEPT ![k] = @ \ {n}]
  /\ wpc' = [wpc EXCEPT ![k] = IF wtodo[k] = {n} THEN "write" ELSE "usage"]
  /\ \/ /\ wused' = [wused EXCEPT ![k][n] = Counted(n)]
        /\ UNCHANGED <<werr, errors>>
     \/ /\ errors < MaxErrors
        /\ errors' = errors + 1
        /\ wused' = [wused EXCEPT ![k][n] = wquota[k].ns[n]]
        /\ werr' = [werr EXCEPT ![k] = TRUE]
  /\ UNCHANGED <<apiVars, cacheVars, changes, dirty, wquota, moves, hardEdits>>

\* Mutant of NeedsUpdate: the usage is not compared.
NeedsUpdateLimits(k) == wquota[k].spec # wquota[k].hard

\* The status is sent if the limits or the total differ from the copy read.
NeedsUpdate(k) ==
  \/ wquota[k].spec # wquota[k].hard
  \/ Sum(wused[k]) # wquota[k].total

\* What is sent: the limits of the spec, the usage counted per namespace and
\* its sum.
NewStatus(k) ==
  [wquota[k] EXCEPT !.hard = wquota[k].spec, !.total = Sum(wused[k]), !.ns = wused[k]]

\* Mutant of SyncUpdate: the copy's resourceVersion is not sent, and every
\* update wins.
SyncUpdateBlind(k) ==
  /\ wpc[k] = "write"
  /\ NeedsUpdate(k)
  /\ Store(NewStatus(k))
  /\ \/ Return(k, werr[k]) /\ UNCHANGED errors
     \/ Return(k, TRUE) /\ errors < MaxErrors /\ errors' = errors + 1

\* The update, with the resourceVersion of the copy, and the blocking client
\* after it: its wait for the cache may end early, and may end in an error
\* although the status is stored.
SyncUpdate(k) ==
  /\ wpc[k] = "write"
  /\ NeedsUpdate(k)
  /\ wquota[k].rv = quota.rv
  /\ Store(NewStatus(k))
  /\ \/ Return(k, werr[k]) /\ UNCHANGED errors
     \/ Return(k, TRUE) /\ errors < MaxErrors /\ errors' = errors + 1

\* Mutant of SyncConflict: a conflict is no error, the newer version's writer
\* is relied on.
SyncConflictIgnored(k) ==
  /\ wpc[k] = "write"
  /\ NeedsUpdate(k)
  /\ wquota[k].rv # quota.rv
  /\ Return(k, werr[k])
  /\ UNCHANGED <<quota, qwatch, errors>>

\* Somebody stored a version since.
SyncConflict(k) ==
  /\ wpc[k] = "write"
  /\ NeedsUpdate(k)
  /\ wquota[k].rv # quota.rv
  /\ Return(k, TRUE)
  /\ UNCHANGED <<quota, qwatch, errors>>

SyncClean(k) ==
  /\ wpc[k] = "write"
  /\ ~NeedsUpdate(k)
  /\ Return(k, werr[k])
  /\ UNCHANGED <<quota, qwatch, errors>>

Worker(k) ==
  \/ SyncGet(k) \/ SyncList(k)
  \/ \E n \in Namespaces : SyncUsage(k, n)
  \/ SyncUpdate(k) \/ SyncConflict(k) \/ SyncClean(k)

Cluster ==
  \/ \E o \in Objects : Admit(o) \/ CreateObject(o) \/ DeleteObject(o)
  \/ \E n \in Namespaces : Move(n)
  \/ \E h \in Hards : EditHard(h)

ControllerNext ==
  \/ Cluster
  \/ QuotaEvent
  \/ \E n \in Namespaces : NamespaceEvent(n)
  \/ \E o \in Objects : ObjectAdded(o) \/ ObjectDeleted(o) \/ ReplenishQuota(o)
  \/ EnqueueAll
  \/ \E k \in Queues : Worker(k)

ControllerSpec == ControllerInit /\ [][ControllerNext]_controllerVars

\* Watches deliver, goroutines run and the timer fires.
Fairness ==
  /\ WF_controllerVars(QuotaEvent)
  /\ \A n \in Namespaces : WF_controllerVars(NamespaceEvent(n))
  /\ \A o \in Objects :
       /\ WF_controllerVars(ObjectAdded(o)) /\ WF_controllerVars(ObjectDeleted(o))
       /\ WF_controllerVars(ReplenishQuota(o))
  /\ WF_controllerVars(EnqueueAll)
  /\ \A k \in Queues : WF_controllerVars(Worker(k))

FairSpec == ControllerSpec /\ Fairness

-----------------------------------------------------------------------------
(* Properties.                                                             *)

Using == {o \in Objects : obj[o] = "live" /\ NsOf[o] \in owned}

\* However the two workers, admission and the caches interleave, the status
\* ends up as what the cluster holds once the cluster rests: the limits of
\* the spec, and the objects of the account's namespaces.  (The usage of each
\* namespace need not: whether a status is stored depends on the total.)
Converges == <>[](quota.hard = quota.spec /\ quota.total = Cardinality(Using))

\* While the limits in the status are not those of the spec, the recalculation
\* that stores them is due, whether or not the timer fires: the watch has yet to
\* deliver a version, a workqueue has the quota, or a sync works on a copy in
\* which they differ.  An update of the quota that leaves its spec alone queues
\* nothing, so whoever takes the quota from a workqueue must end with the limits
\* stored or give it back.
LimitsDue ==
  quota.spec # quota.hard =>
    \/ qwatch # <<>>
    \/ dirty # {}
    \/ \E k \in Queues : wpc[k] # "idle" /\ wquota[k].spec # wquota[k].hard

\* A sync that stores a status replaces the very version it has read: it
\* overwrites no charge of admission, no edit of the limits and no status of
\* the other worker that it did not know of, however long it took and however
\* old the cache was it started from.
ReplacesWhatItRead ==
  [][\A k \in Queues :
       wpc[k] = "write" /\ wpc'[k] # "write" /\ quota' # quota => wquota[k] = quota]_controllerVars
=============================================================================
