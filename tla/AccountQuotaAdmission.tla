------------------------ MODULE AccountQuotaAdmission -----------------------
(***************************************************************************)
(* How a batch of requests is charged to the account quotas of its         *)
(* namespace: checkAttributes, checkQuotas and CheckRequest                *)
(* (kube/plugin/pkg/admission/resourcequota/controller.go) over the        *)
(* accessor of pkg/manager/quota/accessor.go, the lock acquisition of      *)
(* pkg/manager/quota/admission.go and the blocking client of               *)
(* pkg/manager/blockingcacheclient.                                        *)
(*                                                                         *)
(* An AccountQuota lives in the API server under optimistic locking.  A    *)
(* replica of kiosk reads it through its informer, which lags, corrected   *)
(* by a look-aside cache of the replica's own writes; replicas share       *)
(* nothing else.  QuotaEvaluator shows that one goroutine at a time works  *)
(* on a namespace in a replica: such a goroutine is a process here.        *)
(*                                                                         *)
(* Resource lists are abstracted to one counted resource: Amount[w][q] is  *)
(* what request w asks of quota q once matched against its scopes and      *)
(* masked to its hard resources, and 0 if that is nothing.                 *)
(***************************************************************************)
EXTENDS Sums, Sequences

CONSTANTS
  NumQuotas,    \* the account's quotas are 1..NumQuotas, in order of name
  Hard,         \* [Quotas -> Nat], Status.Total.Hard
  Namespaces,
  Owned,        \* namespaces labelled with the account
  Replicas,
  Procs,        \* one goroutine per namespace and replica
  NsOf,         \* [Procs -> Namespaces]
  RepOf,        \* [Procs -> Replicas]
  Waiters,      \* admission requests
  ProcOf,       \* [Waiters -> Procs]: where the request is evaluated
  Amount,       \* [Waiters -> [Quotas -> Nat]]
  DryRun,       \* dry-run requests
  Refused,      \* [Waiters -> SUBSET Quotas]: matching quotas that have no
                \* usage yet or whose constraints the request fails
  MaxRetries,   \* 3 in checkAttributes
  SharedLru,    \* whether other accounts' quotas use up the LRU's 100 entries
  MaxBatch,     \* bound: requests in one batch
  NoProc        \* an unlocked lock

Quotas == 1..NumQuotas

ASSUME AdmissionAssumption ==
  /\ NumQuotas \in Nat
  /\ Hard \in [Quotas -> Nat]
  /\ IsFiniteSet(Namespaces)
  /\ Owned \subseteq Namespaces
  /\ NsOf \in [Procs -> Namespaces]
  /\ RepOf \in [Procs -> Replicas]
  /\ ProcOf \in [Waiters -> Procs]
  /\ Amount \in [Waiters -> [Quotas -> Nat]]
  /\ DryRun \subseteq Waiters
  /\ Refused \in [Waiters -> SUBSET Quotas]
  /\ MaxRetries \in Nat
  /\ SharedLru \in BOOLEAN
  /\ MaxBatch \in Nat
  /\ NoProc \notin Procs

VARIABLES
  hist,         \* [Quotas -> Seq(Status)]: the stored versions; the
                \* resourceVersion of a version is its position
  informer,     \* [Replicas -> [Quotas -> version the informer has]]
  lookaside,    \* updatedAccountQuotas: a version, 0 when absent
  locks,        \* [Replicas -> [Quotas -> Procs or NoProc]]
  pc,           \* [Procs -> PC]
  batch,        \* [Procs -> Seq(Waiters)]: admissionAttributes
  next,         \* [Procs -> index into batch]
  scope,        \* [Procs -> quotas this pass of checkQuotas is about]
  seen,         \* [Procs -> [Quotas -> version of originalQuotas]]
  running,      \* [Procs -> [Quotas -> Status.Used of the running quotas]]
  todo,         \* [Procs -> changed quotas not updated yet]
  cur,          \* [Procs -> quota being updated]
  base,         \* [Procs -> version UpdateQuotaStatus read, then wrote]
  failed,       \* [Procs -> updatedFailedQuotas]
  retries,      \* [Procs -> remainingRetries]
  submitted,    \* requests that reached a batch
  result,       \* [Waiters -> waiter.result]
  done,         \* requests whose finished channel is closed
  spent         \* history: what the successful updates charged

apiVars == <<hist, spent>>
replicaVars == <<informer, lookaside, locks>>
passVars == <<next, scope, seen, running>>
updateVars == <<todo, cur, base, failed, retries>>
waiterVars == <<submitted, result, done>>
vars == <<apiVars, replicaVars, pc, batch, passVars, updateVars, waiterVars>>

Status == [total : Int, ns : [Namespaces -> Int]]
Versions(q) == 1..Len(hist[q])
PC == {"idle", "list", "cache", "lock", "check", "update", "recheck", "write", "block",
       "finish"}
Result == {"defaultDeny", "nil", "err"}

ApiOK ==
  /\ hist \in [Quotas -> Seq(Status)]
  /\ \A q \in Quotas : Len(hist[q]) > 0
  /\ spent \in [Quotas -> Status]

ReplicaOK ==
  /\ informer \in [Replicas -> [Quotas -> Nat]]
  /\ lookaside \in [Replicas -> [Quotas -> Nat]]
  /\ locks \in [Replicas -> [Quotas -> Procs \cup {NoProc}]]
  /\ \A r \in Replicas, q \in Quotas :
       informer[r][q] \in Versions(q) /\ lookaside[r][q] \in Versions(q) \cup {0}

PassOK ==
  /\ next \in [Procs -> Nat \ {0}]
  /\ scope \in [Procs -> SUBSET Quotas]
  /\ seen \in [Procs -> [Quotas -> Nat]]
  /\ running \in [Procs -> [Quotas -> Int]]
  /\ \A p \in Procs, q \in Quotas : seen[p][q] \in Versions(q)

UpdateOK ==
  /\ pc \in [Procs -> PC]
  /\ todo \in [Procs -> SUBSET Quotas]
  /\ failed \in [Procs -> SUBSET Quotas]
  /\ retries \in [Procs -> 0..MaxRetries]
  /\ cur \in [Procs -> Nat]
  /\ base \in [Procs -> Nat]
  /\ \A p \in Procs :
       pc[p] \in {"recheck", "write", "block"} => cur[p] \in Quotas /\ base[p] \in Versions(cur[p])

WaiterOK ==
  /\ batch \in [Procs -> Seq(Waiters)]
  /\ submitted \subseteq Waiters
  /\ result \in [Waiters -> Result]
  /\ done \subseteq Waiters

TypeOK == ApiOK /\ ReplicaOK /\ PassOK /\ UpdateOK /\ WaiterOK

Latest(q) == Len(hist[q])
Stored(q) == hist[q][Latest(q)]
Seen(p, q) == hist[q][seen[p][q]].total
Least(S) == CHOOSE x \in S : \A y \in S : x <= y
NoUsage == [total |-> 0, ns |-> [n \in Namespaces |-> 0]]

Init ==
  /\ hist = [q \in Quotas |-> <<NoUsage>>]
  /\ informer = [r \in Replicas |-> [q \in Quotas |-> 1]]
  /\ lookaside = [r \in Replicas |-> [q \in Quotas |-> 0]]
  /\ locks = [r \in Replicas |-> [q \in Quotas |-> NoProc]]
  /\ pc = [p \in Procs |-> "idle"]
  /\ batch = [p \in Procs |-> <<>>]
  /\ next = [p \in Procs |-> 1]
  /\ scope = [p \in Procs |-> {}]
  /\ seen = [p \in Procs |-> [q \in Quotas |-> 1]]
  /\ running = [p \in Procs |-> [q \in Quotas |-> 0]]
  /\ todo = [p \in Procs |-> {}]
  /\ cur = [p \in Procs |-> 0]
  /\ base = [p \in Procs |-> 0]
  /\ failed = [p \in Procs |-> {}]
  /\ retries = [p \in Procs |-> 0]
  /\ submitted = {}
  /\ result = [w \in Waiters |-> "defaultDeny"]
  /\ done = {}
  /\ spent = [q \in Quotas |-> NoUsage]

-----------------------------------------------------------------------------
(* The accessor's look-aside cache.                                        *)

\* checkCache: the newer of a version read from the informer and the
\* replica's own last write ...
CheckCache(r, q, version) ==
  IF version >= lookaside[r][q] THEN version ELSE lookaside[r][q]

\* ... and its entry, removed once the informer has caught up with it.
CheckCacheEntry(r, q, version) ==
  IF version >= lookaside[r][q] THEN 0 ELSE lookaside[r][q]

-----------------------------------------------------------------------------
(* checkAttributes                                                         *)

\* The worker has taken a batch from the evaluator's queue.
Start(p) ==
  /\ pc[p] = "idle"
  /\ \E n \in 1..MaxBatch : \E b \in [1..n -> {w \in Waiters \ submitted : ProcOf[w] = p}] :
       /\ \A i, j \in 1..n : b[i] = b[j] => i = j
       /\ batch' = [batch EXCEPT ![p] = b]
       /\ submitted' = submitted \cup Range(b)
  /\ scope' = [scope EXCEPT ![p] = Quotas]
  /\ retries' = [retries EXCEPT ![p] = MaxRetries]
  /\ pc' = [pc EXCEPT ![p] = "list"]
  /\ UNCHANGED <<apiVars, replicaVars, next, seen, running, todo, cur, base, failed,
                 result, done>>

\* GetQuotas on a namespace without an account, or of an account without
\* quotas: nothing to charge.
ListNone(p) ==
  /\ pc[p] = "list"
  /\ NsOf[p] \notin Owned \/ Quotas = {}
  /\ result' = [w \in Waiters |-> IF w \in Range(batch[p]) THEN "nil" ELSE result[w]]
  /\ pc' = [pc EXCEPT ![p] = "finish"]
  /\ UNCHANGED <<apiVars, replicaVars, batch, passVars, updateVars, submitted, done>>

\* GetQuotas lists the account's quotas from the informer ...
ListQuotas(p) ==
  /\ pc[p] = "list"
  /\ NsOf[p] \in Owned /\ Quotas # {}
  /\ seen' = [seen EXCEPT ![p] = informer[RepOf[p]]]
  /\ pc' = [pc EXCEPT ![p] = "cache"]
  /\ UNCHANGED <<apiVars, replicaVars, batch, next, scope, running, updateVars,
                 waiterVars>>

\* ... or fails: the namespace does not show up within 8 seconds, or a read
\* returns an error.  At first everybody fails; in a retry, those who wait
\* for an update.
ListFails(p) ==
  /\ pc[p] = "list"
  /\ result' = [w \in Waiters |->
       IF w \in Range(batch[p]) /\ (retries[p] = MaxRetries \/ result[w] = "defaultDeny")
       THEN "err" ELSE result[w]]
  /\ pc' = [pc EXCEPT ![p] = "finish"]
  /\ UNCHANGED <<apiVars, replicaVars, batch, passVars, updateVars, submitted, done>>

\* ... and corrects each by the look-aside cache.  The first call happens
\* before the locks are taken, the retries' calls under them.
CheckCaches(p) ==
  LET r == RepOf[p]
  IN  /\ pc[p] = "cache"
      /\ seen' = [seen EXCEPT ![p] = [q \in Quotas |-> CheckCache(r, q, @[q])]]
      /\ lookaside' = [lookaside EXCEPT ![r] =
                         [q \in Quotas |-> CheckCacheEntry(r, q, seen[p][q])]]
      /\ running' = [running EXCEPT ![p] =
                       [q \in Quotas |-> hist[q][CheckCache(r, q, seen[p][q])].total]]
      /\ next' = [next EXCEPT ![p] = 1]
      /\ pc' = [pc EXCEPT ![p] = IF retries[p] = MaxRetries THEN "lock" ELSE "check"]
      /\ UNCHANGED <<apiVars, informer, locks, batch, scope, updateVars, waiterVars>>

\* Mutant of AcquireLock: a lock that is held is taken over.
AcquireLockUnguarded(p) ==
  LET r == RepOf[p]
      missing == {q \in Quotas : locks[r][q] # p}
  IN  /\ pc[p] = "lock"
      /\ locks' = [locks EXCEPT ![r][Least(missing)] = p]
      /\ pc' = [pc EXCEPT ![p] = IF Cardinality(missing) = 1 THEN "check" ELSE "lock"]
      /\ UNCHANGED <<apiVars, informer, lookaside, batch, passVars, updateVars,
                     waiterVars>>

\* Mutant of AcquireLock: without sort.Sort, in the order of a list that may
\* differ from call to call.
AcquireLockUnsorted(p) ==
  LET r == RepOf[p]
      missing == {q \in Quotas : locks[r][q] # p}
  IN  /\ pc[p] = "lock"
      /\ \E q \in missing :
           /\ locks[r][q] = NoProc
           /\ locks' = [locks EXCEPT ![r][q] = p]
      /\ pc' = [pc EXCEPT ![p] = IF Cardinality(missing) = 1 THEN "check" ELSE "lock"]
      /\ UNCHANGED <<apiVars, informer, lookaside, batch, passVars, updateVars,
                     waiterVars>>

\* lockAquisition: one lock after the other, in order of name.
AcquireLock(p) ==
  LET r == RepOf[p]
      missing == {q \in Quotas : locks[r][q] # p}
  IN  /\ pc[p] = "lock"
      /\ locks[r][Least(missing)] = NoProc
      /\ locks' = [locks EXCEPT ![r][Least(missing)] = p]
      /\ pc' = [pc EXCEPT ![p] = IF Cardinality(missing) = 1 THEN "check" ELSE "lock"]
      /\ UNCHANGED <<apiVars, informer, lookaside, batch, passVars, updateVars,
                     waiterVars>>

\* releaseLocks, then close(finished) for the whole batch.
Finish(p) ==
  LET r == RepOf[p]
  IN  /\ pc[p] = "finish"
      /\ locks' = [locks EXCEPT ![r] = [q \in Quotas |-> IF @[q] = p THEN NoProc ELSE @[q]]]
      /\ done' = done \cup Range(batch[p])
      /\ batch' = [batch EXCEPT ![p] = <<>>]
      /\ pc' = [pc EXCEPT ![p] = "idle"]
      /\ next' = [next EXCEPT ![p] = 1]
      /\ scope' = [scope EXCEPT ![p] = {}]
      /\ seen' = [seen EXCEPT ![p] = [q \in Quotas |-> 1]]
      /\ running' = [running EXCEPT ![p] = [q \in Quotas |-> 0]]
      /\ todo' = [todo EXCEPT ![p] = {}]
      /\ cur' = [cur EXCEPT ![p] = 0]
      /\ base' = [base EXCEPT ![p] = 0]
      /\ failed' = [failed EXCEPT ![p] = {}]
      /\ retries' = [retries EXCEPT ![p] = 0]
      /\ UNCHANGED <<apiVars, informer, lookaside, submitted, result>>

-----------------------------------------------------------------------------
(* checkQuotas                                                             *)

\* Mutant of Forbidden: the usage so far is compared, not the new usage.
ForbiddenTooLate(p, w) ==
  \E q \in scope[p] :
    \/ q \in Refused[w]
    \/ Amount[w][q] > 0 /\ running[p][q] > Hard[q]

\* CheckRequest on the running quotas: a constraint of a matching quota, or
\* the sum of what is used and asked, forbids the request.
Forbidden(p, w) ==
  \E q \in scope[p] :
    \/ q \in Refused[w]
    \/ Amount[w][q] > 0 /\ running[p][q] + Amount[w][q] > Hard[q]

\* One round of the loop over admissionAttributes.
CheckWaiter(p) ==
  LET w == batch[p][next[p]]
      asks == {q \in scope[p] : Amount[w][q] > 0}
  IN  /\ pc[p] = "check"
      /\ next[p] <= Len(batch[p])
      /\ next' = [next EXCEPT ![p] = @ + 1]
      /\ \/ /\ Forbidden(p, w)
            /\ result' = [result EXCEPT ![w] = "err"]
            /\ UNCHANGED running
         \/ /\ ~Forbidden(p, w)
            /\ w \in DryRun \/ asks = {}
            /\ result' = [result EXCEPT ![w] = "nil"]
            /\ UNCHANGED running
         \/ /\ ~Forbidden(p, w)
            /\ w \notin DryRun /\ asks # {}
            /\ running' = [running EXCEPT ![p] =
                 [q \in Quotas |-> IF q \in asks THEN @[q] + Amount[w][q] ELSE @[q]]]
            /\ UNCHANGED result
      /\ UNCHANGED <<apiVars, replicaVars, pc, batch, scope, seen, updateVars,
                     submitted, done>>

\* After the loop: return if no quota changed, update the changed ones if any.
CheckDone(p) ==
  LET changed == {q \in scope[p] : running[p][q] # Seen(p, q)}
  IN  /\ pc[p] = "check"
      /\ next[p] > Len(batch[p])
      /\ todo' = [todo EXCEPT ![p] = changed]
      /\ failed' = [failed EXCEPT ![p] = {}]
      /\ pc' = [pc EXCEPT ![p] = IF changed = {} THEN "finish" ELSE "update"]
      /\ UNCHANGED <<apiVars, replicaVars, batch, passVars, cur, base, retries,
                     waiterVars>>

\* UpdateQuotaStatus reads the quota again from the informer.  The first
\* pass goes through the sorted slice, a retry through the order of the list.
UpdateGet(p) ==
  /\ pc[p] = "update"
  /\ \E q \in todo[p] :
       /\ retries[p] = MaxRetries => q = Least(todo[p])
       /\ cur' = [cur EXCEPT ![p] = q]
       /\ base' = [base EXCEPT ![p] = informer[RepOf[p]][q]]
  /\ pc' = [pc EXCEPT ![p] = "recheck"]
  /\ UNCHANGED <<apiVars, replicaVars, batch, passVars, todo, failed, retries,
                 waiterVars>>

\* Mutant of UpdateCheckCache: the test for a missing entry is gone.
UpdateCheckCacheUnguarded(p) ==
  LET r == RepOf[p]
      q == cur[p]
  IN  /\ pc[p] = "recheck"
      /\ base' = [base EXCEPT ![p] = lookaside[r][q]]
      /\ pc' = [pc EXCEPT ![p] = "write"]
      /\ UNCHANGED <<apiVars, replicaVars, batch, passVars, todo, cur, failed, retries,
                     waiterVars>>

\* ... and corrects it by the look-aside cache.
UpdateCheckCache(p) ==
  LET r == RepOf[p]
      q == cur[p]
  IN  /\ pc[p] = "recheck"
      /\ base' = [base EXCEPT ![p] = CheckCache(r, q, @)]
      /\ lookaside' = [lookaside EXCEPT ![r][q] = CheckCacheEntry(r, q, base[p])]
      /\ pc' = [pc EXCEPT ![p] = "write"]
      /\ UNCHANGED <<apiVars, informer, locks, batch, passVars, todo, cur, failed, retries,
                     waiterVars>>

\* Mutant of NewStatus: the namespace gets the difference to the original.
NewStatusFromOriginal(p, q) ==
  LET old == hist[q][base[p]]
  IN  [total |-> running[p][q],
       ns    |-> [old.ns EXCEPT ![NsOf[p]] = @ + (running[p][q] - Seen(p, q))]]

\* The object UpdateQuotaStatus sends: the aggregate becomes the running
\* value, its difference to the version read is added to the namespace.
NewStatus(p, q) ==
  LET old == hist[q][base[p]]
  IN  [total |-> running[p][q],
       ns    |-> [old.ns EXCEPT ![NsOf[p]] = @ + (running[p][q] - old.total)]]

\* Mutant of UpdateWrite: without "accountQuota.ObjectMeta =
\* newQuota.ObjectMeta" the update carries the version read last.
UpdateWriteRebased(p) ==
  LET q == cur[p]
      charge == running[p][q] - Seen(p, q)
  IN  /\ pc[p] = "write"
      /\ base[p] = Latest(q)
      /\ hist' = [hist EXCEPT ![q] = Append(@, NewStatus(p, q))]
      /\ spent' = [spent EXCEPT ![q] =
                     [total |-> spent[q].total + charge,
                      ns    |-> [spent[q].ns EXCEPT ![NsOf[p]] = @ + charge]]]
      /\ base' = [base EXCEPT ![p] = Latest(q) + 1]
      /\ pc' = [pc EXCEPT ![p] = "block"]
      /\ UNCHANGED <<replicaVars, batch, passVars, todo, cur, failed, retries,
                     waiterVars>>

\* Status().Update with the resourceVersion that GetQuotas returned.
UpdateWrite(p) ==
  LET q == cur[p]
      charge == running[p][q] - Seen(p, q)
  IN  /\ pc[p] = "write"
      /\ seen[p][q] = Latest(q)
      /\ hist' = [hist EXCEPT ![q] = Append(@, NewStatus(p, q))]
      /\ spent' = [spent EXCEPT ![q] =
                     [total |-> spent[q].total + charge,
                      ns    |-> [spent[q].ns EXCEPT ![NsOf[p]] = @ + charge]]]
      /\ base' = [base EXCEPT ![p] = Latest(q) + 1]
      /\ pc' = [pc EXCEPT ![p] = "block"]
      /\ UNCHANGED <<replicaVars, batch, passVars, todo, cur, failed, retries,
                     waiterVars>>

\* UpdateQuotaStatus returns an error: the quota is to be retried.
UpdateError(p) ==
  /\ todo' = [todo EXCEPT ![p] = @ \ {cur[p]}]
  /\ failed' = [failed EXCEPT ![p] = @ \cup {cur[p]}]
  /\ pc' = [pc EXCEPT ![p] = "update"]
  /\ UNCHANGED <<apiVars, replicaVars, batch, passVars, cur, base, retries,
                 waiterVars>>

UpdateConflict(p) ==
  /\ pc[p] = "write"
  /\ seen[p][cur[p]] # Latest(cur[p])
  /\ UpdateError(p)

\* A read or the request to the API server fails.
UpdateFails(p) ==
  /\ pc[p] = "write"
  /\ UpdateError(p)

\* blockUpdate returns: the informer has the version, or has an older one
\* whose resourceVersion is the greater string.  The quota enters the
\* look-aside cache.
BlockReturn(p) ==
  /\ pc[p] = "block"
  /\ lookaside' = [lookaside EXCEPT ![RepOf[p]][cur[p]] = base[p]]
  /\ todo' = [todo EXCEPT ![p] = @ \ {cur[p]}]
  /\ pc' = [pc EXCEPT ![p] = "update"]
  /\ UNCHANGED <<apiVars, informer, locks, batch, passVars, cur, base, failed, retries,
                 waiterVars>>

\* blockUpdate gives up after two seconds, or its read fails; the write stands.
BlockTimeout(p) ==
  /\ pc[p] = "block"
  /\ UpdateError(p)

\* Mutant of UpdatesDone: waiters pass when the retries are used up.
UpdatesDoneLenient(p) ==
  /\ pc[p] = "update"
  /\ todo[p] = {}
  /\ result' = [w \in Waiters |->
       IF w \in Range(batch[p]) /\ result[w] = "defaultDeny" THEN "nil" ELSE result[w]]
  /\ pc' = [pc EXCEPT ![p] = "finish"]
  /\ UNCHANGED <<apiVars, replicaVars, batch, passVars, updateVars, submitted, done>>

\* After the updates: settle the waiters, or retry with the failed quotas.
UpdatesDone(p) ==
  /\ pc[p] = "update"
  /\ todo[p] = {}
  /\ IF failed[p] # {} /\ retries[p] > 0
       THEN /\ scope' = [scope EXCEPT ![p] = failed[p]]
            /\ retries' = [retries EXCEPT ![p] = @ - 1]
            /\ pc' = [pc EXCEPT ![p] = "list"]
            /\ UNCHANGED result
       ELSE /\ result' = [w \in Waiters |->
                 IF w \in Range(batch[p]) /\ result[w] = "defaultDeny"
                 THEN IF failed[p] = {} THEN "nil" ELSE "err"
                 ELSE result[w]]
            /\ pc' = [pc EXCEPT ![p] = "finish"]
            /\ UNCHANGED <<scope, retries>>
  /\ UNCHANGED <<apiVars, replicaVars, batch, next, seen, running, todo, cur, base, failed,
                 submitted, done>>

-----------------------------------------------------------------------------
(* The environment.                                                        *)

\* The watch delivers the next version of q to a replica's informer.
InformerEvent(r, q) ==
  /\ informer[r][q] < Latest(q)
  /\ informer' = [informer EXCEPT ![r][q] = @ + 1]
  /\ UNCHANGED <<apiVars, lookaside, locks, pc, batch, passVars, updateVars,
                 waiterVars>>

\* The LRU is shared by all accounts: their quotas push an entry out.
Evict(r, q) ==
  /\ SharedLru
  /\ lookaside[r][q] # 0
  /\ lookaside' = [lookaside EXCEPT ![r][q] = 0]
  /\ UNCHANGED <<apiVars, informer, locks, pc, batch, passVars, updateVars,
                 waiterVars>>

\* The goroutine's own steps, once it has a batch.
Step(p) ==
  \/ ListNone(p) \/ ListQuotas(p) \/ ListFails(p) \/ CheckCaches(p)
  \/ AcquireLock(p) \/ CheckWaiter(p) \/ CheckDone(p) \/ UpdateGet(p)
  \/ UpdateCheckCache(p) \/ UpdateWrite(p) \/ UpdateConflict(p) \/ UpdateFails(p) \/ BlockReturn(p) \/ BlockTimeout(p)
  \/ UpdatesDone(p) \/ Finish(p)

\* Every request was answered.
Quiescent ==
  /\ done = Waiters
  /\ UNCHANGED vars

Next ==
  \/ \E p \in Procs : Start(p)
  \/ \E p \in Procs : Step(p)
  \/ \E r \in Replicas, q \in Quotas : InformerEvent(r, q) \/ Evict(r, q)
  \/ Quiescent

Spec == Init /\ [][Next]_vars

\* A goroutine that can run does run; nothing is assumed of the informers.
FairSpec == Spec /\ \A p \in Procs : WF_vars(Step(p))

-----------------------------------------------------------------------------
(* Properties.                                                             *)

\* No update is lost: what a stored quota counts as used is exactly what
\* the successful updates of all replicas charged, although each computed it
\* from a cached copy.
NoLostCharge == \A q \in Quotas : Stored(q).total = spent[q].total

\* The locks: of the goroutines of a replica, one at a time is between
\* lockAquisition and releaseLocks, so a quota that fits a batch still fits
\* it when the update is sent, as far as this replica goes.
Charging == {"check", "update", "recheck", "write", "block"}

ChargesAlone ==
  \A a, b \in Procs :
    (RepOf[a] = RepOf[b] /\ pc[a] \in Charging /\ pc[b] \in Charging) => a = b

\* Status.Total.Used is the sum over Status.Namespaces, also when an entry
\* was evicted between GetQuotas and UpdateQuotaStatus.
NamespacesAddUp ==
  \A q \in Quotas : Stored(q).total = SumOver(Stored(q).ns, Namespaces)

\* No stored quota is ever charged beyond its hard limit.
WithinHard == \A q \in Quotas : Stored(q).total <= Hard[q]

\* The requests that an account pays for and that were let through.
Admitted ==
  {w \in done \ DryRun : result[w] = "nil" /\ NsOf[ProcOf[w]] \in Owned}

\* What each request asks of quota q.
Asked(q) == [w \in Waiters |-> Amount[w][q]]

\* The requests let through, in all namespaces and replicas together, were
\* charged to every quota of the account before they were admitted, as long
\* as no retry re-decides a request that was rejected (see RejectionIsFinal:
\* such a request is let through without a charge).
AdmittedIsCharged ==
  \A q \in Quotas : SumOver(Asked(q), Admitted) <= spent[q].total

\* A request that does not fit into some quota is marked as failed, and
\* that is its answer.
RejectionIsFinal ==
  [][\A w \in Waiters : result[w] = "err" => result'[w] = "err"]_vars

\* Whatever conflicts, failures and lock contention happen, every batch is
\* answered: again and again no request is left in one.
BatchesEnd == []<>(submitted = done)
=============================================================================
