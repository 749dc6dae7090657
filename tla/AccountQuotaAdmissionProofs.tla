--------------------- MODULE AccountQuotaAdmissionProofs --------------------
(***************************************************************************)
(* The charging of account quotas, for every account, every number of      *)
(* replicas, namespaces and requests, and every bound.                     *)
(***************************************************************************)
EXTENDS AccountQuotaAdmission, SumProofs, SequenceTheorems

USE AdmissionAssumption DEF AdmissionAssumption

-----------------------------------------------------------------------------
(* TypeOK: besides the types, every version a replica or a goroutine holds *)
(* on to is one the API server has stored.                                 *)

\* Storing a version makes all versions held so far stay valid.
LEMMA StoreVersion ==
  ASSUME ApiOK, NEW q \in Quotas, NEW v \in Status,
         hist' = [hist EXCEPT ![q] = Append(@, v)]
  PROVE  /\ hist' \in [Quotas -> Seq(Status)]
         /\ \A o \in Quotas : Len(hist'[o]) > 0
         /\ \A o \in Quotas : Versions(o) \subseteq Versions(o)'
         /\ \A o \in Quotas : \A i \in Versions(o) : hist'[o][i] = hist[o][i]
         /\ Len(hist'[q]) = Latest(q) + 1 /\ hist'[q][Latest(q) + 1] = v
         /\ Latest(q) + 1 \in Versions(q)' /\ Latest(q) + 1 \in Nat
         /\ \A i \in Versions(q)' : i \in Versions(q) \/ i = Latest(q) + 1
         /\ \A o \in Quotas : o # q => hist'[o] = hist[o] /\ Versions(o)' = Versions(o)
<1>1. hist[q] \in Seq(Status) /\ Append(hist[q], v) \in Seq(Status)
  BY DEF ApiOK
<1>2. /\ Len(Append(hist[q], v)) = Len(hist[q]) + 1 /\ Len(hist[q]) \in Nat
      /\ \A i \in 1..Len(hist[q]) : Append(hist[q], v)[i] = hist[q][i]
      /\ Append(hist[q], v)[Len(hist[q]) + 1] = v
  BY <1>1
<1>3. hist'[q] = Append(hist[q], v) /\ \A o \in Quotas : o # q => hist'[o] = hist[o]
  BY DEF ApiOK
<1>4. hist' \in [Quotas -> Seq(Status)]
  BY <1>1 DEF ApiOK
<1>5. \A o \in Quotas : Len(hist'[o]) > 0
  BY <1>2, <1>3 DEF ApiOK
<1>6. \A o \in Quotas : Versions(o) \subseteq Versions(o)'
  BY <1>2, <1>3 DEF Versions
<1>7. \A o \in Quotas : \A i \in Versions(o) : hist'[o][i] = hist[o][i]
  BY <1>2, <1>3 DEF Versions
<1>8. /\ Latest(q) + 1 \in Versions(q)' /\ Latest(q) + 1 \in Nat
      /\ \A i \in Versions(q)' : i \in Versions(q) \/ i = Latest(q) + 1
  BY <1>2, <1>3 DEF Versions, Latest
<1>9. \A o \in Quotas : o # q => Versions(o)' = Versions(o)
  BY <1>3 DEF Versions
<1> QED
  BY <1>2, <1>3, <1>4, <1>5, <1>6, <1>7, <1>8, <1>9 DEF Latest

\* A stored version is a status.
LEMMA VersionStatus ==
  ASSUME ApiOK, NEW q \in Quotas, NEW i \in Versions(q)
  PROVE  hist[q][i] \in Status /\ hist[q][i].total \in Int /\ i \in Nat
<1>1. hist[q] \in Seq(Status) /\ Len(hist[q]) \in Nat
  BY DEF ApiOK
<1>2. hist[q][i] \in Status /\ i \in Nat
  BY <1>1 DEF Versions
<1> QED
  BY <1>2 DEF Status

\* The newest stored version is one of the versions.
LEMMA LatestVersion ==
  ASSUME ApiOK, NEW q \in Quotas
  PROVE  Latest(q) \in Versions(q) /\ Stored(q) \in Status
<1>1. hist[q] \in Seq(Status) /\ Len(hist[q]) \in Nat /\ Len(hist[q]) > 0
  BY DEF ApiOK
<1>2. Latest(q) \in Versions(q)
  BY <1>1 DEF Latest, Versions
<1> QED
  BY <1>2, VersionStatus DEF Stored

\* Every step of checkAttributes, checkQuotas, the accessor and the cluster
\* keeps TypeOK.
LEMMA TypeStep == TypeOK /\ [Next]_vars => TypeOK'
<1> SUFFICES ASSUME TypeOK, [Next]_vars PROVE TypeOK'
  OBVIOUS
<1> USE DEF TypeOK, PC, Result, apiVars, replicaVars, passVars, updateVars, waiterVars
<1>1. ASSUME NEW p \in Procs, Start(p) PROVE TypeOK'
  <2>1. PassOK'
    BY <1>1 DEF Start, PassOK, Versions
  <2>2. UpdateOK'
    BY <1>1 DEF Start, UpdateOK, Versions
  <2>3. WaiterOK'
    <3> DEFINE Own == {w \in Waiters \ submitted : ProcOf[w] = p}
    <3>1. PICK n \in 1..MaxBatch : \E b \in [1..n -> Own] :
            /\ batch' = [batch EXCEPT ![p] = b]
            /\ submitted' = submitted \cup Range(b)
      BY <1>1 DEF Start
    <3>2. PICK b \in [1..n -> Own] :
            /\ batch' = [batch EXCEPT ![p] = b]
            /\ submitted' = submitted \cup Range(b)
      BY <3>1
    <3>3. n \in Nat /\ \A i \in 1..n : b[i] \in Waiters
      OBVIOUS
    <3>4. b \in Seq(Waiters) /\ Range(b) \subseteq Waiters
      <4>1. b \in Seq(Waiters)
        <5>1. b = [i \in 1..n |-> b[i]]
          OBVIOUS
        <5> HIDE DEF Own
        <5>2. [i \in 1..n |-> b[i]] \in Seq(Waiters)
          BY <3>3, IsASeq
        <5> QED
          BY <5>1, <5>2
      <4>2. Range(b) \subseteq Waiters
        BY <3>3 DEF Range
      <4> QED
        BY <4>1, <4>2
    <3>5. batch' \in [Procs -> Seq(Waiters)] /\ submitted' \subseteq Waiters
      BY <3>2, <3>4 DEF WaiterOK
    <3> QED
      BY <1>1, <3>5 DEF Start, WaiterOK
  <2>4. ApiOK' /\ ReplicaOK'
    BY <1>1 DEF Start, ApiOK, ReplicaOK, Versions
  <2> QED
    BY <2>1, <2>2, <2>3, <2>4
<1>2. ASSUME NEW p \in Procs, ListNone(p) PROVE TypeOK'
  <2>1. UpdateOK'
    BY <1>2 DEF ListNone, UpdateOK, Versions
  <2>2. WaiterOK'
    BY <1>2 DEF ListNone, WaiterOK
  <2>3. ApiOK' /\ ReplicaOK' /\ PassOK'
    BY <1>2 DEF ListNone, ApiOK, ReplicaOK, PassOK, Versions
  <2> QED
    BY <2>1, <2>2, <2>3
<1>3. ASSUME NEW p \in Procs, ListQuotas(p) PROVE TypeOK'
  <2>1. PassOK'
    BY <1>3 DEF ListQuotas, PassOK, Versions, ReplicaOK
  <2>2. UpdateOK'
    BY <1>3 DEF ListQuotas, UpdateOK, Versions
  <2>3. ApiOK' /\ ReplicaOK' /\ WaiterOK'
    BY <1>3 DEF ListQuotas, ApiOK, ReplicaOK, WaiterOK, Versions
  <2> QED
    BY <2>1, <2>2, <2>3
<1>4. ASSUME NEW p \in Procs, ListFails(p) PROVE TypeOK'
  <2>1. UpdateOK'
    BY <1>4 DEF ListFails, UpdateOK, Versions
  <2>2. WaiterOK'
    BY <1>4 DEF ListFails, WaiterOK
  <2>3. ApiOK' /\ ReplicaOK' /\ PassOK'
    BY <1>4 DEF ListFails, ApiOK, ReplicaOK, PassOK, Versions
  <2> QED
    BY <2>1, <2>2, <2>3
<1>5. ASSUME NEW p \in Procs, CheckCaches(p) PROVE TypeOK'
  <2>1. \A q \in Quotas :
          /\ CheckCache(RepOf[p], q, seen[p][q]) \in Versions(q)
          /\ CheckCacheEntry(RepOf[p], q, seen[p][q]) \in Versions(q) \cup {0}
    BY DEF CheckCache, CheckCacheEntry, ReplicaOK, PassOK
  <2>2. \A q \in Quotas : Versions(q) \subseteq Nat
    BY DEF Versions, ApiOK
  <2>3. \A q \in Quotas : hist[q][CheckCache(RepOf[p], q, seen[p][q])].total \in Int
    BY <2>1, VersionStatus
  <2>4. ReplicaOK'
    BY <1>5, <2>1, <2>2 DEF CheckCaches, ReplicaOK, Versions
  <2>5. PassOK'
    BY <1>5, <2>1, <2>2, <2>3 DEF CheckCaches, PassOK, Versions
  <2>6. UpdateOK'
    BY <1>5 DEF CheckCaches, UpdateOK, Versions
  <2>7. ApiOK' /\ WaiterOK'
    BY <1>5 DEF CheckCaches, ApiOK, WaiterOK
  <2> QED
    BY <2>4, <2>5, <2>6, <2>7
<1>6. ASSUME NEW p \in Procs, AcquireLock(p) PROVE TypeOK'
  <2>1. ReplicaOK'
    BY <1>6 DEF AcquireLock, ReplicaOK, Versions
  <2>2. UpdateOK'
    BY <1>6 DEF AcquireLock, UpdateOK, Versions
  <2>3. ApiOK' /\ PassOK' /\ WaiterOK'
    BY <1>6 DEF AcquireLock, ApiOK, PassOK, WaiterOK, Versions
  <2> QED
    BY <2>1, <2>2, <2>3
<1>7. ASSUME NEW p \in Procs, CheckWaiter(p) PROVE TypeOK'
  <2>1. batch[p][next[p]] \in Waiters
    BY <1>7 DEF CheckWaiter, PassOK, WaiterOK
  <2>2. \A q \in Quotas : Amount[batch[p][next[p]]][q] \in Int
    BY <2>1
  <2>3. PassOK'
    <3>1. \A q \in Quotas : Versions(q)' = Versions(q)
      BY <1>7 DEF CheckWaiter, Versions
    <3>2. /\ next' = [next EXCEPT ![p] = next[p] + 1]
          /\ scope' = scope /\ seen' = seen
      BY <1>7 DEF CheckWaiter
    <3>3. next' \in [Procs -> Nat \ {0}]
      BY <3>2 DEF PassOK
    <3>4. \/ running' = running
          \/ \E asks \in SUBSET Quotas : running' = [running EXCEPT ![p] =
               [q \in Quotas |-> IF q \in asks THEN @[q] + Amount[batch[p][next[p]]][q] ELSE @[q]]]
      BY <1>7 DEF CheckWaiter, PassOK
    <3>5. running' \in [Procs -> [Quotas -> Int]]
      <4>1. CASE running' = running
        BY <4>1 DEF PassOK
      <4>2. ASSUME NEW asks \in SUBSET Quotas, running' = [running EXCEPT ![p] =
               [q \in Quotas |-> IF q \in asks THEN @[q] + Amount[batch[p][next[p]]][q] ELSE @[q]]]
            PROVE  running' \in [Procs -> [Quotas -> Int]]
        <5>1. \A q \in Quotas : running[p][q] \in Int
          BY DEF PassOK
        <5>2. [q \in Quotas |-> IF q \in asks THEN running[p][q] + Amount[batch[p][next[p]]][q]
                                ELSE running[p][q]] \in [Quotas -> Int]
          BY <2>2, <5>1
        <5> QED
          BY <4>2, <5>2 DEF PassOK
      <4> QED
        BY <3>4, <4>1, <4>2
    <3> QED
      BY <3>1, <3>2, <3>3, <3>5 DEF PassOK
  <2>4. WaiterOK'
    BY <1>7, <2>1 DEF CheckWaiter, WaiterOK
  <2>5. ApiOK' /\ ReplicaOK' /\ UpdateOK'
    BY <1>7 DEF CheckWaiter, ApiOK, ReplicaOK, UpdateOK, Versions
  <2> QED
    BY <2>3, <2>4, <2>5
<1>8. ASSUME NEW p \in Procs, CheckDone(p) PROVE TypeOK'
  <2>1. UpdateOK'
    BY <1>8 DEF CheckDone, UpdateOK, Versions, PassOK
  <2>2. ApiOK' /\ ReplicaOK' /\ PassOK' /\ WaiterOK'
    BY <1>8 DEF CheckDone, ApiOK, ReplicaOK, PassOK, WaiterOK, Versions
  <2> QED
    BY <2>1, <2>2
<1>9. ASSUME NEW p \in Procs, UpdateGet(p) PROVE TypeOK'
  <2>1. PICK q \in todo[p] :
          /\ cur' = [cur EXCEPT ![p] = q]
          /\ base' = [base EXCEPT ![p] = informer[RepOf[p]][q]]
    BY <1>9 DEF UpdateGet
  <2>2. q \in Quotas /\ q \in Nat /\ RepOf[p] \in Replicas
    BY DEF UpdateOK, Quotas
  <2>3. informer[RepOf[p]][q] \in Versions(q) /\ informer[RepOf[p]][q] \in Nat
    BY <2>2 DEF ReplicaOK
  <2>4. cur' \in [Procs -> Nat] /\ base' \in [Procs -> Nat]
    BY <2>1, <2>2, <2>3 DEF UpdateOK
  <2>5. \A o \in Quotas : Versions(o)' = Versions(o)
    BY <1>9 DEF UpdateGet, Versions
  <2>6. \A o \in Procs : pc'[o] \in {"recheck", "write", "block"} =>
                            cur'[o] \in Quotas /\ base'[o] \in Versions(cur'[o])
    BY <1>9, <2>1, <2>2, <2>3 DEF UpdateGet, UpdateOK
  <2>7. UpdateOK'
    BY <1>9, <2>4, <2>5, <2>6 DEF UpdateGet, UpdateOK
  <2>8. ApiOK' /\ ReplicaOK' /\ PassOK' /\ WaiterOK'
    BY <1>9 DEF UpdateGet, ApiOK, ReplicaOK, PassOK, WaiterOK, Versions
  <2> QED
    BY <2>7, <2>8
<1>18. ASSUME NEW p \in Procs, UpdateCheckCache(p) PROVE TypeOK'
  <2> DEFINE r == RepOf[p]
             q == cur[p]
  <2>1. q \in Quotas /\ base[p] \in Versions(q) /\ base[p] \in Nat /\ r \in Replicas
    BY <1>18 DEF UpdateCheckCache, UpdateOK
  <2>2. /\ CheckCache(r, q, base[p]) \in Versions(q) /\ CheckCache(r, q, base[p]) \in Nat
        /\ CheckCacheEntry(r, q, base[p]) \in Versions(q) \cup {0}
        /\ CheckCacheEntry(r, q, base[p]) \in Nat
    BY <2>1 DEF CheckCache, CheckCacheEntry, ReplicaOK
  <2>3. /\ \A o \in Quotas : Versions(o)' = Versions(o)
        /\ base' = [base EXCEPT ![p] = CheckCache(r, q, base[p])]
        /\ lookaside' = [lookaside EXCEPT ![r][q] = CheckCacheEntry(r, q, base[p])]
    BY <1>18 DEF UpdateCheckCache, Versions
  <2> HIDE DEF q, r
  <2>4. ReplicaOK'
    <3>1. lookaside' \in [Replicas -> [Quotas -> Nat]]
      BY <2>2, <2>3 DEF ReplicaOK
    <3>2. \A k \in Replicas, o \in Quotas : lookaside'[k][o] \in Versions(o) \cup {0}
      BY <2>1, <2>2, <2>3 DEF ReplicaOK
    <3> QED
      BY <1>18, <2>3, <3>1, <3>2 DEF UpdateCheckCache, ReplicaOK
  <2>5. UpdateOK'
    <3>1. base' \in [Procs -> Nat]
      BY <2>2, <2>3 DEF UpdateOK
    <3>2. \A o \in Procs : pc'[o] \in {"recheck", "write", "block"} =>
                              cur[o] \in Quotas /\ base'[o] \in Versions(cur[o])
      BY <1>18, <2>1, <2>2, <2>3 DEF UpdateCheckCache, UpdateOK, q
    <3> QED
      BY <1>18, <2>3, <3>1, <3>2 DEF UpdateCheckCache, UpdateOK
  <2>6. ApiOK' /\ PassOK' /\ WaiterOK'
    BY <1>18 DEF UpdateCheckCache, ApiOK, PassOK, WaiterOK, Versions
  <2> QED
    BY <2>4, <2>5, <2>6
<1>10. ASSUME NEW p \in Procs, UpdateWrite(p) PROVE TypeOK'
  <2>1. PICK q \in Quotas : q = cur[p] /\ base[p] \in Versions(q)
    BY <1>10 DEF UpdateWrite, UpdateOK
  <2>2. /\ hist[q][base[p]] \in Status /\ Seen(p, q) \in Int
        /\ running[p][q] \in Int /\ NsOf[p] \in Namespaces
    BY <2>1, VersionStatus DEF PassOK, Seen
  <2>3. NewStatus(p, q) \in Status
    BY <2>2 DEF NewStatus, Status
  <2>4. PICK v \in Status : v = NewStatus(p, q)
    BY <2>3
  <2>5. hist' = [hist EXCEPT ![q] = Append(@, v)]
    BY <1>10, <2>1, <2>4 DEF UpdateWrite
  <2>6. /\ hist' \in [Quotas -> Seq(Status)] /\ \A o \in Quotas : Len(hist'[o]) > 0
        /\ \A o \in Quotas : Versions(o) \subseteq Versions(o)'
        /\ Latest(q) + 1 \in Versions(q)' /\ Latest(q) + 1 \in Nat
    BY <2>5, StoreVersion
  <2>7. spent' \in [Quotas -> Status]
    <3>1. PICK charge \in Int : charge = running[p][q] - Seen(p, q)
      BY <2>2
    <3> DEFINE new == [total |-> spent[q].total + charge,
                       ns    |-> [spent[q].ns EXCEPT ![NsOf[p]] = @ + charge]]
    <3>2. spent[q].total \in Int /\ spent[q].ns \in [Namespaces -> Int]
      BY DEF ApiOK, Status
    <3>3. spent' = [spent EXCEPT ![q] = new]
      BY <1>10, <2>1, <3>1 DEF UpdateWrite
    <3>4. new \in Status
      BY <2>2, <3>2 DEF Status
    <3> QED
      BY <3>3, <3>4 DEF ApiOK
  <2>8. ApiOK'
    BY <2>6, <2>7 DEF ApiOK
  <2>9. ReplicaOK' /\ PassOK' /\ WaiterOK'
    BY <1>10, <2>6 DEF UpdateWrite, ReplicaOK, PassOK, WaiterOK
  <2>10. UpdateOK'
    <3>1. base' = [base EXCEPT ![p] = Latest(q) + 1] /\ cur' = cur
      BY <1>10, <2>1 DEF UpdateWrite
    <3>2. \A o \in Procs : pc'[o] \in {"recheck", "write", "block"} =>
                              cur[o] \in Quotas /\ base'[o] \in Versions(cur[o])'
      <4> SUFFICES ASSUME NEW o \in Procs, pc'[o] \in {"recheck", "write", "block"}
                   PROVE  cur[o] \in Quotas /\ base'[o] \in Versions(cur[o])'
        OBVIOUS
      <4>1. CASE o = p
        BY <2>1, <2>6, <3>1, <4>1 DEF UpdateOK
      <4>2. CASE o # p
        <5>1. pc'[o] = pc[o] /\ base'[o] = base[o]
          BY <1>10, <3>1, <4>2 DEF UpdateWrite, UpdateOK
        <5>2. PICK c \in Quotas : c = cur[o] /\ base[o] \in Versions(c)
          BY <5>1 DEF UpdateOK
        <5> QED
          BY <2>6, <3>1, <5>1, <5>2
      <4> QED
        BY <4>1, <4>2
    <3> QED
      BY <1>10, <2>6, <3>1, <3>2 DEF UpdateWrite, UpdateOK
  <2> QED
    BY <2>8, <2>9, <2>10
<1>11. ASSUME NEW p \in Procs, pc[p] \in {"write", "block"}, UpdateError(p) PROVE TypeOK'
  <2>1. UpdateOK'
    <3>1. \A o \in Quotas : Versions(o)' = Versions(o)
      BY <1>11 DEF UpdateError, Versions
    <3>2. \A o \in Procs : pc'[o] \in {"recheck", "write", "block"} => pc[o] = pc'[o]
      BY <1>11 DEF UpdateError, UpdateOK
    <3>3. todo' \in [Procs -> SUBSET Quotas] /\ pc' \in [Procs -> PC]
      BY <1>11 DEF UpdateError, UpdateOK
    <3>4. failed' \in [Procs -> SUBSET Quotas]
      BY <1>11 DEF UpdateError, UpdateOK
    <3> QED
      BY <1>11, <3>1, <3>2, <3>3, <3>4 DEF UpdateError, UpdateOK
  <2>2. ApiOK' /\ ReplicaOK' /\ PassOK' /\ WaiterOK'
    BY <1>11 DEF UpdateError, ApiOK, ReplicaOK, PassOK, WaiterOK, Versions
  <2> QED
    BY <2>1, <2>2
<1>12. ASSUME NEW p \in Procs, BlockReturn(p) PROVE TypeOK'
  <2>1. cur[p] \in Quotas /\ base[p] \in Versions(cur[p]) /\ base[p] \in Nat
    BY <1>12 DEF BlockReturn, UpdateOK
  <2>2. \A o \in Quotas : Versions(o)' = Versions(o)
    BY <1>12 DEF BlockReturn, Versions
  <2>3. ReplicaOK'
    BY <1>12, <2>1, <2>2 DEF BlockReturn, ReplicaOK
  <2>4. UpdateOK'
    BY <1>12, <2>2 DEF BlockReturn, UpdateOK
  <2>5. ApiOK' /\ PassOK' /\ WaiterOK'
    BY <1>12 DEF BlockReturn, ApiOK, PassOK, WaiterOK, Versions
  <2> QED
    BY <2>3, <2>4, <2>5
<1>19. ASSUME NEW r \in Replicas, NEW q \in Quotas, Evict(r, q) PROVE TypeOK'
  <2>1. \A o \in Quotas : Versions(o)' = Versions(o)
    BY <1>19 DEF Evict, Versions
  <2>2. ReplicaOK'
    BY <1>19, <2>1 DEF Evict, ReplicaOK
  <2>3. ApiOK' /\ PassOK' /\ UpdateOK' /\ WaiterOK'
    BY <1>19, <2>1 DEF Evict, ApiOK, PassOK, UpdateOK, WaiterOK
  <2> QED
    BY <2>2, <2>3
<1>13. ASSUME NEW p \in Procs, UpdatesDone(p) PROVE TypeOK'
  <2>1. \A o \in Quotas : Versions(o)' = Versions(o)
    BY <1>13 DEF UpdatesDone, Versions
  <2>2. PassOK' /\ UpdateOK'
    <3>1. CASE failed[p] # {} /\ retries[p] > 0
      <4>1. scope' = [scope EXCEPT ![p] = failed[p]] /\ failed[p] \subseteq Quotas
        BY <1>13, <3>1 DEF UpdatesDone, UpdateOK
      <4>2. retries' = [retries EXCEPT ![p] = @ - 1] /\ retries[p] - 1 \in 0..MaxRetries
        BY <1>13, <3>1 DEF UpdatesDone, UpdateOK
      <4>3. retries' \in [Procs -> 0..MaxRetries]
        BY <4>2 DEF UpdateOK
      <4>4. PassOK'
        BY <1>13, <2>1, <4>1 DEF UpdatesDone, PassOK
      <4> QED
        BY <1>13, <2>1, <3>1, <4>3, <4>4 DEF UpdatesDone, UpdateOK
    <3>2. CASE ~(failed[p] # {} /\ retries[p] > 0)
      <4>1. scope' = scope /\ retries' = retries /\ pc' = [pc EXCEPT ![p] = "finish"]
        BY <1>13, <3>2 DEF UpdatesDone
      <4> QED
        BY <1>13, <2>1, <4>1 DEF UpdatesDone, PassOK, UpdateOK
    <3> QED
      BY <3>1, <3>2
  <2>3. WaiterOK'
    BY <1>13 DEF UpdatesDone, WaiterOK
  <2>4. ApiOK' /\ ReplicaOK'
    BY <1>13 DEF UpdatesDone, ApiOK, ReplicaOK, Versions
  <2> QED
    BY <2>1, <2>2, <2>3, <2>4
<1>14. ASSUME NEW p \in Procs, Finish(p) PROVE TypeOK'
  <2>1. ReplicaOK'
    BY <1>14 DEF Finish, ReplicaOK, Versions
  <2>2. PassOK'
    BY <1>14 DEF Finish, PassOK, Versions, ApiOK
  <2>3. UpdateOK'
    BY <1>14 DEF Finish, UpdateOK, Versions
  <2>4. WaiterOK'
    BY <1>14 DEF Finish, WaiterOK, Range
  <2>5. ApiOK'
    BY <1>14 DEF Finish, ApiOK
  <2> QED
    BY <2>1, <2>2, <2>3, <2>4, <2>5
<1>15. ASSUME NEW r \in Replicas, NEW q \in Quotas, InformerEvent(r, q) PROVE TypeOK'
  <2>1. \A o \in Quotas : Versions(o)' = Versions(o)
    BY <1>15 DEF InformerEvent, Versions
  <2>2. informer[r][q] + 1 \in Versions(q) /\ informer[r][q] + 1 \in Nat
    <3>1. Len(hist[q]) \in Nat
      BY DEF ApiOK
    <3> QED
      BY <1>15, <3>1 DEF InformerEvent, ReplicaOK, Versions, Latest
  <2>3. informer' = [informer EXCEPT ![r][q] = informer[r][q] + 1]
    BY <1>15 DEF InformerEvent
  <2>4. informer' \in [Replicas -> [Quotas -> Nat]]
    BY <2>2, <2>3 DEF ReplicaOK
  <2>5. \A k \in Replicas, o \in Quotas : informer'[k][o] \in Versions(o)
    BY <2>2, <2>3 DEF ReplicaOK
  <2>6. ReplicaOK'
    BY <1>15, <2>1, <2>4, <2>5 DEF InformerEvent, ReplicaOK
  <2>7. ApiOK' /\ PassOK' /\ UpdateOK' /\ WaiterOK'
    BY <1>15, <2>1 DEF InformerEvent, ApiOK, PassOK, UpdateOK, WaiterOK
  <2> QED
    BY <2>6, <2>7
<1>17. CASE UNCHANGED vars
  BY <1>17 DEF vars, ApiOK, ReplicaOK, PassOK, UpdateOK, WaiterOK, Versions
<1> QED
  BY <1>1, <1>2, <1>3, <1>4, <1>5, <1>6, <1>7, <1>8, <1>9, <1>10, <1>11, <1>12, <1>13, <1>14, <1>15, <1>17, <1>18, <1>19
  DEF Next, Step, Quiescent, UpdateConflict, UpdateFails, BlockTimeout

\* TypeOK: the versions that informers, look-aside caches and goroutines hold
\* are stored versions, so every status they compute with is a real one.
THEOREM TypeCorrect == Spec => []TypeOK
<1>1. Init => TypeOK
  BY DEF Init, TypeOK, ApiOK, ReplicaOK, PassOK, UpdateOK, WaiterOK, Status, Versions,
         NoUsage, PC, Result
<1>2. QED
  BY <1>1, TypeStep, PTL DEF Spec

-----------------------------------------------------------------------------
(* The stored totals.                                                      *)

\* Only UpdateWrite stores a version.
LEMMA QuietStep ==
  ASSUME [Next]_vars
  PROVE  \/ UNCHANGED apiVars
         \/ \E p \in Procs : UpdateWrite(p)
<1> USE DEF apiVars
<1>1. ASSUME NEW p \in Procs, Step(p) PROVE UNCHANGED apiVars \/ UpdateWrite(p)
  BY <1>1 DEF Step, ListNone, ListQuotas, ListFails, CheckCaches, AcquireLock, CheckWaiter,
              CheckDone, UpdateGet, UpdateCheckCache, UpdateConflict, UpdateFails,
              UpdateError, BlockReturn, BlockTimeout, UpdatesDone, Finish
<1>2. ASSUME NEW p \in Procs, Start(p) PROVE UNCHANGED apiVars
  BY <1>2 DEF Start
<1>3. ASSUME NEW r \in Replicas, NEW q \in Quotas, InformerEvent(r, q) \/ Evict(r, q)
      PROVE  UNCHANGED apiVars
  BY <1>3 DEF InformerEvent, Evict
<1> QED
  BY <1>1, <1>2, <1>3 DEF Next, Quiescent, vars

\* The stored status of each quota after an update or an edit.
LEMMA StoredStep ==
  ASSUME ApiOK, NEW q \in Quotas, NEW v \in Status,
         hist' = [hist EXCEPT ![q] = Append(@, v)]
  PROVE  /\ Stored(q)' = v
         /\ \A o \in Quotas : o # q => Stored(o)' = Stored(o)
<1>1. /\ Len(hist'[q]) = Latest(q) + 1 /\ hist'[q][Latest(q) + 1] = v
      /\ \A o \in Quotas : o # q => hist'[o] = hist[o]
  BY StoreVersion
<1> QED
  BY <1>1 DEF Stored, Latest

\* One update replaces the newest version, by itself plus its charge.
LEMMA ChargeStep == TypeOK /\ NoLostCharge /\ [Next]_vars => NoLostCharge'
<1> SUFFICES ASSUME TypeOK, NoLostCharge, [Next]_vars PROVE NoLostCharge'
  OBVIOUS
<1> USE DEF TypeOK
<1>1. ASSUME NEW p \in Procs, UpdateWrite(p) PROVE NoLostCharge'
  <2>1. PICK q \in Quotas : q = cur[p] /\ base[p] \in Versions(q)
    BY <1>1 DEF UpdateWrite, UpdateOK
  <2>2. /\ hist[q][base[p]] \in Status /\ running[p][q] \in Int /\ NsOf[p] \in Namespaces
    BY <2>1, VersionStatus DEF PassOK
  <2>3. NewStatus(p, q) \in Status /\ NewStatus(p, q).total = running[p][q]
    BY <2>2 DEF NewStatus, Status
  <2>4. PICK v \in Status : v = NewStatus(p, q)
    BY <2>3
  <2>5. hist' = [hist EXCEPT ![q] = Append(@, v)]
    BY <1>1, <2>1, <2>4 DEF UpdateWrite
  <2>6. Stored(q)' = v /\ \A o \in Quotas : o # q => Stored(o)' = Stored(o)
    BY <2>5, StoredStep
  <2>7. Seen(p, q) = spent[q].total
    BY <1>1, <2>1 DEF UpdateWrite, Seen, Stored, NoLostCharge
  <2>8. spent[q].total \in Int
    BY DEF ApiOK, Status
  <2>9. /\ spent'[q].total = spent[q].total + (running[p][q] - Seen(p, q))
        /\ \A o \in Quotas : o # q => spent'[o] = spent[o]
    BY <1>1, <2>1 DEF UpdateWrite, ApiOK
  <2>10. spent'[q].total = running[p][q]
    BY <2>2, <2>7, <2>8, <2>9
  <2> QED
    BY <2>3, <2>4, <2>6, <2>9, <2>10 DEF NoLostCharge
<1>2. CASE UNCHANGED apiVars
  BY <1>2 DEF apiVars, NoLostCharge, Stored, Latest
<1> QED
  BY <1>1, <1>2, QuietStep

\* NoLostCharge, for any number of replicas and any lag of their informers:
\* the API server's optimistic lock on the version that GetQuotas returned
\* makes every charge land on the charges stored before it, although
\* UpdateQuotaStatus rebuilds the object from a second, possibly older read.
THEOREM ChargesKept == Spec => []NoLostCharge
<1>1. Init => NoLostCharge
  <2> SUFFICES ASSUME Init, NEW q \in Quotas PROVE Stored(q).total = spent[q].total
    BY DEF NoLostCharge
  <2>1. hist[q] = <<NoUsage>> /\ spent[q] = NoUsage
    BY DEF Init
  <2> QED
    BY <2>1 DEF Stored, Latest
<1>2. QED
  BY <1>1, TypeCorrect, ChargeStep, PTL DEF Spec

-----------------------------------------------------------------------------
(* The hard limits.                                                        *)

\* Every version stored so far, and every running quota, keeps its limit.
HardInv ==
  /\ \A q \in Quotas : \A i \in Versions(q) : hist[q][i].total <= Hard[q]
  /\ \A p \in Procs, q \in Quotas : running[p][q] <= Hard[q]

\* A batch is charged to the running quotas only as far as CheckRequest
\* allows, and what is stored is a running quota or was stored before.
LEMMA HardStep == TypeOK /\ HardInv /\ [Next]_vars => HardInv'
<1> SUFFICES ASSUME TypeOK, HardInv, [Next]_vars PROVE HardInv'
  OBVIOUS
<1> USE DEF TypeOK
<1>1. ASSUME NEW q \in Quotas, NEW v \in Status, v.total <= Hard[q],
             hist' = [hist EXCEPT ![q] = Append(@, v)], running' = running
      PROVE  HardInv'
  <2>1. /\ hist'[q][Latest(q) + 1] = v
        /\ \A o \in Quotas : \A i \in Versions(o) : hist'[o][i] = hist[o][i]
        /\ \A i \in Versions(q)' : i \in Versions(q) \/ i = Latest(q) + 1
        /\ \A o \in Quotas : o # q => Versions(o)' = Versions(o)
    BY <1>1, StoreVersion
  <2>2. ASSUME NEW o \in Quotas, NEW i \in Versions(o)' PROVE hist'[o][i].total <= Hard[o]
    <3>1. CASE o = q /\ i = Latest(q) + 1
      BY <1>1, <2>1, <3>1
    <3>2. CASE i \in Versions(o)
      BY <2>1, <3>2 DEF HardInv
    <3> QED
      BY <2>1, <3>1, <3>2
  <2>3. \A o \in Procs, k \in Quotas : running'[o][k] <= Hard[k]
    BY <1>1 DEF HardInv
  <2> QED
    BY <2>2, <2>3 DEF HardInv
<1>2. ASSUME NEW p \in Procs, UpdateWrite(p) PROVE HardInv'
  <2>1. PICK q \in Quotas : q = cur[p] /\ base[p] \in Versions(q)
    BY <1>2 DEF UpdateWrite, UpdateOK
  <2>2. /\ hist[q][base[p]] \in Status /\ running[p][q] \in Int /\ NsOf[p] \in Namespaces
    BY <2>1, VersionStatus DEF PassOK
  <2>3. NewStatus(p, q) \in Status /\ NewStatus(p, q).total = running[p][q]
    BY <2>2 DEF NewStatus, Status
  <2>4. PICK v \in Status : v = NewStatus(p, q)
    BY <2>3
  <2>5. v.total <= Hard[q]
    BY <2>3, <2>4 DEF HardInv
  <2>6. hist' = [hist EXCEPT ![q] = Append(@, v)] /\ running' = running
    BY <1>2, <2>1, <2>4 DEF UpdateWrite, passVars
  <2> QED
    BY <1>1, <2>5, <2>6
<1>4. ASSUME UNCHANGED apiVars,
             \A p \in Procs, q \in Quotas : running'[p][q] <= Hard[q]
      PROVE  HardInv'
  BY <1>4 DEF apiVars, HardInv, Versions
<1>5. ASSUME NEW p \in Procs, CheckCaches(p) PROVE HardInv'
  <2>1. \A q \in Quotas : CheckCache(RepOf[p], q, seen[p][q]) \in Versions(q)
    BY DEF CheckCache, ReplicaOK, PassOK
  <2>2. \A q \in Quotas : hist[q][CheckCache(RepOf[p], q, seen[p][q])].total <= Hard[q]
    BY <2>1 DEF HardInv
  <2>3. running' = [running EXCEPT ![p] =
          [q \in Quotas |-> hist[q][CheckCache(RepOf[p], q, seen[p][q])].total]]
    BY <1>5 DEF CheckCaches
  <2>4. \A o \in Procs, q \in Quotas : running'[o][q] <= Hard[q]
    BY <2>2, <2>3 DEF PassOK, HardInv
  <2> QED
    BY <1>4, <1>5, <2>4 DEF CheckCaches
<1>6. ASSUME NEW p \in Procs, CheckWaiter(p) PROVE HardInv'
  <2> DEFINE w == batch[p][next[p]]
             asks == {q \in scope[p] : Amount[w][q] > 0}
  <2>1. CASE running' = running
    BY <1>4, <1>6, <2>1 DEF CheckWaiter, HardInv
  <2>2. CASE running' # running
    <3>1. /\ ~Forbidden(p, w)
          /\ running' = [running EXCEPT ![p] =
               [q \in Quotas |-> IF q \in asks THEN @[q] + Amount[w][q] ELSE @[q]]]
      BY <1>6, <2>2 DEF CheckWaiter
    <3>2. \A q \in asks : running[p][q] + Amount[w][q] <= Hard[q]
      <4>1. w \in Waiters /\ scope[p] \subseteq Quotas
        BY <1>6 DEF CheckWaiter, PassOK, WaiterOK
      <4>2. \A q \in Quotas : Amount[w][q] \in Int /\ running[p][q] \in Int /\ Hard[q] \in Int
        BY <4>1 DEF PassOK
      <4>3. \A q \in asks : q \in scope[p] /\ Amount[w][q] > 0
        OBVIOUS
      <4> HIDE DEF w, asks
      <4>4. \A q \in asks : ~(running[p][q] + Amount[w][q] > Hard[q])
        BY <3>1, <4>3 DEF Forbidden
      <4> QED
        BY <4>1, <4>2, <4>3, <4>4
    <3> HIDE DEF w, asks
    <3>3. \A o \in Procs, q \in Quotas : running'[o][q] <= Hard[q]
      BY <3>1, <3>2 DEF PassOK, HardInv
    <3> QED
      BY <1>4, <1>6, <3>3 DEF CheckWaiter
  <2> QED
    BY <2>1, <2>2
<1>7. ASSUME NEW p \in Procs, Finish(p) PROVE HardInv'
  <2>1. \A o \in Procs, q \in Quotas : running'[o][q] <= Hard[q]
    BY <1>7 DEF Finish, PassOK, HardInv
  <2> QED
    BY <1>4, <1>7, <2>1 DEF Finish
<1>8. CASE UNCHANGED <<apiVars, running>>
  BY <1>4, <1>8 DEF HardInv
<1>9. ASSUME NEW p \in Procs, Step(p)
      PROVE  \/ UpdateWrite(p) \/ CheckCaches(p) \/ CheckWaiter(p) \/ Finish(p)
             \/ UNCHANGED <<apiVars, running>>
  BY <1>9 DEF Step, ListNone, ListQuotas, ListFails, AcquireLock, CheckDone, UpdateGet,
              UpdateCheckCache, UpdateConflict, UpdateFails, UpdateError, BlockReturn,
              BlockTimeout, UpdatesDone, passVars
<1>10. ASSUME NEW p \in Procs, Start(p) PROVE UNCHANGED <<apiVars, running>>
  BY <1>10 DEF Start
<1>11. ASSUME NEW r \in Replicas, NEW q \in Quotas, InformerEvent(r, q) \/ Evict(r, q)
       PROVE  UNCHANGED <<apiVars, running>>
  BY <1>11 DEF InformerEvent, Evict, passVars
<1>12. CASE UNCHANGED vars
  BY <1>8, <1>12 DEF vars, passVars
<1> QED
  BY <1>2, <1>5, <1>6, <1>7, <1>8, <1>9, <1>10, <1>11, <1>12 DEF Next, Quiescent

\* WithinHard, for any number of replicas: whatever interleaving of checks,
\* conflicts and retries, no AccountQuota is stored with more used than its
\* hard limit.
THEOREM LimitsKept == Spec => []WithinHard
<1>1. Init => HardInv
  <2> SUFFICES ASSUME Init PROVE HardInv
    OBVIOUS
  <2>1. \A q \in Quotas : hist[q] = <<NoUsage>> /\ Hard[q] \in Nat
    BY DEF Init
  <2>2. \A q \in Quotas : \A i \in Versions(q) : hist[q][i].total <= Hard[q]
    BY <2>1 DEF Versions, NoUsage
  <2>3. \A p \in Procs, q \in Quotas : running[p][q] <= Hard[q]
    BY <2>1 DEF Init
  <2> QED
    BY <2>2, <2>3 DEF HardInv
<1>2. TypeOK /\ HardInv => WithinHard
  BY LatestVersion DEF TypeOK, HardInv, WithinHard, Stored
<1>3. QED
  BY <1>1, <1>2, TypeCorrect, HardStep, PTL DEF Spec

-----------------------------------------------------------------------------
(* The locks.                                                              *)

\* From the last lock to releaseLocks, through every retry, a goroutine
\* holds the lock of each quota of the account.
Locked(p) ==
  \/ pc[p] \in Charging
  \/ pc[p] \in {"list", "cache"} /\ retries[p] # MaxRetries

LockInv ==
  /\ \A p \in Procs : Locked(p) => \A q \in Quotas : locks[RepOf[p]][q] = p
  /\ \A p \in Procs : pc[p] \in Charging \cup {"cache", "lock"} => Quotas # {}

\* The last lock missing is the one lockAquisition takes next.
LEMMA LastLock ==
  ASSUME NEW M \in SUBSET Quotas, Cardinality(M) = 1
  PROVE  M = {Least(M)}
<1>1. IsFiniteSet(Quotas)
  BY FS_Interval DEF Quotas
<1>2. IsFiniteSet(M)
  BY <1>1, FS_Subset
<1>3. PICK m : M = {m}
  BY <1>2, FS_Singleton
<1>4. m \in Quotas /\ m <= m
  BY <1>3 DEF Quotas
<1>5. Least(M) \in M
  BY <1>3, <1>4 DEF Least
<1> QED
  BY <1>3, <1>5

\* Nobody takes or frees a lock that somebody else holds, and nobody charges
\* before holding all.
LEMMA LockStep == TypeOK /\ LockInv /\ [Next]_vars => LockInv'
<1> SUFFICES ASSUME TypeOK, LockInv, [Next]_vars PROVE LockInv'
  OBVIOUS
<1> USE DEF TypeOK, Charging, replicaVars, updateVars, passVars
<1>1. ASSUME NEW p \in Procs, locks' = locks,
             \A o \in Procs \ {p} : pc'[o] = pc[o] /\ retries'[o] = retries[o],
             Locked(p)' => Locked(p),
             pc'[p] \in Charging \cup {"cache", "lock"} => Quotas # {}
      PROVE  LockInv'
  BY <1>1 DEF LockInv, Locked
<1>2. ASSUME NEW p \in Procs, AcquireLock(p) PROVE LockInv'
  <2> DEFINE r == RepOf[p]
             missing == {q \in Quotas : locks[r][q] # p}
             q0 == Least(missing)
  <2>1. /\ locks[r][q0] = NoProc /\ locks' = [locks EXCEPT ![r][q0] = p]
        /\ pc' = [pc EXCEPT ![p] = IF Cardinality(missing) = 1 THEN "check" ELSE "lock"]
        /\ pc[p] = "lock" /\ retries' = retries /\ Quotas # {}
    BY <1>2 DEF AcquireLock, LockInv
  <2>2. Cardinality(missing) = 1 => missing = {q0}
    <3>1. missing \in SUBSET Quotas
      OBVIOUS
    <3> HIDE DEF missing
    <3> QED
      BY <3>1, LastLock
  <2>3. \A o \in Procs : \A q \in Quotas : locks[RepOf[o]][q] = o => locks'[RepOf[o]][q] = o
    <3> HIDE DEF q0
    <3> QED
      BY <2>1 DEF ReplicaOK
  <2>4. Cardinality(missing) = 1 => \A q \in Quotas : locks'[r][q] = p
    <3> SUFFICES ASSUME Cardinality(missing) = 1, NEW q \in Quotas PROVE locks'[r][q] = p
      OBVIOUS
    <3>1. CASE q = q0
      <4> HIDE DEF q0
      <4> QED
        BY <2>1, <3>1 DEF ReplicaOK
    <3>2. CASE q # q0
      <4>1. locks[r][q] = p
        BY <2>2, <3>2
      <4> QED
        BY <2>3, <4>1
    <3> QED
      BY <3>1, <3>2
  <2>5. \A o \in Procs : Locked(o)' => Locked(o) \/ (o = p /\ Cardinality(missing) = 1)
    <3> HIDE DEF missing
    <3> QED
      BY <2>1 DEF Locked, UpdateOK
  <2>6. \A o \in Procs : Locked(o)' => \A q \in Quotas : locks'[RepOf[o]][q] = o
    BY <2>3, <2>4, <2>5 DEF LockInv
  <2> QED
    BY <2>1, <2>6 DEF LockInv
<1>3. ASSUME NEW p \in Procs, Finish(p) PROVE LockInv'
  <2>1. \A o \in Procs : Locked(o)' => o # p /\ Locked(o)
    BY <1>3 DEF Finish, Locked, UpdateOK
  <2>2. \A o \in Procs \ {p} : \A q \in Quotas :
          locks[RepOf[o]][q] = o => locks'[RepOf[o]][q] = o
    BY <1>3 DEF Finish, ReplicaOK
  <2>3. \A o \in Procs : pc'[o] \in Charging \cup {"cache", "lock"} => pc'[o] = pc[o]
    BY <1>3 DEF Finish, UpdateOK
  <2> QED
    BY <2>1, <2>2, <2>3 DEF LockInv
<1>4. ASSUME NEW p \in Procs, Start(p) PROVE LockInv'
  BY <1>1, <1>4 DEF Start, Locked, UpdateOK
<1>5. ASSUME NEW p \in Procs, ListNone(p) PROVE LockInv'
  BY <1>1, <1>5 DEF ListNone, Locked, UpdateOK
<1>6. ASSUME NEW p \in Procs, ListQuotas(p) PROVE LockInv'
  BY <1>1, <1>6 DEF ListQuotas, Locked, UpdateOK
<1>7. ASSUME NEW p \in Procs, ListFails(p) PROVE LockInv'
  BY <1>1, <1>7 DEF ListFails, Locked, UpdateOK
<1>8. ASSUME NEW p \in Procs, CheckCaches(p) PROVE LockInv'
  <2>1. Quotas # {}
    BY <1>8 DEF CheckCaches, LockInv
  <2> QED
    BY <1>1, <1>8, <2>1 DEF CheckCaches, Locked, UpdateOK
<1>9. ASSUME NEW p \in Procs, CheckWaiter(p) PROVE LockInv'
  BY <1>9 DEF CheckWaiter, Locked, LockInv
<1>10. ASSUME NEW p \in Procs, CheckDone(p) \/ UpdateGet(p) \/ UpdateCheckCache(p)
                                \/ UpdateWrite(p) \/ BlockReturn(p)
       PROVE  LockInv'
  <2>1. /\ locks' = locks /\ retries' = retries /\ pc[p] \in Charging
        /\ \A o \in Procs \ {p} : pc'[o] = pc[o]
    BY <1>10 DEF CheckDone, UpdateGet, UpdateCheckCache, UpdateWrite, BlockReturn, UpdateOK
  <2> QED
    BY <1>1, <2>1 DEF Locked, LockInv
<1>11. ASSUME NEW p \in Procs, pc[p] \in {"write", "block"}, UpdateError(p) PROVE LockInv'
  <2>1. Quotas # {} /\ Locked(p)
    BY <1>11 DEF LockInv, Locked
  <2> QED
    BY <1>1, <1>11, <2>1 DEF UpdateError, UpdateOK
<1>12. ASSUME NEW p \in Procs, UpdatesDone(p) PROVE LockInv'
  <2>1. Quotas # {} /\ Locked(p)
    BY <1>12 DEF UpdatesDone, LockInv, Locked
  <2>2. /\ locks' = locks
        /\ \A o \in Procs \ {p} : pc'[o] = pc[o] /\ retries'[o] = retries[o]
    BY <1>12 DEF UpdatesDone, UpdateOK
  <2> QED
    BY <1>1, <2>1, <2>2
<1>13. CASE UNCHANGED <<locks, pc, retries>>
  BY <1>13 DEF LockInv, Locked
<1>14. ASSUME NEW r \in Replicas, NEW q \in Quotas, InformerEvent(r, q) \/ Evict(r, q)
       PROVE  UNCHANGED <<locks, pc, retries>>
  BY <1>14 DEF InformerEvent, Evict
<1>16. CASE UNCHANGED vars
  BY <1>13, <1>16 DEF vars
<1> QED
  BY <1>2, <1>3, <1>4, <1>5, <1>6, <1>7, <1>8, <1>9, <1>10, <1>11, <1>12, <1>13, <1>14, <1>16
  DEF Next, Step, Quiescent, UpdateConflict, UpdateFails, BlockTimeout

\* ChargesAlone, for any number of goroutines: lockAquisition admits one
\* goroutine of a replica at a time to check and update the account's quotas.
THEOREM OneCharger == Spec => []ChargesAlone
<1>1. Init => LockInv
  BY DEF Init, LockInv, Locked, Charging
<1>2. TypeOK /\ LockInv => ChargesAlone
  <2> SUFFICES ASSUME LockInv, NEW a \in Procs, NEW b \in Procs, RepOf[a] = RepOf[b],
                      pc[a] \in Charging, pc[b] \in Charging
               PROVE  a = b
    BY DEF ChargesAlone
  <2>1. PICK q \in Quotas : TRUE
    BY DEF LockInv
  <2>2. locks[RepOf[a]][q] = a /\ locks[RepOf[b]][q] = b
    BY DEF LockInv, Locked
  <2> QED
    BY <2>2
<1>3. QED
  BY <1>1, <1>2, TypeCorrect, LockStep, PTL DEF Spec

-----------------------------------------------------------------------------
(* The usage by namespace.                                                 *)

AddsUp(status) == status.total = SumOver(status.ns, Namespaces)

\* Every version stored so far adds up, the ones an entry of the look-aside
\* cache or a lagging informer may hand out included.
VersionsAddUp == \A q \in Quotas : \A i \in Versions(q) : AddsUp(hist[q][i])

\* A status whose total and one namespace change by the same adds up.
LEMMA ChargeAddsUp ==
  ASSUME NEW s \in Status, AddsUp(s), NEW n \in Namespaces, NEW t \in Int, NEW v \in Status,
         v = [total |-> t, ns |-> [s.ns EXCEPT ![n] = @ + (t - s.total)]]
  PROVE  AddsUp(v)
<1>1. /\ s.ns \in [Namespaces -> Int] /\ v.ns \in [Namespaces -> Int]
      /\ s.total \in Int /\ v.total = t
  BY DEF Status
<1>2. PICK f \in [Namespaces -> Int], g \in [Namespaces -> Int] : f = s.ns /\ g = v.ns
  BY <1>1
<1>3. g = [f EXCEPT ![n] = @ + (t - s.total)]
  BY <1>2
<1>4. g[n] = f[n] + (t - s.total) /\ \A m \in Namespaces \ {n} : f[m] = g[m]
  BY <1>1, <1>3
<1>5. SumOver(g, Namespaces) = SumOver(f, Namespaces) + (g[n] - f[n])
  <2>1. IsFiniteSet(Namespaces) /\ \A m \in Namespaces : f[m] \in Int /\ g[m] \in Int
    OBVIOUS
  <2> HIDE AdmissionAssumption
  <2> QED
    BY <1>4, <2>1, SumChange
<1>6. SumOver(f, Namespaces) = s.total
  BY <1>2 DEF AddsUp
<1>7. f[n] \in Int
  OBVIOUS
<1>8. SumOver(g, Namespaces) = t
  BY <1>1, <1>4, <1>5, <1>6, <1>7
<1> QED
  BY <1>1, <1>2, <1>8 DEF AddsUp

\* UpdateQuotaStatus moves the total to the running value and the namespace
\* by the same difference, whichever version it reads.
LEMMA AddUpStep == TypeOK /\ VersionsAddUp /\ [Next]_vars => VersionsAddUp'
<1> SUFFICES ASSUME TypeOK, VersionsAddUp, [Next]_vars PROVE VersionsAddUp'
  OBVIOUS
<1> USE DEF TypeOK
<1>1. ASSUME NEW p \in Procs, UpdateWrite(p) PROVE VersionsAddUp'
  <2>1. PICK q \in Quotas : q = cur[p] /\ base[p] \in Versions(q)
    BY <1>1 DEF UpdateWrite, UpdateOK
  <2>2. /\ hist[q][base[p]] \in Status /\ running[p][q] \in Int /\ NsOf[p] \in Namespaces
    BY <2>1, VersionStatus DEF PassOK
  <2>3. NewStatus(p, q) \in Status
    BY <2>2 DEF NewStatus, Status
  <2>4. PICK v \in Status : v = NewStatus(p, q)
    BY <2>3
  <2>5. PICK s \in Status : s = hist[q][base[p]]
    BY <2>2
  <2>6. AddsUp(v)
    <3>1. AddsUp(s)
      BY <2>1, <2>5 DEF VersionsAddUp
    <3>2. PICK t \in Int, n \in Namespaces : t = running[p][q] /\ n = NsOf[p]
      BY <2>2
    <3>3. v = [total |-> t, ns |-> [s.ns EXCEPT ![n] = @ + (t - s.total)]]
      BY <2>4, <2>5, <3>2 DEF NewStatus
    <3> QED
      BY <3>1, <3>3, ChargeAddsUp
  <2>7. hist' = [hist EXCEPT ![q] = Append(@, v)]
    BY <1>1, <2>1, <2>4 DEF UpdateWrite
  <2>8. /\ hist'[q][Latest(q) + 1] = v
        /\ \A o \in Quotas : \A i \in Versions(o) : hist'[o][i] = hist[o][i]
        /\ \A i \in Versions(q)' : i \in Versions(q) \/ i = Latest(q) + 1
        /\ \A o \in Quotas : o # q => Versions(o)' = Versions(o)
    BY <2>7, StoreVersion
  <2>9. ASSUME NEW o \in Quotas, NEW i \in Versions(o)' PROVE AddsUp(hist'[o][i])
    <3>1. CASE o = q /\ i = Latest(q) + 1
      BY <2>6, <2>8, <3>1
    <3>2. CASE i \in Versions(o)
      BY <2>8, <3>2 DEF VersionsAddUp
    <3> QED
      BY <2>8, <2>9, <3>1, <3>2
  <2> QED
    BY <2>9 DEF VersionsAddUp, AddsUp
<1>2. CASE UNCHANGED apiVars
  BY <1>2 DEF apiVars, VersionsAddUp, AddsUp, Versions
<1> QED
  BY <1>1, <1>2, QuietStep

\* NamespacesAddUp, for any number of namespaces and replicas: the usage that
\* a stored quota shows per namespace adds up to the one it is checked by.
THEOREM UsageAddsUp == Spec => []NamespacesAddUp
<1>1. Init => VersionsAddUp
  <2> SUFFICES ASSUME Init, NEW q \in Quotas, NEW i \in Versions(q)
               PROVE  AddsUp(hist[q][i])
    BY DEF VersionsAddUp
  <2>1. hist[q][i] = NoUsage
    BY DEF Init, Versions
  <2> DEFINE zero == [n \in Namespaces |-> 0]
  <2>2. SumOver(zero, Namespaces) = 0
    BY SumZero
  <2>3. NoUsage.total = 0 /\ NoUsage.ns = zero
    BY DEF NoUsage
  <2> QED
    BY <2>1, <2>2, <2>3 DEF AddsUp
<1>2. TypeOK /\ VersionsAddUp => NamespacesAddUp
  BY LatestVersion DEF TypeOK, VersionsAddUp, AddsUp, NamespacesAddUp, Stored
<1> QED
  BY <1>1, <1>2, TypeCorrect, AddUpStep, PTL DEF Spec

-----------------------------------------------------------------------------
(* What was let through was charged.                                       *)

\* The requests that an account pays for.
Paying == {w \in Waiters \ DryRun : NsOf[ProcOf[w]] \in Owned}

\* Those of p's batch that may still be let through, or have been.
Mine(p) == {w \in Range(batch[p]) \cap Paying : result[w] # "err"}

\* Those of them that this pass has looked at.
LookedAt(p) == {w \in Mine(p) : \E i \in 1..next[p] - 1 : w = batch[p][i]}

\* What p's batch asks of q has been charged.
Settled(p, q) ==
  \/ pc[p] \in {"list", "cache", "lock", "check"} /\ q \notin scope[p]
  \/ pc[p] \in {"update", "recheck", "write"} /\ q \notin todo[p] \cup failed[p]
  \/ pc[p] = "block" /\ q \notin failed[p] \cup (todo[p] \ {cur[p]})

\* The requests whose charge to q must be in spent.
Counted(p, q) ==
  {w \in Mine(p) : Settled(p, q) \/ (pc[p] = "finish" /\ result[w] = "nil")}
Credited(q) == Admitted \cup UNION {Counted(p, q) : p \in Procs}

Updating == {"update", "recheck", "write", "block"}

\* A batch has requests of its own, none of them answered.
BatchesOwn ==
  /\ \A p \in Procs : \A w \in Range(batch[p]) :
       ProcOf[w] = p /\ w \in submitted /\ w \notin done
  /\ done \subseteq submitted /\ IsFiniteSet(submitted)
  /\ \A w \in Waiters \ submitted : result[w] = "defaultDeny"
  /\ \A p \in Procs : pc[p] = "idle" => batch[p] = <<>>

\* Updates and retries are about quotas of the pass.
InScope(p) ==
  /\ pc[p] \in Updating => todo[p] \subseteq scope[p] /\ failed[p] \subseteq scope[p]
  /\ pc[p] \in {"recheck", "write", "block"} => cur[p] \in scope[p]
  /\ pc[p] \in {"list", "cache", "lock", "check"} => (scope[p] = {} => Quotas = {})

\* Who was let through before the updates asks nothing of the quotas of the pass.
PassedFree(p) ==
  pc[p] # "finish" =>
    \A w \in Range(batch[p]) \cap Paying : result[w] = "nil" =>
      \A q \in scope[p] : Amount[w][q] = 0

\* The running quotas hold what the requests looked at ask for.
RunningCovers(p) ==
  \A q \in scope[p] :
    /\ pc[p] \in {"lock", "check"} => SumOver(Asked(q), LookedAt(p)) <= running[p][q] - Seen(p, q)
    /\ pc[p] \in Updating => SumOver(Asked(q), Mine(p)) <= running[p][q] - Seen(p, q)

\* The requests counted were charged.
SpentCovers == \A q \in Quotas : SumOver(Asked(q), Credited(q)) <= spent[q].total

\* No request that an account pays for is let through after it was rejected,
\* unless it asks nothing.
Kept ==
  \A w \in Paying : result[w] = "err" /\ result'[w] = "nil" => \A q \in Quotas : Amount[w][q] = 0

\* Sums of what requests ask of a quota.
LEMMA AskedSums ==
  ASSUME NEW q \in Quotas, NEW S \in SUBSET Waiters, IsFiniteSet(S),
         NEW A \in SUBSET S, NEW B \in SUBSET S
  PROVE  /\ SumOver(Asked(q), A) \in Nat
         /\ A \subseteq B => SumOver(Asked(q), A) <= SumOver(Asked(q), B)
         /\ SumOver(Asked(q), A \cup B) <= SumOver(Asked(q), A) + SumOver(Asked(q), B)
         /\ (\A w \in A : Amount[w][q] = 0) => SumOver(Asked(q), A) = 0
         /\ \A w \in S : A = {w} => SumOver(Asked(q), A) = Amount[w][q]
<1>1. PICK f : f = Asked(q)
  OBVIOUS
<1>2. (\A w \in S : f[w] \in Nat) /\ \A w \in S : f[w] = Amount[w][q]
  BY <1>1 DEF Asked
<1>3. SumOver(f, A) \in Nat /\ (A \subseteq B => SumOver(f, A) <= SumOver(f, B))
  BY <1>2, SumSubset
<1>4. SumOver(f, A \cup B) <= SumOver(f, A) + SumOver(f, B)
  BY <1>2, SumUnion
<1>5. ASSUME \A w \in A : Amount[w][q] = 0 PROVE SumOver(f, A) = 0
  <2>1. IsFiniteSet(A) /\ \A w \in A : f[w] = 0
    BY <1>2, <1>5, FS_Subset
  <2> QED
    BY <2>1, SumZero
<1>6. ASSUME NEW w \in S, A = {w} PROVE SumOver(f, A) = Amount[w][q]
  <2>1. PICK E : E = {}
    OBVIOUS
  <2>2. IsFiniteSet(E) /\ w \notin E /\ E \cup {w} = A
    BY <1>6, <2>1, FS_EmptySet
  <2>3. \A x \in E \cup {w} : f[x] \in Int
    BY <1>2, <2>1
  <2>4. SumOver(f, E \cup {w}) = f[w] + SumOver(f, E)
    BY <2>2, <2>3, SumAdd
  <2>5. SumOver(f, E) = 0
    BY <2>1, SumEmpty
  <2>6. f[w] = Amount[w][q] /\ f[w] \in Nat
    BY <1>2
  <2>7. SumOver(f, A) = f[w] + 0
    BY <2>2, <2>4, <2>5
  <2>8. f[w] + 0 = f[w]
    BY <2>6
  <2> QED
    BY <2>6, <2>7, <2>8
<1> QED
  BY <1>1, <1>3, <1>4, <1>5, <1>6

\* The request CheckWaiter is about is one of the batch.
LEMMA TheirTurn ==
  ASSUME TypeOK, NEW p \in Procs, next[p] <= Len(batch[p])
  PROVE  batch[p][next[p]] \in Range(batch[p]) /\ batch[p][next[p]] \in Waiters
<1>1. batch[p] \in Seq(Waiters) /\ next[p] \in Nat \ {0}
  BY DEF TypeOK, WaiterOK, PassOK
<1>2. next[p] \in DOMAIN batch[p]
  BY <1>1
<1> QED
  BY <1>1, <1>2 DEF Range

\* A step of a goroutine changes its own batch's answers, and nothing of
\* another goroutine.
LEMMA OthersRest ==
  ASSUME TypeOK, NEW p \in Procs, Step(p)
  PROVE  /\ \A w \in Waiters \ Range(batch[p]) : result'[w] = result[w]
         /\ \A o \in Procs \ {p} :
              /\ pc'[o] = pc[o] /\ batch'[o] = batch[o] /\ next'[o] = next[o]
              /\ scope'[o] = scope[o] /\ seen'[o] = seen[o] /\ running'[o] = running[o]
              /\ todo'[o] = todo[o] /\ failed'[o] = failed[o] /\ cur'[o] = cur[o]
         /\ submitted' = submitted
         /\ (batch' = batch /\ done' = done) \/ Finish(p)
<1> USE DEF TypeOK, passVars, updateVars, waiterVars
<1>1. CASE ListNone(p)
  BY <1>1 DEF ListNone, WaiterOK
<1>2. CASE ListFails(p)
  BY <1>2 DEF ListFails, WaiterOK
<1>3. CASE CheckWaiter(p)
  <2>1. batch[p][next[p]] \in Range(batch[p])
    BY <1>3, TheirTurn DEF CheckWaiter
  <2> QED
    BY <1>3, <2>1 DEF CheckWaiter, WaiterOK, PassOK
<1>4. CASE UpdatesDone(p)
  BY <1>4 DEF UpdatesDone, WaiterOK, UpdateOK, PassOK
<1>5. CASE Finish(p)
  BY <1>5 DEF Finish, WaiterOK, UpdateOK, PassOK
<1>6. CASE ListQuotas(p) \/ CheckCaches(p) \/ AcquireLock(p) \/ CheckDone(p) \/ UpdateGet(p)
  BY <1>6 DEF ListQuotas, CheckCaches, AcquireLock, CheckDone, UpdateGet, UpdateOK, PassOK
<1>7. CASE UpdateCheckCache(p) \/ UpdateWrite(p) \/ BlockReturn(p)
  BY <1>7 DEF UpdateCheckCache, UpdateWrite, BlockReturn, UpdateOK, PassOK
<1>8. CASE UpdateError(p)
  BY <1>8 DEF UpdateError, UpdateOK, PassOK
<1> QED
  BY <1>1, <1>2, <1>3, <1>4, <1>5, <1>6, <1>7, <1>8
  DEF Step, UpdateConflict, UpdateFails, BlockTimeout

\* A batch has requests of its own, none of them answered.
LEMMA OwnStep == TypeOK /\ BatchesOwn /\ [Next]_vars => BatchesOwn'
<1> SUFFICES ASSUME TypeOK, BatchesOwn, [Next]_vars PROVE BatchesOwn'
  OBVIOUS
<1> USE DEF TypeOK
<1>1. ASSUME NEW p \in Procs, Start(p) PROVE BatchesOwn'
  <2> DEFINE Fresh == {w \in Waiters \ submitted : ProcOf[w] = p}
  <2>0. PICK n \in 1..MaxBatch : \E b \in [1..n -> Fresh] :
          batch' = [batch EXCEPT ![p] = b] /\ submitted' = submitted \cup Range(b)
    BY <1>1 DEF Start
  <2>1. PICK b \in [1..n -> Fresh] :
          batch' = [batch EXCEPT ![p] = b] /\ submitted' = submitted \cup Range(b)
    BY <2>0
  <2>2. Range(b) \subseteq Fresh /\ IsFiniteSet(Range(b))
    <3>1. Range(b) = {b[i] : i \in 1..n}
      BY DEF Range
    <3>2. IsFiniteSet(1..n)
      BY FS_Interval
    <3>3. b \in Surjection(1..n, Range(b))
      BY <3>1 DEF Surjection
    <3> QED
      BY <3>1, <3>2, <3>3, FS_Surjection
  <2>3. batch'[p] = b /\ (\A o \in Procs \ {p} : batch'[o] = batch[o]) /\ done' = done /\ result' = result
    BY <1>1, <2>1 DEF Start, WaiterOK
  <2>4. IsFiniteSet(submitted')
    BY <2>1, <2>2, FS_Union DEF BatchesOwn
  <2>5. pc'[p] # "idle" /\ \A o \in Procs \ {p} : pc'[o] = pc[o]
    BY <1>1 DEF Start, UpdateOK
  <2>6. ASSUME NEW o \in Procs, NEW w \in Range(batch'[o])
        PROVE  ProcOf[w] = o /\ w \in submitted' /\ w \notin done'
    <3>1. CASE o = p
      BY <2>1, <2>2, <2>3, <2>6, <3>1 DEF BatchesOwn
    <3>2. CASE o # p
      BY <2>1, <2>3, <2>6, <3>2 DEF BatchesOwn
    <3> QED
      BY <3>1, <3>2
  <2>7. \A o \in Procs : pc'[o] = "idle" => batch'[o] = <<>>
    BY <2>3, <2>5 DEF BatchesOwn
  <2>8. /\ done' \subseteq submitted'
        /\ \A w \in Waiters \ submitted' : result'[w] = "defaultDeny"
    BY <2>1, <2>3 DEF BatchesOwn
  <2> QED
    BY <2>4, <2>6, <2>7, <2>8 DEF BatchesOwn
<1>2. ASSUME NEW p \in Procs, Step(p), ~Finish(p) PROVE BatchesOwn'
  <2>1. /\ \A w \in Waiters \ Range(batch[p]) : result'[w] = result[w]
        /\ submitted' = submitted /\ batch' = batch /\ done' = done
        /\ \A o \in Procs \ {p} : pc'[o] = pc[o]
    BY <1>2, OthersRest
  <2>2. pc'[p] # "idle"
    BY <1>2 DEF Step, ListNone, ListQuotas, ListFails, CheckCaches, AcquireLock, CheckWaiter,
       CheckDone, UpdateGet, UpdateCheckCache, UpdateWrite, UpdateConflict, UpdateFails,
       UpdateError, BlockReturn, BlockTimeout, UpdatesDone, UpdateOK
  <2> QED
    BY <2>1, <2>2 DEF BatchesOwn
<1>3. ASSUME NEW p \in Procs, Finish(p) PROVE BatchesOwn'
  <2>1. /\ batch' = [batch EXCEPT ![p] = <<>>] /\ done' = done \cup Range(batch[p])
        /\ submitted' = submitted /\ result' = result
        /\ \A o \in Procs \ {p} : pc'[o] = pc[o]
    BY <1>3 DEF Finish, UpdateOK
  <2>2. Range(<<>>) = {}
    BY DEF Range
  <2>3. batch'[p] = <<>> /\ \A o \in Procs \ {p} : batch'[o] = batch[o]
    BY <2>1 DEF WaiterOK
  <2>4. ASSUME NEW o \in Procs, NEW w \in Range(batch'[o])
        PROVE  ProcOf[w] = o /\ w \in submitted' /\ w \notin done'
    <3>1. o # p
      BY <2>2, <2>3, <2>4
    <3>2. w \in Range(batch[o])
      BY <2>3, <2>4, <3>1
    <3>3. ProcOf[w] = o /\ w \in submitted /\ w \notin done
      BY <3>2 DEF BatchesOwn
    <3>4. w \notin Range(batch[p])
      BY <3>1, <3>3 DEF BatchesOwn
    <3> QED
      BY <2>1, <3>3, <3>4
  <2>5. \A o \in Procs : pc'[o] = "idle" => batch'[o] = <<>>
    BY <2>1, <2>3 DEF BatchesOwn
  <2>6. /\ done' \subseteq submitted' /\ IsFiniteSet(submitted')
        /\ \A w \in Waiters \ submitted' : result'[w] = "defaultDeny"
    BY <2>1 DEF BatchesOwn
  <2> QED
    BY <2>4, <2>5, <2>6 DEF BatchesOwn
<1>4. CASE UNCHANGED <<batch, submitted, done, result, pc>>
  BY <1>4 DEF BatchesOwn
<1>5. ASSUME NEW r \in Replicas, NEW q \in Quotas, InformerEvent(r, q) \/ Evict(r, q)
      PROVE  UNCHANGED <<batch, submitted, done, result, pc>>
  BY <1>5 DEF InformerEvent, Evict, waiterVars
<1>6. CASE UNCHANGED vars
  BY <1>4, <1>6 DEF vars, waiterVars
<1> QED
  BY <1>1, <1>2, <1>3, <1>4, <1>5, <1>6 DEF Next, Quiescent

\* Updates and retries stay within the quotas of the pass.
LEMMA ScopeStep ==
  TypeOK /\ (\A p \in Procs : InScope(p)) /\ [Next]_vars => \A p \in Procs : InScope(p)'
<1> SUFFICES ASSUME TypeOK, \A p \in Procs : InScope(p), [Next]_vars
             PROVE  \A p \in Procs : InScope(p)'
  OBVIOUS
<1> USE DEF TypeOK
<1>1. ASSUME NEW p \in Procs, InScope(p)',
             \A o \in Procs \ {p} : pc'[o] = pc[o] /\ scope'[o] = scope[o] /\ todo'[o] = todo[o]
                                    /\ failed'[o] = failed[o] /\ cur'[o] = cur[o]
      PROVE  \A o \in Procs : InScope(o)'
  BY <1>1 DEF InScope, Updating
<1>2. ASSUME NEW p \in Procs, Start(p) PROVE \A o \in Procs : InScope(o)'
  <2>1. pc'[p] = "list" /\ scope'[p] = Quotas
    BY <1>2 DEF Start, UpdateOK, PassOK
  <2>2. InScope(p)'
    BY <2>1 DEF InScope, Updating
  <2> QED
    BY <1>1, <1>2, <2>2 DEF Start, UpdateOK, PassOK
<1>3. ASSUME NEW p \in Procs, Step(p) PROVE InScope(p)'
  <2> USE DEF passVars, updateVars, Updating
  <2>1. CASE ListNone(p) \/ ListQuotas(p) \/ ListFails(p) \/ CheckCaches(p) \/ AcquireLock(p)
    <3>1. pc[p] \in {"list", "cache", "lock"}
      BY <2>1 DEF ListNone, ListQuotas, ListFails, CheckCaches, AcquireLock
    <3>2. scope' = scope
      BY <2>1 DEF ListNone, ListQuotas, ListFails, CheckCaches, AcquireLock
    <3>3. PICK to \in {"cache", "lock", "check", "finish"} : pc' = [pc EXCEPT ![p] = to]
      <4>1. CASE ListNone(p) \/ ListFails(p)
        BY <4>1 DEF ListNone, ListFails
      <4>2. CASE ListQuotas(p)
        BY <4>2 DEF ListQuotas
      <4>3. CASE CheckCaches(p)
        BY <4>3 DEF CheckCaches
      <4>4. CASE AcquireLock(p)
        BY <4>4 DEF AcquireLock
      <4> QED
        BY <2>1, <4>1, <4>2, <4>3, <4>4
    <3>4. pc'[p] \in {"cache", "lock", "check", "finish"}
      BY <3>3 DEF UpdateOK
    <3> QED
      BY <3>1, <3>2, <3>4 DEF InScope
  <2>2. CASE CheckWaiter(p)
    BY <2>2 DEF InScope, CheckWaiter, UpdateOK, PassOK
  <2>3. CASE CheckDone(p)
    <3>1. /\ todo'[p] \subseteq scope[p] /\ failed'[p] = {} /\ scope' = scope
          /\ pc'[p] \in {"finish", "update"}
      BY <2>3 DEF CheckDone, UpdateOK, PassOK
    <3> QED
      BY <3>1 DEF InScope
  <2>4. CASE UpdateGet(p)
    <3>1. /\ pc[p] = "update" /\ pc'[p] = "recheck" /\ cur'[p] \in todo[p]
          /\ todo' = todo /\ failed' = failed /\ scope' = scope
      BY <2>4 DEF UpdateGet, UpdateOK
    <3> QED
      BY <3>1 DEF InScope
  <2>5. CASE UpdateCheckCache(p) \/ UpdateWrite(p)
    BY <2>5 DEF InScope, UpdateCheckCache, UpdateWrite, UpdateOK, PassOK
  <2>6. CASE BlockReturn(p)
    BY <2>6 DEF InScope, BlockReturn, UpdateOK, PassOK
  <2>7. CASE UpdateError(p) /\ pc[p] \in {"write", "block"}
    BY <2>7 DEF InScope, UpdateError, UpdateOK, PassOK
  <2>8. CASE UpdatesDone(p)
    BY <2>8 DEF InScope, UpdatesDone, UpdateOK, PassOK
  <2>9. CASE Finish(p)
    BY <2>9 DEF InScope, Finish, UpdateOK
  <2> QED
    BY <1>3, <2>1, <2>2, <2>3, <2>4, <2>5, <2>6, <2>7, <2>8, <2>9
    DEF Step, UpdateConflict, UpdateFails, BlockTimeout
<1>4. CASE UNCHANGED <<pc, scope, todo, failed, cur>>
  BY <1>4 DEF InScope, Updating
<1>5. ASSUME NEW r \in Replicas, NEW q \in Quotas, InformerEvent(r, q) \/ Evict(r, q)
      PROVE  UNCHANGED <<pc, scope, todo, failed, cur>>
  BY <1>5 DEF InformerEvent, Evict, passVars, updateVars
<1>6. CASE UNCHANGED vars
  BY <1>4, <1>6 DEF vars, passVars, updateVars
<1>7. ASSUME NEW p \in Procs, Step(p) PROVE \A o \in Procs : InScope(o)'
  BY <1>1, <1>3, <1>7, OthersRest
<1> QED
  BY <1>2, <1>4, <1>5, <1>6, <1>7 DEF Next, Quiescent

\* Who is let through before the updates asks nothing of the quotas of the
\* pass, and a retry is about no others.
LEMMA FreeStep ==
  TypeOK /\ BatchesOwn /\ (\A p \in Procs : InScope(p) /\ PassedFree(p)) /\ [Next]_vars
    => \A p \in Procs : PassedFree(p)'
<1> SUFFICES ASSUME TypeOK, BatchesOwn, \A p \in Procs : InScope(p) /\ PassedFree(p), [Next]_vars
             PROVE  \A p \in Procs : PassedFree(p)'
  OBVIOUS
<1> USE DEF TypeOK
<1>0. \A p \in Procs : Range(batch[p]) \subseteq Waiters
  BY DEF WaiterOK, Range
<1>1. ASSUME NEW p \in Procs, PassedFree(p)',
             \A o \in Procs \ {p} : pc'[o] = pc[o] /\ scope'[o] = scope[o] /\ batch'[o] = batch[o],
             \A w \in Waiters \ Range(batch[p]) : result'[w] = result[w]
      PROVE  \A o \in Procs : PassedFree(o)'
  <2> SUFFICES ASSUME NEW o \in Procs, o # p PROVE PassedFree(o)'
    BY <1>1
  <2>1. \A w \in Range(batch[o]) : w \in Waiters \ Range(batch[p])
    BY <1>0 DEF BatchesOwn
  <2> QED
    BY <1>1, <2>1 DEF PassedFree
<1>2. ASSUME NEW p \in Procs, Start(p) PROVE \A o \in Procs : PassedFree(o)'
  <2>1. \A w \in Range(batch'[p]) : w \in Waiters \ submitted
    <3>1. PICK n \in 1..MaxBatch : \E b \in [1..n -> {w \in Waiters \ submitted : ProcOf[w] = p}] :
            batch' = [batch EXCEPT ![p] = b]
      BY <1>2 DEF Start
    <3>2. PICK b \in [1..n -> {w \in Waiters \ submitted : ProcOf[w] = p}] :
            batch' = [batch EXCEPT ![p] = b]
      BY <3>1
    <3>3. batch'[p] = b
      BY <3>2 DEF WaiterOK
    <3> QED
      BY <3>3 DEF Range
  <2>2. result' = result /\ \A w \in Waiters \ submitted : result[w] = "defaultDeny"
    BY <1>2 DEF Start, BatchesOwn
  <2>3. PassedFree(p)'
    BY <2>1, <2>2 DEF PassedFree
  <2> QED
    BY <1>1, <1>2, <2>3 DEF Start, UpdateOK, PassOK, WaiterOK
<1>3. ASSUME NEW p \in Procs, Step(p) PROVE PassedFree(p)'
  <2>1. CASE ListNone(p) \/ ListFails(p)
    BY <2>1 DEF ListNone, ListFails, PassedFree, UpdateOK
  <2>2. CASE UNCHANGED <<scope, result, batch>> /\ pc[p] # "finish"
    BY <2>2 DEF PassedFree
  <2>3. CASE CheckWaiter(p)
    <3> DEFINE w == batch[p][next[p]]
               asks == {q \in scope[p] : Amount[w][q] > 0}
    <3>1. UNCHANGED <<scope, batch, pc>> /\ pc[p] = "check"
      BY <2>3 DEF CheckWaiter
    <3>2. w \in Waiters /\ scope[p] \subseteq Quotas
      BY <2>3, TheirTurn DEF CheckWaiter, PassOK
    <3>3. (result'[w] = "nil" /\ result[w] # "nil" /\ w \notin DryRun) => asks = {}
      BY <2>3, <3>2 DEF CheckWaiter, WaiterOK
    <3>4. \A v \in Waiters : v # w => result'[v] = result[v]
      BY <2>3 DEF CheckWaiter, WaiterOK
    <3>5. \A q \in scope[p] : q \notin asks => Amount[w][q] = 0
      BY <3>2
    <3> HIDE DEF w, asks
    <3>6. PICK v : v = w
      OBVIOUS
    <3>7. (result'[v] = "nil" /\ result[v] # "nil" /\ v \notin DryRun) => \A q \in scope[p] : Amount[v][q] = 0
      BY <3>3, <3>5, <3>6
    <3>8. \A u \in Range(batch[p]) \cap Paying : u = v \/ result'[u] = result[u]
      BY <1>0, <3>4, <3>6
    <3> QED
      BY <3>1, <3>7, <3>8 DEF PassedFree, Paying
  <2>4. CASE UpdatesDone(p)
    <3>1. pc'[p] = "finish" \/ (scope'[p] = failed[p] /\ result' = result /\ batch' = batch)
      BY <2>4 DEF UpdatesDone, UpdateOK, PassOK
    <3>2. failed[p] \subseteq scope[p] /\ pc[p] = "update"
      BY <2>4 DEF UpdatesDone, InScope, Updating
    <3> QED
      BY <3>1, <3>2 DEF PassedFree
  <2>5. CASE Finish(p)
    <3>1. scope'[p] = {}
      BY <2>5 DEF Finish, PassOK
    <3> QED
      BY <3>1 DEF PassedFree
  <2>6. Step(p) => \/ ListNone(p) \/ ListFails(p) \/ CheckWaiter(p) \/ UpdatesDone(p) \/ Finish(p)
                   \/ UNCHANGED <<scope, result, batch>> /\ pc[p] # "finish"
    BY DEF Step, ListQuotas, CheckCaches, AcquireLock, CheckDone, UpdateGet, UpdateCheckCache,
           UpdateWrite, UpdateConflict, UpdateFails, UpdateError, BlockReturn, BlockTimeout,
           passVars, waiterVars
  <2> QED
    BY <1>3, <2>1, <2>2, <2>3, <2>4, <2>5, <2>6
<1>4. CASE UNCHANGED <<pc, scope, batch, result>>
  BY <1>4 DEF PassedFree
<1>5. ASSUME NEW r \in Replicas, NEW q \in Quotas, InformerEvent(r, q) \/ Evict(r, q)
      PROVE  UNCHANGED <<pc, scope, batch, result>>
  BY <1>5 DEF InformerEvent, Evict, passVars, waiterVars
<1>6. CASE UNCHANGED vars
  BY <1>4, <1>6 DEF vars, passVars, waiterVars
<1>7. ASSUME NEW p \in Procs, Step(p), ~Finish(p) PROVE \A o \in Procs : PassedFree(o)'
  BY <1>1, <1>3, <1>7, OthersRest
<1>8. ASSUME NEW p \in Procs, Finish(p) PROVE \A o \in Procs : PassedFree(o)'
  <2>1. Step(p)
    BY <1>8 DEF Step
  <2> QED
    BY <1>1, <1>3, <2>1, OthersRest
<1> QED
  BY <1>2, <1>4, <1>5, <1>6, <1>7, <1>8 DEF Next, Quiescent

\* What a goroutine has seen of a quota stays what it was.
LEMMA SeenStays ==
  ASSUME TypeOK, [Next]_vars, NEW p \in Procs, seen'[p] = seen[p], NEW q \in Quotas
  PROVE  Seen(p, q)' = Seen(p, q)
<1> USE DEF TypeOK
<1>1. ASSUME NEW o \in Procs, UpdateWrite(o) PROVE hist'[q][seen[p][q]] = hist[q][seen[p][q]]
  <2>1. PICK k \in Quotas : k = cur[o] /\ base[o] \in Versions(k)
    BY <1>1 DEF UpdateWrite, UpdateOK
  <2>2. /\ hist[k][base[o]] \in Status /\ running[o][k] \in Int /\ NsOf[o] \in Namespaces
    BY <2>1, VersionStatus DEF PassOK
  <2>3. NewStatus(o, k) \in Status
    BY <2>2 DEF NewStatus, Status
  <2>4. PICK v \in Status : v = NewStatus(o, k)
    BY <2>3
  <2>5. hist' = [hist EXCEPT ![k] = Append(@, v)]
    BY <1>1, <2>1, <2>4 DEF UpdateWrite
  <2>6. \A i \in Versions(q) : hist'[q][i] = hist[q][i]
    BY <2>5, StoreVersion
  <2> QED
    BY <2>6 DEF PassOK
<1>2. CASE UNCHANGED apiVars
  BY <1>2 DEF apiVars, Seen
<1> QED
  BY <1>1, <1>2, QuietStep DEF Seen

\* The requests of a batch are some of those submitted.
LEMMA MineSubmitted ==
  ASSUME TypeOK, BatchesOwn, NEW p \in Procs
  PROVE  /\ Mine(p) \subseteq submitted /\ LookedAt(p) \subseteq Mine(p)
         /\ Range(batch[p]) \subseteq submitted /\ submitted \subseteq Waiters
         /\ IsFiniteSet(submitted)
  BY DEF BatchesOwn, Mine, LookedAt, TypeOK, WaiterOK

\* Another goroutine's requests are not touched.
LEMMA MineStays ==
  ASSUME TypeOK, BatchesOwn, NEW p \in Procs, NEW o \in Procs, o # p,
         \A w \in Waiters \ Range(batch[p]) : result'[w] = result[w],
         batch'[o] = batch[o]
  PROVE  Mine(o)' = Mine(o) /\ (next'[o] = next[o] => LookedAt(o)' = LookedAt(o))
<1>1. \A w \in Range(batch[o]) : w \in Waiters \ Range(batch[p])
  BY DEF BatchesOwn, TypeOK, WaiterOK
<1>2. Mine(o)' = Mine(o)
  BY <1>1 DEF Mine, Paying
<1> QED
  BY <1>2 DEF LookedAt

\* The round of CheckWaiter: the running quotas grow by what it lets through.
LEMMA RoundCovers ==
  ASSUME TypeOK, BatchesOwn, NEW p \in Procs, RunningCovers(p), CheckWaiter(p),
         \A q \in Quotas : Seen(p, q)' = Seen(p, q)
  PROVE  RunningCovers(p)'
<1> DEFINE w == batch[p][next[p]]
           asks == {q \in scope[p] : Amount[w][q] > 0}
<1>1. PICK v \in Range(batch[p]) : v = w /\ v \in Waiters
  BY TheirTurn DEF CheckWaiter
<1>2. /\ pc[p] = "check" /\ pc' = pc /\ scope' = scope /\ batch' = batch /\ next[p] \in Nat \ {0}
      /\ next'[p] = next[p] + 1 /\ scope[p] \subseteq Quotas
  BY DEF CheckWaiter, TypeOK, PassOK
<1>3. \A u \in Waiters : u # v => result'[u] = result[u]
  BY <1>1 DEF CheckWaiter, TypeOK, WaiterOK
<1>4. LookedAt(p)' \subseteq LookedAt(p) \cup {v}
  <2> SUFFICES ASSUME NEW u \in LookedAt(p)', u # v PROVE u \in LookedAt(p)
    OBVIOUS
  <2>1. PICK i \in 1..next'[p] - 1 : u = batch[p][i]
    BY <1>2 DEF LookedAt
  <2>2. i \in 1..next[p] - 1
    <3>1. batch[p][next[p]] = v
      BY <1>1
    <3>2. PICK n \in Nat : n = next[p]
      BY <1>2
    <3>3. n \in Nat /\ i \in 1..n /\ i # n
      BY <1>2, <2>1, <3>1, <3>2
    <3>4. i \in Int /\ n \in Int /\ 1 <= i /\ i <= n
      BY <3>3
    <3>5. i < n
      BY <3>3, <3>4
    <3>6. i \in 1..n - 1
      BY <3>4, <3>5
    <3> QED
      BY <3>2, <3>6
  <2>3. u \in Range(batch[p]) \cap Paying /\ result'[u] # "err"
    BY <1>2 DEF LookedAt, Mine, Paying
  <2>4. u \in Mine(p)
    BY <1>3, <2>3, MineSubmitted DEF Mine
  <2> QED
    BY <2>1, <2>2, <2>4 DEF LookedAt
<1>5. \A u \in LookedAt(p)' : u \in Paying /\ result'[u] # "err"
  BY DEF LookedAt, Mine, Paying
<1>6. ASSUME NEW q \in scope[p]
      PROVE  SumOver(Asked(q), LookedAt(p)') <= running'[p][q] - Seen(p, q)
  <2>1. PICK S : S = submitted
    OBVIOUS
  <2>2. PICK L \in SUBSET S, M \in SUBSET S, V \in SUBSET S :
          L = LookedAt(p) /\ M = LookedAt(p)' /\ V = {v}
    <3>1. LookedAt(p) \subseteq S /\ v \in S
      BY <2>1, MineSubmitted
    <3> QED
      BY <1>4, <3>1
  <2>3. S \in SUBSET Waiters /\ IsFiniteSet(S) /\ q \in Quotas
    BY <1>2, <2>1, MineSubmitted
  <2>4. /\ SumOver(Asked(q), L) \in Nat /\ SumOver(Asked(q), M) \in Nat
        /\ M \subseteq L => SumOver(Asked(q), M) <= SumOver(Asked(q), L)
        /\ M \subseteq L \cup V => SumOver(Asked(q), M) <= SumOver(Asked(q), L) + SumOver(Asked(q), V)
        /\ SumOver(Asked(q), V) = Amount[v][q]
    <3>1. L \cup V \in SUBSET S /\ v \in S
      BY <2>2
    <3>2. /\ SumOver(Asked(q), L) \in Nat /\ SumOver(Asked(q), M) \in Nat
          /\ M \subseteq L => SumOver(Asked(q), M) <= SumOver(Asked(q), L)
      BY <2>3, AskedSums
    <3>3. SumOver(Asked(q), L \cup V) <= SumOver(Asked(q), L) + SumOver(Asked(q), V)
      BY <2>3, AskedSums
    <3>4. M \subseteq L \cup V => SumOver(Asked(q), M) <= SumOver(Asked(q), L \cup V)
      BY <2>3, <3>1, AskedSums
    <3>5. SumOver(Asked(q), V) = Amount[v][q]
      BY <2>2, <2>3, <3>1, AskedSums
    <3>6. SumOver(Asked(q), V) \in Nat /\ SumOver(Asked(q), L \cup V) \in Nat
      BY <2>3, <3>1, AskedSums
    <3> QED
      BY <3>2, <3>3, <3>4, <3>5, <3>6
  <2>5. SumOver(Asked(q), L) <= running[p][q] - Seen(p, q)
    BY <1>2, <2>2 DEF RunningCovers
  <2>6. running[p][q] \in Int /\ Seen(p, q) \in Int /\ Amount[v][q] \in Nat
    <3>1. running[p][q] \in Int /\ seen[p][q] \in Versions(q)
      BY <2>3 DEF TypeOK, PassOK
    <3>2. hist[q][seen[p][q]] \in Status
      BY <2>3, <3>1, VersionStatus DEF TypeOK
    <3>3. Seen(p, q) \in Int
      BY <3>2 DEF Seen, Status
    <3>4. Amount[v][q] \in Nat
      BY <1>1, <2>3, AdmissionAssumption
    <3> QED
      BY <3>1, <3>3, <3>4
  <2>7. CASE running' = running /\ M \subseteq L
    BY <2>2, <2>4, <2>5, <2>6, <2>7
  <2>8. CASE running'[p][q] = running[p][q] + Amount[v][q]
    BY <1>4, <2>2, <2>4, <2>5, <2>6, <2>8
  <2>9. CASE running' = running /\ Amount[v][q] = 0
    BY <1>4, <2>2, <2>4, <2>5, <2>6, <2>9
  <2>10. \/ result'[v] = "err" /\ running' = running
         \/ v \in DryRun /\ running' = running
         \/ running' = running /\ q \notin asks
         \/ running' = [running EXCEPT ![p] =
              [k \in Quotas |-> IF k \in asks THEN @[k] + Amount[w][k] ELSE @[k]]]
    BY <1>1 DEF CheckWaiter, TypeOK, WaiterOK
  <2>11. q \in asks <=> Amount[v][q] # 0
    BY <1>1, <2>6
  <2> HIDE DEF asks, w
  <2>12. running' = [running EXCEPT ![p] =
              [k \in Quotas |-> IF k \in asks THEN @[k] + Amount[w][k] ELSE @[k]]]
           => running'[p][q] = running[p][q] + Amount[v][q]
    BY <1>1, <2>3, <2>6, <2>11 DEF TypeOK, PassOK
  <2>13. result'[v] = "err" \/ v \in DryRun => M \subseteq L
    BY <1>4, <1>5, <2>2 DEF Paying
  <2> QED
    BY <2>7, <2>8, <2>9, <2>10, <2>11, <2>12, <2>13
<1> QED
  BY <1>2, <1>6 DEF RunningCovers, Updating

\* At the end of the loop every request of the batch was looked at.
LEMMA AllLookedAt ==
  ASSUME TypeOK, NEW p \in Procs, next[p] > Len(batch[p])
  PROVE  LookedAt(p) = Mine(p)
<1>1. batch[p] \in Seq(Waiters) /\ next[p] \in Nat
  BY DEF TypeOK, WaiterOK, PassOK
<1>2. ASSUME NEW w \in Range(batch[p]) PROVE \E i \in 1..next[p] - 1 : w = batch[p][i]
  <2>1. PICK i \in 1..Len(batch[p]) : w = batch[p][i]
    BY <1>1, <1>2 DEF Range
  <2>2. i \in 1..next[p] - 1
    BY <1>1
  <2> QED
    BY <2>1, <2>2
<1> QED
  BY <1>2 DEF LookedAt, Mine

\* The running quotas hold what the requests looked at ask for: it is so at
\* the beginning of a pass, and every round of the loop keeps it.
LEMMA CoverStep ==
  TypeOK /\ BatchesOwn /\ (\A p \in Procs : RunningCovers(p)) /\ [Next]_vars
    => \A p \in Procs : RunningCovers(p)'
<1> SUFFICES ASSUME TypeOK, BatchesOwn, \A p \in Procs : RunningCovers(p), [Next]_vars
             PROVE  \A p \in Procs : RunningCovers(p)'
  OBVIOUS
<1>0. \A p \in Procs : scope[p] \subseteq Quotas
  BY DEF TypeOK, PassOK
<1>1. ASSUME NEW o \in Procs, pc'[o] = pc[o], scope'[o] = scope[o], seen'[o] = seen[o],
             running'[o] = running[o], Mine(o)' = Mine(o), LookedAt(o)' = LookedAt(o)
      PROVE  RunningCovers(o)'
  <2>1. \A q \in scope[o] : Seen(o, q)' = Seen(o, q)
    BY <1>0, <1>1, SeenStays
  <2> QED
    BY <1>1, <2>1 DEF RunningCovers, Updating
<1>2. ASSUME NEW p \in Procs, Step(p) PROVE RunningCovers(p)'
  <2> USE DEF passVars, updateVars, waiterVars
  <2>1. CASE pc'[p] \in {"idle", "list", "cache", "finish"}
    BY <2>1 DEF RunningCovers, Updating
  <2>2. CASE CheckCaches(p)
    <3>1. /\ pc'[p] \in {"lock", "check"} /\ scope' = scope /\ next'[p] = 1 /\ hist' = hist
          /\ seen' = [seen EXCEPT ![p] = [q \in Quotas |-> CheckCache(RepOf[p], q, @[q])]]
          /\ running' = [running EXCEPT ![p] =
               [q \in Quotas |-> hist[q][CheckCache(RepOf[p], q, seen[p][q])].total]]
      BY <2>2 DEF CheckCaches, TypeOK, UpdateOK, PassOK, apiVars
    <3>2. LookedAt(p)' = {}
      BY <3>1 DEF LookedAt
    <3>3. ASSUME NEW q \in scope[p]
          PROVE  SumOver(Asked(q), LookedAt(p)') <= running'[p][q] - Seen(p, q)'
      <4>1. running'[p][q] = Seen(p, q)'
        BY <1>0, <3>1, <3>3 DEF TypeOK, PassOK, Seen
      <4>2. Seen(p, q)' \in Int
        <5>1. TypeOK'
          BY TypeStep
        <5>2. q \in Quotas /\ seen'[p][q] \in Versions(q)'
          BY <1>0, <5>1 DEF TypeOK, PassOK
        <5>3. Versions(q)' = Versions(q) /\ hist'[q][seen'[p][q]] = hist[q][seen'[p][q]]
          BY <3>1 DEF Versions
        <5>4. hist[q][seen'[p][q]].total \in Int
          BY <5>2, <5>3, VersionStatus DEF TypeOK
        <5> QED
          BY <5>3, <5>4 DEF Seen
      <4>3. SumOver(Asked(q), LookedAt(p)') = 0
        BY <3>2, SumEmpty
      <4> QED
        BY <4>1, <4>2, <4>3
    <3> QED
      BY <3>1, <3>3 DEF RunningCovers, Updating
  <2>3. CASE AcquireLock(p)
    <3>1. /\ pc[p] \in {"lock", "check"} /\ pc'[p] \in {"lock", "check"}
          /\ UNCHANGED <<batch, result, next, scope, seen, running>>
      BY <2>3 DEF AcquireLock, TypeOK, UpdateOK
    <3>2. LookedAt(p)' = LookedAt(p)
      BY <3>1 DEF LookedAt, Mine, Paying
    <3>3. \A q \in scope[p] : Seen(p, q)' = Seen(p, q)
      BY <1>0, <3>1, SeenStays
    <3> QED
      BY <3>1, <3>2, <3>3 DEF RunningCovers, Updating
  <2>4. CASE CheckWaiter(p)
    <3>1. \A q \in Quotas : Seen(p, q)' = Seen(p, q)
      BY <2>4, SeenStays DEF CheckWaiter
    <3> QED
      BY <2>4, <3>1, RoundCovers
  <2>5. CASE CheckDone(p)
    <3>1. /\ pc[p] = "check" /\ next[p] > Len(batch[p])
          /\ UNCHANGED <<batch, result, next, scope, seen, running>>
          /\ pc'[p] \in {"finish", "update"}
      BY <2>5 DEF CheckDone, TypeOK, UpdateOK
    <3>2. Mine(p)' = LookedAt(p)
      BY <3>1, AllLookedAt DEF Mine, Paying
    <3>3. \A q \in scope[p] : Seen(p, q)' = Seen(p, q)
      BY <1>0, <3>1, SeenStays
    <3> QED
      BY <3>1, <3>2, <3>3 DEF RunningCovers, Updating
  <2>6. CASE /\ pc[p] \in Updating /\ pc'[p] \in Updating
             /\ UNCHANGED <<batch, result, next, scope, seen, running>>
    <3>1. Mine(p)' = Mine(p)
      BY <2>6 DEF Mine, Paying
    <3>2. \A q \in scope[p] : Seen(p, q)' = Seen(p, q)
      BY <1>0, <2>6, SeenStays
    <3> QED
      BY <2>6, <3>1, <3>2 DEF RunningCovers, Updating
  <2>7. ListNone(p) \/ ListQuotas(p) \/ ListFails(p) \/ UpdatesDone(p) \/ Finish(p)
          => pc'[p] \in {"idle", "list", "cache", "finish"}
    BY DEF ListNone, ListQuotas, ListFails, UpdatesDone, Finish, TypeOK, UpdateOK
  <2>8. ASSUME \/ UpdateGet(p) \/ UpdateCheckCache(p) \/ UpdateWrite(p) \/ BlockReturn(p)
               \/ UpdateError(p) /\ pc[p] \in {"write", "block"}
        PROVE  /\ pc[p] \in Updating /\ pc'[p] \in Updating
               /\ UNCHANGED <<batch, result, next, scope, seen, running>>
    BY <2>8 DEF UpdateGet, UpdateCheckCache, UpdateWrite, BlockReturn, UpdateError, Updating,
                TypeOK, UpdateOK
  <2> QED
    BY <1>2, <2>1, <2>2, <2>3, <2>4, <2>5, <2>6, <2>7, <2>8
    DEF Step, UpdateConflict, UpdateFails, BlockTimeout
<1>3. ASSUME NEW p \in Procs, Step(p) PROVE \A o \in Procs : RunningCovers(o)'
  <2> SUFFICES ASSUME NEW o \in Procs, o # p PROVE RunningCovers(o)'
    BY <1>2, <1>3
  <2>1. /\ pc'[o] = pc[o] /\ scope'[o] = scope[o] /\ seen'[o] = seen[o]
        /\ running'[o] = running[o] /\ next'[o] = next[o] /\ batch'[o] = batch[o]
        /\ \A w \in Waiters \ Range(batch[p]) : result'[w] = result[w]
    BY <1>3, OthersRest
  <2>2. Mine(o)' = Mine(o) /\ LookedAt(o)' = LookedAt(o)
    BY <2>1, MineStays
  <2> QED
    BY <1>1, <2>1, <2>2
<1>4. ASSUME NEW p \in Procs, Start(p) PROVE \A o \in Procs : RunningCovers(o)'
  <2>1. pc'[p] = "list" /\ result' = result
    BY <1>4 DEF Start, TypeOK, UpdateOK
  <2>2. RunningCovers(p)'
    BY <2>1 DEF RunningCovers, Updating
  <2> SUFFICES ASSUME NEW o \in Procs, o # p PROVE RunningCovers(o)'
    BY <2>2
  <2>3. /\ pc'[o] = pc[o] /\ scope'[o] = scope[o] /\ seen'[o] = seen[o]
        /\ running'[o] = running[o] /\ next'[o] = next[o] /\ batch'[o] = batch[o]
    BY <1>4 DEF Start, TypeOK, UpdateOK, PassOK, WaiterOK
  <2>4. Mine(o)' = Mine(o) /\ LookedAt(o)' = LookedAt(o)
    BY <2>1, <2>3, MineStays
  <2> QED
    BY <1>1, <2>3, <2>4
<1>5. CASE UNCHANGED <<pc, batch, result, next, scope, seen, running>>
  <2> SUFFICES ASSUME NEW o \in Procs PROVE RunningCovers(o)'
    OBVIOUS
  <2>1. Mine(o)' = Mine(o) /\ LookedAt(o)' = LookedAt(o)
    BY <1>5 DEF LookedAt, Mine, Paying
  <2> QED
    BY <1>1, <1>5, <2>1
<1>6. ASSUME NEW r \in Replicas, NEW q \in Quotas, InformerEvent(r, q) \/ Evict(r, q)
      PROVE  UNCHANGED <<pc, batch, result, next, scope, seen, running>>
  BY <1>6 DEF InformerEvent, Evict, passVars, waiterVars
<1>7. CASE UNCHANGED vars
  BY <1>5, <1>7 DEF vars, passVars, waiterVars
<1> QED
  BY <1>3, <1>4, <1>5, <1>6, <1>7 DEF Next, Quiescent

\* A sum does not grow by requests that ask nothing.
LEMMA NothingAsked ==
  ASSUME NEW q \in Quotas, NEW S \in SUBSET Waiters, IsFiniteSet(S),
         NEW C \in SUBSET S, NEW D \in SUBSET S,
         \A w \in D : w \in C \/ Amount[w][q] = 0
  PROVE  SumOver(Asked(q), D) <= SumOver(Asked(q), C)
<1>1. PICK Z \in SUBSET S : Z = {w \in D : Amount[w][q] = 0}
  OBVIOUS
<1>2. D \subseteq C \cup Z /\ C \cup Z \in SUBSET S
  BY <1>1
<1>3. SumOver(Asked(q), Z) = 0
  BY <1>1, AskedSums
<1>4. SumOver(Asked(q), C) \in Nat /\ SumOver(Asked(q), D) \in Nat
  BY AskedSums
<1>5. SumOver(Asked(q), C \cup Z) \in Nat /\ SumOver(Asked(q), D) <= SumOver(Asked(q), C \cup Z)
  BY <1>2, AskedSums
<1>6. SumOver(Asked(q), C \cup Z) <= SumOver(Asked(q), C) + SumOver(Asked(q), Z)
  BY AskedSums
<1> QED
  BY <1>3, <1>4, <1>5, <1>6

\* What one request asks is part of a sum.
LEMMA OneAsked ==
  ASSUME NEW q \in Quotas, NEW S \in SUBSET Waiters, IsFiniteSet(S),
         NEW A \in SUBSET S, NEW w \in A, SumOver(Asked(q), A) <= 0
  PROVE  Amount[w][q] = 0
<1>1. PICK B \in SUBSET S : B = {w}
  OBVIOUS
<1>2. SumOver(Asked(q), B) = Amount[w][q]
  <2>1. \A x \in S : B = {x} => SumOver(Asked(q), B) = Amount[x][q]
    BY AskedSums
  <2>2. w \in S
    OBVIOUS
  <2> QED
    BY <1>1, <2>1, <2>2
<1>3. B \subseteq A
  BY <1>1
<1>4. SumOver(Asked(q), B) <= SumOver(Asked(q), A)
  BY <1>3, AskedSums
<1>5. SumOver(Asked(q), A) \in Nat /\ SumOver(Asked(q), B) \in Nat
  BY AskedSums
<1> QED
  BY <1>2, <1>4, <1>5

\* The answers a step gives.
LEMMA AnswersStep ==
  ASSUME TypeOK, NEW p \in Procs, Step(p), NEW w \in Waiters
  PROVE  result'[w] \in {result[w], "nil", "err"}
<1> USE DEF TypeOK, WaiterOK, passVars, updateVars, waiterVars
<1>1. CASE ListNone(p)
  BY <1>1 DEF ListNone
<1>2. CASE ListFails(p)
  BY <1>2 DEF ListFails
<1>3. CASE CheckWaiter(p)
  BY <1>3 DEF CheckWaiter
<1>4. CASE UpdatesDone(p)
  BY <1>4 DEF UpdatesDone
<1>5. CASE UNCHANGED result
  BY <1>5
<1>6. \/ ListNone(p) \/ ListFails(p) \/ CheckWaiter(p) \/ UpdatesDone(p)
      \/ UNCHANGED result
  BY DEF Step, ListQuotas, CheckCaches, AcquireLock, CheckDone, UpdateGet, UpdateCheckCache,
         UpdateWrite, UpdateConflict, UpdateFails, UpdateError, BlockReturn, BlockTimeout, Finish
<1> QED
  BY <1>1, <1>2, <1>3, <1>4, <1>5, <1>6

\* A request that a goroutine's own step makes count was counted before, or
\* asks nothing, or the step is the update that charges it.
LEMMA CountedStep ==
  ASSUME TypeOK, BatchesOwn, NEW p \in Procs, InScope(p), PassedFree(p), RunningCovers(p),
         Kept, Step(p), NEW q \in Quotas, NEW w \in Counted(p, q)',
         UpdateWrite(p) => q # cur[p]
  PROVE  w \in Counted(p, q) \/ Amount[w][q] = 0
<1> USE DEF TypeOK
<1>1. w \in Mine(p)' /\ (Settled(p, q)' \/ (pc'[p] = "finish" /\ result'[w] = "nil"))
  BY DEF Counted
<1>2. CASE Finish(p)
  <2>1. Range(batch'[p]) = {}
    BY <1>2 DEF Finish, WaiterOK, Range
  <2> QED
    BY <1>1, <2>1 DEF Mine
<1>3. CASE ~Finish(p) /\ w \notin Mine(p)
  <2>1. batch' = batch /\ w \in Range(batch[p]) \cap Paying /\ result'[w] # "err"
    BY <1>1, <1>3, OthersRest DEF Mine, Paying
  <2>2. w \in Paying /\ result[w] = "err"
    BY <1>3, <2>1 DEF Mine
  <2>3. result'[w] = "nil"
    BY <2>1, <2>2, AnswersStep DEF Paying
  <2> QED
    BY <2>2, <2>3 DEF Kept
<1>4. CASE ~Finish(p) /\ w \in Mine(p)
  <2> SUFFICES ASSUME ~Settled(p, q), Amount[w][q] # 0, pc[p] # "finish" PROVE FALSE
    <3>1. pc[p] # "finish"
      BY <1>4 DEF Step, ListNone, ListQuotas, ListFails, CheckCaches, AcquireLock, CheckWaiter,
         CheckDone, UpdateGet, UpdateCheckCache, UpdateWrite, UpdateConflict, UpdateFails,
         UpdateError, BlockReturn, BlockTimeout, UpdatesDone
    <3> QED
      BY <1>4, <3>1 DEF Counted
  <2>0. w \in Range(batch[p]) \cap Paying /\ ProcOf[w] = p /\ result[w] # "err" /\ w \in Waiters
    BY <1>4 DEF Mine, Paying, BatchesOwn
  <2>a. q \in scope[p] => result[w] # "nil"
    BY <2>0 DEF PassedFree
  <2> USE DEF Settled, passVars, updateVars, waiterVars
  <2>1. CASE ListNone(p)
    BY <2>0, <2>1 DEF ListNone, Paying
  <2>2. CASE ListFails(p)
    <3>1. pc[p] = "list" /\ pc'[p] = "finish" /\ (result'[w] = "nil" => result[w] = "nil")
      BY <2>0, <2>2 DEF ListFails, UpdateOK
    <3> QED
      BY <1>1, <2>a, <3>1
  <2>3. CASE ListQuotas(p) \/ CheckCaches(p) \/ AcquireLock(p) \/ CheckWaiter(p)
    <3>1. /\ pc[p] \in {"list", "cache", "lock", "check"}
          /\ pc'[p] \in {"list", "cache", "lock", "check"} /\ scope' = scope
      BY <2>3 DEF ListQuotas, CheckCaches, AcquireLock, CheckWaiter, UpdateOK
    <3> QED
      BY <1>1, <3>1
  <2>4. CASE CheckDone(p)
    <3>1. /\ pc[p] = "check" /\ next[p] > Len(batch[p]) /\ pc'[p] \in {"finish", "update"}
          /\ result' = result
          /\ q \in scope[p] /\ (running[p][q] # Seen(p, q) => q \in todo'[p] /\ pc'[p] = "update")
      BY <2>4 DEF CheckDone, UpdateOK
    <3>2. running[p][q] = Seen(p, q)
      BY <1>1, <2>a, <3>1
    <3>3. SumOver(Asked(q), Mine(p)) <= running[p][q] - Seen(p, q)
      BY <3>1, AllLookedAt DEF RunningCovers
    <3>4. running[p][q] \in Int
      BY DEF PassOK
    <3>5. SumOver(Asked(q), Mine(p)) <= 0
      BY <3>2, <3>3, <3>4
    <3>6. PICK S \in SUBSET Waiters : S = submitted /\ IsFiniteSet(S) /\ Mine(p) \in SUBSET S
      BY MineSubmitted
    <3> QED
      BY <1>4, <3>5, <3>6, OneAsked
  <2>5. CASE UpdateGet(p) \/ UpdateCheckCache(p)
    <3>1. /\ pc[p] \in {"update", "recheck"} /\ pc'[p] \in {"recheck", "write"}
          /\ todo' = todo /\ failed' = failed
      BY <2>5 DEF UpdateGet, UpdateCheckCache, UpdateOK
    <3> QED
      BY <1>1, <3>1
  <2>6. CASE UpdateWrite(p)
    <3>1. /\ pc[p] = "write" /\ pc'[p] = "block" /\ todo' = todo /\ failed' = failed
          /\ cur' = cur
      BY <2>6 DEF UpdateWrite, UpdateOK
    <3> QED
      BY <1>1, <2>6, <3>1
  <2>7. CASE BlockReturn(p)
    <3>1. /\ pc[p] = "block" /\ pc'[p] = "update" /\ todo'[p] = todo[p] \ {cur[p]}
          /\ failed' = failed
      BY <2>7 DEF BlockReturn, UpdateOK
    <3> QED
      BY <1>1, <3>1
  <2>8. CASE UpdateError(p) /\ pc[p] \in {"write", "block"}
    <3>1. /\ pc'[p] = "update" /\ todo'[p] = todo[p] \ {cur[p]}
          /\ failed'[p] = failed[p] \cup {cur[p]}
      BY <2>8 DEF UpdateError, UpdateOK
    <3> QED
      BY <1>1, <2>8, <3>1
  <2>9. CASE UpdatesDone(p)
    <3>1. pc[p] = "update" /\ todo[p] = {} /\ failed[p] \subseteq scope[p] /\ q \in failed[p]
      BY <2>9 DEF UpdatesDone, InScope, Updating
    <3>2. \/ pc'[p] = "list" /\ scope'[p] = failed[p]
          \/ pc'[p] = "finish" /\ (result'[w] = "nil" => result[w] = "nil")
      <4>1. CASE retries[p] > 0
        BY <2>9, <3>1, <4>1 DEF UpdatesDone, UpdateOK, PassOK
      <4>2. CASE ~(retries[p] > 0)
        <5>1. failed[p] # {}
          BY <3>1
        <5>2. pc' = [pc EXCEPT ![p] = "finish"]
              /\ result' = [v \in Waiters |->
                   IF v \in Range(batch[p]) /\ result[v] = "defaultDeny"
                   THEN IF failed[p] = {} THEN "nil" ELSE "err" ELSE result[v]]
          BY <2>9, <4>2 DEF UpdatesDone
        <5>3. pc'[p] = "finish"
          BY <5>2 DEF UpdateOK
        <5>4. result'[w] = result[w] \/ result'[w] = "err"
          BY <2>0, <5>1, <5>2
        <5> QED
          BY <5>3, <5>4
      <4> QED
        BY <4>1, <4>2
    <3> QED
      BY <1>1, <2>a, <3>1, <3>2
  <2> QED
    BY <1>4, <2>1, <2>2, <2>3, <2>4, <2>5, <2>6, <2>7, <2>8, <2>9
    DEF Step, UpdateConflict, UpdateFails, BlockTimeout
<1> QED
  BY <1>2, <1>3, <1>4

\* Only submitted requests are counted.
LEMMA CreditedSubmitted ==
  ASSUME TypeOK, BatchesOwn, NEW q \in Quotas
  PROVE  Credited(q) \subseteq submitted
<1>1. \A p \in Procs : Counted(p, q) \subseteq submitted
  BY MineSubmitted DEF Counted
<1>2. Admitted \subseteq submitted
  BY DEF Admitted, BatchesOwn
<1> QED
  BY <1>1, <1>2 DEF Credited

\* A step counts the other goroutines' requests as before.
LEMMA OthersCount ==
  ASSUME TypeOK, BatchesOwn, NEW p \in Procs, Step(p), NEW o \in Procs, o # p, NEW q \in Quotas
  PROVE  Counted(o, q)' = Counted(o, q)
<1>1. /\ \A w \in Waiters \ Range(batch[p]) : result'[w] = result[w]
      /\ pc'[o] = pc[o] /\ batch'[o] = batch[o] /\ scope'[o] = scope[o]
      /\ todo'[o] = todo[o] /\ failed'[o] = failed[o] /\ cur'[o] = cur[o]
  BY OthersRest
<1>2. Mine(o)' = Mine(o)
  BY <1>1, MineStays
<1>3. \A w \in Mine(o) : w \in Waiters \ Range(batch[p])
  BY DEF BatchesOwn, Mine, TypeOK, WaiterOK
<1>4. \A w \in Mine(o) : result'[w] = result[w]
  BY <1>1, <1>3
<1>5. Settled(o, q)' <=> Settled(o, q)
  BY <1>1 DEF Settled
<1> QED
  BY <1>1, <1>2, <1>4, <1>5 DEF Counted

\* Who is newly admitted was counted.
LEMMA AdmittedStep ==
  ASSUME TypeOK, BatchesOwn, NEW p \in Procs, Step(p), NEW q \in Quotas, NEW w \in Admitted'
  PROVE  w \in Credited(q)
<1> USE DEF TypeOK
<1>1. CASE Finish(p)
  <2>1. pc[p] = "finish" /\ done' = done \cup Range(batch[p]) /\ result' = result
    BY <1>1 DEF Finish
  <2>2. CASE w \in done
    BY <2>1, <2>2 DEF Admitted, Credited
  <2>3. CASE w \in Range(batch[p])
    <3>1. w \in Mine(p) /\ result[w] = "nil"
      <4>1. w \in Waiters
        BY <2>3, MineSubmitted
      <4>2. w \notin DryRun /\ result[w] = "nil" /\ NsOf[ProcOf[w]] \in Owned
        BY <2>1 DEF Admitted
      <4> QED
        BY <2>3, <4>1, <4>2 DEF Mine, Paying
    <3>2. w \in Counted(p, q)
      BY <2>1, <3>1 DEF Counted
    <3> QED
      BY <3>2 DEF Credited
  <2> QED
    BY <2>1, <2>2, <2>3 DEF Admitted
<1>2. CASE ~Finish(p)
  <2>1. done' = done /\ \A v \in Waiters \ Range(batch[p]) : result'[v] = result[v]
    BY <1>2, OthersRest
  <2>2. w \in done /\ w \in Waiters /\ w \notin Range(batch[p])
    BY <2>1 DEF Admitted, BatchesOwn, WaiterOK
  <2> QED
    BY <2>1, <2>2 DEF Admitted, Credited
<1> QED
  BY <1>1, <1>2

\* The requests counted stay charged.
LEMMA SpentStep ==
  /\ TypeOK /\ BatchesOwn /\ SpentCovers
  /\ \A p \in Procs : InScope(p) /\ PassedFree(p) /\ RunningCovers(p)
  /\ [Next]_vars /\ Kept
  => SpentCovers'
<1> SUFFICES ASSUME TypeOK, BatchesOwn, SpentCovers, [Next]_vars, Kept,
                    \A p \in Procs : InScope(p) /\ PassedFree(p) /\ RunningCovers(p),
                    NEW q \in Quotas
             PROVE  SumOver(Asked(q), Credited(q)') <= spent'[q].total
  BY DEF SpentCovers, Asked
<1>1. PICK S \in SUBSET Waiters :
        S = submitted' /\ IsFiniteSet(S) /\ Credited(q) \subseteq S /\ Credited(q)' \subseteq S
  <2>1. TypeOK' /\ BatchesOwn'
    BY TypeStep, OwnStep
  <2>2. Credited(q)' \subseteq submitted' /\ IsFiniteSet(submitted') /\ submitted' \subseteq Waiters
    <3>1. \A p \in Procs : Counted(p, q)' \subseteq submitted'
      BY <2>1 DEF Counted, Mine, BatchesOwn
    <3>2. Admitted' \subseteq submitted'
      BY <2>1 DEF Admitted, BatchesOwn
    <3>3. IsFiniteSet(submitted') /\ submitted' \subseteq Waiters
      BY <2>1 DEF BatchesOwn, TypeOK, WaiterOK
    <3> QED
      BY <3>1, <3>2, <3>3 DEF Credited
  <2>3. submitted \subseteq submitted'
    <3>1. ASSUME NEW p \in Procs, Start(p) PROVE submitted \subseteq submitted'
      BY <3>1 DEF Start
    <3>2. ASSUME NEW p \in Procs, Step(p) PROVE submitted' = submitted
      BY <3>2, OthersRest
    <3>3. ASSUME NEW r \in Replicas, NEW k \in Quotas, InformerEvent(r, k) \/ Evict(r, k)
          PROVE  submitted' = submitted
      BY <3>3 DEF InformerEvent, Evict, waiterVars
    <3> QED
      BY <3>1, <3>2, <3>3 DEF Next, Quiescent, vars, waiterVars
  <2> QED
    BY <2>2, <2>3, CreditedSubmitted
<1>2. PICK C \in SUBSET S, D \in SUBSET S : C = Credited(q) /\ D = Credited(q)'
  BY <1>1
<1>3. SumOver(Asked(q), C) <= spent[q].total /\ spent[q].total \in Int
  BY <1>2 DEF SpentCovers, TypeOK, ApiOK, Status
<1>4. SumOver(Asked(q), C) \in Nat /\ SumOver(Asked(q), D) \in Nat
  BY <1>1, AskedSums
<1>5. ASSUME \A w \in D : w \in C \/ Amount[w][q] = 0, spent'[q].total = spent[q].total
      PROVE  SumOver(Asked(q), D) <= spent'[q].total
  <2>1. SumOver(Asked(q), D) <= SumOver(Asked(q), C)
    BY <1>1, <1>5, NothingAsked
  <2> QED
    BY <1>3, <1>4, <1>5, <2>1
<1>6. ASSUME NEW p \in Procs, Step(p), UpdateWrite(p) => q # cur[p], NEW w \in D
      PROVE  w \in C \/ Amount[w][q] = 0
  <2>1. CASE w \in Admitted'
    BY <1>2, <1>6, <2>1, AdmittedStep
  <2>2. ASSUME NEW o \in Procs, w \in Counted(o, q)' PROVE w \in C \/ Amount[w][q] = 0
    <3>1. CASE o = p
      <4>1. w \in Counted(p, q)'
        BY <2>2, <3>1
      <4>2. w \in Counted(p, q) \/ Amount[w][q] = 0
        BY <1>6, <4>1, CountedStep
      <4> QED
        BY <1>2, <4>2 DEF Credited
    <3>2. CASE o # p
      <4>1. w \in Counted(o, q)
        BY <1>6, <2>2, <3>2, OthersCount
      <4> QED
        BY <1>2, <4>1 DEF Credited
    <3> QED
      BY <3>1, <3>2
  <2> QED
    BY <1>2, <1>6, <2>1, <2>2 DEF Credited
<1>7. ASSUME NEW p \in Procs, Step(p), UpdateWrite(p) => q # cur[p]
      PROVE  SumOver(Asked(q), D) <= spent'[q].total
  <2>1. spent'[q].total = spent[q].total
    <3>1. CASE UpdateWrite(p)
      BY <1>7, <3>1 DEF UpdateWrite, TypeOK, ApiOK
    <3>2. CASE ~UpdateWrite(p)
      BY <1>7, <3>2 DEF Step, ListNone, ListQuotas, ListFails, CheckCaches, AcquireLock, CheckWaiter,
         CheckDone, UpdateGet, UpdateCheckCache, UpdateConflict, UpdateFails,
         UpdateError, BlockReturn, BlockTimeout, UpdatesDone, Finish, apiVars
    <3> QED
      BY <3>1, <3>2
  <2> QED
    BY <1>5, <1>6, <1>7, <2>1
<1>8. ASSUME NEW p \in Procs, UpdateWrite(p), q = cur[p]
      PROVE  SumOver(Asked(q), D) <= spent'[q].total
  <2>1. Step(p) /\ pc[p] = "write" /\ batch' = batch /\ result' = result /\ done' = done
    BY <1>8 DEF Step, UpdateWrite, waiterVars
  <2>2. q \in scope[p] /\ pc[p] \in Updating
    BY <1>8, <2>1 DEF InScope, Updating
  <2>3. SumOver(Asked(q), Mine(p)) <= running[p][q] - Seen(p, q)
    BY <2>2 DEF RunningCovers
  <2>4. spent'[q].total = spent[q].total + (running[p][q] - Seen(p, q))
    BY <1>8 DEF UpdateWrite, TypeOK, ApiOK
  <2>5. running[p][q] \in Int /\ Seen(p, q) \in Int
    <3>1. running[p][q] \in Int /\ seen[p][q] \in Versions(q)
      BY DEF TypeOK, PassOK
    <3>2. hist[q][seen[p][q]].total \in Int
      BY <3>1, VersionStatus DEF TypeOK
    <3> QED
      BY <3>1, <3>2 DEF Seen
  <2>6. PICK M \in SUBSET S : M = Mine(p)
    <3>1. submitted' = submitted
      BY <2>1, OthersRest
    <3> QED
      BY <1>1, <3>1, MineSubmitted
  <2>7. D \subseteq C \cup M
    <3>1. Mine(p)' = Mine(p)
      BY <2>1 DEF Mine, Paying
    <3>2. Counted(p, q)' \subseteq M
      BY <2>6, <3>1 DEF Counted
    <3>3. \A o \in Procs : o # p => Counted(o, q)' \subseteq C
      BY <1>2, <2>1, OthersCount DEF Credited
    <3>4. Admitted' \subseteq C
      BY <1>2, <2>1, AdmittedStep
    <3>5. D = Admitted' \cup UNION {Counted(o, q)' : o \in Procs}
      BY <1>2 DEF Credited
    <3> QED
      BY <3>2, <3>3, <3>4, <3>5
  <2>8. C \cup M \in SUBSET S
    OBVIOUS
  <2>9. /\ SumOver(Asked(q), D) <= SumOver(Asked(q), C \cup M)
        /\ SumOver(Asked(q), C \cup M) \in Nat
    BY <1>1, <2>7, <2>8, AskedSums
  <2>10. /\ SumOver(Asked(q), C \cup M) <= SumOver(Asked(q), C) + SumOver(Asked(q), M)
         /\ SumOver(Asked(q), M) \in Nat
    BY <1>1, AskedSums
  <2> QED
    BY <1>3, <1>4, <2>3, <2>4, <2>5, <2>6, <2>9, <2>10
<1>9. ASSUME NEW p \in Procs, Start(p) PROVE SumOver(Asked(q), D) <= spent'[q].total
  <2>1. pc'[p] = "list" /\ scope'[p] = Quotas /\ result' = result /\ done' = done /\ spent' = spent
    BY <1>9 DEF Start, TypeOK, UpdateOK, PassOK, apiVars
  <2>2. Counted(p, q)' = {}
    BY <2>1 DEF Counted, Settled
  <2>3. ASSUME NEW o \in Procs, o # p PROVE Counted(o, q)' = Counted(o, q)
    <3>1. /\ pc'[o] = pc[o] /\ scope'[o] = scope[o] /\ batch'[o] = batch[o]
          /\ todo' = todo /\ failed' = failed /\ cur' = cur
      BY <1>9, <2>3 DEF Start, TypeOK, UpdateOK, PassOK, WaiterOK
    <3>2. Mine(o)' = Mine(o)
      BY <2>1, <3>1 DEF Mine, Paying
    <3>3. Settled(o, q)' <=> Settled(o, q)
      BY <3>1 DEF Settled
    <3> QED
      BY <2>1, <3>1, <3>2, <3>3 DEF Counted
  <2>4. Admitted' = Admitted
    BY <2>1 DEF Admitted
  <2>5. D \subseteq C
    BY <1>2, <2>2, <2>3, <2>4 DEF Credited
  <2> QED
    BY <1>5, <2>1, <2>5
<1>10. ASSUME UNCHANGED <<pc, scope, batch, todo, failed, cur, result, done, spent>>
       PROVE  SumOver(Asked(q), D) <= spent'[q].total
  <2>1. D = C
    BY <1>2, <1>10 DEF Credited, Admitted, Counted, Settled, Mine, Paying
  <2> QED
    BY <1>5, <1>10, <2>1
<1>11. ASSUME NEW r \in Replicas, NEW k \in Quotas, InformerEvent(r, k) \/ Evict(r, k)
       PROVE  UNCHANGED <<pc, scope, batch, todo, failed, cur, result, done, spent>>
  BY <1>11 DEF InformerEvent, Evict, passVars, updateVars, waiterVars, apiVars
<1>12. ASSUME UNCHANGED vars
       PROVE  UNCHANGED <<pc, scope, batch, todo, failed, cur, result, done, spent>>
  BY <1>12 DEF vars, passVars, updateVars, waiterVars, apiVars
<1>13. ASSUME NEW p \in Procs, Step(p) PROVE SumOver(Asked(q), D) <= spent'[q].total
  BY <1>7, <1>8, <1>13
<1>14. SumOver(Asked(q), D) <= spent'[q].total
  BY <1>9, <1>10, <1>11, <1>12, <1>13 DEF Next, Quiescent
<1> QED
  BY <1>2, <1>14

\* The invariant behind AdmittedIsCharged.
PaidInv ==
  /\ BatchesOwn
  /\ \A p \in Procs : InScope(p) /\ PassedFree(p) /\ RunningCovers(p)
  /\ SpentCovers

\* Nobody is charged or admitted at the start.
LEMMA PaidInit == Init => PaidInv
<1> SUFFICES ASSUME Init PROVE PaidInv
  OBVIOUS
<1>1. ASSUME NEW p \in Procs
      PROVE  batch[p] = <<>> /\ Range(batch[p]) = {} /\ pc[p] = "idle" /\ scope[p] = {}
  BY DEF Init, Range
<1>2. BatchesOwn
  BY <1>1, FS_EmptySet DEF Init, BatchesOwn
<1>3. \A p \in Procs : InScope(p) /\ PassedFree(p) /\ RunningCovers(p)
  BY <1>1 DEF InScope, PassedFree, RunningCovers, Updating
<1>4. ASSUME NEW q \in Quotas PROVE SumOver(Asked(q), Credited(q)) <= spent[q].total
  <2>1. Credited(q) = {}
    BY <1>1 DEF Init, Credited, Admitted, Counted, Mine
  <2>2. SumOver(Asked(q), {}) = 0
    BY SumEmpty
  <2>3. spent[q].total = 0
    BY DEF Init, NoUsage
  <2> QED
    BY <2>1, <2>2, <2>3
<1> QED
  BY <1>2, <1>3, <1>4 DEF PaidInv, SpentCovers

\* Every step keeps it that does not let a rejected request through.
LEMMA PaidStep == TypeOK /\ PaidInv /\ [Next]_vars /\ Kept => PaidInv'
<1> SUFFICES ASSUME TypeOK, PaidInv, [Next]_vars, Kept PROVE PaidInv'
  OBVIOUS
<1>1. BatchesOwn' /\ SpentCovers'
  BY OwnStep, SpentStep DEF PaidInv
<1>2. /\ \A p \in Procs : InScope(p)'
      /\ \A p \in Procs : PassedFree(p)'
      /\ \A p \in Procs : RunningCovers(p)'
  BY ScopeStep, FreeStep, CoverStep DEF PaidInv
<1> QED
  BY <1>1, <1>2 DEF PaidInv

\* What was admitted is among what was counted.
LEMMA PaidCharged == TypeOK /\ PaidInv => AdmittedIsCharged
<1> SUFFICES ASSUME TypeOK, PaidInv, NEW q \in Quotas
             PROVE  SumOver(Asked(q), Admitted) <= spent[q].total
  BY DEF AdmittedIsCharged
<1>1. PICK S \in SUBSET Waiters : S = submitted /\ IsFiniteSet(S)
  BY DEF PaidInv, BatchesOwn, TypeOK, WaiterOK
<1>2. PICK A \in SUBSET S, C \in SUBSET S : A = Admitted /\ C = Credited(q)
  <2>1. Credited(q) \subseteq S
    BY <1>1, CreditedSubmitted DEF PaidInv
  <2>2. Admitted \subseteq S
    BY <2>1 DEF Credited
  <2> QED
    BY <2>1, <2>2
<1>3. A \subseteq C
  BY <1>2 DEF Credited
<1>4. /\ SumOver(Asked(q), A) <= SumOver(Asked(q), C)
      /\ SumOver(Asked(q), A) \in Nat /\ SumOver(Asked(q), C) \in Nat
  BY <1>1, <1>3, AskedSums
<1>5. SumOver(Asked(q), C) <= spent[q].total /\ spent[q].total \in Int
  BY <1>2 DEF PaidInv, SpentCovers, TypeOK, ApiOK, Status
<1> QED
  BY <1>2, <1>4, <1>5

\* AdmittedIsCharged, for any number of replicas, namespaces, quotas and
\* requests, whatever conflicts and time-outs the updates meet: as long as no
\* retry lets a request through that was rejected (see RejectionIsFinal), what
\* the admitted requests ask together is charged to every quota of the account.
THEOREM AdmittedCharged == Spec /\ RejectionIsFinal => []AdmittedIsCharged
<1> DEFINE Stays == \A w \in Waiters : result[w] = "err" => result'[w] = "err"
<1>1. TypeOK /\ PaidInv /\ [Next]_vars /\ [Stays]_vars => PaidInv'
  <2> SUFFICES ASSUME TypeOK, PaidInv, [Next]_vars, [Stays]_vars PROVE PaidInv'
    OBVIOUS
  <2>1. Kept
    <3>1. CASE Stays
      BY <3>1 DEF Kept, Paying
    <3>2. CASE UNCHANGED vars
      BY <3>2 DEF Kept, vars, waiterVars
    <3> QED
      BY <3>1, <3>2
  <2> QED
    BY <2>1, PaidStep
<1> QED
  BY <1>1, PaidInit, PaidCharged, TypeCorrect, PTL DEF Spec, RejectionIsFinal

\* Every request that asks something of one quota asks something of all: so it
\* is when the account has one quota, or quotas for the same resources.
Uniform ==
  \A w \in Waiters \ DryRun : \A q, o \in Quotas : Amount[w][q] > 0 => Amount[w][o] > 0

\* Then a request that was rejected is let through by no retry that charges
\* nothing for it.
LEMMA UniformKept ==
  ASSUME Uniform
  PROVE  TypeOK /\ PaidInv /\ [Next]_vars => Kept
<1> SUFFICES ASSUME TypeOK, PaidInv, [Next]_vars,
                    NEW w \in Paying, result[w] = "err", result'[w] = "nil", NEW q \in Quotas
             PROVE  Amount[w][q] = 0
  BY DEF Kept
<1> USE DEF TypeOK, waiterVars
<1>0. w \in Waiters /\ w \notin DryRun /\ NsOf[ProcOf[w]] \in Owned
  BY DEF Paying
<1>1. ASSUME NEW p \in Procs, Step(p) PROVE Amount[w][q] = 0
  <2>0. w \in Range(batch[p]) /\ ProcOf[w] = p
    <3>1. w \in Range(batch[p])
      BY <1>0, <1>1, OthersRest
    <3> QED
      BY <3>1 DEF PaidInv, BatchesOwn
  <2>1. CASE ListNone(p)
    BY <1>0, <2>0, <2>1 DEF ListNone
  <2>2. CASE ListFails(p)
    BY <1>0, <2>2 DEF ListFails
  <2>3. CASE UpdatesDone(p)
    BY <1>0, <2>3 DEF UpdatesDone
  <2>4. CASE CheckWaiter(p)
    <3> DEFINE v == batch[p][next[p]]
               asks == {k \in scope[p] : Amount[v][k] > 0}
    <3>1. v = w
      BY <1>0, <2>4 DEF CheckWaiter, WaiterOK
    <3>2. asks = {}
      <4>1. \/ result' = [result EXCEPT ![v] = "err"]
            \/ result' = result
            \/ v \in DryRun \/ asks = {}
        BY <2>4 DEF CheckWaiter
      <4> HIDE DEF asks, v
      <4> QED
        BY <1>0, <3>1, <4>1 DEF WaiterOK
    <3>3. pc[p] = "check" /\ scope[p] \subseteq Quotas
      BY <2>4 DEF CheckWaiter, PassOK
    <3>4. PICK k \in scope[p] : k \in Quotas
      BY <3>3 DEF PaidInv, InScope
    <3>5. Amount[w][k] \in Nat /\ Amount[w][q] \in Nat
      BY <1>0, <3>4, AdmissionAssumption
    <3>6. Amount[w][k] = 0
      BY <3>1, <3>2, <3>4, <3>5
    <3>7. Amount[w][q] > 0 => Amount[w][k] > 0
      BY <1>0, <3>4 DEF Uniform
    <3> QED
      BY <3>5, <3>6, <3>7
  <2>5. \/ ListNone(p) \/ ListFails(p) \/ CheckWaiter(p) \/ UpdatesDone(p)
        \/ UNCHANGED result
    BY <1>1 DEF Step, ListQuotas, CheckCaches, AcquireLock, CheckDone, UpdateGet, UpdateCheckCache,
         UpdateWrite, UpdateConflict, UpdateFails, UpdateError, BlockReturn, BlockTimeout, Finish
  <2> QED
    BY <2>1, <2>2, <2>3, <2>4, <2>5
<1>2. ASSUME NEW p \in Procs, Start(p) PROVE UNCHANGED result
  BY <1>2 DEF Start
<1>3. ASSUME NEW r \in Replicas, NEW k \in Quotas, InformerEvent(r, k) \/ Evict(r, k)
      PROVE  UNCHANGED result
  BY <1>3 DEF InformerEvent, Evict
<1> QED
  BY <1>1, <1>2, <1>3 DEF Next, Quiescent, vars

\* AdmittedIsCharged without a condition on the behaviour, for an account
\* whose quotas are about the same resources: nothing is let through unpaid.
THEOREM UniformCharged ==
  ASSUME Uniform
  PROVE  Spec => []AdmittedIsCharged
<1>1. TypeOK /\ PaidInv /\ [Next]_vars => PaidInv'
  BY UniformKept, PaidStep
<1> QED
  BY <1>1, PaidInit, PaidCharged, TypeCorrect, PTL DEF Spec

=============================================================================
