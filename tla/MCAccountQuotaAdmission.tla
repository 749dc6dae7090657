----------------------- MODULE MCAccountQuotaAdmission ----------------------
(* Small accounts.  Goroutine p1 evaluates w1 and w2 for namespace nsA, p2 *)
(* evaluates w3 for nsB, and p3 w4 for nsC, which no account owns; each    *)
(* run says which of them there are and in which replicas.                 *)
EXTENDS AccountQuotaAdmission, TLC
CONSTANTS nsA, nsB, nsC, rep1, rep2, p1, p2, p3, w1, w2, w3, w4

MCProcOf == [w \in Waiters |-> CASE w \in {w1, w2} -> p1 [] w = w3 -> p2 [] w = w4 -> p3]
MCNsOf == [p \in Procs |-> CASE p = p1 -> nsA [] p = p2 -> nsB [] p = p3 -> nsC]
OneReplica == [p \in Procs |-> rep1]
TwoReplicas == [p \in Procs |-> IF p = p1 THEN rep1 ELSE rep2]

\* One quota with room for two of three requests.
OneHard == <<2>>
OneAmount == [w \in Waiters |-> <<1>>]

\* Two quotas that both apply to every request; the first is the tighter.
TwoHard == <<1, 2>>
TwoAmount == [w \in Waiters |-> <<1, 1>>]

\* Quota 1 applies to w1 alone and has no room for it; quota 2 has a scope
\* that w1 does not match.
ScopedHard == <<0, 2>>
ScopedAmount == [w \in Waiters |-> IF w = w1 THEN <<1, 0>> ELSE <<0, 1>>]

NoneRefused == [w \in Waiters |-> {}]
W2Refused == [w \in Waiters |-> IF w = w2 THEN {1} ELSE {}]
=============================================================================
