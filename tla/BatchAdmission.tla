--------------------------- MODULE BatchAdmission ---------------------------
(***************************************************************************)
(* What the quota evaluator promises to its callers, without its queue,    *)
(* its maps and its lock: each namespace has one line of waiting requests, *)
(* served from the front in batches.  No request is dropped, overtaken by  *)
(* a later one of its namespace, or answered twice, and a line that is not *)
(* empty is eventually served.                                             *)
(***************************************************************************)
EXTENDS Naturals, Sequences, Functions

CONSTANTS
  Namespaces,
  Waiters,
  NsOf          \* the namespace of each request

VARIABLES
  pending,      \* [Namespaces -> Seq(Waiters)], in arrival order
  answered      \* requests whose finished channel is closed

vars == <<pending, answered>>

Init ==
  /\ pending = [ns \in Namespaces |-> <<>>]
  /\ answered = {}

Submit(w) ==
  /\ w \notin answered
  /\ \A ns \in Namespaces : w \notin Range(pending[ns])
  /\ pending' = [pending EXCEPT ![NsOf[w]] = Append(@, w)]
  /\ UNCHANGED answered

AnswerBatch(ns) ==
  \E n \in 1..Len(pending[ns]) :
    /\ answered' = answered \cup Range(SubSeq(pending[ns], 1, n))
    /\ pending' = [pending EXCEPT ![ns] = SubSeq(@, n + 1, Len(@))]

Next ==
  \/ \E w \in Waiters : Submit(w)
  \/ \E ns \in Namespaces : AnswerBatch(ns)

Spec ==
  /\ Init /\ [][Next]_vars
  /\ \A ns \in Namespaces : WF_vars(AnswerBatch(ns))
=============================================================================
