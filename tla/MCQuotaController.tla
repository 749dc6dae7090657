------------------------- MODULE MCQuotaController --------------------------
(* An account with one namespace, which may leave it, and one object there. *)
EXTENDS QuotaController
CONSTANTS nsA, o1
MCNsOf == [o \in Objects |-> nsA]
=============================================================================
