-------------------------- MODULE MCQuotaEvaluator --------------------------
(* Two namespaces, three of the requests in one of them so that batches of *)
(* several requests, and requests arriving during a batch, both happen.    *)
EXTENDS QuotaEvaluator, TLC
CONSTANTS nsA, nsB, r1, r2, r3, r4, r5

MCNsOf == (r1 :> nsA) @@ (r2 :> nsA) @@ (r3 :> nsA) @@ (r4 :> nsB) @@ (r5 :> nsB)
=============================================================================
