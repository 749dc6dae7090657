------------------------------ MODULE MCStartup ------------------------------
(* Two replicas of a deployment and one definition. *)
EXTENDS Startup, TLC
CONSTANTS r1, r2, accounts, c1, c2, c3, c4, c5, c6
=============================================================================
