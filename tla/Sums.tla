-------------------------------- MODULE Sums --------------------------------
(***************************************************************************)
(* Sums over finite sets: the usage of an account is one, over namespaces  *)
(* or over requests.                                                       *)
(***************************************************************************)
EXTENDS Integers, FiniteSets, FiniteSetsExt

\* The sum of f[x] over the elements x of S.
SumOver(f, S) == MapThenSumSet(LAMBDA x : f[x], S)
=============================================================================
