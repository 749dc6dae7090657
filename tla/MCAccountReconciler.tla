------------------------ MODULE MCAccountReconciler -------------------------
(* One account with a namespace, a role binding in it and two lists of     *)
(* subjects.  The names the API server may generate are more than it needs *)
(* to.                                                                     *)
EXTENDS AccountReconciler
=============================================================================
