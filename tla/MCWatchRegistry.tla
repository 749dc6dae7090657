-------------------------- MODULE MCWatchRegistry ---------------------------
(* Two watches over the changes of an object: one client can leave, or     *)
(* arrive, while an event is being delivered to the other.                 *)
EXTENDS WatchRegistry
=============================================================================
