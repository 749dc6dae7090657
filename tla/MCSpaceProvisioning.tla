------------------------ MODULE MCSpaceProvisioning ------------------------
(* An account with a limit of one space, a template instance and an entry  *)
(* without a template; and one without limit, templates or cluster role.   *)
EXTENDS SpaceProvisioning

CONSTANTS acme, other, alice, root, t1

MCMembers == [a \in Accounts |-> IF a = acme THEN {alice} ELSE {}]
MCLimit == [a \in Accounts |-> IF a = acme THEN 1 ELSE NoLimit]
MCInstances == [a \in Accounts |-> IF a = acme THEN <<NoTemplate, t1>> ELSE <<>>]
=============================================================================
