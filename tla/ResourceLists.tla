---------------------------- MODULE ResourceLists ----------------------------
(***************************************************************************)
(* The arithmetic of resource lists (kube/pkg/quota/v1/resources.go).  A   *)
(* resource list is a function from a finite set of resource names to      *)
(* quantities; a list of names is a set.  A resource name is a sequence of *)
(* the parts it is put together from, as <<"requests.", "cpu">>.           *)
(***************************************************************************)
EXTENDS Integers, Sequences, SequencesExt

\* A resource list whose quantities are in N.
IsList(a, N) == a \in [DOMAIN a -> N]

Empty == [r \in {} |-> 0]
Quantity(a, r) == IF r \in DOMAIN a THEN a[r] ELSE 0

Add(a, b) == [r \in DOMAIN a \cup DOMAIN b |-> Quantity(a, r) + Quantity(b, r)]

\* Max: the larger quantity of each name that one of them has.
MaxOf(a, b) ==
  [r \in DOMAIN a \cup DOMAIN b |->
     IF r \in DOMAIN a /\ (r \in DOMAIN b => a[r] > b[r]) THEN a[r] ELSE b[r]]

\* A loop that adds to a, or takes the larger of a and, the list f[x] of every
\* x in S.  The order does not matter.
AddAll(f, S, a) == FoldSet(LAMBDA x, b : Add(b, f[x]), a, S)
MaxAll(f, S, a) == FoldSet(LAMBDA x, b : MaxOf(b, f[x]), a, S)

SubtractWithNonNegativeResult(a, b) ==
  [r \in DOMAIN a \cup DOMAIN b |->
     IF Quantity(a, r) > Quantity(b, r) THEN Quantity(a, r) - Quantity(b, r) ELSE 0]

\* A loop that stores every quantity of b in a.
Overwrite(a, b) ==
  [r \in DOMAIN a \cup DOMAIN b |-> IF r \in DOMAIN b THEN b[r] ELSE a[r]]

Mask(a, names) == [r \in DOMAIN a \cap names |-> a[r]]

\* Names that only one of the lists has do not count.
LessThanOrEqual(a, b) == \A r \in DOMAIN a \cap DOMAIN b : a[r] <= b[r]

IsZero(a) == \A r \in DOMAIN a : a[r] = 0

\* The names with a negative quantity.
IsNegative(a) == {r \in DOMAIN a : a[r] < 0}
=============================================================================
