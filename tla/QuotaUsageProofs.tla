-------------------------- MODULE QuotaUsageProofs --------------------------
(***************************************************************************)
(* QuotaUsage: what admission charges covers what the stored objects       *)
(* demand, a release is given back unless nobody was told of it, and a     *)
(* limit that held goes on holding; for any pods, services, claims,        *)
(* quotas, scopes and limits.  The argument is a comparison of two sums:   *)
(* the usage in the status, and what the objects take, object by object.   *)
(* Each operation changes one object's share and charges the difference.   *)
(*                                                                         *)
(* And QuotaController, where such recalculations and admission write one  *)
(* status: no recalculation overwrites what it has not read, and the one   *)
(* that stores edited limits is never forgotten; for any numbers of        *)
(* namespaces and objects.                                                 *)
(***************************************************************************)
EXTENDS QuotaUsage, QuotaController, SumProofs, SequenceTheorems, TLAPS

-----------------------------------------------------------------------------
(* Loops over resource lists.                                              *)

\* The round of a loop that adds up lists.
AddRound(f, a, g, s) == IF s = {} THEN a ELSE Add(g[s \ {Picked(s)}], f[Picked(s)])
AddSolves(f, a, D, g) == g = [s \in D |-> AddRound(f, a, g, s)]

\* What adding up gives, name by name.
Added(f, s, a) ==
  [r \in DOMAIN a \cup UNION {DOMAIN f[x] : x \in s} |->
     Quantity(a, r) + SumOver([x \in s |-> Quantity(f[x], r)], s)]

\* The loop of AddAll is a function that is chosen to satisfy the recursion.
LEMMA AddAllChosen ==
  ASSUME NEW f, NEW S, NEW a
  PROVE  AddAll(f, S, a) = (CHOOSE g : AddSolves(f, a, SUBSET S, g))[S]
BY DEF AddSolves, AddRound, AddAll, FoldSet, MapThenFoldSet, Picked

\* A quantity of a list of integers is one.
LEMMA QuantityInteger ==
  ASSUME NEW a, NEW r, IsList(a, Int)
  PROVE  Quantity(a, r) \in Int
BY DEF IsList, Quantity

\* Names and quantities of a sum of two lists.
LEMMA AddIs ==
  ASSUME NEW a, NEW b
  PROVE  /\ DOMAIN Add(a, b) = DOMAIN a \cup DOMAIN b
         /\ \A r \in DOMAIN a \cup DOMAIN b : Add(a, b)[r] = Quantity(a, r) + Quantity(b, r)
         /\ IsList(a, Int) /\ IsList(b, Int) =>
              /\ IsList(Add(a, b), Int)
              /\ \A r : Quantity(Add(a, b), r) = Quantity(a, r) + Quantity(b, r)
         /\ IsList(a, Nat) /\ IsList(b, Nat) => IsList(Add(a, b), Nat)
<1>1. /\ DOMAIN Add(a, b) = DOMAIN a \cup DOMAIN b
      /\ \A r \in DOMAIN a \cup DOMAIN b : Add(a, b)[r] = Quantity(a, r) + Quantity(b, r)
  BY DEF Add
<1>2. ASSUME IsList(a, Int), IsList(b, Int)
      PROVE  /\ IsList(Add(a, b), Int)
             /\ \A r : Quantity(Add(a, b), r) = Quantity(a, r) + Quantity(b, r)
  <2>1. \A r : Quantity(a, r) \in Int /\ Quantity(b, r) \in Int
    BY <1>2, QuantityInteger
  <2>2. IsList(Add(a, b), Int)
    BY <2>1 DEF Add, IsList
  <2>3. \A r : r \notin DOMAIN Add(a, b) => Quantity(a, r) = 0 /\ Quantity(b, r) = 0
    BY <1>1 DEF Quantity
  <2>4. \A r : Quantity(Add(a, b), r) = Quantity(a, r) + Quantity(b, r)
    BY <1>1, <2>3 DEF Quantity
  <2> QED
    BY <2>2, <2>4
<1>3. ASSUME IsList(a, Nat), IsList(b, Nat)
      PROVE  IsList(Add(a, b), Nat)
  <2>1. \A r : Quantity(a, r) \in Nat /\ Quantity(b, r) \in Nat
    BY <1>3 DEF Quantity, IsList
  <2> QED
    BY <2>1 DEF Add, IsList
<1> QED
  BY <1>1, <1>2, <1>3

\* One round more.
LEMMA AddedStep ==
  ASSUME NEW f, NEW S, IsFiniteSet(S), \A x \in S : IsList(f[x], Int),
         NEW a, IsList(a, Int), NEW s \in SUBSET S, NEW p \in s
  PROVE  Added(f, s, a) = Add(Added(f, s \ {p}, a), f[p])
<1> DEFINE R == s \ {p}
           g(r) == [x \in s |-> Quantity(f[x], r)]
           h(r) == [x \in R |-> Quantity(f[x], r)]
<1>1. IsFiniteSet(s) /\ IsFiniteSet(R)
  BY FS_Subset
<1>2. ASSUME NEW r
      PROVE  /\ SumOver(g(r), s) = Quantity(f[p], r) + SumOver(h(r), R)
             /\ SumOver(h(r), R) \in Int
  <2>1. \A x \in s : g(r)[x] \in Int /\ g(r)[x] = Quantity(f[x], r)
    BY QuantityInteger
  <2>2. \A x \in R : g(r)[x] = h(r)[x]
    OBVIOUS
  <2> HIDE DEF g, h
  <2>3. SumOver(g(r), s) = g(r)[p] + SumOver(g(r), R)
    BY <1>1, <2>1, SumRemove
  <2>4. SumOver(g(r), R) = SumOver(h(r), R)
    BY <1>1, <2>2, SumSame
  <2>5. SumOver(g(r), R) \in Int
    BY <1>1, <2>1, SumInteger
  <2> QED
    BY <2>1, <2>3, <2>4, <2>5
<1>3. \A r : Quantity(a, r) \in Int /\ Quantity(f[p], r) \in Int
  BY QuantityInteger
<1>4. PICK u : u = Added(f, R, a)
  OBVIOUS
<1>5. PICK v : v = Added(f, s, a)
  OBVIOUS
<1>6. /\ DOMAIN u = DOMAIN a \cup UNION {DOMAIN f[x] : x \in R}
      /\ \A r \in DOMAIN u : u[r] = Quantity(a, r) + SumOver(h(r), R)
  BY <1>4 DEF Added
<1>7. /\ v = [r \in DOMAIN v |-> Quantity(a, r) + SumOver(g(r), s)]
      /\ DOMAIN v = DOMAIN a \cup UNION {DOMAIN f[x] : x \in s}
  BY <1>5 DEF Added
<1>8. DOMAIN v = DOMAIN u \cup DOMAIN f[p]
  BY <1>6, <1>7
<1>9. ASSUME NEW r, r \notin DOMAIN u
      PROVE  Quantity(a, r) = 0 /\ SumOver(h(r), R) = 0
  <2>1. \A x \in R : r \notin DOMAIN f[x]
    BY <1>6, <1>9
  <2>2. \A x \in R : h(r)[x] = 0
    BY <2>1 DEF Quantity
  <2>3. SumOver(h(r), R) = 0
    <3> HIDE DEF h
    <3> QED
      BY <1>1, <2>2, SumZero
  <2> QED
    BY <1>6, <1>9, <2>3 DEF Quantity
<1> HIDE DEF g, h, R
<1>10. \A r : Quantity(u, r) = Quantity(a, r) + SumOver(h(r), R)
  BY <1>6, <1>9 DEF Quantity
<1>11. \A r \in DOMAIN v : v[r] = Quantity(u, r) + Quantity(f[p], r)
  BY <1>2, <1>3, <1>7, <1>10
<1>12. v = Add(u, f[p])
  BY <1>7, <1>8, <1>11 DEF Add
<1> QED
  BY <1>4, <1>5, <1>12 DEF R

\* A loop that adds up lists gives the sum of each name's quantities.
LEMMA AddAllIs ==
  ASSUME NEW f, NEW S, IsFiniteSet(S), \A x \in S : IsList(f[x], Int), NEW a, IsList(a, Int)
  PROVE  AddAll(f, S, a) = Added(f, S, a)
<1> DEFINE g == [s \in SUBSET S |-> Added(f, s, a)]
<1>1. \A s \in SUBSET S : s # {} => Picked(s) \in s
  BY DEF Picked
<1>2. Added(f, {}, a) = a
  <2>1. \A r \in DOMAIN a : a[r] \in Int /\ Quantity(a, r) = a[r]
    BY DEF IsList, Quantity
  <2>2. \A r : SumOver([x \in {} |-> Quantity(f[x], r)], {}) = 0
    BY SumEmpty
  <2>3. DOMAIN a \cup UNION {DOMAIN f[x] : x \in {}} = DOMAIN a
    OBVIOUS
  <2> QED
    BY <2>1, <2>2, <2>3 DEF Added, IsList
<1>3. ASSUME NEW s \in SUBSET S
      PROVE  g[s] = AddRound(f, a, g, s)
  <2>1. CASE s = {}
    BY <1>2, <2>1 DEF AddRound
  <2>2. CASE s # {}
    <3>1. Added(f, s, a) = Add(Added(f, s \ {Picked(s)}, a), f[Picked(s)])
      BY <1>1, <2>2, AddedStep
    <3> QED
      BY <2>2, <3>1 DEF AddRound
  <2> QED
    BY <2>1, <2>2
<1>4. AddSolves(f, a, SUBSET S, g)
  BY <1>3 DEF AddSolves
<1>5. PICK h : h = CHOOSE k : AddSolves(f, a, SUBSET S, k)
  OBVIOUS
<1>6. AddSolves(f, a, SUBSET S, h)
  BY <1>4, <1>5
<1> DEFINE F == {s \in SUBSET S : g[s] = h[s]}
<1>7. ASSUME NEW A \in SUBSET S, \A x \in A : A \ {x} \in F
      PROVE  A \in F
  <2>1. g[A] = AddRound(f, a, g, A) /\ h[A] = AddRound(f, a, h, A)
    BY <1>4, <1>6 DEF AddSolves
  <2> QED
    BY <1>1, <1>7, <2>1 DEF AddRound
<1>8. SUBSET S \subseteq F
  <2> HIDE DEF F
  <2> QED
    BY <1>7, SubsetsReached
<1> QED
  BY <1>5, <1>8, AddAllChosen


\* What the lists f[x] say of r, together.
Together(f, S, r) == SumOver([x \in S |-> Quantity(f[x], r)], S)

\* Names and quantities after such a loop.
LEMMA AddAllQuantity ==
  ASSUME NEW f, NEW S, IsFiniteSet(S), \A x \in S : IsList(f[x], Nat), NEW a, IsList(a, Nat)
  PROVE  /\ IsList(AddAll(f, S, a), Nat)
         /\ DOMAIN AddAll(f, S, a) = DOMAIN a \cup UNION {DOMAIN f[x] : x \in S}
         /\ \A r : /\ Together(f, S, r) \in Nat
                   /\ Quantity(AddAll(f, S, a), r) = Quantity(a, r) + Together(f, S, r)
<1>1. IsList(a, Int) /\ \A x \in S : IsList(f[x], Int)
  BY DEF IsList
<1>2. AddAll(f, S, a) = Added(f, S, a)
  BY <1>1, AddAllIs
<1>3. ASSUME NEW r
      PROVE  /\ Quantity(a, r) \in Nat
             /\ Together(f, S, r) \in Nat
             /\ r \notin DOMAIN a \cup UNION {DOMAIN f[x] : x \in S} =>
                  Quantity(a, r) = 0 /\ Together(f, S, r) = 0
  <2> DEFINE g == [x \in S |-> Quantity(f[x], r)]
  <2>1. \A x \in S : g[x] \in Nat /\ (r \notin DOMAIN f[x] => g[x] = 0)
    BY DEF Quantity, IsList
  <2>2. Quantity(a, r) \in Nat /\ (r \notin DOMAIN a => Quantity(a, r) = 0)
    BY DEF Quantity, IsList
  <2> HIDE DEF g
  <2>3. SumOver(g, S) \in Nat
    BY <2>1, SumSubset
  <2>4. ASSUME r \notin DOMAIN a \cup UNION {DOMAIN f[x] : x \in S} PROVE SumOver(g, S) = 0
    BY <2>1, <2>4, SumZero
  <2> QED
    BY <2>2, <2>3, <2>4 DEF g, Together
<1>4. PICK v : v = Added(f, S, a)
  OBVIOUS
<1>5. /\ DOMAIN v = DOMAIN a \cup UNION {DOMAIN f[x] : x \in S}
      /\ v = [r \in DOMAIN v |-> Quantity(a, r) + Together(f, S, r)]
  BY <1>4 DEF Added, Together
<1>6. \A r : /\ Quantity(a, r) \in Nat /\ Together(f, S, r) \in Nat
             /\ r \notin DOMAIN v => Quantity(a, r) = 0 /\ Together(f, S, r) = 0
  BY <1>3, <1>5
<1>7. IsList(v, Nat) /\ \A r : Quantity(v, r) = Quantity(a, r) + Together(f, S, r)
  <2>1. \A r \in DOMAIN v : v[r] = Quantity(a, r) + Together(f, S, r) /\ v[r] \in Nat
    BY <1>5, <1>6
  <2>2. IsList(v, Nat)
    BY <1>5, <2>1 DEF IsList
  <2>3. \A r : Quantity(v, r) = Quantity(a, r) + Together(f, S, r)
    BY <1>6, <2>1 DEF Quantity
  <2> QED
    BY <2>2, <2>3
<1> QED
  BY <1>2, <1>4, <1>5, <1>6, <1>7

\* A finite set of numbers that is not empty has a largest.
LEMMA LargestExists ==
  ASSUME NEW T \in SUBSET Int, IsFiniteSet(T), T # {}
  PROVE  Max(T) \in T /\ \A y \in T : y <= Max(T)
<1> DEFINE F == {A \in SUBSET T : A = {} \/ \E m \in A : \A y \in A : y <= m}
<1>1. ASSUME NEW A \in SUBSET T, \A x \in A : A \ {x} \in F
      PROVE  A \in F
  <2>1. CASE A = {}
    BY <2>1
  <2>2. CASE A # {}
    <3>1. PICK x \in A : TRUE
      BY <2>2
    <3>2. CASE A \ {x} = {}
      <4>1. A = {x} /\ x \in Int
        BY <3>1, <3>2
      <4> QED
        BY <4>1
    <3>3. CASE A \ {x} # {}
      <4>1. PICK m \in A \ {x} : \A y \in A \ {x} : y <= m
        BY <1>1, <3>3
      <4>2. CASE x <= m
        BY <4>1, <4>2
      <4>3. CASE ~(x <= m)
        <5>1. \A y \in A : y <= x
          BY <4>1, <4>3
        <5> QED
          BY <5>1
      <4> QED
        BY <4>2, <4>3
    <3> QED
      BY <3>2, <3>3
  <2> QED
    BY <2>1, <2>2
<1>2. SUBSET T \subseteq F
  <2> HIDE DEF F
  <2> QED
    BY <1>1, SubsetsReached
<1>3. \E m \in T : \A y \in T : y <= m
  BY <1>2
<1>4. \E m \in T : \A y \in T : m >= y
  BY <1>3
<1> QED
  BY <1>4 DEF Max

\* One number more.
LEMMA LargestOfMore ==
  ASSUME NEW T \in SUBSET Int, IsFiniteSet(T), T # {}, NEW v \in Int
  PROVE  Max(T \cup {v}) = IF Max(T) > v THEN Max(T) ELSE v
<1>1. IsFiniteSet(T \cup {v})
  BY FS_AddElement
<1>2. Max(T) \in T /\ \A y \in T : y <= Max(T)
  BY LargestExists
<1>3. Max(T \cup {v}) \in T \cup {v} /\ \A y \in T \cup {v} : y <= Max(T \cup {v})
  BY <1>1, LargestExists
<1>4. PICK m, M : m = Max(T) /\ M = Max(T \cup {v})
  OBVIOUS
<1>5. m \in Int /\ M \in Int /\ m \in T /\ (M \in T \/ M = v) /\ m <= M /\ v <= M
  BY <1>2, <1>3, <1>4
<1>6. M \in T => M <= m
  BY <1>2, <1>4
<1>7. M = IF m > v THEN m ELSE v
  BY <1>5, <1>6
<1> QED
  BY <1>4, <1>7

\* The round of a loop that takes the larger list.
MaxRound(f, a, g, s) == IF s = {} THEN a ELSE MaxOf(g[s \ {Picked(s)}], f[Picked(s)])
MaxSolves(f, a, D, g) == g = [s \in D |-> MaxRound(f, a, g, s)]
Quantities(f, s, a, r) == {Quantity(a, r)} \cup {Quantity(f[x], r) : x \in s}
Largest(f, s, a) ==
  [r \in DOMAIN a \cup UNION {DOMAIN f[x] : x \in s} |-> Max(Quantities(f, s, a, r))]

\* The loop of MaxAll is a function that is chosen to satisfy the recursion.
LEMMA MaxAllChosen ==
  ASSUME NEW f, NEW S, NEW a
  PROVE  MaxAll(f, S, a) = (CHOOSE g : MaxSolves(f, a, SUBSET S, g))[S]
BY DEF MaxSolves, MaxRound, MaxAll, FoldSet, MapThenFoldSet, Picked

\* Finitely many quantities.
LEMMA QuantitiesFinite ==
  ASSUME NEW f, NEW s, IsFiniteSet(s), \A x \in s : IsList(f[x], Nat), NEW a, IsList(a, Nat), NEW r
  PROVE  /\ Quantities(f, s, a, r) \in SUBSET Nat
         /\ Quantities(f, s, a, r) # {}
         /\ IsFiniteSet(Quantities(f, s, a, r))
<1>1. \A x \in s : Quantity(f[x], r) \in Nat
  BY DEF Quantity, IsList
<1>2. Quantity(a, r) \in Nat
  BY DEF Quantity, IsList
<1>3. IsFiniteSet({Quantity(f[x], r) : x \in s})
  <2> DEFINE g == [x \in s |-> Quantity(f[x], r)]
  <2>1. g \in Surjection(s, {Quantity(f[x], r) : x \in s})
    BY DEF Surjection
  <2> QED
    BY <2>1, FS_Surjection
<1>4. IsFiniteSet({Quantity(f[x], r) : x \in s} \cup {Quantity(a, r)})
  BY <1>3, FS_AddElement
<1>5. Quantities(f, s, a, r) = {Quantity(f[x], r) : x \in s} \cup {Quantity(a, r)}
  BY DEF Quantities
<1> QED
  BY <1>1, <1>2, <1>4, <1>5

\* One round more.
LEMMA LargestStep ==
  ASSUME NEW f, NEW S, IsFiniteSet(S), \A x \in S : IsList(f[x], Nat),
         NEW a, IsList(a, Nat), NEW s \in SUBSET S, NEW p \in s
  PROVE  Largest(f, s, a) = MaxOf(Largest(f, s \ {p}, a), f[p])
<1> DEFINE R == s \ {p}
<1>1. IsFiniteSet(s) /\ IsFiniteSet(R)
  BY FS_Subset
<1>2. \A r : Quantity(f[p], r) \in Nat
  BY DEF Quantity, IsList
<1>3. ASSUME NEW r
      PROVE  /\ Max(Quantities(f, R, a, r)) \in Nat
             /\ \A y \in Quantities(f, R, a, r) : y <= Max(Quantities(f, R, a, r))
             /\ Max(Quantities(f, R, a, r)) \in Quantities(f, R, a, r)
             /\ Max(Quantities(f, s, a, r)) =
                  IF Max(Quantities(f, R, a, r)) > Quantity(f[p], r)
                  THEN Max(Quantities(f, R, a, r)) ELSE Quantity(f[p], r)
  <2>1. PICK T : T = Quantities(f, R, a, r)
    OBVIOUS
  <2>2. T \in SUBSET Nat /\ T # {} /\ IsFiniteSet(T)
    BY <1>1, <2>1, QuantitiesFinite
  <2>3. Quantities(f, s, a, r) = T \cup {Quantity(f[p], r)}
    BY <2>1 DEF Quantities
  <2>4. T \in SUBSET Int /\ Quantity(f[p], r) \in Int
    BY <1>2, <2>2
  <2>5. Max(T \cup {Quantity(f[p], r)}) =
          IF Max(T) > Quantity(f[p], r) THEN Max(T) ELSE Quantity(f[p], r)
    BY <2>2, <2>4, LargestOfMore
  <2>6. Max(T) \in T /\ \A y \in T : y <= Max(T)
    BY <2>2, <2>4, LargestExists
  <2> QED
    BY <2>1, <2>2, <2>3, <2>5, <2>6
<1>4. PICK u : u = Largest(f, R, a)
  OBVIOUS
<1>5. PICK v : v = Largest(f, s, a)
  OBVIOUS
<1>6. /\ DOMAIN u = DOMAIN a \cup UNION {DOMAIN f[x] : x \in R}
      /\ \A r \in DOMAIN u : u[r] = Max(Quantities(f, R, a, r))
  BY <1>4 DEF Largest
<1>7. /\ DOMAIN v = DOMAIN a \cup UNION {DOMAIN f[x] : x \in s}
      /\ v = [r \in DOMAIN v |-> Max(Quantities(f, s, a, r))]
  BY <1>5 DEF Largest
<1>8. DOMAIN v = DOMAIN u \cup DOMAIN f[p]
  BY <1>6, <1>7
<1>9. ASSUME NEW r, r \notin DOMAIN u
      PROVE  Max(Quantities(f, R, a, r)) = 0
  <2>1. Quantity(a, r) = 0 /\ \A x \in R : Quantity(f[x], r) = 0
    BY <1>6, <1>9 DEF Quantity
  <2>2. \A y \in Quantities(f, R, a, r) : y = 0
    BY <2>1 DEF Quantities
  <2> QED
    BY <1>3, <2>2
<1> HIDE DEF R
<1>10. ASSUME NEW r \in DOMAIN v
       PROVE  v[r] = IF r \in DOMAIN u /\ (r \in DOMAIN f[p] => u[r] > f[p][r]) THEN u[r] ELSE f[p][r]
  <2>1. v[r] = IF Max(Quantities(f, R, a, r)) > Quantity(f[p], r)
                 THEN Max(Quantities(f, R, a, r)) ELSE Quantity(f[p], r)
    BY <1>3, <1>7
  <2>2. CASE r \in DOMAIN u /\ r \in DOMAIN f[p]
    BY <1>6, <2>1, <2>2 DEF Quantity
  <2>3. CASE r \in DOMAIN u /\ r \notin DOMAIN f[p]
    <3>1. Quantity(f[p], r) = 0 /\ u[r] = Max(Quantities(f, R, a, r)) /\ u[r] \in Nat
      BY <1>3, <1>6, <2>3 DEF Quantity
    <3> QED
      BY <2>1, <2>3, <3>1
  <2>4. CASE r \notin DOMAIN u
    <3>1. Max(Quantities(f, R, a, r)) = 0 /\ r \in DOMAIN f[p]
      BY <1>8, <1>9, <2>4
    <3>2. Quantity(f[p], r) = f[p][r]
      BY <3>1 DEF Quantity
    <3> QED
      BY <1>2, <2>1, <2>4, <3>1, <3>2
  <2> QED
    BY <2>2, <2>3, <2>4
<1>11. v = MaxOf(u, f[p])
  BY <1>7, <1>8, <1>10 DEF MaxOf
<1> QED
  BY <1>4, <1>5, <1>11 DEF R

\* A loop that takes the larger list gives the largest of each name's quantities.
LEMMA MaxAllIs ==
  ASSUME NEW f, NEW S, IsFiniteSet(S), \A x \in S : IsList(f[x], Nat), NEW a, IsList(a, Nat)
  PROVE  MaxAll(f, S, a) = Largest(f, S, a)
<1> DEFINE g == [s \in SUBSET S |-> Largest(f, s, a)]
<1>1. \A s \in SUBSET S : s # {} => Picked(s) \in s
  BY DEF Picked
<1>2. Largest(f, {}, a) = a
  <2>1. \A r \in DOMAIN a : a[r] \in Nat /\ Quantity(a, r) = a[r]
    BY DEF IsList, Quantity
  <2>2. ASSUME NEW n \in Nat PROVE Max({n}) = n
    <3>1. {n} \in SUBSET Int /\ IsFiniteSet({n}) /\ {n} # {}
      BY FS_Singleton
    <3>2. Max({n}) \in {n}
      BY <3>1, LargestExists
    <3> QED
      BY <3>2
  <2>3. \A r : Quantities(f, {}, a, r) = {Quantity(a, r)}
    BY DEF Quantities
  <2>4. DOMAIN a \cup UNION {DOMAIN f[x] : x \in {}} = DOMAIN a
    OBVIOUS
  <2> QED
    BY <2>1, <2>2, <2>3, <2>4 DEF Largest, IsList
<1>3. ASSUME NEW s \in SUBSET S
      PROVE  g[s] = MaxRound(f, a, g, s)
  <2>1. CASE s = {}
    BY <1>2, <2>1 DEF MaxRound
  <2>2. CASE s # {}
    <3>1. Largest(f, s, a) = MaxOf(Largest(f, s \ {Picked(s)}, a), f[Picked(s)])
      BY <1>1, <2>2, LargestStep
    <3> QED
      BY <2>2, <3>1 DEF MaxRound
  <2> QED
    BY <2>1, <2>2
<1>4. MaxSolves(f, a, SUBSET S, g)
  BY <1>3 DEF MaxSolves
<1>5. PICK h : h = CHOOSE k : MaxSolves(f, a, SUBSET S, k)
  OBVIOUS
<1>6. MaxSolves(f, a, SUBSET S, h)
  BY <1>4, <1>5
<1> DEFINE F == {s \in SUBSET S : g[s] = h[s]}
<1>7. ASSUME NEW A \in SUBSET S, \A x \in A : A \ {x} \in F
      PROVE  A \in F
  <2>1. g[A] = MaxRound(f, a, g, A) /\ h[A] = MaxRound(f, a, h, A)
    BY <1>4, <1>6 DEF MaxSolves
  <2> QED
    BY <1>1, <1>7, <2>1 DEF MaxRound
<1>8. SUBSET S \subseteq F
  <2> HIDE DEF F
  <2> QED
    BY <1>7, SubsetsReached
<1> QED
  BY <1>5, <1>8, MaxAllChosen

\* Names and quantities after such a loop.
LEMMA MaxAllQuantity ==
  ASSUME NEW f, NEW S, IsFiniteSet(S), \A x \in S : IsList(f[x], Nat), NEW a, IsList(a, Nat)
  PROVE  /\ IsList(MaxAll(f, S, a), Nat)
         /\ DOMAIN MaxAll(f, S, a) = DOMAIN a \cup UNION {DOMAIN f[x] : x \in S}
         /\ \A r : /\ Max(Quantities(f, S, a, r)) \in Nat
                   /\ Quantity(MaxAll(f, S, a), r) = Max(Quantities(f, S, a, r))
<1>1. ASSUME NEW r
      PROVE  /\ Max(Quantities(f, S, a, r)) \in Nat
             /\ Max(Quantities(f, S, a, r)) \in Quantities(f, S, a, r)
  <2>1. PICK T : T = Quantities(f, S, a, r)
    OBVIOUS
  <2>2. T \in SUBSET Nat /\ T # {} /\ IsFiniteSet(T)
    BY <2>1, QuantitiesFinite
  <2>3. Max(T) \in T
    <3>1. T \in SUBSET Int
      BY <2>2
    <3> QED
      BY <2>2, <3>1, LargestExists
  <2> QED
    BY <2>1, <2>2, <2>3
<1>2. PICK v : v = MaxAll(f, S, a)
  OBVIOUS
<1>3. /\ DOMAIN v = DOMAIN a \cup UNION {DOMAIN f[x] : x \in S}
      /\ v = [r \in DOMAIN v |-> Max(Quantities(f, S, a, r))]
  <2>1. v = Largest(f, S, a)
    BY <1>2, MaxAllIs
  <2> QED
    BY <2>1 DEF Largest
<1>4. ASSUME NEW r, r \notin DOMAIN v
      PROVE  Max(Quantities(f, S, a, r)) = 0
  <2>1. Quantity(a, r) = 0 /\ \A x \in S : Quantity(f[x], r) = 0
    BY <1>3, <1>4 DEF Quantity
  <2>2. \A y \in Quantities(f, S, a, r) : y = 0
    BY <2>1 DEF Quantities
  <2> QED
    BY <1>1, <2>2
<1>5. IsList(v, Nat)
  BY <1>1, <1>3 DEF IsList
<1>6. \A r : Quantity(v, r) = Max(Quantities(f, S, a, r))
  BY <1>3, <1>4 DEF Quantity
<1> QED
  BY <1>1, <1>2, <1>3, <1>5, <1>6

-----------------------------------------------------------------------------
(* Names.                                                                  *)

\* A name with a first part put before it.
LEMMA Prefixed ==
  ASSUME NEW w, NEW S, NEW x \in Seq(S)
  PROVE  LET r == <<w>> \o x
         IN  /\ r \in Seq(S \cup {w}) /\ r # <<>> /\ Len(r) = Len(x) + 1
             /\ Head(r) = w /\ r[1] = w /\ Tail(r) = x
             /\ \A i \in 1..Len(x) : r[i + 1] = x[i]
<1> DEFINE h == <<w>>
           r == h \o x
           T == S \cup {w}
<1>1. h \in Seq(T) /\ Len(h) = 1 /\ h[1] = w
  OBVIOUS
<1>2. x \in Seq(T) /\ Len(x) \in Nat
  BY SeqMonotonic, LenProperties
<1> HIDE DEF h, T
<1>3. /\ r \in Seq(T) /\ Len(r) = Len(x) + 1
      /\ \A i \in 1..Len(x) + 1 : r[i] = IF i <= 1 THEN h[i] ELSE x[i - 1]
  <2>1. /\ r \in Seq(T) /\ Len(r) = Len(h) + Len(x)
        /\ \A i \in 1..Len(h) + Len(x) : r[i] = IF i <= Len(h) THEN h[i] ELSE x[i - Len(h)]
    BY <1>1, <1>2, ConcatProperties
  <2>2. Len(h) + Len(x) = Len(x) + 1
    BY <1>1, <1>2
  <2> QED
    BY <1>1, <2>1, <2>2
<1>4. r[1] = w /\ \A i \in 1..Len(x) : r[i + 1] = x[i]
  BY <1>1, <1>2, <1>3
<1>5. r # <<>>
  BY <1>2, <1>3, EmptySeq
<1> HIDE DEF r
<1>6. Head(r) = w
  BY <1>3, <1>4, <1>5
<1>7. /\ Tail(r) \in Seq(T) /\ Len(Tail(r)) = Len(x)
      /\ \A i \in 1..Len(x) : Tail(r)[i] = x[i]
  BY <1>2, <1>3, <1>4, <1>5, HeadTailProperties
<1>8. Tail(r) = x
  BY <1>2, <1>7, SeqEqual
<1> QED
  BY <1>3, <1>4, <1>5, <1>6, <1>8 DEF T, r, h

\* A name is its first part and the rest.
LEMMA Prefix ==
  ASSUME NEW S, NEW r \in Seq(S), r # <<>>
  PROVE  /\ Tail(r) \in Seq(S) /\ Head(r) \in S /\ Head(r) = r[1]
         /\ r = <<Head(r)>> \o Tail(r)
<1>1. Tail(r) \in Seq(S) /\ Head(r) \in S /\ Head(r) = r[1]
  OBVIOUS
<1>2. r = <<Head(r)>> \o Tail(r)
  OBVIOUS
<1> QED
  BY <1>1, <1>2

\* A sequence is one of its own elements.
LEMMA OwnElements ==
  ASSUME NEW S, NEW x \in Seq(S)
  PROVE  x \in Seq(Range(x))
<1>1. x \in [1..Len(x) -> Range(x)] /\ Len(x) \in Nat
  BY LenProperties DEF Range
<1> QED
  BY <1>1

\* The name of a container's resource with a word before it.
LEMMA WordBefore ==
  ASSUME NEW x, ResourceName(x), NEW w
  PROVE  LET r == <<w>> \o x
         IN  /\ ResourceName(r) /\ Head(r) = w /\ r[1] = w /\ Tail(r) = x
             /\ Len(r) = Len(x) + 1 /\ Len(r) \in Nat /\ Len(x) \in Nat \ {0}
             /\ \A i \in 1..Len(x) : r[i + 1] = x[i]
             /\ \A part : Has(r, part) <=> part = w \/ Has(x, part)
<1> DEFINE r == <<w>> \o x
<1>1. /\ r \in Seq(Range(x) \cup {w}) /\ r # <<>> /\ Len(r) = Len(x) + 1
      /\ Head(r) = w /\ r[1] = w /\ Tail(r) = x
      /\ \A i \in 1..Len(x) : r[i + 1] = x[i]
  <2> DEFINE S == Range(x)
  <2>1. x \in Seq(S)
    BY DEF ResourceName
  <2> HIDE DEF S
  <2>2. /\ r \in Seq(S \cup {w}) /\ r # <<>> /\ Len(r) = Len(x) + 1
        /\ Head(r) = w /\ r[1] = w /\ Tail(r) = x
        /\ \A i \in 1..Len(x) : r[i + 1] = x[i]
    BY <2>1, Prefixed
  <2> QED
    BY <2>2 DEF S
<1> HIDE DEF r
<1>2. ResourceName(r)
  BY <1>1, OwnElements DEF ResourceName
<1>3. /\ DOMAIN r = 1..Len(x) + 1 /\ DOMAIN x = 1..Len(x)
      /\ Len(x) \in Nat /\ x # <<>>
  BY <1>1, LenProperties DEF ResourceName
<1>4. Len(x) # 0
  BY EmptySeq DEF ResourceName
<1>5. ASSUME NEW part
      PROVE  Has(r, part) <=> part = w \/ Has(x, part)
  <2>1. \A i \in DOMAIN r : i = 1 \/ (i - 1 \in 1..Len(x) /\ r[i] = x[i - 1])
    BY <1>1, <1>3
  <2>2. \A i \in DOMAIN x : i + 1 \in DOMAIN r /\ r[i + 1] = x[i]
    BY <1>1, <1>3
  <2>3. 1 \in DOMAIN r
    BY <1>3
  <2>4. ASSUME Has(r, part) PROVE part = w \/ Has(x, part)
    <3>1. PICK i \in DOMAIN r : r[i] = part
      BY <2>4 DEF Has
    <3>2. CASE i = 1
      BY <1>1, <3>1, <3>2
    <3>3. CASE i # 1
      BY <1>3, <2>1, <3>1, <3>3 DEF Has
    <3> QED
      BY <3>2, <3>3
  <2>5. ASSUME Has(x, part) PROVE Has(r, part)
    <3>1. PICK i \in DOMAIN x : x[i] = part
      BY <2>5 DEF Has
    <3> QED
      BY <2>2, <3>1 DEF Has
  <2>6. Has(r, w)
    BY <1>1, <2>3 DEF Has
  <2> QED
    BY <2>4, <2>5, <2>6
<1> QED
  BY <1>1, <1>2, <1>3, <1>4, <1>5 DEF r

\* A name and its first part.
LEMMA WordFirst ==
  ASSUME NEW r, ResourceName(r)
  PROVE  /\ Head(r) = r[1] /\ r = <<Head(r)>> \o Tail(r)
         /\ Len(r) \in Nat \ {0} /\ DOMAIN r = 1..Len(r)
<1>1. r \in Seq(Range(r)) /\ r # <<>>
  BY DEF ResourceName
<1>2. Head(r) = r[1] /\ r = <<Head(r)>> \o Tail(r)
  BY <1>1, Prefix
<1>3. Len(r) \in Nat \ {0} /\ DOMAIN r = 1..Len(r)
  BY <1>1, EmptySeq, LenProperties
<1> QED
  BY <1>2, <1>3

\* A prefix of one or two words.
LEMMA PrefixOfOne ==
  ASSUME NEW r, ResourceName(r), NEW w
  PROVE  IsPrefix(<<w>>, r) <=> Head(r) = w
<1>1. Head(r) = r[1] /\ Len(r) \in Nat \ {0}
  BY WordFirst
<1>2. Len(<<w>>) = 1 /\ <<w>>[1] = w
  OBVIOUS
<1> QED
  BY <1>1, <1>2 DEF IsPrefix

\* A prefix of two words tells how the name after the first begins.
LEMMA PrefixOfTwo ==
  ASSUME NEW x, ResourceName(x), NEW v, NEW w
  PROVE  IsPrefix(<<v>> \o <<w>>, <<v>> \o x) <=> Head(x) = w
<1>1. Head(x) = x[1] /\ Len(x) \in Nat \ {0}
  BY WordFirst
<1>2. PICK r : r = <<v>> \o x
  OBVIOUS
<1>3. r[1] = v /\ r[2] = x[1] /\ Len(r) = Len(x) + 1
  BY <1>1, <1>2, WordBefore
<1>4. PICK p : p = <<v>> \o <<w>>
  OBVIOUS
<1>5. p[1] = v /\ p[2] = w /\ Len(p) = 2
  BY <1>4
<1> QED
  BY <1>1, <1>2, <1>3, <1>4, <1>5 DEF IsPrefix

\* A name of one word, and one of two.
LEMMA OneWord ==
  ASSUME NEW w
  PROVE  ResourceName(<<w>>) /\ Head(<<w>>) = w /\ Len(<<w>>) = 1 /\ <<w>>[1] = w
<1>1. Len(<<w>>) = 1 /\ <<w>>[1] = w /\ Head(<<w>>) = w /\ <<w>> # <<>>
  OBVIOUS
<1>2. <<w>> \in Seq({w})
  OBVIOUS
<1>3. <<w>> \in Seq(Range(<<w>>))
  BY <1>2, OwnElements
<1> QED
  BY <1>1, <1>3 DEF ResourceName

\* The names a container's request is charged to: with and without the word.
LEMMA RequestNamesAre ==
  ASSUME NEW x, ResourceName(x), Head(x) # "requests.", NEW n \in RequestNames(x)
  PROVE  /\ ResourceName(n)
         /\ \/ Head(n) = "requests." /\ Tail(n) = x
            \/ Head(n) # "requests." /\ n = x /\ (x \in {Cpu, Memory, Ephemeral} \/ Head(x) = "hugepages-")
<1>1. ResourceName(Requests(x)) /\ Head(Requests(x)) = "requests." /\ Tail(Requests(x)) = x
  BY WordBefore DEF Requests
<1>2. IsPrefix(<<"hugepages-">>, x) <=> Head(x) = "hugepages-"
  BY PrefixOfOne
<1> HIDE DEF Requests
<1> QED
  BY <1>1, <1>2 DEF RequestNames

\* The name a container's limit is charged to.
LEMMA LimitNamesAre ==
  ASSUME NEW x, ResourceName(x), NEW n \in LimitNames(x)
  PROVE  ResourceName(n) /\ Head(n) = "limits." /\ Tail(n) = x /\ x \in {Cpu, Memory, Ephemeral}
<1>1. ResourceName(Limits(x)) /\ Head(Limits(x)) = "limits." /\ Tail(Limits(x)) = x
  BY WordBefore DEF Limits
<1> QED
  BY <1>1 DEF LimitNames

\* A request's quantity is found under each of its names, and no other's.
LEMMA RequestsRenamed ==
  ASSUME NEW a, ContainerList(a)
  PROVE  /\ IsList(Renamed(a, RequestNames), Nat)
         /\ DOMAIN Renamed(a, RequestNames) = UNION {RequestNames(x) : x \in DOMAIN a}
         /\ \A x \in DOMAIN a : \A n \in RequestNames(x) : Renamed(a, RequestNames)[n] = a[x]
<1>1. \A x, y \in DOMAIN a : \A n \in RequestNames(x) \cap RequestNames(y) : x = y
  <2>1. \A x \in DOMAIN a : ResourceName(x) /\ Head(x) # "requests."
    BY DEF ContainerList
  <2>2. \A x \in DOMAIN a : \A n \in RequestNames(x) :
          \/ Head(n) = "requests." /\ Tail(n) = x
          \/ Head(n) # "requests." /\ n = x
    BY <2>1, RequestNamesAre
  <2> QED
    BY <2>2, Zenon
<1>2. PICK v : v = Renamed(a, RequestNames)
  OBVIOUS
<1>3. /\ DOMAIN v = UNION {RequestNames(x) : x \in DOMAIN a}
      /\ v = [n \in DOMAIN v |-> a[CHOOSE x \in DOMAIN a : n \in RequestNames(x)]]
  BY <1>2 DEF Renamed
<1>4. ASSUME NEW x \in DOMAIN a, NEW n \in RequestNames(x)
      PROVE  v[n] = a[x]
  <2>1. PICK y : y = CHOOSE z \in DOMAIN a : n \in RequestNames(z)
    OBVIOUS
  <2>2. y \in DOMAIN a /\ n \in RequestNames(y)
    BY <2>1
  <2>3. y = x
    BY <1>1, <2>2
  <2>4. n \in DOMAIN v
    BY <1>3
  <2> QED
    BY <1>3, <2>1, <2>3, <2>4
<1>5. \A n \in DOMAIN v : v[n] \in Nat
  <2>1. \A x \in DOMAIN a : a[x] \in Nat
    BY DEF ContainerList, IsList
  <2> QED
    BY <1>3, <1>4, <2>1
<1>6. IsList(v, Nat)
  BY <1>3, <1>5 DEF IsList
<1> QED
  BY <1>2, <1>3, <1>4, <1>6

\* So is a limit's.
LEMMA LimitsRenamed ==
  ASSUME NEW a, ContainerList(a)
  PROVE  /\ IsList(Renamed(a, LimitNames), Nat)
         /\ DOMAIN Renamed(a, LimitNames) = UNION {LimitNames(x) : x \in DOMAIN a}
         /\ \A x \in DOMAIN a : \A n \in LimitNames(x) : Renamed(a, LimitNames)[n] = a[x]
<1>1. \A x, y \in DOMAIN a : \A n \in LimitNames(x) \cap LimitNames(y) : x = y
  <2>1. \A x \in DOMAIN a : ResourceName(x)
    BY DEF ContainerList
  <2>2. \A x \in DOMAIN a : \A n \in LimitNames(x) : Tail(n) = x
    BY <2>1, LimitNamesAre
  <2> QED
    BY <2>2, Zenon
<1>2. PICK v : v = Renamed(a, LimitNames)
  OBVIOUS
<1>3. /\ DOMAIN v = UNION {LimitNames(x) : x \in DOMAIN a}
      /\ v = [n \in DOMAIN v |-> a[CHOOSE x \in DOMAIN a : n \in LimitNames(x)]]
  BY <1>2 DEF Renamed
<1>4. ASSUME NEW x \in DOMAIN a, NEW n \in LimitNames(x)
      PROVE  v[n] = a[x]
  <2>1. PICK y : y = CHOOSE z \in DOMAIN a : n \in LimitNames(z)
    OBVIOUS
  <2>2. y \in DOMAIN a /\ n \in LimitNames(y)
    BY <2>1
  <2>3. y = x
    BY <1>1, <2>2
  <2>4. n \in DOMAIN v
    BY <1>3
  <2> QED
    BY <1>3, <2>1, <2>3, <2>4
<1>5. \A n \in DOMAIN v : v[n] \in Nat
  <2>1. \A x \in DOMAIN a : a[x] \in Nat
    BY DEF ContainerList, IsList
  <2> QED
    BY <1>3, <1>4, <2>1
<1>6. IsList(v, Nat)
  BY <1>3, <1>5 DEF IsList
<1> QED
  BY <1>2, <1>3, <1>4, <1>6

-----------------------------------------------------------------------------
(* What an object is charged is what it demands.                           *)

\* A list with one name.
LEMMA SingleList ==
  ASSUME NEW n, NEW v \in Nat, NEW r
  PROVE  /\ IsList([x \in {n} |-> v], Nat) /\ DOMAIN [x \in {n} |-> v] = {n}
         /\ Quantity([x \in {n} |-> v], r) = IF r = n THEN v ELSE 0
BY DEF IsList, Quantity

\* Names and quantities of a sum of lists of naturals.
LEMMA AddNat ==
  ASSUME NEW a, NEW b, IsList(a, Nat), IsList(b, Nat)
  PROVE  /\ IsList(Add(a, b), Nat) /\ DOMAIN Add(a, b) = DOMAIN a \cup DOMAIN b
         /\ \A r : /\ Quantity(a, r) \in Nat /\ Quantity(b, r) \in Nat
                   /\ Quantity(Add(a, b), r) = Quantity(a, r) + Quantity(b, r)
<1>1. IsList(a, Int) /\ IsList(b, Int)
  BY DEF IsList
<1>2. \A r : Quantity(a, r) \in Nat /\ Quantity(b, r) \in Nat
  BY DEF IsList, Quantity
<1> QED
  BY <1>1, <1>2, AddIs, ZenonT(30)

\* The largest request of an init container, or that of all the containers.
LEMMA TotalIsPeak ==
  ASSUME NEW inits, NEW containers, IsFiniteSet(DOMAIN inits), IsFiniteSet(DOMAIN containers),
         \A i \in DOMAIN inits : ContainerList(inits[i]),
         \A i \in DOMAIN containers : ContainerList(containers[i])
  PROVE  /\ ContainerList(Total(inits, containers))
         /\ \A r : /\ Quantity(Total(inits, containers), r) = Peak(inits, containers, r)
                   /\ Peak(inits, containers, r) \in Nat
<1> DEFINE C == DOMAIN containers
           I == DOMAIN inits
<1>1. PICK all : all = AddAll(containers, C, Empty)
  OBVIOUS
<1>2. IsList(Empty, Nat) /\ DOMAIN Empty = {} /\ \A r : Quantity(Empty, r) = 0
  BY DEF IsList, Empty, Quantity
<1>3. (\A i \in C : IsList(containers[i], Nat)) /\ (\A i \in I : IsList(inits[i], Nat))
  BY DEF ContainerList
<1>4. /\ IsList(all, Nat)
      /\ DOMAIN all = DOMAIN Empty \cup UNION {DOMAIN containers[i] : i \in C}
      /\ \A r : /\ Together(containers, C, r) \in Nat
                /\ Quantity(all, r) = Quantity(Empty, r) + Together(containers, C, r)
  BY <1>1, <1>2, <1>3, AddAllQuantity
<1>5. PICK t : t = MaxAll(inits, I, all)
  OBVIOUS
<1>6. /\ IsList(t, Nat)
      /\ DOMAIN t = DOMAIN all \cup UNION {DOMAIN inits[i] : i \in I}
      /\ \A r : /\ Max(Quantities(inits, I, all, r)) \in Nat
                /\ Quantity(t, r) = Max(Quantities(inits, I, all, r))
  BY <1>3, <1>4, <1>5, MaxAllQuantity
<1>7. Total(inits, containers) = t
  BY <1>1, <1>5 DEF Total
<1>8. ASSUME NEW r
      PROVE  Peak(inits, containers, r) = Max(Quantities(inits, I, all, r))
  <2>1. Quantity(all, r) = Together(containers, C, r)
    BY <1>2, <1>4
  <2> QED
    BY <2>1 DEF Peak, Quantities, Together
<1>9. \A r \in DOMAIN t : ResourceName(r) /\ Head(r) # "requests."
  BY <1>2, <1>4, <1>6 DEF ContainerList
<1> QED
  BY <1>6, <1>7, <1>8, <1>9 DEF ContainerList

\* Names and quantities of PodComputeUsageHelper.
LEMMA HelperIs ==
  ASSUME NEW q, NEW l, ContainerList(q), ContainerList(l)
  PROVE  /\ IsList(PodComputeUsageHelper(q, l), Nat)
         /\ DOMAIN PodComputeUsageHelper(q, l) =
              ({PodCount} \cup UNION {RequestNames(x) : x \in DOMAIN q})
                \cup UNION {LimitNames(x) : x \in DOMAIN l}
         /\ \A r : Quantity(PodComputeUsageHelper(q, l), r) =
                     (IF r = PodCount THEN 1 ELSE 0) + Quantity(Renamed(q, RequestNames), r)
                       + Quantity(Renamed(l, LimitNames), r)
<1>1. PICK one : one = [r \in {PodCount} |-> 1]
  OBVIOUS
<1>2. /\ IsList(one, Nat) /\ DOMAIN one = {PodCount}
      /\ \A r : Quantity(one, r) = IF r = PodCount THEN 1 ELSE 0
  <2>1. IsList([r \in {PodCount} |-> 1], Nat) /\ DOMAIN [r \in {PodCount} |-> 1] = {PodCount}
    BY DEF IsList
  <2>2. \A r : Quantity([x \in {PodCount} |-> 1], r) = IF r = PodCount THEN 1 ELSE 0
    BY DEF Quantity
  <2> QED
    BY <1>1, <2>1, <2>2
<1>3. PICK a, b : a = Renamed(q, RequestNames) /\ b = Renamed(l, LimitNames)
  OBVIOUS
<1>4. /\ IsList(a, Nat) /\ DOMAIN a = UNION {RequestNames(x) : x \in DOMAIN q}
      /\ IsList(b, Nat) /\ DOMAIN b = UNION {LimitNames(x) : x \in DOMAIN l}
  BY <1>3, RequestsRenamed, LimitsRenamed
<1>5. PICK u : u = Add(one, a)
  OBVIOUS
<1>6. /\ IsList(u, Nat) /\ DOMAIN u = DOMAIN one \cup DOMAIN a
      /\ \A r : Quantity(u, r) = Quantity(one, r) + Quantity(a, r)
  BY <1>2, <1>4, <1>5, AddNat, ZenonT(30)
<1>7. PICK v : v = Add(u, b)
  OBVIOUS
<1>8. PodComputeUsageHelper(q, l) = v
  BY <1>1, <1>3, <1>5, <1>7 DEF PodComputeUsageHelper
<1>9. /\ IsList(v, Nat) /\ DOMAIN v = DOMAIN u \cup DOMAIN b
      /\ \A r : Quantity(v, r) = Quantity(u, r) + Quantity(b, r)
  <2>1. IsList(u, Nat) /\ IsList(b, Nat)
    BY <1>4, <1>6
  <2> QED
    BY <1>7, <2>1, AddNat
<1> QED
  BY <1>2, <1>3, <1>4, <1>6, <1>8, <1>9

\* What a sequence of containers requests, and is limited to.
LEMMA ContainerListsOf ==
  ASSUME UsageAssumption, NEW s \in Seq(ContainerSpecs)
  PROVE  /\ IsFiniteSet(DOMAIN RequestsOf(s)) /\ IsFiniteSet(DOMAIN LimitsOf(s))
         /\ \A i \in DOMAIN RequestsOf(s) : ContainerList(RequestsOf(s)[i])
         /\ \A i \in DOMAIN LimitsOf(s) : ContainerList(LimitsOf(s)[i])
<1>1. s \in [1..Len(s) -> ContainerSpecs] /\ Len(s) \in Nat /\ DOMAIN s = 1..Len(s)
  BY LenProperties
<1>2. IsFiniteSet(1..Len(s))
  <2>1. 1 \in Int /\ Len(s) \in Int
    BY <1>1
  <2> QED
    BY <2>1, FS_Interval
<1>3. \A i \in DOMAIN s : ContainerList(s[i].requests) /\ ContainerList(s[i].limits)
  BY <1>1 DEF UsageAssumption
<1> QED
  BY <1>1, <1>2, <1>3 DEF RequestsOf, LimitsOf

\* The two lists PodUsageFunc makes of a pod's containers.
LEMMA PodLists ==
  ASSUME UsageAssumption, NEW p \in Pods(PodStatus)
  PROVE  LET q == Total(RequestsOf(p.inits), RequestsOf(p.containers))
             l == Total(LimitsOf(p.inits), LimitsOf(p.containers))
         IN  /\ ContainerList(q) /\ ContainerList(l)
             /\ \A x : /\ Quantity(q, x) = Peak(RequestsOf(p.inits), RequestsOf(p.containers), x)
                       /\ Quantity(l, x) = Peak(LimitsOf(p.inits), LimitsOf(p.containers), x)
                       /\ Quantity(q, x) \in Nat /\ Quantity(l, x) \in Nat
<1>1. p.inits \in Seq(ContainerSpecs) /\ p.containers \in Seq(ContainerSpecs)
  BY DEF Pods
<1>2. PICK i, c : i = RequestsOf(p.inits) /\ c = RequestsOf(p.containers)
  OBVIOUS
<1>3. PICK j, d : j = LimitsOf(p.inits) /\ d = LimitsOf(p.containers)
  OBVIOUS
<1>4. /\ IsFiniteSet(DOMAIN i) /\ \A k \in DOMAIN i : ContainerList(i[k])
      /\ IsFiniteSet(DOMAIN c) /\ \A k \in DOMAIN c : ContainerList(c[k])
      /\ IsFiniteSet(DOMAIN j) /\ \A k \in DOMAIN j : ContainerList(j[k])
      /\ IsFiniteSet(DOMAIN d) /\ \A k \in DOMAIN d : ContainerList(d[k])
  BY <1>1, <1>2, <1>3, ContainerListsOf
<1>5. /\ ContainerList(Total(i, c))
      /\ \A x : Quantity(Total(i, c), x) = Peak(i, c, x) /\ Peak(i, c, x) \in Nat
  BY <1>4, TotalIsPeak
<1>6. /\ ContainerList(Total(j, d))
      /\ \A x : Quantity(Total(j, d), x) = Peak(j, d, x) /\ Peak(j, d, x) \in Nat
  BY <1>4, TotalIsPeak
<1> QED
  BY <1>2, <1>3, <1>5, <1>6

\* Words before the name of a resource do not make it native, or not.
LEMMA NativeBehind ==
  ASSUME NEW x, ResourceName(x)
  PROVE  IsNativeResource(Requests(x)) <=> IsNativeResource(x)
<1>1. \A part : Has(Requests(x), part) <=> part = "requests." \/ Has(x, part)
  BY WordBefore DEF Requests
<1> QED
  BY <1>1 DEF IsNativeResource, Slashed, StorageClass

\* The pod evaluator matches every name it charges.
LEMMA PodNamesMatch ==
  ASSUME NEW x, ResourceName(x), Head(x) # "requests."
  PROVE  /\ \A n \in RequestNames(x) : n \in MatchingResources("pods", {n})
         /\ \A n \in LimitNames(x) : n \in MatchingResources("pods", {n})
<1>1. ASSUME NEW n \in RequestNames(x)
      PROVE  n \in PodResources \/ IsQuotaHugePage(n) \/ IsExtendedResourceNameForQuota(n)
  <2>1. CASE x \in {Cpu, Memory, Ephemeral} /\ n \in {x, Requests(x)}
    BY <2>1 DEF PodResources
  <2>2. CASE IsPrefix(<<"hugepages-">>, x) /\ n = x
    BY <2>2 DEF IsQuotaHugePage
  <2>3. CASE IsPrefix(<<"hugepages-">>, x) /\ n = Requests(x)
    <3>1. Head(x) = "hugepages-"
      BY <2>3, PrefixOfOne
    <3>2. IsPrefix(Requests(<<"hugepages-">>), Requests(x))
      BY <3>1, PrefixOfTwo DEF Requests
    <3> QED
      BY <2>3, <3>2 DEF IsQuotaHugePage
  <2>4. CASE IsExtendedResourceName(x) /\ n = Requests(x)
    <3>1. ~IsNativeResource(n)
      BY <2>4, NativeBehind DEF IsExtendedResourceName
    <3>2. Head(n) = "requests."
      BY <2>4, WordBefore DEF Requests
    <3> QED
      BY <3>1, <3>2 DEF IsExtendedResourceNameForQuota
  <2> QED
    BY <2>1, <2>2, <2>3, <2>4 DEF RequestNames
<1>2. ASSUME NEW n \in LimitNames(x)
      PROVE  n \in PodResources
  BY DEF LimitNames, PodResources
<1> QED
  BY <1>1, <1>2 DEF MatchingResources

\* What a quota's name finds among the renamed requests.
LEMMA RequestFound ==
  ASSUME NEW a, ContainerList(a), NEW r, ResourceName(r), r \in MatchingResources("pods", {r})
  PROVE  Quantity(Renamed(a, RequestNames), r) =
           IF Head(r) = "requests." THEN Quantity(a, Tail(r))
           ELSE IF r \in {Cpu, Memory, Ephemeral} \/ Head(r) = "hugepages-" THEN Quantity(a, r)
           ELSE 0
<1> DEFINE v == Renamed(a, RequestNames)
<1>1. /\ DOMAIN v = UNION {RequestNames(x) : x \in DOMAIN a}
      /\ \A x \in DOMAIN a : \A n \in RequestNames(x) : v[n] = a[x]
  BY RequestsRenamed
<1>2. \A x \in DOMAIN a : ResourceName(x) /\ Head(x) # "requests."
  BY DEF ContainerList
<1> HIDE DEF v
<1>3. CASE Head(r) = "requests."
  <2>1. PICK x : x = Tail(r) /\ r = Requests(x)
    BY <1>3, WordFirst DEF Requests
  <2>2. ASSUME x \in DOMAIN a
        PROVE  r \in RequestNames(x)
    <3>1. ResourceName(x) /\ Head(x) # "requests."
      BY <1>2, <2>2
    <3>2. r \in PodResources \/ IsQuotaHugePage(r) \/ IsExtendedResourceNameForQuota(r)
      BY DEF MatchingResources
    <3>3. CASE r \in PodResources
      <4>1. ASSUME NEW y, r = Requests(y), y \in {Cpu, Memory, Ephemeral}
            PROVE  r \in RequestNames(x)
        <5>1. ResourceName(y)
          BY <4>1, OneWord DEF Cpu, Memory, Ephemeral
        <5>2. x = y
          BY <2>1, <4>1, <5>1, WordBefore DEF Requests
        <5> QED
          BY <2>1, <4>1, <5>2 DEF RequestNames
      <4>2. ASSUME NEW y, r = Limits(y), y \in {Cpu, Memory, Ephemeral}
            PROVE  FALSE
        <5>1. ResourceName(y)
          BY <4>2, OneWord DEF Cpu, Memory, Ephemeral
        <5>2. Head(r) = "limits."
          BY <4>2, <5>1, WordBefore DEF Limits
        <5> QED
          BY <1>3, <5>2
      <4>3. r \notin {Count("pods"), PodCount, Cpu, Memory, Ephemeral}
        BY <1>3 DEF Count, PodCount, Cpu, Memory, Ephemeral
      <4> QED
        BY <3>3, <4>1, <4>2, <4>3 DEF PodResources
    <3>4. CASE IsQuotaHugePage(r)
      <4>1. ~IsPrefix(<<"hugepages-">>, r)
        BY <1>3, PrefixOfOne
      <4>2. IsPrefix(Requests(<<"hugepages-">>), Requests(x))
        BY <2>1, <3>4, <4>1 DEF IsQuotaHugePage
      <4>3. Head(x) = "hugepages-"
        BY <3>1, <4>2, PrefixOfTwo DEF Requests
      <4>4. IsPrefix(<<"hugepages-">>, x)
        BY <3>1, <4>3, PrefixOfOne
      <4> QED
        BY <2>1, <4>4 DEF RequestNames
    <3>5. CASE IsExtendedResourceNameForQuota(r)
      <4>1. ~IsNativeResource(x)
        BY <2>1, <3>1, <3>5, NativeBehind DEF IsExtendedResourceNameForQuota
      <4> QED
        BY <2>1, <3>1, <4>1 DEF RequestNames, IsExtendedResourceName
    <3> QED
      BY <3>2, <3>3, <3>4, <3>5
  <2>3. ASSUME r \in DOMAIN v
        PROVE  x \in DOMAIN a /\ v[r] = a[x]
    <3>1. PICK y \in DOMAIN a : r \in RequestNames(y)
      BY <1>1, <2>3
    <3>2. y = x
      BY <1>2, <1>3, <2>1, <3>1, RequestNamesAre
    <3> QED
      BY <1>1, <3>1, <3>2
  <2>4. x \in DOMAIN a => r \in DOMAIN v
    BY <1>1, <2>2
  <2> QED
    BY <1>3, <2>1, <2>3, <2>4 DEF Quantity, v
<1>4. CASE Head(r) # "requests."
  <2>1. ASSUME NEW y \in DOMAIN a, r \in RequestNames(y)
        PROVE  y = r /\ (r \in {Cpu, Memory, Ephemeral} \/ Head(r) = "hugepages-")
    BY <1>2, <1>4, <2>1, RequestNamesAre
  <2>2. IsPrefix(<<"hugepages-">>, r) <=> Head(r) = "hugepages-"
    BY PrefixOfOne
  <2>3. r \in {Cpu, Memory, Ephemeral} \/ Head(r) = "hugepages-" => r \in RequestNames(r)
    BY <2>2 DEF RequestNames
  <2>4. r \in DOMAIN v <=> r \in DOMAIN a /\ (r \in {Cpu, Memory, Ephemeral} \/ Head(r) = "hugepages-")
    BY <1>1, <2>1, <2>3
  <2>5. r \in DOMAIN v => v[r] = a[r]
    BY <1>1, <2>1
  <2> QED
    BY <1>4, <2>4, <2>5 DEF Quantity, v
<1> QED
  BY <1>3, <1>4

\* ... and among the renamed limits.
LEMMA LimitFound ==
  ASSUME NEW a, ContainerList(a), NEW r, ResourceName(r), r \in MatchingResources("pods", {r})
  PROVE  Quantity(Renamed(a, LimitNames), r) =
           IF Head(r) = "limits." THEN Quantity(a, Tail(r)) ELSE 0
<1> DEFINE v == Renamed(a, LimitNames)
<1>1. /\ DOMAIN v = UNION {LimitNames(x) : x \in DOMAIN a}
      /\ \A x \in DOMAIN a : \A n \in LimitNames(x) : v[n] = a[x]
  BY LimitsRenamed
<1>2. \A x \in DOMAIN a : ResourceName(x)
  BY DEF ContainerList
<1> HIDE DEF v
<1>3. \A y \in DOMAIN a : r \in LimitNames(y) => y = Tail(r) /\ Head(r) = "limits."
  BY <1>2, LimitNamesAre
<1>4. CASE Head(r) # "limits."
  <2>1. r \notin DOMAIN v
    BY <1>1, <1>3, <1>4
  <2> QED
    BY <1>4, <2>1 DEF Quantity, v
<1>5. CASE Head(r) = "limits."
  <2>1. r \in PodResources
    <3>1. ~IsPrefix(<<"hugepages-">>, r)
      BY <1>5, PrefixOfOne
    <3>2. ~IsPrefix(Requests(<<"hugepages-">>), r)
      <4>1. r = <<"limits.">> \o Tail(r)
        BY <1>5, WordFirst
      <4>2. PICK q : q = Requests(<<"hugepages-">>)
        OBVIOUS
      <4>3. q[1] = "requests." /\ Len(q) = 2
        BY <4>2 DEF Requests
      <4>4. r[1] = "limits." /\ Len(r) \in Nat
        BY <1>5, WordFirst
      <4> QED
        BY <4>2, <4>3, <4>4 DEF IsPrefix
    <3>3. ~IsExtendedResourceNameForQuota(r)
      BY <1>5 DEF IsExtendedResourceNameForQuota
    <3> QED
      BY <3>1, <3>2, <3>3 DEF MatchingResources, IsQuotaHugePage
  <2>2. PICK y \in {Cpu, Memory, Ephemeral} : r = Limits(y)
    <3>1. r \notin {Count("pods"), PodCount, Cpu, Memory, Ephemeral}
      BY <1>5 DEF Count, PodCount, Cpu, Memory, Ephemeral
    <3>2. ASSUME NEW y \in {Cpu, Memory, Ephemeral}, r = Requests(y)
          PROVE  FALSE
      <4>1. ResourceName(y)
        BY OneWord DEF Cpu, Memory, Ephemeral
      <4>2. Head(r) = "requests."
        BY <3>2, <4>1, WordBefore DEF Requests
      <4> QED
        BY <1>5, <4>2
    <3> QED
      BY <2>1, <3>1, <3>2 DEF PodResources
  <2>3. y = Tail(r)
    <3>1. ResourceName(y)
      BY OneWord DEF Cpu, Memory, Ephemeral
    <3> QED
      BY <2>2, <3>1, WordBefore DEF Limits
  <2>4. r \in LimitNames(y)
    BY <2>2 DEF LimitNames
  <2>5. r \in DOMAIN v <=> y \in DOMAIN a
    BY <1>1, <1>3, <2>3, <2>4
  <2>6. r \in DOMAIN v => v[r] = a[y]
    BY <1>1, <2>4, <2>5
  <2> QED
    BY <1>5, <2>3, <2>5, <2>6 DEF Quantity, v
<1> QED
  BY <1>4, <1>5

\* A pod is charged, under names that its evaluator matches, what it demands.
LEMMA PodCharged ==
  ASSUME UsageAssumption, NEW p \in Pods(PodStatus)
  PROVE  /\ IsList(PodUsage(p), Nat)
         /\ \A r \in DOMAIN PodUsage(p) : r \in MatchingResources("pods", {r})
         /\ \A r : ResourceName(r) /\ r \in MatchingResources("pods", {r}) =>
                     Quantity(PodUsage(p), r) = PodDemand(p, r)
<1> DEFINE one == [r \in {Count("pods")} |-> 1]
<1>1. PICK q, l : /\ q = Total(RequestsOf(p.inits), RequestsOf(p.containers))
                  /\ l = Total(LimitsOf(p.inits), LimitsOf(p.containers))
  OBVIOUS
<1>2. /\ ContainerList(q) /\ ContainerList(l)
      /\ \A x : /\ Quantity(q, x) = Peak(RequestsOf(p.inits), RequestsOf(p.containers), x)
                /\ Quantity(l, x) = Peak(LimitsOf(p.inits), LimitsOf(p.containers), x)
                /\ Quantity(q, x) \in Nat /\ Quantity(l, x) \in Nat
  BY <1>1, PodLists
<1>3. PICK h : h = PodComputeUsageHelper(q, l)
  OBVIOUS
<1>4. /\ IsList(h, Nat)
      /\ DOMAIN h = ({PodCount} \cup UNION {RequestNames(x) : x \in DOMAIN q})
                      \cup UNION {LimitNames(x) : x \in DOMAIN l}
      /\ \A r : Quantity(h, r) =
                  (IF r = PodCount THEN 1 ELSE 0) + Quantity(Renamed(q, RequestNames), r)
                    + Quantity(Renamed(l, LimitNames), r)
  <2>1. ContainerList(q) /\ ContainerList(l)
    BY <1>2
  <2> QED
    BY <1>3, <2>1, HelperIs
<1>5. IsList(one, Nat) /\ DOMAIN one = {Count("pods")}
      /\ \A r : Quantity(one, r) = IF r = Count("pods") THEN 1 ELSE 0
  BY DEF IsList, Quantity
<1>6. PodUsage(p) = IF p.status \in {"live", "grace"} THEN Add(one, h) ELSE one
  BY <1>1, <1>3 DEF PodUsage, QuotaV1Pod
<1> HIDE DEF one
<1>7. PICK u : u = Add(one, h)
  OBVIOUS
<1>8. /\ IsList(u, Nat) /\ DOMAIN u = DOMAIN one \cup DOMAIN h
      /\ \A r : Quantity(u, r) = Quantity(one, r) + Quantity(h, r)
  <2>1. IsList(one, Nat) /\ IsList(h, Nat)
    BY <1>4, <1>5
  <2> QED
    BY <1>7, <2>1, AddNat, ZenonT(30)
<1>9. IsList(PodUsage(p), Nat)
  BY <1>5, <1>6, <1>7, <1>8
<1>10. ASSUME NEW r \in DOMAIN PodUsage(p)
       PROVE  r \in MatchingResources("pods", {r})
  <2>1. Count("pods") \in PodResources /\ PodCount \in PodResources
    BY DEF PodResources
  <2>2. CASE r = Count("pods") \/ r = PodCount
    BY <2>1, <2>2 DEF MatchingResources
  <2>3. CASE r \in UNION {RequestNames(x) : x \in DOMAIN q}
    <3>1. PICK x \in DOMAIN q : r \in RequestNames(x)
      BY <2>3
    <3>2. ResourceName(x) /\ Head(x) # "requests."
      BY <1>2 DEF ContainerList
    <3> QED
      BY <3>1, <3>2, PodNamesMatch
  <2>4. CASE r \in UNION {LimitNames(x) : x \in DOMAIN l}
    <3>1. PICK x \in DOMAIN l : r \in LimitNames(x)
      BY <2>4
    <3>2. ResourceName(x) /\ Head(x) # "requests."
      BY <1>2 DEF ContainerList
    <3> QED
      BY <3>1, <3>2, PodNamesMatch
  <2> QED
    BY <1>4, <1>5, <1>6, <1>7, <1>8, <2>2, <2>3, <2>4
<1>11. ASSUME NEW r, ResourceName(r), r \in MatchingResources("pods", {r})
       PROVE  Quantity(PodUsage(p), r) = PodDemand(p, r)
  <2>1. Quantity(Renamed(q, RequestNames), r) =
           IF Head(r) = "requests." THEN Quantity(q, Tail(r))
           ELSE IF r \in {Cpu, Memory, Ephemeral} \/ Head(r) = "hugepages-" THEN Quantity(q, r)
           ELSE 0
    BY <1>2, <1>11, RequestFound
  <2>2. Quantity(Renamed(l, LimitNames), r) =
           IF Head(r) = "limits." THEN Quantity(l, Tail(r)) ELSE 0
    BY <1>2, <1>11, LimitFound
  <2>3. Quantity(u, r) = (IF r = Count("pods") THEN 1 ELSE 0) + ((IF r = PodCount THEN 1 ELSE 0)
           + Quantity(Renamed(q, RequestNames), r) + Quantity(Renamed(l, LimitNames), r))
    BY <1>4, <1>5, <1>8
  <2>4. CASE r = Count("pods")
    <3>1. Head(r) = "count/" /\ r # PodCount /\ r \notin {Cpu, Memory, Ephemeral}
      BY <2>4 DEF Count, PodCount, Cpu, Memory, Ephemeral
    <3>2. Quantity(u, r) = 1
      BY <2>1, <2>2, <2>3, <2>4, <3>1
    <3>3. Quantity(one, r) = 1 /\ PodUsage(p) \in {u, one}
      BY <1>5, <1>6, <1>7, <2>4
    <3>4. PodDemand(p, r) = 1
      BY <2>4 DEF PodDemand
    <3> QED
      BY <3>2, <3>3, <3>4
  <2>5. CASE r # Count("pods") /\ p.status \notin {"live", "grace"}
    <3>1. PodUsage(p) = one /\ Quantity(one, r) = 0
      BY <1>5, <1>6, <2>5
    <3>2. PodDemand(p, r) = 0
      BY <2>5 DEF PodDemand
    <3> QED
      BY <3>1, <3>2
  <2>6. CASE r = PodCount /\ p.status \in {"live", "grace"}
    <3>1. Head(r) = "pods" /\ r # Count("pods") /\ r \notin {Cpu, Memory, Ephemeral}
      BY <2>6 DEF Count, PodCount, Cpu, Memory, Ephemeral
    <3>2. Quantity(u, r) = 1
      BY <2>1, <2>2, <2>3, <2>6, <3>1
    <3> QED
      BY <1>6, <1>7, <2>6, <3>1, <3>2 DEF PodDemand
  <2>7. CASE r \notin {Count("pods"), PodCount} /\ p.status \in {"live", "grace"}
    <3>1. Quantity(u, r) = Quantity(Renamed(q, RequestNames), r) + Quantity(Renamed(l, LimitNames), r)
      <4>1. /\ Quantity(Renamed(q, RequestNames), r) \in Nat
            /\ Quantity(Renamed(l, LimitNames), r) \in Nat
        BY <1>2, <2>1, <2>2
      <4> QED
        BY <2>3, <2>7, <4>1
    <3>2. CASE Head(r) = "requests."
      <4>1. Quantity(u, r) = Quantity(q, Tail(r))
        BY <1>2, <2>1, <2>2, <3>1, <3>2
      <4> QED
        BY <1>2, <1>6, <1>7, <2>7, <3>2, <4>1 DEF PodDemand
    <3>3. CASE Head(r) = "limits."
      <4>1. r \notin {Cpu, Memory, Ephemeral}
        BY <3>3 DEF Cpu, Memory, Ephemeral
      <4>2. Quantity(u, r) = Quantity(l, Tail(r))
        BY <1>2, <2>1, <2>2, <3>1, <3>3, <4>1
      <4> QED
        BY <1>2, <1>6, <1>7, <2>7, <3>3, <4>2 DEF PodDemand
    <3>4. CASE Head(r) \notin {"requests.", "limits."}
      <4>1. r \in {Cpu, Memory, Ephemeral} \/ Head(r) = "hugepages-"
        <5>1. ~IsExtendedResourceNameForQuota(r)
          BY <3>4 DEF IsExtendedResourceNameForQuota
        <5>2. IsQuotaHugePage(r) => Head(r) = "hugepages-"
          <6>1. IsPrefix(<<"hugepages-">>, r) => Head(r) = "hugepages-"
            BY <1>11, PrefixOfOne
          <6>2. ~IsPrefix(Requests(<<"hugepages-">>), r)
            <7>1. PICK w : w = Requests(<<"hugepages-">>)
              OBVIOUS
            <7>2. w[1] = "requests." /\ Len(w) = 2
              BY <7>1 DEF Requests
            <7>3. r[1] # "requests." /\ Len(r) \in Nat
              BY <1>11, <3>4, WordFirst
            <7> QED
              BY <7>1, <7>2, <7>3 DEF IsPrefix
          <6> QED
            BY <6>1, <6>2 DEF IsQuotaHugePage
        <5>3. ASSUME NEW y \in {Cpu, Memory, Ephemeral}
              PROVE  r # Requests(y) /\ r # Limits(y)
          <6>1. ResourceName(y)
            BY OneWord DEF Cpu, Memory, Ephemeral
          <6>2. Head(Requests(y)) = "requests." /\ Head(Limits(y)) = "limits."
            BY <6>1, WordBefore DEF Requests, Limits
          <6> QED
            BY <3>4, <6>2
        <5> QED
          BY <1>11, <2>7, <5>1, <5>2, <5>3 DEF MatchingResources, PodResources
      <4>2. Quantity(u, r) = Quantity(q, r)
        BY <1>2, <2>1, <2>2, <3>1, <3>4, <4>1
      <4> QED
        BY <1>2, <1>6, <1>7, <2>7, <3>4, <4>2 DEF PodDemand
    <3> QED
      BY <3>2, <3>3, <3>4
  <2> QED
    BY <2>4, <2>5, <2>6, <2>7
<1> QED
  BY <1>9, <1>10, <1>11

\* A service is charged what it demands.
LEMMA ServiceCharged ==
  ASSUME NEW s \in [kind : {"services"}, type : STRING, ports : Nat]
  PROVE  /\ IsList(ServiceUsage(s), Nat)
         /\ \A r \in DOMAIN ServiceUsage(s) : r \in MatchingResources("services", {r})
         /\ \A r : r \in MatchingResources("services", {r}) =>
                     Quantity(ServiceUsage(s), r) = Demand(s, r)
<1>1. s.kind = "services" /\ s.ports \in Nat
  OBVIOUS
<1>2. NodePorts # LoadBalancers
  BY DEF NodePorts, LoadBalancers
<1>3. DOMAIN ServiceUsage(s) = ServiceResources
  BY DEF ServiceUsage
<1>4. ASSUME NEW r \in ServiceResources
      PROVE  ServiceUsage(s)[r] = Demand(s, r) /\ Demand(s, r) \in Nat
  <2>1. CASE r = NodePorts
    BY <1>1, <1>2, <2>1 DEF ServiceUsage, Demand
  <2>2. CASE r = LoadBalancers
    BY <1>1, <1>2, <2>2 DEF ServiceUsage, Demand
  <2>3. CASE r \notin {NodePorts, LoadBalancers}
    BY <1>1, <2>3 DEF ServiceUsage, Demand
  <2> QED
    BY <2>1, <2>2, <2>3
<1>5. IsList(ServiceUsage(s), Nat)
  <2>1. ServiceUsage(s) = [r \in ServiceResources |-> ServiceUsage(s)[r]]
    BY DEF ServiceUsage
  <2> QED
    BY <1>3, <1>4, <2>1 DEF IsList
<1>6. \A r : r \in MatchingResources("services", {r}) <=> r \in ServiceResources
  BY DEF MatchingResources
<1> QED
  BY <1>3, <1>4, <1>5, <1>6 DEF Quantity

-----------------------------------------------------------------------------
(* Claims: the names with a storage class.                                 *)

\* The parts of a name with a class.
Classed(r, class, c) ==
  LET m == Len(class)
  IN  /\ m \in Nat /\ Len(c) \in Nat /\ Len(r) = m + 1 + Len(c)
      /\ \A i \in 1..Len(r) : r[i] = IF i <= m THEN class[i]
                                   ELSE IF i = m + 1 THEN StorageClass ELSE c[i - (m + 1)]

\* A name by class is the class, the word and the resource.
LEMMA ByClassParts ==
  ASSUME NEW T, StorageClass \in T, NEW class \in Seq(T), NEW c \in Seq(T)
  PROVE  ByClass(class, c) \in Seq(T) /\ Classed(ByClass(class, c), class, c)
<1> DEFINE h == <<StorageClass>>
<1>0. PICK r, m : r = ByClass(class, c) /\ m = Len(class)
  OBVIOUS
<1>1. h \in Seq(T) /\ Len(h) = 1 /\ h[1] = StorageClass
  OBVIOUS
<1>2. m \in Nat /\ Len(c) \in Nat
  BY <1>0, LenProperties
<1> HIDE DEF h
<1>3. PICK p : p = class \o h
  OBVIOUS
<1>4. /\ p \in Seq(T) /\ Len(p) = m + Len(h)
      /\ \A i \in 1..m + Len(h) : p[i] = IF i <= m THEN class[i] ELSE h[i - m]
  BY <1>0, <1>1, <1>3, ConcatProperties
<1>5. p \in Seq(T) /\ Len(p) = m + 1 /\ p[m + 1] = StorageClass /\ \A i \in 1..m : p[i] = class[i]
  BY <1>1, <1>2, <1>4
<1>6. r = p \o c
  BY <1>0, <1>3 DEF ByClass, h
<1>7. /\ r \in Seq(T) /\ Len(r) = Len(p) + Len(c)
      /\ \A i \in 1..Len(p) + Len(c) : r[i] = IF i <= Len(p) THEN p[i] ELSE c[i - Len(p)]
  <2>1. p \in Seq(T)
    BY <1>4
  <2> QED
    BY <1>6, <2>1, ConcatProperties
<1>8. Len(r) = m + 1 + Len(c)
  BY <1>2, <1>5, <1>7
<1>9. ASSUME NEW i \in 1..Len(r)
      PROVE  r[i] = IF i <= m THEN class[i] ELSE IF i = m + 1 THEN StorageClass ELSE c[i - (m + 1)]
  <2>1. r[i] = IF i <= m + 1 THEN p[i] ELSE c[i - (m + 1)]
    BY <1>2, <1>5, <1>7
  <2> QED
    BY <1>2, <1>5, <2>1
<1> QED
  BY <1>0, <1>2, <1>7, <1>8, <1>9 DEF Classed

\* The end of a sequence.
LEMMA SuffixIs ==
  ASSUME NEW T, NEW x \in Seq(T), NEW r \in Seq(T)
  PROVE  /\ Len(x) \in Nat /\ Len(r) \in Nat
         /\ IsSuffix(x, r) <=>
              /\ Len(x) <= Len(r)
              /\ \A i \in 1..Len(x) : r[Len(r) - Len(x) + i] = x[i]
<1>1. Len(x) \in Nat /\ Len(r) \in Nat
  BY LenProperties
<1>2. PICK u, v : u = Reverse(x) /\ v = Reverse(r)
  OBVIOUS
<1>3. /\ u = [i \in 1..Len(x) |-> x[(Len(x) - i) + 1]] /\ Len(u) = Len(x)
      /\ v = [i \in 1..Len(r) |-> r[(Len(r) - i) + 1]] /\ Len(v) = Len(r)
  BY <1>1, <1>2 DEF Reverse
<1>4. IsSuffix(x, r) <=> Len(u) <= Len(v) /\ SubSeq(u, 1, Len(u)) = SubSeq(v, 1, Len(u))
  BY <1>2 DEF IsSuffix, IsPrefix
<1>5. ASSUME Len(x) <= Len(r)
      PROVE  (SubSeq(u, 1, Len(u)) = SubSeq(v, 1, Len(u))) <=> \A i \in 1..Len(x) : u[i] = v[i]
  <2>1. u \in Seq(T) /\ v \in Seq(T)
    <3>1. \A i \in 1..Len(x) : x[(Len(x) - i) + 1] \in T
      BY <1>1, ElementOfSeq
    <3>2. \A i \in 1..Len(r) : r[(Len(r) - i) + 1] \in T
      BY <1>1, ElementOfSeq
    <3> QED
      BY <1>1, <1>3, <3>1, <3>2
  <2>2. PICK n \in Nat : n = Len(u) /\ n = Len(x) /\ n <= Len(v)
    BY <1>1, <1>3, <1>5
  <2>3. PICK a, b : a = SubSeq(u, 1, n) /\ b = SubSeq(v, 1, n)
    OBVIOUS
  <2>4. \A i \in 1..n : u[i] \in T /\ v[i] \in T
    <3>1. \A i \in 1..n : i \in 1..Len(u) /\ i \in 1..Len(v)
      BY <1>1, <1>3, <2>2
    <3> QED
      BY <2>1, <3>1, ElementOfSeq
  <2>5. /\ a \in Seq(T) /\ Len(a) = n /\ \A i \in 1..n : a[i] = u[i]
        /\ b \in Seq(T) /\ Len(b) = n /\ \A i \in 1..n : b[i] = v[i]
    BY <2>3, <2>4, SubSeqProperties
  <2>6. (\A i \in 1..n : a[i] = b[i]) => a = b
    BY <2>5, SeqEqual
  <2> QED
    BY <2>2, <2>3, <2>5, <2>6
<1>6. ASSUME Len(x) <= Len(r)
      PROVE  (\A i \in 1..Len(x) : u[i] = v[i]) <=> \A i \in 1..Len(x) : r[Len(r) - Len(x) + i] = x[i]
  <2>1. ASSUME \A i \in 1..Len(x) : u[i] = v[i], NEW i \in 1..Len(x)
        PROVE  r[Len(r) - Len(x) + i] = x[i]
    <3>0. Len(x) + 1 - i \in 1..Len(x)
      BY <1>1
    <3>1. PICK j \in 1..Len(x) : j = Len(x) + 1 - i
      BY <3>0
    <3>2. u[j] = x[(Len(x) - j) + 1] /\ v[j] = r[(Len(r) - j) + 1]
      BY <1>1, <1>3, <1>6, <3>1
    <3>3. (Len(x) - j) + 1 = i /\ (Len(r) - j) + 1 = Len(r) - Len(x) + i
      BY <1>1, <3>1
    <3> QED
      BY <2>1, <3>1, <3>2, <3>3
  <2>2. ASSUME \A i \in 1..Len(x) : r[Len(r) - Len(x) + i] = x[i], NEW j \in 1..Len(x)
        PROVE  u[j] = v[j]
    <3>0. Len(x) + 1 - j \in 1..Len(x)
      BY <1>1
    <3>1. PICK i \in 1..Len(x) : i = Len(x) + 1 - j
      BY <3>0
    <3>2. u[j] = x[(Len(x) - j) + 1] /\ v[j] = r[(Len(r) - j) + 1]
      BY <1>1, <1>3, <1>6, <3>1
    <3>3. (Len(x) - j) + 1 = i /\ (Len(r) - j) + 1 = Len(r) - Len(x) + i
      BY <1>1, <3>1
    <3> QED
      BY <2>2, <3>1, <3>2, <3>3
  <2> QED
    BY <2>1, <2>2
<1>7. Len(u) = Len(x) /\ Len(v) = Len(r)
  BY <1>3
<1> QED
  BY <1>1, <1>4, <1>5, <1>6, <1>7

\* The words of a claim's names.
Words == STRING \cup {StorageClass, "persistentvolumeclaims", "requests.", "storage"}

\* The two resources of a claim, word by word.
LEMMA ClaimNames ==
  /\ Claims \in Seq(Words) /\ Len(Claims) = 1 /\ Claims[1] = "persistentvolumeclaims"
  /\ Storage \in Seq(Words) /\ Len(Storage) = 2
  /\ Storage[1] = "requests." /\ Storage[2] = "storage"
  /\ StorageClass \in Words
<1>1. StorageClass \in Words /\ "persistentvolumeclaims" \in Words /\ "requests." \in Words /\ "storage" \in Words
  BY DEF Words
<1>2. /\ <<"persistentvolumeclaims">> \in Seq(Words) /\ Len(<<"persistentvolumeclaims">>) = 1
      /\ <<"persistentvolumeclaims">>[1] = "persistentvolumeclaims"
  BY <1>1
<1>3. PICK s : s = <<"storage">>
  OBVIOUS
<1>4. s \in Seq(Words) /\ Len(s) = 1 /\ s[1] = "storage"
  BY <1>1, <1>3
<1>5. PICK r : r = <<"requests.">> \o s
  OBVIOUS
<1>6. /\ r \in Seq(Words \cup {"requests."}) /\ Len(r) = Len(s) + 1 /\ r[1] = "requests."
      /\ \A i \in 1..Len(s) : r[i + 1] = s[i]
  BY <1>4, <1>5, Prefixed
<1>7. r \in Seq(Words) /\ Len(r) = 2 /\ r[2] = "storage"
  <2>1. Words \cup {"requests."} = Words
    BY <1>1
  <2> QED
    BY <1>4, <1>6, <2>1
<1>8. Storage = r
  BY <1>3, <1>5 DEF Storage, Requests
<1> QED
  BY <1>1, <1>2, <1>6, <1>7, <1>8 DEF Claims

\* A name with a class ends with the class's word and the name without.
LEMMA ByClassEnds ==
  ASSUME NEW class \in Seq(Words), NEW c \in {Claims, Storage}
  PROVE  IsSuffix(<<StorageClass>> \o c, ByClass(class, c))
<1>1. PICK x, r, m : x = <<StorageClass>> \o c /\ r = ByClass(class, c) /\ m = Len(class)
  OBVIOUS
<1>2. c \in Seq(Words) /\ StorageClass \in Words /\ Words \cup {StorageClass} = Words
  BY ClaimNames
<1>3. /\ x \in Seq(Words) /\ Len(x) = Len(c) + 1 /\ x[1] = StorageClass
      /\ \A i \in 1..Len(c) : x[i + 1] = c[i]
  BY <1>1, <1>2, Prefixed
<1>4. /\ r \in Seq(Words) /\ m \in Nat /\ Len(c) \in Nat /\ Len(r) = m + 1 + Len(c)
      /\ \A i \in 1..Len(r) : r[i] = IF i <= m THEN class[i]
                                   ELSE IF i = m + 1 THEN StorageClass ELSE c[i - (m + 1)]
  <2>1. r \in Seq(Words) /\ Classed(r, class, c)
    BY <1>1, <1>2, ByClassParts
  <2> QED
    BY <1>1, <2>1 DEF Classed
<1>5. Len(x) <= Len(r) /\ Len(r) - Len(x) = m
  BY <1>3, <1>4
<1>6. ASSUME NEW i \in 1..Len(x) PROVE r[m + i] = x[i]
  <2>1. m + i \in 1..Len(r) /\ ~(m + i <= m) /\ (m + i = m + 1 <=> i = 1) /\ m + i - (m + 1) = i - 1
    BY <1>3, <1>4
  <2>2. r[m + i] = IF i = 1 THEN StorageClass ELSE c[i - 1]
    BY <1>4, <2>1
  <2>3. i # 1 => i - 1 \in 1..Len(c) /\ (i - 1) + 1 = i
    BY <1>3, <1>4
  <2>4. i # 1 => x[i] = c[i - 1]
    BY <1>3, <2>3
  <2> QED
    BY <1>3, <2>2, <2>4
<1> QED
  BY <1>1, <1>3, <1>4, <1>5, <1>6, SuffixIs, ZenonT(30)

\* A quota's name with a class is the class, its word and the name without;
\* the class of a claim is before it in no other.
LEMMA ByClassOnly ==
  ASSUME NEW class \in Seq(Words), NEW c \in {Claims, Storage},
         NEW r, QuotaName(r), IsSuffix(<<StorageClass>> \o c, r)
  PROVE  /\ Has(r, StorageClass) /\ Len(r) \in Nat /\ Len(r) > Len(c) + 1
         /\ Last(r) = Last(c)
         /\ IsPrefix(class \o <<StorageClass>>, r) => r = ByClass(class, c) /\ class # <<>>
         /\ \A d \in {Claims, Storage} :
              r = ByClass(class, d) => d = c /\ IsPrefix(class \o <<StorageClass>>, r)
<1> DEFINE T == Words \cup Range(r)
           x == <<StorageClass>> \o c
           m == Len(class)
<1>1. c \in Seq(T) /\ class \in Seq(T) /\ r \in Seq(T) /\ r # <<>> /\ StorageClass \in T
  <2>1. r \in Seq(Range(r)) /\ r # <<>>
    BY DEF QuotaName, ResourceName
  <2> QED
    BY <2>1, ClaimNames, SeqMonotonic
<1>2. T \cup {StorageClass} = T
  BY <1>1
<1>3. Len(c) \in {1, 2} /\ c[Len(c)] = Last(c)
  BY ClaimNames DEF Last
<1>4. m \in Nat /\ Len(r) \in Nat
  BY <1>1, LenProperties
<1> HIDE DEF T
<1>5. /\ x \in Seq(T) /\ Len(x) = Len(c) + 1 /\ x[1] = StorageClass
      /\ \A i \in 1..Len(c) : x[i + 1] = c[i]
  BY <1>1, <1>2, Prefixed
<1> HIDE DEF x
<1>6. Len(x) <= Len(r) /\ \A i \in 1..Len(x) : r[Len(r) - Len(x) + i] = x[i]
  <2>1. IsSuffix(x, r)
    BY DEF x
  <2> QED
    BY <1>1, <1>5, <2>1, SuffixIs
<1>7. PICK k \in Nat : k = Len(r) - Len(c) - 1
  <2>1. Len(r) - Len(c) - 1 \in Nat
    BY <1>3, <1>4, <1>5, <1>6
  <2> QED
    BY <2>1
<1>8. Len(r) = k + 1 + Len(c) /\ Len(r) - Len(x) = k
  BY <1>3, <1>4, <1>5, <1>7
<1>9. r[k + 1] = StorageClass /\ \A j \in 1..Len(c) : r[k + 1 + j] = c[j]
  <2>1. r[k + 1] = x[1]
    BY <1>3, <1>5, <1>6, <1>8
  <2>2. ASSUME NEW j \in 1..Len(c) PROVE r[k + 1 + j] = c[j]
    <3>1. r[k + (j + 1)] = x[j + 1]
      BY <1>3, <1>5, <1>6, <1>8
    <3>2. k + (j + 1) = k + 1 + j
      BY <1>3
    <3> QED
      BY <1>5, <3>1, <3>2
  <2> QED
    BY <1>5, <2>1, <2>2
<1>10. DOMAIN r = 1..Len(r)
  BY <1>1, LenProperties
<1>11. \A i \in DOMAIN r : r[i] = StorageClass => i = k + 1
  <2>1. k + 1 \in DOMAIN r
    BY <1>3, <1>8, <1>10
  <2> QED
    BY <1>9, <2>1 DEF QuotaName
<1>12. k # 0
  BY <1>9 DEF QuotaName
<1>13. Has(r, StorageClass) /\ Len(r) > Len(c) + 1
  <2>1. k + 1 \in DOMAIN r
    BY <1>3, <1>8, <1>10
  <2>2. Has(r, StorageClass)
    BY <1>9, <2>1 DEF Has
  <2> QED
    BY <1>3, <1>8, <1>12, <2>2
<1>14. Last(r) = Last(c)
  <2>1. r[k + 1 + Len(c)] = c[Len(c)]
    BY <1>3, <1>9
  <2> QED
    BY <1>3, <1>8, <2>1 DEF Last
<1>15. PICK p : p = class \o <<StorageClass>>
  OBVIOUS
<1>16. Len(p) = m + 1 /\ p[m + 1] = StorageClass /\ p \in Seq(T) /\ \A i \in 1..m : p[i] = class[i]
  <2>1. PICK h : h = <<StorageClass>>
    OBVIOUS
  <2>2. h \in Seq(T) /\ Len(h) = 1 /\ h[1] = StorageClass
    BY <1>1, <2>1
  <2>3. /\ p \in Seq(T) /\ Len(p) = m + Len(h)
        /\ \A i \in 1..m + Len(h) : p[i] = IF i <= m THEN class[i] ELSE h[i - m]
    BY <1>1, <1>15, <2>1, <2>2, ConcatProperties
  <2> QED
    BY <1>4, <2>2, <2>3
<1>17. IsPrefix(p, r) <=> m + 1 <= Len(r) /\ \A i \in 1..m + 1 : r[i] = p[i]
  BY <1>1, <1>4, <1>16 DEF IsPrefix
<1>18. ASSUME NEW d \in {Claims, Storage}, NEW s, s = ByClass(class, d)
       PROVE  /\ s \in Seq(T) /\ Len(s) = m + 1 + Len(d) /\ Len(d) \in {1, 2}
              /\ \A i \in 1..Len(s) : s[i] = IF i <= m THEN class[i]
                                           ELSE IF i = m + 1 THEN StorageClass ELSE d[i - (m + 1)]
  <2>1. d \in Seq(T) /\ Len(d) \in {1, 2}
    BY ClaimNames, SeqMonotonic DEF T
  <2>2. d \in Seq(T) /\ class \in Seq(T) /\ StorageClass \in T
    BY <1>1, <2>1
  <2>3. s \in Seq(T) /\ Classed(s, class, d)
    BY <1>18, <2>2, ByClassParts
  <2> QED
    BY <2>1, <2>3 DEF Classed
<1>19. ASSUME IsPrefix(p, r)
       PROVE  r = ByClass(class, c) /\ class # <<>>
  <2>1. m = k
    <3>1. m + 1 \in DOMAIN r /\ r[m + 1] = StorageClass
      BY <1>4, <1>10, <1>16, <1>17, <1>19
    <3> QED
      BY <1>4, <1>11, <3>1
  <2>2. class # <<>>
    BY <1>12, <2>1, EmptySeq
  <2>3. PICK s : s = ByClass(class, c)
    OBVIOUS
  <2>4. /\ s \in Seq(T) /\ Len(s) = Len(r)
        /\ \A i \in 1..Len(r) : s[i] = IF i <= m THEN class[i]
                                     ELSE IF i = m + 1 THEN StorageClass ELSE c[i - (m + 1)]
    <3>1. Len(s) = m + 1 + Len(c)
      BY <1>18, <2>3
    <3>2. Len(s) = Len(r)
      BY <1>8, <2>1, <3>1
    <3> QED
      BY <1>18, <2>3, <3>2
  <2>5. ASSUME NEW i \in 1..Len(r) PROVE r[i] = s[i]
    <3>1. CASE i <= m
      <4>1. i \in 1..m /\ i \in 1..m + 1
        BY <1>4, <3>1
      <4>2. s[i] = class[i]
        BY <2>4, <3>1
      <4>3. r[i] = p[i]
        BY <1>17, <1>19, <4>1
      <4> QED
        BY <1>16, <4>1, <4>2, <4>3
    <3>2. CASE i = m + 1
      <4>1. s[i] = StorageClass
        BY <1>4, <2>4, <3>2
      <4> QED
        BY <1>9, <2>1, <3>2, <4>1
    <3>3. CASE i > m + 1
      <4>1. PICK j \in 1..Len(c) : i = m + 1 + j
        <5>1. i - m - 1 \in 1..Len(c) /\ i = m + 1 + (i - m - 1)
          BY <1>3, <1>4, <1>8, <2>1, <3>3
        <5> QED
          BY <5>1
      <4>2. s[i] = c[j]
        BY <1>4, <2>4, <3>3, <4>1
      <4>3. r[k + 1 + j] = c[j]
        BY <1>9
      <4> QED
        BY <2>1, <4>1, <4>2, <4>3
    <3> QED
      BY <1>4, <3>1, <3>2, <3>3
  <2>6. r = s
    BY <1>1, <2>4, <2>5, SeqEqual
  <2> QED
    BY <2>2, <2>3, <2>6
<1>20. ASSUME NEW d \in {Claims, Storage}, r = ByClass(class, d)
       PROVE  d = c /\ IsPrefix(p, r)
  <2>0. /\ Len(r) = m + 1 + Len(d) /\ Len(d) \in {1, 2}
        /\ \A i \in 1..Len(r) : r[i] = IF i <= m THEN class[i]
                                     ELSE IF i = m + 1 THEN StorageClass ELSE d[i - (m + 1)]
    BY <1>18, <1>20
  <2>1. /\ Len(r) = m + 1 + Len(d) /\ Len(d) \in {1, 2} /\ r[m + 1] = StorageClass
        /\ \A i \in 1..m : r[i] = class[i]
    BY <1>4, <2>0
  <2>2. m + 1 \in DOMAIN r
    BY <1>4, <1>10, <2>1
  <2>3. m = k
    BY <1>4, <1>11, <2>1, <2>2
  <2>4. Len(d) = Len(c)
    BY <1>3, <1>8, <2>1, <2>3
  <2>5. d = c
    BY <2>4, ClaimNames
  <2>6. \A i \in 1..m + 1 : r[i] = p[i]
    BY <1>4, <1>16, <2>1
  <2>7. m + 1 <= Len(r)
    BY <1>4, <2>1
  <2> QED
    BY <1>17, <2>5, <2>6, <2>7
<1> QED
  BY <1>4, <1>13, <1>14, <1>15, <1>19, <1>20

\* Names and quantities of a claim's usage.
LEMMA ClaimUsageIs ==
  ASSUME NEW c, c.size \in Nat \cup {None}, None \notin Nat
  PROVE  LET names == {Claims, Count("persistentvolumeclaims")}
             classed == {ByClass(c.class, Claims), ByClass(c.class, Storage)}
         IN  /\ IsList(ClaimUsage(c), Nat)
             /\ DOMAIN ClaimUsage(c) \subseteq
                  names \cup {Storage} \cup IF c.class = <<>> THEN {} ELSE classed
             /\ \A r : Quantity(ClaimUsage(c), r) =
                  ((IF r \in names THEN 1 ELSE 0)
                   + (IF r = Storage /\ c.size # None THEN c.size ELSE 0))
                   + (IF c.class = <<>> THEN 0
                      ELSE (IF r = ByClass(c.class, Claims) THEN 1 ELSE 0)
                           + (IF r = ByClass(c.class, Storage) /\ c.size # None THEN c.size ELSE 0))
<1> DEFINE names == {Claims, Count("persistentvolumeclaims")}
           one == [r \in names |-> 1]
           Size(n) == IF c.size = None THEN Empty ELSE [r \in {n} |-> c.size]
           first == [r \in {ByClass(c.class, Claims)} |-> 1]
           second == Size(ByClass(c.class, Storage))
           classed == IF c.class = <<>> THEN Empty ELSE Add(first, second)
<1>1. IsList(Empty, Nat) /\ DOMAIN Empty = {} /\ \A r : Quantity(Empty, r) = 0
  BY DEF IsList, Empty, Quantity
<1>2. IsList(one, Nat) /\ DOMAIN one = names /\ \A r : Quantity(one, r) = IF r \in names THEN 1 ELSE 0
  BY DEF IsList, Quantity
<1>3. ASSUME NEW n
      PROVE  /\ IsList(Size(n), Nat) /\ DOMAIN Size(n) \subseteq {n}
             /\ \A r : Quantity(Size(n), r) = IF r = n /\ c.size # None THEN c.size ELSE 0
  <2>1. CASE c.size = None
    BY <1>1, <2>1
  <2>2. CASE c.size # None
    <3>1. PICK l : l = [r \in {n} |-> c.size]
      OBVIOUS
    <3>2. c.size \in Nat /\ Size(n) = l
      BY <2>2, <3>1
    <3>3. IsList(l, Nat) /\ DOMAIN l = {n} /\ \A r : Quantity(l, r) = IF r = n THEN c.size ELSE 0
      BY <3>1, <3>2 DEF IsList, Quantity
    <3> QED
      BY <2>2, <3>2, <3>3
  <2> QED
    BY <2>1, <2>2
<1>4. /\ IsList(first, Nat) /\ DOMAIN first = {ByClass(c.class, Claims)}
      /\ \A r : Quantity(first, r) = IF r = ByClass(c.class, Claims) THEN 1 ELSE 0
  BY DEF IsList, Quantity
<1>5. ClaimUsage(c) = Add(Add(one, Size(Storage)), classed)
  BY DEF ClaimUsage
<1> HIDE DEF one, Size, first, names
<1>6. /\ IsList(classed, Nat)
      /\ DOMAIN classed \subseteq
           IF c.class = <<>> THEN {} ELSE {ByClass(c.class, Claims), ByClass(c.class, Storage)}
      /\ \A r : Quantity(classed, r) =
           IF c.class = <<>> THEN 0
           ELSE (IF r = ByClass(c.class, Claims) THEN 1 ELSE 0)
                + (IF r = ByClass(c.class, Storage) /\ c.size # None THEN c.size ELSE 0)
  <2>1. CASE c.class = <<>>
    BY <1>1, <2>1
  <2>2. CASE c.class # <<>>
    <3>1. PICK x, y : x = first /\ y = second
      OBVIOUS
    <3>2. IsList(x, Nat) /\ IsList(y, Nat)
      BY <1>3, <1>4, <3>1
    <3>3. /\ IsList(Add(x, y), Nat) /\ DOMAIN Add(x, y) = DOMAIN x \cup DOMAIN y
          /\ \A r : Quantity(Add(x, y), r) = Quantity(x, r) + Quantity(y, r)
      BY <3>2, AddNat
    <3>4. classed = Add(x, y)
      BY <2>2, <3>1
    <3>5. /\ DOMAIN x = {ByClass(c.class, Claims)} /\ DOMAIN y \subseteq {ByClass(c.class, Storage)}
          /\ \A r : Quantity(x, r) = IF r = ByClass(c.class, Claims) THEN 1 ELSE 0
          /\ \A r : Quantity(y, r) = IF r = ByClass(c.class, Storage) /\ c.size # None THEN c.size ELSE 0
      BY <1>3, <1>4, <3>1
    <3> QED
      BY <2>2, <3>3, <3>4, <3>5
  <2> QED
    BY <2>1, <2>2
<1> HIDE DEF classed, second
<1>7. PICK x, y : x = Size(Storage) /\ y = Add(one, x)
  OBVIOUS
<1>8. /\ IsList(x, Nat) /\ DOMAIN x \subseteq {Storage}
      /\ \A r : Quantity(x, r) = IF r = Storage /\ c.size # None THEN c.size ELSE 0
  BY <1>3, <1>7
<1>9. /\ IsList(y, Nat) /\ DOMAIN y = DOMAIN one \cup DOMAIN x
      /\ \A r : Quantity(y, r) = Quantity(one, r) + Quantity(x, r)
  <2>1. IsList(one, Nat) /\ IsList(x, Nat)
    BY <1>2, <1>8
  <2> QED
    BY <1>7, <2>1, AddNat
<1>10. PICK u : u = Add(y, classed)
  OBVIOUS
<1>11. /\ IsList(u, Nat) /\ DOMAIN u = DOMAIN y \cup DOMAIN classed
       /\ \A r : Quantity(u, r) = Quantity(y, r) + Quantity(classed, r)
  <2>1. IsList(y, Nat) /\ IsList(classed, Nat)
    BY <1>6, <1>9
  <2> QED
    BY <1>10, <2>1, AddNat
<1>12. ClaimUsage(c) = u
  BY <1>5, <1>7, <1>10
<1>13. DOMAIN u \subseteq names \cup {Storage}
          \cup IF c.class = <<>> THEN {} ELSE {ByClass(c.class, Claims), ByClass(c.class, Storage)}
  BY <1>2, <1>6, <1>8, <1>9, <1>11
<1>14. ASSUME NEW r
       PROVE  Quantity(u, r) =
                  ((IF r \in names THEN 1 ELSE 0)
                   + (IF r = Storage /\ c.size # None THEN c.size ELSE 0))
                   + (IF c.class = <<>> THEN 0
                      ELSE (IF r = ByClass(c.class, Claims) THEN 1 ELSE 0)
                           + (IF r = ByClass(c.class, Storage) /\ c.size # None THEN c.size ELSE 0))
  <2>1. Quantity(u, r) = (Quantity(one, r) + Quantity(x, r)) + Quantity(classed, r)
    BY <1>9, <1>11
  <2>2. Quantity(one, r) = IF r \in names THEN 1 ELSE 0
    BY <1>2
  <2> QED
    BY <1>6, <1>8, <2>1, <2>2
<1> QED
  BY <1>11, <1>12, <1>13, <1>14 DEF names

\* A claim is charged, under names that its evaluator matches, what it demands.
LEMMA ClaimCharged ==
  ASSUME NEW c, c.kind = "persistentvolumeclaims", c.class \in Seq(STRING),
         c.size \in Nat \cup {None}, None \notin Nat
  PROVE  /\ IsList(ClaimUsage(c), Nat)
         /\ \A r \in DOMAIN ClaimUsage(c) : r \in MatchingResources("persistentvolumeclaims", {r})
         /\ \A r : QuotaName(r) /\ r \in MatchingResources("persistentvolumeclaims", {r}) =>
                     Quantity(ClaimUsage(c), r) = Demand(c, r)
<1> DEFINE counted == Count("persistentvolumeclaims")
<1>1. PICK u, gold, silver : /\ u = ClaimUsage(c)
                             /\ gold = ByClass(c.class, Claims)
                             /\ silver = ByClass(c.class, Storage)
  OBVIOUS
<1>2. /\ IsList(u, Nat)
      /\ DOMAIN u \subseteq {Claims, counted} \cup {Storage} \cup IF c.class = <<>> THEN {} ELSE {gold, silver}
      /\ \A r : Quantity(u, r) =
                  ((IF r \in {Claims, counted} THEN 1 ELSE 0)
                   + (IF r = Storage /\ c.size # None THEN c.size ELSE 0))
                   + (IF c.class = <<>> THEN 0
                      ELSE (IF r = gold THEN 1 ELSE 0) + (IF r = silver /\ c.size # None THEN c.size ELSE 0))
  BY <1>1, ClaimUsageIs
<1>3. c.class \in Seq(Words) /\ (c.class # <<>> => Len(c.class) # 0)
  <2>1. c.class # <<>> => Len(c.class) # 0
    BY EmptySeq
  <2>2. STRING \subseteq Words
    BY DEF Words
  <2> QED
    BY <2>1, <2>2, SeqMonotonic
<1>4. \A r : r \in MatchingResources("persistentvolumeclaims", {r}) <=>
               \/ r \in {Claims, Storage, counted}
               \/ \E d \in {Claims, Storage} : IsSuffix(<<StorageClass>> \o d, r)
  BY DEF MatchingResources, ClaimResources
<1>5. \A r \in DOMAIN u : r \in MatchingResources("persistentvolumeclaims", {r})
  <2>1. /\ IsSuffix(<<StorageClass>> \o Claims, gold)
        /\ IsSuffix(<<StorageClass>> \o Storage, silver)
    BY <1>1, <1>3, ByClassEnds
  <2> QED
    BY <1>2, <1>4, <2>1
<1>6. /\ ~Has(Claims, StorageClass) /\ ~Has(Storage, StorageClass) /\ ~Has(counted, StorageClass)
      /\ Last(Claims) # "storage" /\ Last(Storage) = "storage" /\ Last(counted) # "storage"
      /\ Storage \notin {Claims, counted}
  <2>1. DOMAIN Claims = {1} /\ DOMAIN Storage = {1, 2}
    BY ClaimNames, LenProperties
  <2>2. PICK k : k = counted
    OBVIOUS
  <2>3. Len(k) = 2 /\ k[1] = "count/" /\ k[2] = "persistentvolumeclaims" /\ DOMAIN k = {1, 2}
    BY <2>2 DEF Count
  <2> HIDE DEF counted
  <2> QED
    BY <2>1, <2>2, <2>3, ClaimNames DEF Has, Last, StorageClass
<1>7. c.class # <<>> => \A r \in {Claims, Storage, counted} : r # gold /\ r # silver
  <2>1. ASSUME c.class # <<>>, NEW d \in {Claims, Storage}
        PROVE  Has(ByClass(c.class, d), StorageClass)
    <3>1. d \in Seq(Words) /\ Len(d) \in {1, 2} /\ StorageClass \in Words
      BY ClaimNames
    <3>2. PICK r, m : r = ByClass(c.class, d) /\ m = Len(c.class)
      OBVIOUS
    <3>3. r \in Seq(Words) /\ Classed(r, c.class, d)
      BY <1>3, <3>1, <3>2, ByClassParts
    <3>4. /\ m \in Nat /\ Len(r) = m + 1 + Len(d)
          /\ \A i \in 1..Len(r) : r[i] = IF i <= m THEN c.class[i]
                                       ELSE IF i = m + 1 THEN StorageClass ELSE d[i - (m + 1)]
      BY <3>2, <3>3 DEF Classed
    <3>5. m + 1 \in 1..Len(r) /\ DOMAIN r = 1..Len(r) /\ ~(m + 1 <= m)
      BY <3>1, <3>3, <3>4, LenProperties
    <3>6. r[m + 1] = StorageClass
      BY <3>4, <3>5
    <3> QED
      BY <3>2, <3>5, <3>6 DEF Has
  <2> QED
    BY <1>1, <1>6, <2>1
<1>8. ASSUME NEW r, QuotaName(r), r \in MatchingResources("persistentvolumeclaims", {r})
      PROVE  Quantity(u, r) = Demand(c, r)
  <2>1. CASE r \in {Claims, counted}
    <3>1. Quantity(u, r) = 1
      BY <1>2, <1>6, <1>7, <2>1
    <3>2. Demand(c, r) = 1
      BY <1>6, <2>1 DEF Demand
    <3> QED
      BY <3>1, <3>2
  <2>2. CASE r = Storage
    <3>1. Quantity(u, r) = IF c.size = None THEN 0 ELSE c.size
      BY <1>2, <1>6, <1>7, <2>2
    <3>2. Demand(c, r) = IF c.size = None THEN 0 ELSE c.size
      BY <1>6, <2>2 DEF Demand
    <3> QED
      BY <3>1, <3>2
  <2>3. ASSUME NEW d \in {Claims, Storage}, IsSuffix(<<StorageClass>> \o d, r)
        PROVE  Quantity(u, r) = Demand(c, r)
    <3>1. PICK p : p = c.class \o <<StorageClass>>
      OBVIOUS
    <3>2. /\ Has(r, StorageClass) /\ Last(r) = Last(d)
          /\ IsPrefix(p, r) => r = ByClass(c.class, d) /\ c.class # <<>>
          /\ \A e \in {Claims, Storage} : r = ByClass(c.class, e) => e = d /\ IsPrefix(p, r)
      BY <1>3, <1>8, <2>3, <3>1, ByClassOnly
    <3>3. r \notin {Claims, Storage, counted}
      BY <1>6, <3>2
    <3>4. CASE ~IsPrefix(p, r)
      <4>1. r # gold /\ r # silver
        BY <1>1, <3>2, <3>4
      <4>2. Quantity(u, r) = 0
        BY <1>2, <3>3, <4>1
      <4>3. Demand(c, r) = 0
        BY <3>1, <3>2, <3>4 DEF Demand
      <4> QED
        BY <4>2, <4>3
    <3>5. CASE IsPrefix(p, r) /\ d = Claims
      <4>1. r = gold /\ r # silver /\ c.class # <<>>
        BY <1>1, <1>6, <3>2, <3>5
      <4>2. Quantity(u, r) = 1
        BY <1>2, <3>3, <4>1
      <4>3. Demand(c, r) = 1
        BY <1>6, <3>1, <3>2, <3>5 DEF Demand
      <4> QED
        BY <4>2, <4>3
    <3>6. CASE IsPrefix(p, r) /\ d = Storage
      <4>1. r = silver /\ r # gold /\ c.class # <<>>
        BY <1>1, <1>6, <3>2, <3>6
      <4>2. Quantity(u, r) = IF c.size = None THEN 0 ELSE c.size
        BY <1>2, <3>3, <4>1
      <4>3. Demand(c, r) = IF c.size = None THEN 0 ELSE c.size
        BY <1>6, <3>1, <3>2, <3>6 DEF Demand
      <4> QED
        BY <4>2, <4>3
    <3> QED
      BY <3>4, <3>5, <3>6
  <2> QED
    BY <1>4, <1>8, <2>1, <2>2, <2>3
<1> QED
  BY <1>1, <1>2, <1>5, <1>8

-----------------------------------------------------------------------------
(* Objects of all kinds.                                                   *)

\* The kind of an object says which of the four it is.
LEMMA KindTells ==
  ASSUME UsageAssumption, NEW o \in Storable
  PROVE  \/ o.kind = "pods" /\ o \in Pods(PodStatus)
         \/ o.kind = "services" /\ o \in ServiceSpecs
         \/ o.kind = "persistentvolumeclaims" /\ o \in ClaimSpecs
         \/ o.kind \in CountedKinds /\ o \in Things
<1>1. o \in Pods(PodStatus) => o.kind = "pods"
  BY DEF Pods
<1>2. o \in ServiceSpecs => o.kind = "services"
  BY DEF UsageAssumption
<1>3. o \in ClaimSpecs => o.kind = "persistentvolumeclaims"
  BY DEF UsageAssumption
<1>4. o \in Things => o.kind \in CountedKinds
  BY DEF UsageAssumption
<1> QED
  BY <1>1, <1>2, <1>3, <1>4 DEF Storable

\* An object is charged, under names that its evaluator matches, what it
\* demands.
LEMMA Charged ==
  ASSUME UsageAssumption, NEW o \in Storable
  PROVE  /\ o.kind \in Evaluators
         /\ IsList(Usage(o), Nat)
         /\ \A r \in DOMAIN Usage(o) : r \in MatchingResources(o.kind, {r})
         /\ \A r : QuotaName(r) /\ r \in MatchingResources(o.kind, {r}) =>
                     Quantity(Usage(o), r) = Demand(o, r)
<1>1. CASE o.kind = "pods" /\ o \in Pods(PodStatus)
  <2>1. Usage(o) = PodUsage(o) /\ \A r : Demand(o, r) = PodDemand(o, r)
    BY <1>1 DEF Usage, Demand
  <2> QED
    BY <1>1, <2>1, PodCharged DEF Evaluators, QuotaName
<1>2. CASE o.kind = "services" /\ o \in ServiceSpecs
  <2>1. Usage(o) = ServiceUsage(o)
    BY <1>2 DEF Usage
  <2>2. o \in [kind : {"services"}, type : STRING, ports : Nat]
    BY <1>2 DEF UsageAssumption
  <2> QED
    BY <1>2, <2>1, <2>2, ServiceCharged DEF Evaluators
<1>3. CASE o.kind = "persistentvolumeclaims" /\ o \in ClaimSpecs
  <2>1. Usage(o) = ClaimUsage(o)
    BY <1>3 DEF Usage
  <2>2. o.class \in Seq(STRING) /\ o.size \in Nat \cup {None} /\ None \notin Nat
    BY <1>3 DEF UsageAssumption
  <2> QED
    BY <1>3, <2>1, <2>2, ClaimCharged DEF Evaluators
<1>4. CASE o.kind \in CountedKinds /\ o \in Things
  <2>1. o.kind \notin {"pods", "services", "persistentvolumeclaims"}
    BY <1>4 DEF CountedKinds
  <2>2. PICK u : u = [r \in {Count(o.kind), <<o.kind>>} |-> 1]
    OBVIOUS
  <2>3. Usage(o) = u /\ \A r : Demand(o, r) = 1
    BY <2>1, <2>2 DEF Usage, Demand
  <2>4. \A r : r \in MatchingResources(o.kind, {r}) <=> r \in {Count(o.kind), <<o.kind>>}
    BY <2>1 DEF MatchingResources
  <2>5. IsList(u, Nat) /\ DOMAIN u = {Count(o.kind), <<o.kind>>} /\ \A r \in DOMAIN u : u[r] = 1
    BY <2>2 DEF IsList
  <2>6. \A r : r \in {Count(o.kind), <<o.kind>>} => Quantity(u, r) = 1
    BY <2>5 DEF Quantity
  <2> QED
    BY <1>4, <2>3, <2>4, <2>5, <2>6 DEF Evaluators
<1> QED
  BY <1>1, <1>2, <1>3, <1>4, KindTells

\* Whether a name is matched does not depend on the others.
LEMMA MatchedAlone ==
  ASSUME NEW e, NEW names
  PROVE  MatchingResources(e, names) = {r \in names : r \in MatchingResources(e, {r})}
<1>1. CASE e = "pods"
  BY <1>1 DEF MatchingResources
<1>2. CASE e = "services"
  BY <1>2 DEF MatchingResources
<1>3. CASE e = "persistentvolumeclaims"
  BY <1>3 DEF MatchingResources
<1>4. CASE e \notin {"pods", "services", "persistentvolumeclaims"}
  BY <1>4 DEF MatchingResources
<1> QED
  BY <1>1, <1>2, <1>3, <1>4

\* There are finitely many evaluators.
LEMMA EvaluatorsFinite == IsFiniteSet(Evaluators)
<1>1. /\ IsFiniteSet({"configmaps", "resourcequotas", "replicationcontrollers", "secrets"})
      /\ IsFiniteSet({"pods", "services", "persistentvolumeclaims"})
  <2>1. /\ IsFiniteSet({"configmaps"}) /\ IsFiniteSet({"pods"})
    BY FS_Singleton
  <2>2. IsFiniteSet({"configmaps", "resourcequotas"}) /\ IsFiniteSet({"pods", "services"})
    <3>1. /\ {"configmaps", "resourcequotas"} = {"configmaps"} \cup {"resourcequotas"}
          /\ {"pods", "services"} = {"pods"} \cup {"services"}
      OBVIOUS
    <3> QED
      BY <2>1, <3>1, FS_AddElement
  <2>3. /\ IsFiniteSet({"configmaps", "resourcequotas", "replicationcontrollers"})
        /\ IsFiniteSet({"pods", "services", "persistentvolumeclaims"})
    <3>1. /\ {"configmaps", "resourcequotas", "replicationcontrollers"} =
                {"configmaps", "resourcequotas"} \cup {"replicationcontrollers"}
          /\ {"pods", "services", "persistentvolumeclaims"} =
                {"pods", "services"} \cup {"persistentvolumeclaims"}
      OBVIOUS
    <3> QED
      BY <2>2, <3>1, FS_AddElement
  <2>4. {"configmaps", "resourcequotas", "replicationcontrollers", "secrets"} =
          {"configmaps", "resourcequotas", "replicationcontrollers"} \cup {"secrets"}
    OBVIOUS
  <2> QED
    BY <2>3, <2>4, FS_AddElement
<1> QED
  BY <1>1, FS_Union DEF Evaluators, CountedKinds

-----------------------------------------------------------------------------
(* Scopes.                                                                 *)

\* A recount asks for the same scopes as admission does, if it understands
\* them.
LEMMA SameScopes ==
  ASSUME NEW q, ValidateResourceQuotaSpec(q), ~ScopeError(q, ""), NEW o
  PROVE  MatchesScopes(q, "", o) <=> MatchesScopes(q, "Exists", o)
<1> DEFINE asked(s, op) == [scope |-> s, op |-> op, values |-> {}]
<1>1. \A s, op : asked(s, op).scope = s /\ asked(s, op).op = op
  OBVIOUS
<1>2. q.scopes \subseteq PodScopes
  <2>1. q.scopes \subseteq PodScopes \cup {"PriorityClass"}
    BY DEF ValidateResourceQuotaSpec, ValidScopes
  <2>2. "PriorityClass" \notin q.scopes
    <3>1. ASSUME "PriorityClass" \in q.scopes PROVE FALSE
      <4>1. asked("PriorityClass", "") \in ScopeRequirements(q, "")
        BY <3>1 DEF ScopeRequirements
      <4> QED
        BY <1>1, <4>1 DEF ScopeError
    <3> QED
      BY <3>1
  <2> QED
    BY <2>1, <2>2
<1>3. ASSUME NEW s \in PodScopes
      PROVE  PodMatchesScope(asked(s, ""), o) <=> PodMatchesScope(asked(s, "Exists"), o)
  BY <1>1 DEF PodMatchesScope, PodScopes
<1>4. \A op : ScopeRequirements(q, op) = {asked(s, op) : s \in q.scopes} \cup q.selector
  BY DEF ScopeRequirements
<1> DEFINE good(m) == o.kind = "pods" /\ PodMatchesScope(m, o)
<1>5. ASSUME NEW op
      PROVE  MatchesScopes(q, op, o) <=>
               (\A s \in q.scopes : good(asked(s, op))) /\ (\A m \in q.selector : good(m))
  BY <1>4 DEF MatchesScopes
<1>6. \A s \in q.scopes : good(asked(s, "")) <=> good(asked(s, "Exists"))
  BY <1>2, <1>3
<1> HIDE DEF asked, good
<1> QED
  BY <1>5, <1>6

\* Objects that are not pods are all in scope, or none is.
LEMMA OthersInScope ==
  ASSUME NEW q, NEW o, NEW p, o.kind # "pods", p.kind # "pods"
  PROVE  MatchesScopes(q, "Exists", o) <=> MatchesScopes(q, "Exists", p)
BY DEF MatchesScopes

\* A change of its status does not bring a pod into a scope, or out of it.
LEMMA StatusNoScope ==
  ASSUME NEW q, ValidateResourceQuotaSpec(q), NEW o, NEW p,
         o.kind = "pods", p.kind = "pods", o.deadline = p.deadline, o.priority = p.priority,
         o.containers = p.containers, o.inits = p.inits
  PROVE  MatchesScopes(q, "Exists", o) <=> MatchesScopes(q, "Exists", p)
<1>1. IsBestEffort(o) <=> IsBestEffort(p)
  BY DEF IsBestEffort, Containers
<1>2. ASSUME NEW m \in ScopeRequirements(q, "Exists")
      PROVE  /\ m.scope \in PodScopes \cup {"PriorityClass"}
             /\ m.op \in {"In", "NotIn", "Exists", "DoesNotExist"}
  <2>1. CASE m \in q.selector
    BY <2>1 DEF ValidateResourceQuotaSpec, ValidScopes, ValidRequirement
  <2>2. CASE m \in {[scope |-> s, op |-> "Exists", values |-> {}] : s \in q.scopes}
    BY <2>2 DEF ValidateResourceQuotaSpec, ValidScopes
  <2> QED
    BY <2>1, <2>2 DEF ScopeRequirements
<1>3. ASSUME NEW m, m.op \in {"In", "NotIn", "Exists", "DoesNotExist"}
      PROVE  PodMatchesSelector(o, m) <=> PodMatchesSelector(p, m)
  BY <1>3 DEF PodMatchesSelector
<1>4. ASSUME NEW m \in ScopeRequirements(q, "Exists")
      PROVE  PodMatchesScope(m, o) <=> PodMatchesScope(m, p)
  <2>1. PodMatchesSelector(o, m) <=> PodMatchesSelector(p, m)
    BY <1>2, <1>3
  <2> QED
    BY <1>1, <1>2, <2>1 DEF PodMatchesScope, PodScopes
<1> QED
  BY <1>4 DEF MatchesScopes

\* The scopes of two quotas with the same requirements.
LEMMA SameRequirements ==
  ASSUME NEW q, NEW p, q.scopes = p.scopes, q.selector = p.selector, NEW op
  PROVE  /\ ScopeError(q, op) <=> ScopeError(p, op)
         /\ \A o : MatchesScopes(q, op, o) <=> MatchesScopes(p, op, o)
BY DEF ScopeError, MatchesScopes, ScopeRequirements

-----------------------------------------------------------------------------
(* What the stored objects take of a resource.                             *)

\* What o takes of r in the scopes of q.
Share(q, o, r) ==
  IF o # None /\ MatchesScopes(q, "Exists", o) THEN Quantity(Usage(o), r) ELSE 0
Shares(ob, q, r) == [i \in Ids |-> Share(q, ob[i], r)]
Load(ob, q, r) == SumOver(Shares(ob, q, r), Ids)

\* Nothing of what no name of the object's usage stands for.
LEMMA ShareIs ==
  ASSUME UsageAssumption, NEW q, NEW o \in Storable \cup {None}, NEW r
  PROVE  /\ Share(q, o, r) \in Nat
         /\ o # None /\ r \notin MatchingResources(o.kind, {r}) =>
              Share(q, o, r) = 0 /\ Quantity(Usage(o), r) = 0
<1>1. CASE o = None
  BY <1>1 DEF Share
<1>2. CASE o # None
  <2>1. o \in Storable
    BY <1>2
  <2>2. /\ IsList(Usage(o), Nat)
        /\ \A x \in DOMAIN Usage(o) : x \in MatchingResources(o.kind, {x})
    BY <2>1, Charged
  <2>3. Quantity(Usage(o), r) \in Nat
    BY <2>2 DEF IsList, Quantity
  <2>4. r \notin MatchingResources(o.kind, {r}) => Quantity(Usage(o), r) = 0
    BY <2>2 DEF Quantity
  <2> QED
    BY <2>3, <2>4 DEF Share
<1> QED
  BY <1>1, <1>2

\* The load is what the objects demand.
LEMMA LoadIs ==
  ASSUME UsageAssumption, NEW q, NEW ob \in [Ids -> Storable \cup {None}], NEW r
  PROVE  Load(ob, q, r) \in Nat
<1>1. IsFiniteSet(Ids)
  BY DEF UsageAssumption
<1>2. \A i \in Ids : Shares(ob, q, r)[i] \in Nat
  BY ShareIs DEF Shares
<1> QED
  BY <1>1, <1>2, SumSubset DEF Load

\* The object i asks for r in the scopes of q.
Asks(ob, q, r, i) ==
  /\ i \in Ids /\ ob[i] # None
  /\ r \in MatchingResources(ob[i].kind, {r}) /\ MatchesScopes(q, "Exists", ob[i])

\* Summing up the demand of the objects that ask for r gives the load.
LEMMA LoadDemanded ==
  ASSUME UsageAssumption, NEW q, NEW ob \in [Ids -> Storable \cup {None}], NEW r, QuotaName(r),
         NEW A, \A i : i \in A <=> Asks(ob, q, r, i),
         NEW f, \A i \in A : f[i] = Demand(ob[i], r)
  PROVE  SumOver(f, A) = Load(ob, q, r)
<1>1. IsFiniteSet(Ids)
  BY DEF UsageAssumption
<1>2. PICK g : g = Shares(ob, q, r)
  OBVIOUS
<1>3. \A i \in Ids :
        /\ g[i] = Share(q, ob[i], r) /\ g[i] \in Nat
        /\ ob[i] # None /\ r \notin MatchingResources(ob[i].kind, {r}) => g[i] = 0
  BY <1>2, ShareIs DEF Shares
<1>4. ASSUME NEW i \in A PROVE g[i] = f[i] /\ f[i] \in Int
  <2>1. ob[i] \in Storable /\ i \in Ids
    BY DEF Asks
  <2>2. Quantity(Usage(ob[i]), r) = Demand(ob[i], r)
    BY <2>1, Charged DEF Asks
  <2>3. g[i] = Quantity(Usage(ob[i]), r)
    BY <1>3, <2>1 DEF Share, Asks
  <2> QED
    BY <1>3, <2>1, <2>2, <2>3
<1>5. ASSUME NEW i \in Ids, i \notin A PROVE g[i] = 0
  BY <1>3, <1>5 DEF Share, Asks
<1>6. /\ A \in SUBSET Ids /\ \A i \in A : g[i] = f[i] /\ f[i] \in Int
      /\ \A i \in Ids \ A : g[i] = 0
  BY <1>4, <1>5 DEF Asks
<1>7. SumOver(f, A) = SumOver(g, Ids)
  BY <1>1, <1>6, SumPart, SMTT(30)
<1> QED
  BY <1>2, <1>7 DEF Load

\* One object comes, goes or changes.
LEMMA LoadChange ==
  ASSUME UsageAssumption, NEW q, NEW ob \in [Ids -> Storable \cup {None}],
         NEW oc \in [Ids -> Storable \cup {None}], NEW i \in Ids,
         \A x \in Ids \ {i} : oc[x] = ob[x], NEW r
  PROVE  /\ Load(ob, q, r) \in Nat /\ Share(q, oc[i], r) \in Nat /\ Share(q, ob[i], r) \in Nat
         /\ Load(oc, q, r) = Load(ob, q, r) + (Share(q, oc[i], r) - Share(q, ob[i], r))
<1> DEFINE f == Shares(ob, q, r)
           g == Shares(oc, q, r)
<1>1. IsFiniteSet(Ids)
  BY DEF UsageAssumption
<1>2. \A x \in Ids : f[x] = Share(q, ob[x], r) /\ g[x] = Share(q, oc[x], r)
  BY DEF Shares
<1>3. \A x \in Ids : Share(q, ob[x], r) \in Nat /\ Share(q, oc[x], r) \in Nat
  BY ShareIs
<1> HIDE DEF f, g
<1>4. /\ \A x \in Ids : f[x] \in Int /\ g[x] \in Int
      /\ \A x \in Ids \ {i} : f[x] = g[x]
  BY <1>2, <1>3
<1>5. SumOver(g, Ids) = SumOver(f, Ids) + (g[i] - f[i])
  BY <1>1, <1>4, SumChange
<1> QED
  BY <1>2, <1>3, <1>5, LoadIs DEF Load, f, g

\* The same scopes, the same load.
LEMMA LoadSame ==
  ASSUME NEW q, NEW p, q.scopes = p.scopes, q.selector = p.selector, NEW ob, NEW r
  PROVE  Load(ob, q, r) = Load(ob, p, r)
<1>1. \A i \in Ids : Share(q, ob[i], r) = Share(p, ob[i], r)
  BY SameRequirements DEF Share
<1>2. Shares(ob, q, r) = Shares(ob, p, r)
  BY <1>1 DEF Shares
<1> QED
  BY <1>2 DEF Load

-----------------------------------------------------------------------------
(* The recount.                                                            *)

\* The stored objects of one kind.
OfKind(e) == {i \in Stored : objs[i].kind = e}

\* What an evaluator counts: every name it matches and, if the scopes can be
\* parsed, what the objects of its kind take.
LEMMA StatsAre ==
  ASSUME UsageAssumption, objs \in [Ids -> Storable \cup {None}], NEW e, NEW names
  PROVE  LET N == MatchingResources(e, names)
         IN  /\ IsList(UsageStats(e, N), Nat) /\ N \subseteq DOMAIN UsageStats(e, N)
             /\ \A r \in DOMAIN UsageStats(e, N) : r \in MatchingResources(e, {r})
             /\ ValidateResourceQuotaSpec(spec) /\ Countable =>
                  \A r : Quantity(UsageStats(e, N), r) = SumOver(Shares(objs, spec, r), OfKind(e))
<1> DEFINE items == {i \in Stored : objs[i].kind = e /\ MatchesScopes(spec, "", objs[i])}
           f == [i \in items |-> Usage(objs[i])]
<1>1. PICK N : N = MatchingResources(e, names)
  OBVIOUS
<1>2. PICK zero : zero = [r \in N |-> 0]
  OBVIOUS
<1>3. /\ IsList(zero, Nat) /\ DOMAIN zero = N /\ \A r : Quantity(zero, r) = 0
      /\ \A r \in N : r \in MatchingResources(e, {r})
  <2>1. N = {r \in names : r \in MatchingResources(e, {r})}
    BY <1>1, MatchedAlone
  <2>2. \A r \in N : r \in MatchingResources(e, {r})
    BY <2>1
  <2> QED
    BY <1>2, <2>2 DEF IsList, Quantity
<1>4. IsFiniteSet(items) /\ IsFiniteSet(OfKind(e))
  BY FS_Subset DEF UsageAssumption, Stored, OfKind
<1>5. ASSUME NEW i \in items
      PROVE  /\ f[i] = Usage(objs[i]) /\ IsList(f[i], Nat)
             /\ \A r \in DOMAIN f[i] : r \in MatchingResources(e, {r})
  <2>1. objs[i] \in Storable /\ objs[i].kind = e
    BY DEF Stored
  <2> QED
    BY <2>1, Charged
<1>6. UsageStats(e, N) = zero \/ UsageStats(e, N) = AddAll(f, items, zero)
  BY <1>2 DEF UsageStats
<1>7. Countable => UsageStats(e, N) = AddAll(f, items, zero)
  BY <1>2 DEF UsageStats, Countable
<1>8. PICK all : all = AddAll(f, items, zero)
  OBVIOUS
<1>9. /\ IsList(all, Nat) /\ DOMAIN all = N \cup UNION {DOMAIN f[i] : i \in items}
      /\ \A r : Together(f, items, r) \in Nat /\ Quantity(all, r) = Together(f, items, r)
  <2>1. \A i \in items : IsList(f[i], Nat)
    BY <1>5
  <2> HIDE DEF f, items
  <2>2. /\ IsList(all, Nat) /\ DOMAIN all = DOMAIN zero \cup UNION {DOMAIN f[i] : i \in items}
        /\ \A r : /\ Together(f, items, r) \in Nat
                  /\ Quantity(all, r) = Quantity(zero, r) + Together(f, items, r)
    BY <1>3, <1>4, <1>8, <2>1, AddAllQuantity
  <2> QED
    BY <1>3, <2>2
<1>10. \A r \in DOMAIN all : r \in MatchingResources(e, {r})
  BY <1>3, <1>5, <1>9
<1>11. ASSUME ValidateResourceQuotaSpec(spec), Countable, NEW r
       PROVE  Together(f, items, r) = SumOver(Shares(objs, spec, r), OfKind(e))
  <2> DEFINE g == Shares(objs, spec, r)
             h == [i \in items |-> Quantity(f[i], r)]
  <2>1. \A i \in OfKind(e) : g[i] = Share(spec, objs[i], r) /\ objs[i] # None /\ objs[i] \in Storable
    BY DEF Shares, OfKind, Stored
  <2>2. \A i \in OfKind(e) : i \in items <=> MatchesScopes(spec, "Exists", objs[i])
    <3>1. \A o : MatchesScopes(spec, "", o) <=> MatchesScopes(spec, "Exists", o)
      BY <1>11, SameScopes DEF Countable
    <3> QED
      BY <3>1 DEF OfKind
  <2>3. \A i \in items : i \in OfKind(e) /\ h[i] = Quantity(Usage(objs[i]), r)
    BY <1>5 DEF OfKind
  <2>4. \A i \in items : g[i] = h[i]
    BY <2>1, <2>2, <2>3 DEF Share
  <2>5. \A i \in OfKind(e) \ items : g[i] = 0
    BY <2>1, <2>2 DEF Share
  <2>6. \A i \in items : h[i] \in Int
    <3>1. \A i \in OfKind(e) : g[i] \in Nat
      <4> HIDE DEF g
      <4> QED
        BY <2>1, ShareIs
    <3> HIDE DEF g, h, items
    <3> QED
      BY <2>3, <2>4, <3>1
  <2>7. items \in SUBSET OfKind(e)
    BY <2>3
  <2> HIDE DEF g, h, items
  <2>8. SumOver(h, items) = SumOver(g, OfKind(e))
    <3>1. PICK K, A, a, b : K = OfKind(e) /\ A = items /\ a = h /\ b = g
      OBVIOUS
    <3>2. /\ IsFiniteSet(K) /\ A \in SUBSET K /\ \A i \in A : b[i] = a[i] /\ a[i] \in Int
          /\ \A i \in K \ A : b[i] = 0
      BY <1>4, <2>4, <2>5, <2>6, <2>7, <3>1
    <3>3. SumOver(a, A) = SumOver(b, K)
      BY <3>2, SumPart
    <3> QED
      BY <3>1, <3>3
  <2> QED
    BY <2>8 DEF Together, g, h
<1>12. UsageStats(e, N) = zero \/ UsageStats(e, N) = all
  BY <1>6, <1>8
<1>13. Countable => UsageStats(e, N) = all
  BY <1>7, <1>8
<1>14. N \subseteq DOMAIN all
  BY <1>9
<1> HIDE DEF f, items
<1> QED
  BY <1>1, <1>3, <1>9, <1>10, <1>11, <1>12, <1>13, <1>14

\* A recount: the names that an evaluator matches, and none that failed.  Of
\* each of them, if the scopes can be parsed, what the objects take.
LEMMA Recounted ==
  ASSUME UsageAssumption, objs \in [Ids -> Storable \cup {None}],
         ValidateResourceQuotaSpec(spec), NEW failed \in SUBSET Evaluators
  PROVE  LET usage == CalculateUsage(failed)
         IN  /\ IsList(usage, Nat)
             /\ DOMAIN usage =
                  {r \in DOMAIN spec.hard : /\ \E e \in Evaluators : r \in MatchingResources(e, {r})
                                            /\ \A e \in failed : r \notin MatchingResources(e, {r})}
             /\ Countable => \A r \in DOMAIN usage : usage[r] = Load(objs, spec, r)
<1> DEFINE N(e) == MatchingResources(e, DOMAIN spec.hard)
           left == Evaluators \ failed
           matched(e, r) == r \in MatchingResources(e, {r})
<1>1. PICK names : names = DOMAIN spec.hard
  OBVIOUS
<1>2. PICK stats : stats = [e \in Evaluators |-> UsageStats(e, N(e))]
  OBVIOUS
<1>3. PICK lost : lost = UNION {N(e) : e \in failed}
  OBVIOUS
<1>4. PICK all : all = AddAll(stats, left, Empty)
  OBVIOUS
<1>5. CalculateUsage(failed) = Mask(all, names \ lost)
  BY <1>1, <1>2, <1>3, <1>4 DEF CalculateUsage
<1>6. ASSUME NEW e \in Evaluators
      PROVE  /\ IsList(stats[e], Nat) /\ N(e) \subseteq DOMAIN stats[e]
             /\ \A r \in DOMAIN stats[e] : matched(e, r)
             /\ Countable => \A r : Quantity(stats[e], r) = SumOver(Shares(objs, spec, r), OfKind(e))
  BY <1>2, StatsAre
<1>7. ASSUME NEW e PROVE N(e) = {r \in names : matched(e, r)}
  BY <1>1, MatchedAlone
<1>8. /\ IsFiniteSet(left) /\ IsList(Empty, Nat) /\ DOMAIN Empty = {}
      /\ \A r : Quantity(Empty, r) = 0
  BY EvaluatorsFinite, FS_Subset DEF IsList, Empty, Quantity
<1> HIDE DEF N, matched
<1>9. /\ IsList(all, Nat) /\ DOMAIN all = UNION {DOMAIN stats[e] : e \in left}
      /\ \A r : Quantity(all, r) = Together(stats, left, r)
  <2>1. \A e \in left : IsList(stats[e], Nat)
    BY <1>6
  <2> HIDE DEF left
  <2>2. /\ IsList(all, Nat) /\ DOMAIN all = DOMAIN Empty \cup UNION {DOMAIN stats[e] : e \in left}
        /\ \A r : /\ Together(stats, left, r) \in Nat
                  /\ Quantity(all, r) = Quantity(Empty, r) + Together(stats, left, r)
    BY <1>4, <1>8, <2>1, AddAllQuantity
  <2> QED
    BY <1>8, <2>2
<1>10. PICK usage : usage = Mask(all, names \ lost)
  OBVIOUS
<1>11. /\ IsList(usage, Nat) /\ DOMAIN usage = DOMAIN all \cap (names \ lost)
       /\ \A r \in DOMAIN usage : usage[r] = Quantity(all, r)
  BY <1>9, <1>10 DEF Mask, IsList, Quantity
<1>12. \A r : r \in DOMAIN usage <=>
                /\ r \in names
                /\ \E e \in Evaluators : matched(e, r)
                /\ \A e \in failed : ~matched(e, r)
  <2>1. \A r : r \in lost <=> \E e \in failed : r \in names /\ matched(e, r)
    BY <1>3, <1>7
  <2>2. \A r \in names : r \in DOMAIN all <=> \E e \in left : matched(e, r)
    BY <1>6, <1>7, <1>9
  <2> QED
    BY <1>11, <2>1, <2>2
<1>13. ASSUME Countable, NEW r \in DOMAIN usage
       PROVE  usage[r] = Load(objs, spec, r)
  <2>1. PICK g : g = Shares(objs, spec, r)
    OBVIOUS
  <2>2. /\ IsFiniteSet(Ids) /\ \A i \in Ids : g[i] = Share(spec, objs[i], r) /\ g[i] \in Nat
    BY <2>1, ShareIs DEF UsageAssumption, Shares
  <2>3. PICK Part : Part = [e \in left |-> OfKind(e)]
    OBVIOUS
  <2>4. /\ \A e \in left : Part[e] \in SUBSET Ids
        /\ \A d \in left, e \in left : d # e => Part[d] \cap Part[e] = {}
    BY <2>3 DEF OfKind, Stored
  <2>5. \A e \in left : Quantity(stats[e], r) = SumOver(g, Part[e])
    BY <1>6, <1>13, <2>1, <2>3
  <2>6. [e \in left |-> Quantity(stats[e], r)] = [e \in left |-> SumOver(g, Part[e])]
    BY <2>5
  <2>7. PICK A : A = UNION {Part[e] : e \in left}
    OBVIOUS
  <2>8. SumOver([e \in left |-> SumOver(g, Part[e])], left) = SumOver(g, A)
    <3> HIDE DEF left
    <3>1. \A i \in Ids : g[i] \in Int
      BY <2>2
    <3>2. IsFiniteSet(left) /\ IsFiniteSet(Ids)
      BY <1>8, <2>2
    <3>3. PICK t : t = [e \in left |-> SumOver(g, Part[e])]
      OBVIOUS
    <3>4. (\A e \in left : t[e] = SumOver(g, Part[e])) /\ \A i : i \in A <=> \E e \in left : i \in Part[e]
      BY <2>7, <3>3
    <3>5. SumOver(t, left) = SumOver(g, A)
      BY <2>4, <3>1, <3>2, <3>4, SumOfParts
    <3> QED
      BY <3>3, <3>5
  <2>9. ASSUME NEW i \in Ids, i \notin A PROVE g[i] = 0
    <3>1. CASE objs[i] = None
      BY <2>2, <3>1 DEF Share
    <3>2. CASE objs[i] # None
      <4>1. objs[i] \in Storable
        BY <3>2
      <4>2. objs[i].kind \in Evaluators
        BY <4>1, Charged
      <4>3. objs[i].kind \in failed
        BY <2>3, <2>7, <2>9, <3>2, <4>2 DEF OfKind, Stored
      <4>4. ~matched(objs[i].kind, r)
        BY <1>12, <4>3
      <4> QED
        BY <2>2, <3>2, <4>1, <4>4, ShareIs DEF matched
    <3> QED
      BY <3>1, <3>2
  <2>10. A \in SUBSET Ids
    BY <2>4, <2>7
  <2>11. SumOver(g, A) = SumOver(g, Ids)
    <3>1. (\A i \in A : g[i] = g[i] /\ g[i] \in Int) /\ \A i \in Ids \ A : g[i] = 0
      BY <2>2, <2>9, <2>10
    <3> QED
      BY <2>2, <2>10, <3>1, SumPart
  <2>12. usage[r] = Quantity(all, r) /\ Quantity(all, r) = Together(stats, left, r)
    BY <1>9, <1>11
  <2> QED
    BY <2>1, <2>6, <2>8, <2>11, <2>12 DEF Together, Load
<1> QED
  BY <1>1, <1>5, <1>10, <1>11, <1>12, <1>13 DEF matched

-----------------------------------------------------------------------------
(* How an object's usage changes.                                          *)

\* A pod takes the same as long as it is charged, and less afterwards.
LEMMA PodReleased ==
  ASSUME UsageAssumption, NEW o \in Pods(PodStatus), NEW p \in Pods(PodStatus),
         o.containers = p.containers, o.inits = p.inits, QuotaV1Pod(o)
  PROVE  /\ QuotaV1Pod(p) => Usage(p) = Usage(o)
         /\ \A r : Quantity(Usage(p), r) <= Quantity(Usage(o), r)
<1>1. PICK q, l : /\ q = Total(RequestsOf(o.inits), RequestsOf(o.containers))
                  /\ l = Total(LimitsOf(o.inits), LimitsOf(o.containers))
  OBVIOUS
<1>2. ContainerList(q) /\ ContainerList(l)
  BY <1>1, PodLists
<1>3. PICK h : h = PodComputeUsageHelper(q, l)
  OBVIOUS
<1>4. IsList(h, Nat)
  BY <1>2, <1>3, HelperIs
<1>5. PICK one : one = [r \in {Count("pods")} |-> 1]
  OBVIOUS
<1>6. IsList(one, Nat)
  BY <1>5 DEF IsList
<1>7. o.kind = "pods" /\ p.kind = "pods"
  BY DEF Pods
<1>8. Usage(o) = Add(one, h) /\ Usage(p) = IF QuotaV1Pod(p) THEN Add(one, h) ELSE one
  BY <1>1, <1>3, <1>5, <1>7 DEF Usage, PodUsage
<1>9. \A r : /\ Quantity(one, r) \in Nat /\ Quantity(h, r) \in Nat
             /\ Quantity(Add(one, h), r) = Quantity(one, r) + Quantity(h, r)
  BY <1>4, <1>6, AddNat
<1> QED
  BY <1>8, <1>9

\* A service that the monitor takes no notice of, and that gives up no ports
\* of its type, takes no less than before.
LEMMA ServiceGrows ==
  ASSUME UsageAssumption, NEW o \in ServiceSpecs, NEW p \in ServiceSpecs,
         GetQuotaServiceType(o) = GetQuotaServiceType(p), o.type = p.type => o.ports <= p.ports
  PROVE  \A r : Quantity(Usage(o), r) <= Quantity(Usage(p), r)
<1>1. /\ o.kind = "services" /\ o.type \in STRING /\ o.ports \in Nat
      /\ p.kind = "services" /\ p.type \in STRING /\ p.ports \in Nat
  BY DEF UsageAssumption
<1>2. Usage(o) = ServiceUsage(o) /\ Usage(p) = ServiceUsage(p)
  BY <1>1 DEF Usage
<1>3. ASSUME NEW r
      PROVE  IF r \in MatchingResources("services", {r})
               THEN Quantity(Usage(o), r) = Demand(o, r) /\ Quantity(Usage(p), r) = Demand(p, r)
               ELSE Quantity(Usage(o), r) = 0 /\ Quantity(Usage(p), r) = 0
  <2>1. /\ o \in [kind : {"services"}, type : STRING, ports : Nat]
        /\ p \in [kind : {"services"}, type : STRING, ports : Nat]
    BY DEF UsageAssumption
  <2> QED
    BY <1>2, <2>1, ServiceCharged DEF Quantity
<1>4. /\ o.type \in {"NodePort", "LoadBalancer"} <=> p.type \in {"NodePort", "LoadBalancer"}
      /\ o.type = "LoadBalancer" <=> p.type = "LoadBalancer"
      /\ o.type \in {"NodePort", "LoadBalancer"} => o.ports <= p.ports
  BY DEF GetQuotaServiceType
<1>5. ASSUME NEW r PROVE Demand(o, r) <= Demand(p, r)
  <2>1. /\ Demand(o, r) = IF r = NodePorts THEN IF o.type \in {"NodePort", "LoadBalancer"} THEN o.ports ELSE 0
                          ELSE IF r = LoadBalancers /\ o.type # "LoadBalancer" THEN 0 ELSE 1
        /\ Demand(p, r) = IF r = NodePorts THEN IF p.type \in {"NodePort", "LoadBalancer"} THEN p.ports ELSE 0
                          ELSE IF r = LoadBalancers /\ p.type # "LoadBalancer" THEN 0 ELSE 1
    BY <1>1 DEF Demand
  <2>2. CASE r = NodePorts
    BY <1>1, <1>4, <2>1, <2>2
  <2>3. CASE r # NodePorts
    BY <1>4, <2>1, <2>3
  <2> QED
    BY <2>2, <2>3
<1>6. ASSUME NEW r PROVE Quantity(Usage(o), r) <= Quantity(Usage(p), r)
  <2>1. CASE r \in MatchingResources("services", {r})
    BY <1>3, <1>5, <2>1
  <2>2. CASE r \notin MatchingResources("services", {r})
    BY <1>3, <2>2
  <2> QED
    BY <2>1, <2>2
<1> QED
  BY <1>6

\* A claim that is resized takes no less than before.
LEMMA ClaimGrows ==
  ASSUME UsageAssumption, NEW o \in ClaimSpecs, NEW p \in ClaimSpecs,
         o.class = p.class, o.size # None, p.size # None, p.size > o.size
  PROVE  \A r : Quantity(Usage(o), r) <= Quantity(Usage(p), r)
<1>1. /\ o.kind = "persistentvolumeclaims" /\ p.kind = "persistentvolumeclaims"
      /\ o.size \in Nat \cup {None} /\ p.size \in Nat \cup {None} /\ None \notin Nat
  BY DEF UsageAssumption
<1>2. Usage(o) = ClaimUsage(o) /\ Usage(p) = ClaimUsage(p)
  BY <1>1 DEF Usage
<1> DEFINE names == {Claims, Count("persistentvolumeclaims")}
           amount(c, r) ==
             ((IF r \in names THEN 1 ELSE 0) + (IF r = Storage /\ c.size # None THEN c.size ELSE 0))
               + (IF c.class = <<>> THEN 0
                  ELSE (IF r = ByClass(c.class, Claims) THEN 1 ELSE 0)
                       + (IF r = ByClass(c.class, Storage) /\ c.size # None THEN c.size ELSE 0))
<1>3. ASSUME NEW c, c.size \in Nat \cup {None}, NEW r
      PROVE  Quantity(ClaimUsage(c), r) = amount(c, r)
  BY <1>1, <1>3, ClaimUsageIs
<1>4. ASSUME NEW r PROVE amount(o, r) <= amount(p, r)
  <2>1. PICK x, y, n : /\ x = (r = ByClass(o.class, Claims)) /\ y = (r = ByClass(o.class, Storage))
                       /\ n = (r \in names)
    OBVIOUS
  <2> QED
    BY <1>1
<1> HIDE DEF amount
<1> QED
  BY <1>1, <1>2, <1>3, <1>4

-----------------------------------------------------------------------------
(* The invariant.                                                          *)

\* A status of usages u falls short of nothing, or is exact.
Under(ob, q, u) == \A r \in DOMAIN u : Load(ob, q, r) <= u[r]
Exact(ob, q, u) == \A r \in DOMAIN u : u[r] = Load(ob, q, r)

\* The names in the status are a quota's, and an evaluator counts them.
Tracked ==
  /\ \A r \in DOMAIN hard : QuotaName(r)
  /\ \A r \in DOMAIN used : \E e \in Evaluators : r \in MatchingResources(e, {r})

\* A limit that held at the last recount has been kept by admission since.
Kept == \A r \in DOMAIN hard \ exceeded : r \in DOMAIN used /\ used[r] <= hard[r]

\* The status covers what the objects take, unless a change that makes them
\* count for more has gone by unnoticed.
Covered == Countable /\ unseen \cap {"deadline", "scopes"} = {} => Under(objs, spec, used)
\* It is exact once no recalculation is due.
Settled == Countable /\ unseen = {} /\ ~notified => Exact(objs, spec, used)

IInv ==
  /\ TypeOK /\ ValidateResourceQuotaSpec(spec)
  /\ Tracked /\ Kept /\ Covered /\ Settled

\* A new quota has no usage.
LEMMA Initially == ASSUME UsageAssumption, Init PROVE IInv
<1>1. DOMAIN Empty = {} /\ IsList(Empty, Nat)
  BY DEF Empty, IsList
<1>2. objs \in [Ids -> Storable \cup {None}]
  BY DEF Init
<1>3. TypeOK
  BY <1>1, <1>2 DEF TypeOK, Init, UsageAssumption
<1>4. ValidateResourceQuotaSpec(spec)
  BY DEF Init
<1> QED
  BY <1>1, <1>3, <1>4 DEF IInv, Init, Tracked, Kept, Covered, Settled, Under, Exact

\* A request that is let through adds what it takes to names that have a
\* usage already, and stays within the limits.
LEMMA RequestCharged ==
  ASSUME IInv, NEW op, NEW old, NEW o, NEW d, d = DeltaUsage(old, o),
         IsList(d, Nat), \A r \in DOMAIN d : r \in MatchingResources(o.kind, {r}),
         Handles(o.kind, op), ~Forbidden(op, old, o)
  PROVE  LET u == Charge(op, old, o)
         IN  /\ IsList(u, Nat) /\ DOMAIN u = DOMAIN used
             /\ \A r \in DOMAIN used :
                  u[r] = used[r] + IF MatchesScopes(spec, "Exists", o) THEN Quantity(d, r) ELSE 0
             /\ \A r \in DOMAIN hard \ exceeded : r \in DOMAIN u /\ u[r] <= hard[r]
<1>1. IsList(hard, Nat) /\ IsList(used, Nat) /\ DOMAIN used \subseteq DOMAIN hard /\ Kept
  BY DEF IInv, TypeOK
<1>2. PICK N : N = MatchingResources(o.kind, DOMAIN hard)
  OBVIOUS
<1>3. N = {r \in DOMAIN hard : r \in MatchingResources(o.kind, {r})}
  BY <1>2, MatchedAlone
<1>4. DOMAIN d \cap DOMAIN hard \subseteq N
  BY <1>3
<1>5. PICK u : u = Charge(op, old, o)
  OBVIOUS
<1>6. \A r : Quantity(d, r) \in Nat
  BY DEF Quantity, IsList
<1>7. CASE Matches(o)
  <2>1. MatchesScopes(spec, "Exists", o)
    BY <1>7 DEF Matches
  <2>2. PICK m : m = Mask(d, DOMAIN hard)
    OBVIOUS
  <2>3. /\ IsList(m, Nat) /\ DOMAIN m = DOMAIN d \cap DOMAIN hard
        /\ \A r \in DOMAIN hard : Quantity(m, r) = Quantity(d, r)
    BY <2>2 DEF Mask, IsList, Quantity
  <2>4. u = Add(used, m)
    BY <1>5, <1>7, <2>2 DEF Charge
  <2>5. HasUsageStats(N)
    BY <1>2, <1>7 DEF Forbidden
  <2>6. DOMAIN m \subseteq DOMAIN used
    BY <1>4, <2>3, <2>5 DEF HasUsageStats
  <2>7. /\ IsList(u, Nat) /\ DOMAIN u = DOMAIN used
        /\ \A r : Quantity(u, r) = Quantity(used, r) + Quantity(m, r)
    <3>1. IsList(used, Nat) /\ IsList(m, Nat)
      BY <1>1, <2>3
    <3>2. /\ IsList(Add(used, m), Nat) /\ DOMAIN Add(used, m) = DOMAIN used \cup DOMAIN m
          /\ \A r : Quantity(Add(used, m), r) = Quantity(used, r) + Quantity(m, r)
      BY <3>1, AddNat
    <3> QED
      BY <2>4, <2>6, <3>2
  <2>8. \A r \in DOMAIN used : u[r] = used[r] + Quantity(d, r)
    BY <1>1, <2>3, <2>7 DEF Quantity
  <2>9. ASSUME NEW r \in DOMAIN hard \ exceeded
        PROVE  r \in DOMAIN u /\ u[r] <= hard[r]
    <3>1. r \in DOMAIN used /\ used[r] <= hard[r] /\ used[r] \in Nat /\ hard[r] \in Nat
      BY <1>1 DEF Kept, IsList
    <3>2. CASE Quantity(d, r) = 0
      BY <2>7, <2>8, <3>1, <3>2
    <3>3. CASE Quantity(d, r) # 0
      <4>1. r \in DOMAIN d /\ ~IsZero(d)
        BY <3>3 DEF Quantity, IsZero
      <4>2. LessThanOrEqual(Mask(u, DOMAIN d \cap DOMAIN hard), hard)
        BY <1>5, <1>7, <4>1 DEF Forbidden
      <4> QED
        BY <2>7, <3>1, <4>1, <4>2 DEF LessThanOrEqual, Mask
    <3> QED
      BY <3>2, <3>3
  <2> QED
    BY <1>5, <2>1, <2>7, <2>8, <2>9
<1>8. CASE ~Matches(o)
  <2>1. u = used
    BY <1>5, <1>8 DEF Charge
  <2>2. ASSUME MatchesScopes(spec, "Exists", o), NEW r \in DOMAIN hard
        PROVE  Quantity(d, r) = 0
    <3>1. N = {}
      BY <1>2, <1>8, <2>2 DEF Matches
    <3> QED
      BY <1>4, <3>1 DEF Quantity
  <2>3. \A r \in DOMAIN used :
          u[r] = used[r] + IF MatchesScopes(spec, "Exists", o) THEN Quantity(d, r) ELSE 0
    <3>1. \A r \in DOMAIN used : used[r] \in Nat
      BY <1>1 DEF IsList
    <3> QED
      BY <1>1, <2>1, <2>2, <3>1
  <2> QED
    BY <1>1, <1>5, <2>1, <2>3 DEF Kept
<1> QED
  BY <1>7, <1>8

\* A created object: what it takes is added to the usage and to the load.
LEMMA CreateStep ==
  ASSUME UsageAssumption, IInv, NEW i \in Ids, NEW o \in NewObjects, Create(i, o)
  PROVE  IInv'
<1>1. o \in Storable /\ o # None
  <2>1. Pods({"live"}) \subseteq Pods(PodStatus)
    BY DEF Pods, PodStatus
  <2> QED
    BY <2>1 DEF UsageAssumption, NewObjects, Storable
<1>2. TypeOK /\ Tracked /\ Covered /\ Settled /\ ValidateResourceQuotaSpec(spec)
  BY DEF IInv
<1>3. PICK d : d = Usage(o)
  OBVIOUS
<1>4. d = DeltaUsage(None, o) /\ Handles(o.kind, "create") /\ ~Forbidden("create", None, o)
  BY <1>3 DEF DeltaUsage, Handles, Create
<1>5. IsList(d, Nat) /\ \A r \in DOMAIN d : r \in MatchingResources(o.kind, {r})
  BY <1>1, <1>3, Charged
<1>6. /\ IsList(used', Nat) /\ DOMAIN used' = DOMAIN used
      /\ \A r \in DOMAIN used :
           used'[r] = used[r] + IF MatchesScopes(spec, "Exists", o) THEN Quantity(d, r) ELSE 0
      /\ \A r \in DOMAIN hard \ exceeded : r \in DOMAIN used' /\ used'[r] <= hard[r]
  <2>1. PICK u : u = Charge("create", None, o)
    OBVIOUS
  <2>2. /\ IsList(u, Nat) /\ DOMAIN u = DOMAIN used
        /\ \A r \in DOMAIN used :
             u[r] = used[r] + IF MatchesScopes(spec, "Exists", o) THEN Quantity(d, r) ELSE 0
        /\ \A r \in DOMAIN hard \ exceeded : r \in DOMAIN u /\ u[r] <= hard[r]
    BY <1>4, <1>5, <2>1, RequestCharged, SMTT(30)
  <2>3. used' = u
    BY <2>1 DEF Create
  <2> QED
    BY <2>2, <2>3
<1>7. /\ objs' = [objs EXCEPT ![i] = o] /\ objs[i] = None /\ calls < MaxCalls /\ calls' = calls + 1
      /\ UNCHANGED <<spec, hard, notified, unseen, exceeded, edits, failures>>
  BY DEF Create
<1>8. objs \in [Ids -> Storable \cup {None}] /\ IsList(used, Nat) /\ DOMAIN used \subseteq DOMAIN hard
  BY <1>2 DEF TypeOK
<1>9. objs' \in [Ids -> Storable \cup {None}]
  BY <1>1, <1>7, <1>8
<1>10. ASSUME NEW r \in DOMAIN used
       PROVE  /\ used[r] \in Nat /\ Load(objs, spec, r) \in Nat /\ Share(spec, o, r) \in Nat
              /\ used'[r] = used[r] + Share(spec, o, r)
              /\ Load(objs', spec, r) = Load(objs, spec, r) + Share(spec, o, r)
  <2>1. Share(spec, o, r) \in Nat /\ Share(spec, None, r) = 0 /\ Load(objs, spec, r) \in Nat
    BY <1>1, <1>8, ShareIs, LoadIs DEF Share
  <2>2. objs'[i] = o /\ \A x \in Ids \ {i} : objs'[x] = objs[x]
    BY <1>7, <1>8
  <2>3. Load(objs', spec, r) = Load(objs, spec, r) + (Share(spec, o, r) - Share(spec, objs[i], r))
    BY <1>8, <1>9, <2>2, LoadChange
  <2>4. Share(spec, o, r) = IF MatchesScopes(spec, "Exists", o) THEN Quantity(d, r) ELSE 0
    BY <1>1, <1>3 DEF Share
  <2> QED
    BY <1>6, <1>7, <1>8, <2>1, <2>2, <2>3, <2>4 DEF IsList
<1>11. TypeOK'
  BY <1>2, <1>6, <1>7, <1>9 DEF TypeOK, UsageAssumption
<1>12. Tracked' /\ Kept' /\ ValidateResourceQuotaSpec(spec)'
  BY <1>2, <1>6, <1>7 DEF Tracked, Kept
<1>13. Covered'
  <2>1. ASSUME Under(objs, spec, used) PROVE Under(objs', spec, used')
    BY <1>6, <1>10, <2>1 DEF Under
  <2> QED
    BY <1>2, <1>7, <2>1 DEF Covered, Countable
<1>14. Settled'
  <2>1. ASSUME Exact(objs, spec, used) PROVE Exact(objs', spec, used')
    BY <1>6, <1>10, <2>1 DEF Exact
  <2> QED
    BY <1>2, <1>7, <2>1 DEF Settled, Countable
<1> QED
  BY <1>11, <1>12, <1>13, <1>14 DEF IInv

\* What an update, or the kubelet, makes of an object.
LEMMA VersionsAre ==
  ASSUME UsageAssumption, NEW old \in Storable, NEW o \in Versions(old), o # old
  PROVE  /\ o \in Storable
         /\ \/ /\ old.kind = "pods" /\ o.kind = "pods"
               /\ old \in Pods(PodStatus) /\ o \in Pods(PodStatus)
               /\ o.containers = old.containers /\ o.inits = old.inits /\ o.priority = old.priority
               /\ \/ o.deadline # old.deadline
                  \/ o.deadline = old.deadline /\ QuotaV1Pod(old)
            \/ old.kind = "services" /\ o.kind = "services" /\ old \in ServiceSpecs /\ o \in ServiceSpecs
            \/ /\ old.kind = "persistentvolumeclaims" /\ o.kind = "persistentvolumeclaims"
               /\ old \in ClaimSpecs /\ o \in ClaimSpecs
               /\ o.class = old.class /\ old.size # None /\ o.size # None /\ o.size > old.size
<1>1. CASE old.kind = "pods" /\ old \in Pods(PodStatus)
  <2>1. old.deadline \in BOOLEAN /\ old.status \in PodStatus
    BY <1>1 DEF Pods
  <2>2. CASE o = [old EXCEPT !.deadline = TRUE]
    <3>1. old.deadline # TRUE
      BY <1>1, <2>2 DEF Pods
    <3> QED
      BY <1>1, <2>1, <2>2, <3>1 DEF Pods, Storable
  <2>3. ASSUME NEW s \in {"grace", "ended"}, o = [old EXCEPT !.status = s],
               old.status \in {"live", "grace"}
        PROVE  /\ o \in Pods(PodStatus) /\ o.kind = "pods" /\ QuotaV1Pod(old)
               /\ o.containers = old.containers /\ o.inits = old.inits /\ o.priority = old.priority
               /\ o.deadline = old.deadline
    BY <1>1, <2>3 DEF Pods, PodStatus, QuotaV1Pod
  <2>4. \/ o = [old EXCEPT !.deadline = TRUE]
        \/ \E s \in {"grace", "ended"} :
             o = [old EXCEPT !.status = s] /\ old.status \in {"live", "grace"}
    BY <1>1, <2>1 DEF Versions, PodStatus
  <2> QED
    BY <1>1, <2>2, <2>3, <2>4 DEF Storable
<1>2. CASE old.kind = "services" /\ old \in ServiceSpecs
  BY <1>2 DEF Versions, UsageAssumption, Storable
<1>3. CASE old.kind = "persistentvolumeclaims" /\ old \in ClaimSpecs
  BY <1>3 DEF Versions, UsageAssumption, Storable
<1>4. CASE old.kind \in CountedKinds
  BY <1>4 DEF Versions, CountedKinds
<1> QED
  BY <1>1, <1>2, <1>3, <1>4, KindTells

\* The difference that an update is charged.
LEMMA DeltaIs ==
  ASSUME UsageAssumption, NEW old \in Storable, NEW o \in Storable, old.kind = o.kind,
         NEW d, d = DeltaUsage(old, o)
  PROVE  /\ IsList(d, Nat)
         /\ \A r \in DOMAIN d : r \in MatchingResources(o.kind, {r})
         /\ \A r : Quantity(d, r) = IF Quantity(Usage(o), r) > Quantity(Usage(old), r)
                                    THEN Quantity(Usage(o), r) - Quantity(Usage(old), r) ELSE 0
<1>1. PICK a, b : a = Usage(o) /\ b = Usage(old)
  OBVIOUS
<1>2. /\ IsList(a, Nat) /\ \A r \in DOMAIN a : r \in MatchingResources(o.kind, {r})
      /\ IsList(b, Nat) /\ \A r \in DOMAIN b : r \in MatchingResources(o.kind, {r})
  BY <1>1, Charged
<1>3. old # None
  BY DEF UsageAssumption
<1>4. d = SubtractWithNonNegativeResult(a, b)
  BY <1>1, <1>3 DEF DeltaUsage
<1>5. \A r : Quantity(a, r) \in Nat /\ Quantity(b, r) \in Nat
  BY <1>2 DEF IsList, Quantity
<1>6. /\ DOMAIN d = DOMAIN a \cup DOMAIN b
      /\ \A r \in DOMAIN d : d[r] = IF Quantity(a, r) > Quantity(b, r)
                                    THEN Quantity(a, r) - Quantity(b, r) ELSE 0
  BY <1>4 DEF SubtractWithNonNegativeResult
<1>7. IsList(d, Nat)
  <2>1. \A r \in DOMAIN d : d[r] \in Nat
    BY <1>5, <1>6
  <2>2. d = [r \in DOMAIN d |-> d[r]]
    BY <1>4 DEF SubtractWithNonNegativeResult
  <2> QED
    BY <2>1, <2>2 DEF IsList
<1>8. ASSUME NEW r
      PROVE  Quantity(d, r) = IF Quantity(a, r) > Quantity(b, r)
                              THEN Quantity(a, r) - Quantity(b, r) ELSE 0
  <2>1. CASE r \in DOMAIN d
    BY <1>6, <2>1 DEF Quantity
  <2>2. CASE r \notin DOMAIN d
    <3>1. Quantity(a, r) = 0 /\ Quantity(b, r) = 0 /\ Quantity(d, r) = 0
      BY <1>6, <2>2 DEF Quantity
    <3> QED
      BY <3>1
  <2> QED
    BY <2>1, <2>2
<1> QED
  BY <1>1, <1>2, <1>6, <1>7, <1>8

\* An update of a service or a claim is charged no less than it takes more.
\* It takes no less, if nothing was overlooked and nobody has to be told.
LEMMA UpdateCharged ==
  ASSUME UsageAssumption, IInv, NEW i \in Ids, i \in Stored, NEW o \in Versions(objs[i]),
         Update(i, o), o.kind # "pods"
  PROVE  /\ IsList(used', Nat) /\ DOMAIN used' = DOMAIN used
         /\ \A r \in DOMAIN hard \ exceeded : r \in DOMAIN used' /\ used'[r] <= hard[r]
         /\ \A r \in DOMAIN used :
              /\ used'[r] - used[r] >= Share(spec, o, r) - Share(spec, objs[i], r)
              /\ unseen' = {} /\ ~notified' =>
                   used'[r] - used[r] = Share(spec, o, r) - Share(spec, objs[i], r)
<1>1. objs \in [Ids -> Storable \cup {None}] /\ DOMAIN used \subseteq DOMAIN hard /\ IsList(used, Nat)
  BY DEF IInv, TypeOK
<1>2. PICK old : old = objs[i]
  OBVIOUS
<1>3. old \in Storable /\ old # None /\ o # old /\ o \in Versions(old)
  BY <1>1, <1>2 DEF Stored, Update
<1>4. /\ o \in Storable
      /\ \/ old.kind = "services" /\ o.kind = "services" /\ old \in ServiceSpecs /\ o \in ServiceSpecs
         \/ /\ old.kind = "persistentvolumeclaims" /\ o.kind = "persistentvolumeclaims"
            /\ old \in ClaimSpecs /\ o \in ClaimSpecs
            /\ o.class = old.class /\ old.size # None /\ o.size # None /\ o.size > old.size
  BY <1>3, VersionsAre
<1>5. PICK d : d = DeltaUsage(old, o)
  OBVIOUS
<1>6. /\ IsList(d, Nat) /\ \A r \in DOMAIN d : r \in MatchingResources(o.kind, {r})
      /\ \A r : Quantity(d, r) = IF Quantity(Usage(o), r) > Quantity(Usage(old), r)
                                 THEN Quantity(Usage(o), r) - Quantity(Usage(old), r) ELSE 0
  <2>1. old.kind = o.kind
    BY <1>4
  <2> QED
    BY <1>3, <1>4, <1>5, <2>1, DeltaIs
<1>7. /\ IsList(used', Nat) /\ DOMAIN used' = DOMAIN used
      /\ \A r \in DOMAIN used :
           used'[r] = used[r] + IF MatchesScopes(spec, "Exists", o) THEN Quantity(d, r) ELSE 0
      /\ \A r \in DOMAIN hard \ exceeded : r \in DOMAIN used' /\ used'[r] <= hard[r]
  <2>1. PICK u : u = Charge("update", old, o)
    OBVIOUS
  <2>2. Handles(o.kind, "update") /\ ~Forbidden("update", old, o) /\ used' = u
    BY <1>2, <1>4, <2>1 DEF Handles, Update
  <2>3. /\ IsList(u, Nat) /\ DOMAIN u = DOMAIN used
        /\ \A r \in DOMAIN used :
             u[r] = used[r] + IF MatchesScopes(spec, "Exists", o) THEN Quantity(d, r) ELSE 0
        /\ \A r \in DOMAIN hard \ exceeded : r \in DOMAIN u /\ u[r] <= hard[r]
    BY <1>5, <1>6, <2>1, <2>2, RequestCharged
  <2> QED
    BY <2>2, <2>3
<1>8. ASSUME NEW r \in DOMAIN used
      PROVE  /\ used'[r] - used[r] >= Share(spec, o, r) - Share(spec, old, r)
             /\ unseen' = {} /\ ~notified' =>
                  used'[r] - used[r] = Share(spec, o, r) - Share(spec, old, r)
  <2>1. used[r] \in Nat /\ r \in DOMAIN hard
    BY <1>1 DEF IsList
  <2>2. o # None
    BY <1>4 DEF UsageAssumption
  <2>3. MatchesScopes(spec, "Exists", o) <=> MatchesScopes(spec, "Exists", old)
    BY <1>4, OthersInScope
  <2>4. CASE ~MatchesScopes(spec, "Exists", o)
    <3>1. used'[r] = used[r] /\ Share(spec, o, r) = 0 /\ Share(spec, old, r) = 0
      BY <1>7, <2>1, <2>3, <2>4 DEF Share
    <3> QED
      BY <2>1, <3>1
  <2>5. CASE MatchesScopes(spec, "Exists", o)
    <3>1. PICK a, b : a = Quantity(Usage(o), r) /\ b = Quantity(Usage(old), r)
      OBVIOUS
    <3>2. Share(spec, o, r) = a /\ Share(spec, old, r) = b
      BY <1>3, <2>2, <2>3, <2>5, <3>1 DEF Share
    <3>3. a \in Nat /\ b \in Nat
      BY <1>3, <1>4, <3>2, ShareIs
    <3>4. used'[r] = used[r] + IF a > b THEN a - b ELSE 0
      BY <1>6, <1>7, <2>5, <3>1
    <3>5. ASSUME unseen' = {}, ~notified' PROVE b <= a
      <4>1. /\ unseen' = unseen \cup Overlooked(old, o)
            /\ notified' = (notified \/ (NotifyUpdate(old, o) /\ MatchingResources(o.kind, DOMAIN hard) # {}))
        BY <1>2 DEF Update, Replenish
      <4>2. Overlooked(old, o) = {}
        BY <3>5, <4>1
      <4>3. CASE NotifyUpdate(old, o)
        <5>1. MatchingResources(o.kind, DOMAIN hard) = {}
          BY <3>5, <4>1, <4>3
        <5>2. r \notin MatchingResources(o.kind, {r})
          BY <2>1, <5>1, MatchedAlone
        <5>3. old.kind = o.kind
          BY <1>4
        <5>4. a = 0 /\ b = 0
          BY <1>3, <1>4, <2>2, <3>1, <5>2, <5>3, ShareIs
        <5> QED
          BY <5>4
      <4>4. CASE old \in ServiceSpecs /\ o \in ServiceSpecs /\ old.kind = "services" /\ ~NotifyUpdate(old, o)
        <5>1. GetQuotaServiceType(old) = GetQuotaServiceType(o)
          BY <4>4 DEF NotifyUpdate
        <5>2. old.ports \in Nat /\ o.ports \in Nat
          BY <4>4 DEF UsageAssumption
        <5>3. old.type = o.type => old.ports <= o.ports
          BY <4>2, <4>4, <5>2 DEF Overlooked
        <5> QED
          BY <3>1, <4>4, <5>1, <5>3, ServiceGrows
      <4>5. CASE old \in ClaimSpecs /\ o \in ClaimSpecs /\ old.kind = "persistentvolumeclaims"
        <5>1. o.class = old.class /\ old.size # None /\ o.size # None /\ o.size > old.size
          BY <1>4, <4>5
        <5> QED
          BY <3>1, <4>5, <5>1, ClaimGrows
      <4> QED
        BY <1>4, <4>3, <4>4, <4>5
    <3> QED
      BY <2>1, <3>2, <3>3, <3>4, <3>5
  <2> QED
    BY <2>4, <2>5
<1> QED
  BY <1>2, <1>7, <1>8

\* A pod that keeps its deadline takes no more after an update than before,
\* and no less unless the monitor tells the quota.
LEMMA PodUpdated ==
  ASSUME UsageAssumption, IInv, NEW i \in Ids, i \in Stored, NEW o \in Versions(objs[i]),
         Update(i, o), o.kind = "pods", "deadline" \notin unseen'
  PROVE  \A r \in DOMAIN used :
           /\ Share(spec, o, r) <= Share(spec, objs[i], r)
           /\ ~notified' => Share(spec, o, r) = Share(spec, objs[i], r)
<1>1. /\ objs \in [Ids -> Storable \cup {None}] /\ DOMAIN used \subseteq DOMAIN hard
      /\ ValidateResourceQuotaSpec(spec)
  BY DEF IInv, TypeOK
<1>2. PICK old : old = objs[i]
  OBVIOUS
<1>3. old \in Storable /\ old # None /\ o # old /\ o \in Versions(old)
  BY <1>1, <1>2 DEF Stored, Update
<1>4. /\ o \in Storable /\ old.kind = "pods" /\ old \in Pods(PodStatus) /\ o \in Pods(PodStatus)
      /\ o.containers = old.containers /\ o.inits = old.inits /\ o.priority = old.priority
      /\ o.deadline = old.deadline => QuotaV1Pod(old)
  BY <1>3, VersionsAre
<1>5. /\ unseen' = unseen \cup Overlooked(old, o)
      /\ notified' = (notified \/ (NotifyUpdate(old, o) /\ MatchingResources("pods", DOMAIN hard) # {}))
  BY <1>2 DEF Update, Replenish
<1>6. o.deadline = old.deadline /\ QuotaV1Pod(old)
  BY <1>4, <1>5 DEF Overlooked
<1>7. MatchesScopes(spec, "Exists", o) <=> MatchesScopes(spec, "Exists", old)
  BY <1>1, <1>4, <1>6, StatusNoScope
<1>8. o # None
  BY <1>4 DEF UsageAssumption
<1>9. ASSUME NEW r \in DOMAIN used
      PROVE  /\ Share(spec, o, r) <= Share(spec, old, r)
             /\ ~notified' => Share(spec, o, r) = Share(spec, old, r)
  <2>1. Quantity(Usage(o), r) <= Quantity(Usage(old), r)
    BY <1>4, <1>6, PodReleased
  <2>2. Share(spec, o, r) <= Share(spec, old, r)
    BY <1>3, <1>7, <1>8, <2>1 DEF Share
  <2>3. ASSUME ~notified' PROVE Share(spec, o, r) = Share(spec, old, r)
    <3>1. CASE NotifyUpdate(old, o)
      <4>1. MatchingResources("pods", DOMAIN hard) = {}
        BY <1>5, <2>3, <3>1
      <4>2. MatchingResources("pods", DOMAIN hard) =
              {x \in DOMAIN hard : x \in MatchingResources("pods", {x})}
        BY MatchedAlone
      <4>3. r \notin MatchingResources("pods", {r})
        BY <1>1, <4>1, <4>2
      <4> QED
        BY <1>3, <1>4, <1>8, <4>3, ShareIs
    <3>2. CASE ~NotifyUpdate(old, o)
      <4>1. QuotaV1Pod(o)
        BY <1>4, <1>6, <3>2 DEF NotifyUpdate
      <4>2. Usage(o) = Usage(old)
        BY <1>4, <1>6, <4>1, PodReleased
      <4> QED
        BY <1>3, <1>7, <1>8, <4>2 DEF Share
    <3> QED
      BY <3>1, <3>2
  <2> QED
    BY <2>2, <2>3
<1> QED
  BY <1>2, <1>9

\* An update charges what the object takes more, and gives back nothing: of
\* what it takes less it queues the quota, or the change is overlooked.
LEMMA UpdateStep ==
  ASSUME UsageAssumption, IInv, NEW i \in Ids, i \in Stored, NEW o \in Versions(objs[i]),
         Update(i, o)
  PROVE  IInv'
<1>1. TypeOK /\ Tracked /\ Kept /\ Covered /\ Settled /\ ValidateResourceQuotaSpec(spec)
  BY DEF IInv
<1>2. /\ objs' = [objs EXCEPT ![i] = o] /\ calls < MaxCalls /\ calls' = calls + 1
      /\ unseen' = unseen \cup Overlooked(objs[i], o)
      /\ UNCHANGED <<spec, hard, exceeded, edits, failures>>
  BY DEF Update
<1>3. objs \in [Ids -> Storable \cup {None}] /\ IsList(used, Nat) /\ DOMAIN used \subseteq DOMAIN hard
  BY <1>1 DEF TypeOK
<1>4. o \in Storable
  BY <1>3, VersionsAre DEF Stored, Update
<1>5. objs' \in [Ids -> Storable \cup {None}]
  BY <1>2, <1>3, <1>4
<1>6. (notified => notified') /\ notified' \in BOOLEAN
  BY <1>1 DEF Update, Replenish, TypeOK
<1>7. Overlooked(objs[i], o) \subseteq {"deadline", "ports"}
  <2>1. PICK old : old = objs[i]
    OBVIOUS
  <2>2. old \in Storable
    BY <1>3, <2>1 DEF Stored
  <2>3. old.kind \in {"pods", "services"} \/ old.kind \notin {"pods", "services"}
    OBVIOUS
  <2> QED
    BY <2>1, <2>3 DEF Overlooked
<1>8. /\ IsList(used', Nat) /\ DOMAIN used' = DOMAIN used
      /\ \A r \in DOMAIN hard \ exceeded : r \in DOMAIN used' /\ used'[r] <= hard[r]
      /\ \A r \in DOMAIN used :
           /\ "deadline" \notin unseen' =>
                used'[r] - used[r] >= Share(spec, o, r) - Share(spec, objs[i], r)
           /\ unseen' = {} /\ ~notified' =>
                used'[r] - used[r] = Share(spec, o, r) - Share(spec, objs[i], r)
  <2>1. CASE o.kind # "pods"
    BY <2>1, UpdateCharged
  <2>2. CASE o.kind = "pods"
    <3>1. used' = used
      BY <2>2 DEF Update, Charge, Handles
    <3>2. \A r \in DOMAIN used : used[r] \in Nat
      BY <1>3 DEF IsList
    <3>3. "deadline" \notin unseen' =>
            \A r \in DOMAIN used :
              /\ Share(spec, o, r) <= Share(spec, objs[i], r)
              /\ ~notified' => Share(spec, o, r) = Share(spec, objs[i], r)
      BY <2>2, PodUpdated
    <3>4. \A r : Share(spec, o, r) \in Nat /\ Share(spec, objs[i], r) \in Nat
      BY <1>3, <1>4, ShareIs
    <3> QED
      BY <1>1, <1>3, <3>1, <3>2, <3>3, <3>4 DEF Kept
  <2> QED
    BY <2>1, <2>2
<1>9. ASSUME NEW r \in DOMAIN used
      PROVE  /\ used[r] \in Nat /\ used'[r] \in Nat /\ Load(objs, spec, r) \in Nat
             /\ Share(spec, o, r) \in Nat /\ Share(spec, objs[i], r) \in Nat
             /\ Load(objs', spec, r) = Load(objs, spec, r) + (Share(spec, o, r) - Share(spec, objs[i], r))
  <2>1. used[r] \in Nat /\ used'[r] \in Nat
    BY <1>3, <1>8 DEF IsList
  <2>2. objs'[i] = o /\ \A x \in Ids \ {i} : objs'[x] = objs[x]
    BY <1>2, <1>3
  <2>3. Load(objs', spec, r) =
          Load(objs, spec, r) + (Share(spec, o, r) - Share(spec, objs[i], r))
    BY <1>3, <1>5, <2>2, LoadChange
  <2>4. /\ Load(objs, spec, r) \in Nat /\ Share(spec, o, r) \in Nat
        /\ Share(spec, objs[i], r) \in Nat
    BY <1>3, <1>4, ShareIs, LoadIs
  <2> QED
    BY <2>1, <2>3, <2>4
<1>10. TypeOK'
  BY <1>1, <1>2, <1>5, <1>6, <1>7, <1>8 DEF TypeOK, UsageAssumption
<1>11. Tracked' /\ Kept' /\ ValidateResourceQuotaSpec(spec)'
  BY <1>1, <1>2, <1>8 DEF Tracked, Kept
<1>12. Covered'
  <2>1. ASSUME "deadline" \notin unseen', Under(objs, spec, used) PROVE Under(objs', spec, used')
    BY <1>8, <1>9, <2>1 DEF Under
  <2> QED
    BY <1>1, <1>2, <2>1 DEF Covered, Countable
<1>13. Settled'
  <2>1. ASSUME unseen' = {}, ~notified', Exact(objs, spec, used) PROVE Exact(objs', spec, used')
    BY <1>8, <1>9, <2>1 DEF Exact
  <2> QED
    BY <1>1, <1>2, <1>6, <2>1 DEF Settled, Countable
<1> QED
  BY <1>10, <1>11, <1>12, <1>13 DEF IInv

\* A pod whose grace period ends takes less: the usage still covers it.
LEMMA GraceStep ==
  ASSUME UsageAssumption, IInv, NEW i \in Ids, GraceExpires(i)
  PROVE  IInv'
<1>1. /\ TypeOK /\ Tracked /\ Kept /\ Covered /\ Settled /\ ValidateResourceQuotaSpec(spec)
      /\ objs \in [Ids -> Storable \cup {None}] /\ IsList(used, Nat)
  BY DEF IInv, TypeOK
<1>2. PICK old, o : old = objs[i] /\ o = [old EXCEPT !.status = "stuck"]
  OBVIOUS
<1>3. /\ i \in Stored /\ old.kind = "pods" /\ old.status = "grace"
      /\ objs' = [objs EXCEPT ![i] = o] /\ unseen' = unseen \cup {"grace"}
      /\ UNCHANGED <<spec, hard, used, notified, exceeded, boundVars>>
  BY <1>2 DEF GraceExpires
<1>4. old \in Pods(PodStatus)
  <2>1. old \in Storable
    BY <1>1, <1>2, <1>3 DEF Stored
  <2> QED
    BY <1>3, <2>1, KindTells DEF CountedKinds
<1>5. /\ o \in Pods(PodStatus) /\ o.kind = "pods" /\ QuotaV1Pod(old)
      /\ o.containers = old.containers /\ o.inits = old.inits
      /\ o.deadline = old.deadline /\ o.priority = old.priority
  BY <1>2, <1>3, <1>4 DEF Pods, PodStatus, QuotaV1Pod
<1>6. o \in Storable /\ old \in Storable /\ o # None /\ old # None
  BY <1>4, <1>5 DEF Storable, UsageAssumption
<1>7. objs' \in [Ids -> Storable \cup {None}]
  BY <1>1, <1>3, <1>6
<1>8. ASSUME NEW r \in DOMAIN used
      PROVE  Load(objs', spec, r) <= Load(objs, spec, r)
  <2>1. MatchesScopes(spec, "Exists", o) <=> MatchesScopes(spec, "Exists", old)
    BY <1>1, <1>3, <1>5, StatusNoScope
  <2>2. Quantity(Usage(o), r) <= Quantity(Usage(old), r)
    BY <1>4, <1>5, PodReleased
  <2>3. Share(spec, o, r) <= Share(spec, old, r)
    BY <1>6, <2>1, <2>2 DEF Share
  <2>4. objs'[i] = o /\ \A x \in Ids \ {i} : objs'[x] = objs[x]
    BY <1>1, <1>3
  <2>5. Load(objs', spec, r) = Load(objs, spec, r) + (Share(spec, o, r) - Share(spec, objs[i], r))
    BY <1>1, <1>7, <2>4, LoadChange
  <2>6. Load(objs, spec, r) \in Nat /\ Share(spec, o, r) \in Nat /\ Share(spec, old, r) \in Nat
    BY <1>1, <1>6, ShareIs, LoadIs
  <2> QED
    BY <1>2, <2>3, <2>5, <2>6
<1>9. TypeOK'
  BY <1>1, <1>3, <1>7 DEF TypeOK, boundVars
<1>10. Tracked' /\ Kept' /\ ValidateResourceQuotaSpec(spec)'
  BY <1>1, <1>3 DEF Tracked, Kept
<1>11. Covered'
  <2>1. \A r \in DOMAIN used : used[r] \in Nat /\ Load(objs, spec, r) \in Nat /\ Load(objs', spec, r) \in Nat
    BY <1>1, <1>7, LoadIs DEF IsList
  <2>2. ASSUME Under(objs, spec, used) PROVE Under(objs', spec, used)
    BY <1>8, <2>1, <2>2 DEF Under
  <2> QED
    BY <1>1, <1>3, <2>2 DEF Covered, Countable
<1>12. Settled'
  BY <1>3 DEF Settled
<1> QED
  BY <1>9, <1>10, <1>11, <1>12 DEF IInv

\* A deletion is told to every quota that counts the kind.
LEMMA DeleteStep ==
  ASSUME UsageAssumption, IInv, NEW i \in Ids, Delete(i)
  PROVE  IInv'
<1>1. /\ TypeOK /\ Tracked /\ Kept /\ Covered /\ Settled /\ ValidateResourceQuotaSpec(spec)
      /\ objs \in [Ids -> Storable \cup {None}] /\ IsList(used, Nat) /\ DOMAIN used \subseteq DOMAIN hard
  BY DEF IInv, TypeOK
<1>2. PICK old : old = objs[i]
  OBVIOUS
<1>3. /\ i \in Stored /\ objs' = [objs EXCEPT ![i] = None]
      /\ notified' = (notified \/ MatchingResources(old.kind, DOMAIN hard) # {})
      /\ UNCHANGED <<spec, hard, used, unseen, exceeded, boundVars>>
  BY <1>2 DEF Delete, Replenish
<1>4. old \in Storable /\ old # None
  BY <1>1, <1>2, <1>3 DEF Stored
<1>5. objs' \in [Ids -> Storable \cup {None}] /\ notified' \in BOOLEAN
  BY <1>1, <1>3 DEF TypeOK
<1>6. ASSUME NEW r \in DOMAIN used
      PROVE  /\ used[r] \in Nat /\ Load(objs, spec, r) \in Nat /\ Share(spec, old, r) \in Nat
             /\ Load(objs', spec, r) = Load(objs, spec, r) - Share(spec, old, r)
             /\ ~notified' => Share(spec, old, r) = 0
  <2>1. objs'[i] = None /\ \A x \in Ids \ {i} : objs'[x] = objs[x]
    BY <1>1, <1>3
  <2>2. Load(objs', spec, r) = Load(objs, spec, r) + (Share(spec, None, r) - Share(spec, objs[i], r))
    BY <1>1, <1>5, <2>1, LoadChange
  <2>3. /\ Load(objs, spec, r) \in Nat /\ Share(spec, None, r) = 0 /\ Share(spec, old, r) \in Nat
        /\ used[r] \in Nat
    BY <1>1, <1>4, ShareIs, LoadIs DEF Share, IsList
  <2>4. ASSUME ~notified' PROVE Share(spec, old, r) = 0
    <3>1. MatchingResources(old.kind, DOMAIN hard) = {}
      BY <1>3, <2>4
    <3>2. MatchingResources(old.kind, DOMAIN hard) =
            {x \in DOMAIN hard : x \in MatchingResources(old.kind, {x})}
      BY MatchedAlone
    <3>3. r \notin MatchingResources(old.kind, {r})
      BY <1>1, <3>1, <3>2
    <3> QED
      BY <1>4, <3>3, ShareIs
  <2> QED
    BY <1>2, <2>2, <2>3, <2>4
<1>7. TypeOK'
  BY <1>1, <1>3, <1>5 DEF TypeOK, boundVars
<1>8. Tracked' /\ Kept' /\ ValidateResourceQuotaSpec(spec)'
  BY <1>1, <1>3 DEF Tracked, Kept
<1>9. Covered'
  <2>1. ASSUME Under(objs, spec, used) PROVE Under(objs', spec, used)
    BY <1>6, <2>1 DEF Under
  <2> QED
    BY <1>1, <1>3, <2>1 DEF Covered, Countable
<1>10. Settled'
  <2>1. ASSUME ~notified', Exact(objs, spec, used) PROVE Exact(objs', spec, used)
    BY <1>6, <2>1 DEF Exact
  <2>2. ~notified' => ~notified
    BY <1>3
  <2> QED
    BY <1>1, <1>3, <2>1, <2>2 DEF Settled, Countable
<1> QED
  BY <1>7, <1>8, <1>9, <1>10 DEF IInv

\* Other scopes wait for the next recount, other limits ask for one.
LEMMA EditStep ==
  ASSUME UsageAssumption, IInv, NEW q \in Quotas, EditQuota(q)
  PROVE  IInv'
<1>1. TypeOK /\ Tracked /\ Kept /\ Covered /\ Settled
  BY DEF IInv
<1>2. /\ ValidateResourceQuotaSpec(q) /\ spec' = q /\ edits < MaxEdits /\ edits' = edits + 1
      /\ notified' = (notified \/ q.hard # spec.hard)
      /\ unseen' = unseen \cup (IF q.scopes = spec.scopes /\ q.selector = spec.selector
                                THEN {} ELSE {"scopes"})
      /\ UNCHANGED <<hard, used, objs, exceeded, calls, failures>>
  BY DEF EditQuota
<1>3. TypeOK'
  BY <1>1, <1>2 DEF TypeOK, UsageAssumption
<1>4. Tracked' /\ Kept' /\ ValidateResourceQuotaSpec(spec)'
  BY <1>1, <1>2 DEF Tracked, Kept
<1>5. ASSUME "scopes" \notin unseen'
      PROVE  /\ Countable' <=> Countable
             /\ \A r : Load(objs', spec', r) = Load(objs, spec, r)
  <2>1. q.scopes = spec.scopes /\ q.selector = spec.selector
    BY <1>2, <1>5
  <2>2. \A r : Load(objs, q, r) = Load(objs, spec, r)
    BY <2>1, LoadSame
  <2>3. ScopeError(q, "") <=> ScopeError(spec, "")
    BY <2>1, SameRequirements
  <2> QED
    BY <1>2, <2>2, <2>3 DEF Countable
<1>6. Covered'
  BY <1>1, <1>2, <1>5 DEF Covered, Under
<1>7. Settled'
  BY <1>1, <1>2, <1>5 DEF Settled, Exact
<1> QED
  BY <1>3, <1>4, <1>6, <1>7 DEF IInv

\* A recount: exact for what it could count, and what it could not count
\* keeps a usage that still covers it.
LEMMA RecalculateStep ==
  ASSUME UsageAssumption, IInv, NEW failed \in SUBSET Evaluators, Recalculate(failed)
  PROVE  IInv'
<1>1. /\ TypeOK /\ Tracked /\ Kept /\ Covered /\ Settled /\ ValidateResourceQuotaSpec(spec)
      /\ objs \in [Ids -> Storable \cup {None}] /\ IsList(used, Nat) /\ spec \in Quotas
  BY DEF IInv, TypeOK
<1>2. PICK usage, names : usage = CalculateUsage(failed) /\ names = DOMAIN spec.hard
  OBVIOUS
<1>3. /\ hard' = spec.hard /\ used' = Mask(Overwrite(used, usage), names)
      /\ notified' = (failed # {}) /\ unseen' = (IF failed = {} THEN {} ELSE unseen)
      /\ exceeded' = {r \in DOMAIN hard' : r \notin DOMAIN used' \/ used'[r] > hard'[r]}
      /\ failed # {} => failures < MaxFailures
      /\ failures' = failures + (IF failed = {} THEN 0 ELSE 1)
      /\ UNCHANGED <<spec, objs, calls, edits>>
  BY <1>2 DEF Recalculate
<1>4. /\ IsList(usage, Nat)
      /\ DOMAIN usage =
           {r \in names : /\ \E e \in Evaluators : r \in MatchingResources(e, {r})
                          /\ \A e \in failed : r \notin MatchingResources(e, {r})}
      /\ Countable => \A r \in DOMAIN usage : usage[r] = Load(objs, spec, r)
  BY <1>1, <1>2, Recounted
<1>5. /\ DOMAIN used' = (DOMAIN usage \cup DOMAIN used) \cap names
      /\ \A r \in DOMAIN used' : used'[r] = IF r \in DOMAIN usage THEN usage[r] ELSE used[r]
      /\ IsList(used', Nat)
  <2>1. PICK both : both = Overwrite(used, usage)
    OBVIOUS
  <2>2. /\ DOMAIN both = DOMAIN usage \cup DOMAIN used
        /\ \A r \in DOMAIN both : both[r] = IF r \in DOMAIN usage THEN usage[r] ELSE used[r]
    BY <2>1 DEF Overwrite
  <2>3. used' = [r \in DOMAIN both \cap names |-> both[r]]
    BY <1>3, <2>1 DEF Mask
  <2>4. \A r \in DOMAIN both : both[r] \in Nat
    BY <1>1, <1>4, <2>2 DEF IsList
  <2> QED
    BY <2>2, <2>3, <2>4 DEF IsList
<1>6. IsList(hard', Nat) /\ \A r \in DOMAIN hard' : QuotaName(r)
  <2>1. IsList(spec.hard, Int) /\ \A r \in DOMAIN spec.hard : QuotaName(r) /\ spec.hard[r] >= 0
    BY <1>1 DEF UsageAssumption, ValidateResourceQuotaSpec
  <2> QED
    BY <1>3, <2>1 DEF IsList
<1>7. TypeOK'
  <2>1. DOMAIN used' \subseteq DOMAIN hard' /\ exceeded' \subseteq DOMAIN hard'
    BY <1>2, <1>3, <1>5
  <2>2. failures' \in 0..MaxFailures
    BY <1>1, <1>3 DEF TypeOK, UsageAssumption
  <2>3. unseen' \subseteq {"deadline", "ports", "grace", "scopes"} /\ notified' \in BOOLEAN
    BY <1>1, <1>3 DEF TypeOK
  <2> QED
    BY <1>1, <1>3, <1>5, <1>6, <2>1, <2>2, <2>3 DEF TypeOK
<1>8. Tracked'
  BY <1>1, <1>4, <1>5, <1>6 DEF Tracked
<1>9. Kept'
  <2>1. ASSUME NEW r \in DOMAIN hard' \ exceeded' PROVE r \in DOMAIN used' /\ used'[r] <= hard'[r]
    <3>1. r \in DOMAIN used' /\ ~(used'[r] > hard'[r])
      BY <1>3
    <3>2. used'[r] \in Nat /\ hard'[r] \in Nat
      BY <1>5, <1>6, <3>1 DEF IsList
    <3> QED
      BY <3>1, <3>2
  <2> QED
    BY <2>1 DEF Kept
<1>10. \A r : Load(objs, spec, r) \in Nat
  BY <1>1, LoadIs
<1>11. Countable' <=> Countable
  BY <1>3 DEF Countable
<1>12. ASSUME failed = {}, Countable PROVE Exact(objs, spec, used')
  <2>1. ASSUME NEW r \in DOMAIN used' PROVE used'[r] = Load(objs, spec, r)
    <3>1. r \in DOMAIN usage
      BY <1>1, <1>4, <1>5, <1>12 DEF Tracked
    <3> QED
      BY <1>4, <1>5, <1>12, <3>1
  <2> QED
    BY <2>1 DEF Exact
<1>13. ASSUME failed # {}, Countable, Under(objs, spec, used) PROVE Under(objs, spec, used')
  <2>1. ASSUME NEW r \in DOMAIN used' PROVE Load(objs, spec, r) <= used'[r]
    <3>1. CASE r \in DOMAIN usage
      <4>1. used'[r] = usage[r] /\ usage[r] = Load(objs, spec, r)
        BY <1>4, <1>5, <1>13, <3>1
      <4>2. Load(objs, spec, r) \in Nat
        BY <1>10
      <4> QED
        BY <4>1, <4>2
    <3>2. CASE r \notin DOMAIN usage
      BY <1>5, <1>13, <3>2 DEF Under
    <3> QED
      BY <3>1, <3>2
  <2> QED
    BY <2>1 DEF Under
<1>14. Exact(objs, spec, used') => Under(objs, spec, used')
  BY <1>10 DEF Exact, Under
<1>15. Covered'
  <2>1. CASE failed = {}
    BY <1>3, <1>11, <1>12, <1>14, <2>1 DEF Covered
  <2>2. CASE failed # {}
    BY <1>1, <1>3, <1>11, <1>13, <2>2 DEF Covered
  <2> QED
    BY <2>1, <2>2
<1>16. Settled'
  BY <1>3, <1>11, <1>12 DEF Settled
<1>17. ValidateResourceQuotaSpec(spec)'
  BY <1>1, <1>3
<1> QED
  BY <1>7, <1>8, <1>9, <1>15, <1>16, <1>17 DEF IInv

\* Every step of the specification keeps the invariant.
LEMMA Inductive == ASSUME UsageAssumption, IInv, [Next]_vars PROVE IInv'
<1>1. CASE UNCHANGED vars
  BY <1>1 DEF vars, boundVars, IInv, TypeOK, Tracked, Kept, Covered, Settled, Countable
<1>2. ASSUME NEW i \in Ids, NEW o \in NewObjects, Create(i, o) PROVE IInv'
  BY <1>2, CreateStep
<1>3. ASSUME NEW i \in Ids, i \in Stored, NEW o \in Versions(objs[i]), Update(i, o) PROVE IInv'
  BY <1>3, UpdateStep
<1>4. ASSUME NEW i \in Ids, GraceExpires(i) PROVE IInv'
  BY <1>4, GraceStep
<1>5. ASSUME NEW i \in Ids, Delete(i) PROVE IInv'
  BY <1>5, DeleteStep
<1>6. ASSUME NEW q \in Quotas, EditQuota(q) PROVE IInv'
  BY <1>6, EditStep
<1>7. ASSUME NEW failed \in {{}} \cup {{e} : e \in Evaluators}, Recalculate(failed) PROVE IInv'
  <2>1. failed \in SUBSET Evaluators
    OBVIOUS
  <2> QED
    BY <1>7, <2>1, RecalculateStep
<1> QED
  BY <1>1, <1>2, <1>3, <1>4, <1>5, <1>6, <1>7 DEF Next

\* The invariant holds of whatever admission, the handlers and recalculations
\* do, in any order and for any objects.
THEOREM Invariant == Spec => []IInv
<1>1. Init => IInv
  BY Initially, UsageAssumption
<1>2. IInv /\ [Next]_vars => IInv'
  BY Inductive, UsageAssumption
<1> QED
  BY <1>1, <1>2, PTL DEF Spec

\* What the objects demand is their load.
LEMMA DemandedIs ==
  ASSUME UsageAssumption, IInv, NEW r \in DOMAIN hard
  PROVE  Demanded(r) = Load(objs, spec, r) /\ Demanded(r) \in Nat
<1>1. objs \in [Ids -> Storable \cup {None}] /\ QuotaName(r)
  BY DEF IInv, TypeOK, Tracked
<1>2. PICK A, f : /\ A = {i \in Stored : r \in MatchingResources(objs[i].kind, {r}) /\ InScope(objs[i])}
                  /\ f = [i \in Stored |-> Demand(objs[i], r)]
  OBVIOUS
<1>3. /\ \A i : i \in A <=> Asks(objs, spec, r, i)
      /\ \A i \in A : f[i] = Demand(objs[i], r)
  BY <1>2 DEF Stored, InScope, Asks
<1>4. SumOver(f, A) = Load(objs, spec, r)
  BY <1>1, <1>3, LoadDemanded
<1>5. Load(objs, spec, r) \in Nat
  BY <1>1, LoadIs
<1> QED
  BY <1>2, <1>4, <1>5 DEF Demanded

\* Type correctness: the status holds natural quantities, and usages only of
\* names that have a limit.
THEOREM TypeCorrect == Spec => []TypeOK
<1>1. IInv => TypeOK
  BY DEF IInv
<1> QED
  BY <1>1, Invariant, PTL

\* NeverUndercharged, for any objects and quotas: the usage that admission
\* charges by difference and a recalculation counts anew never falls short of
\* what the stored objects demand.
THEOREM NothingForgotten == Spec => []NeverUndercharged
<1>1. ASSUME IInv PROVE NeverUndercharged
  BY <1>1, UsageAssumption, DemandedIs DEF NeverUndercharged, IInv, Covered, Under
<1> QED
  BY <1>1, Invariant, PTL

\* ReleaseNoticed, likewise: unless the quota waits for the controller, or
\* a change was overlooked, what the objects no longer take has been given back.
THEOREM GivenBack == Spec => []ReleaseNoticed
<1>1. ASSUME IInv PROVE ReleaseNoticed
  <2>1. DOMAIN used \subseteq DOMAIN hard
    BY <1>1 DEF IInv, TypeOK
  <2> QED
    BY <1>1, <2>1, UsageAssumption, DemandedIs DEF ReleaseNoticed, IInv, Settled, Exact
<1> QED
  BY <1>1, Invariant, PTL

\* LimitsHold, likewise: a resource that was within its limit at the last
\* recount stays within it, by what the objects demand and not only by what
\* the status says.
THEOREM ObjectsWithinLimits == Spec => []LimitsHold
<1>1. ASSUME IInv PROVE LimitsHold
  <2>1. ASSUME Under(objs, spec, used), NEW r \in DOMAIN hard \ exceeded
        PROVE  Demanded(r) <= hard[r]
    <3>1. r \in DOMAIN used /\ used[r] <= hard[r]
      BY <1>1 DEF IInv, Kept
    <3>2. used[r] \in Nat /\ hard[r] \in Nat
      BY <1>1, <3>1 DEF IInv, TypeOK, IsList
    <3>3. Demanded(r) = Load(objs, spec, r) /\ Demanded(r) \in Nat
      BY <1>1, UsageAssumption, DemandedIs
    <3> QED
      BY <2>1, <3>1, <3>2, <3>3 DEF Under
  <2> QED
    BY <1>1, <2>1 DEF LimitsHold, IInv, Covered
<1> QED
  BY <1>1, Invariant, PTL

-----------------------------------------------------------------------------
(* QuotaController: the workers that recalculate, next to admission.       *)

\* v is no version to come, and there is only one newest version.
Past(v) == v.rv <= quota.rv /\ (v.rv = quota.rv => v = quota)

\* All that a cache, its watch or a worker holds on to.
HeldPast ==
  /\ quota.rv > 0 /\ Past(qcache)
  /\ \A i \in 1..Len(qwatch) : Past(qwatch[i])
  /\ \A k \in Queues : Past(wquota[k])

ControllerInv == ControllerTypeOK /\ HeldPast

\* The blank quota of a worker that rests is a quota.
LEMMA BlankTyped ==
  Nothing \in [Namespaces -> Nat] /\ Blank \in Quota /\ Blank.rv = 0
<1>1. PICK nothing \in [Namespaces -> Nat] : nothing = Nothing
  BY DEF Nothing
<1> QED
  BY <1>1 DEF Blank, Quota

\* What the namespaces use adds up to a number.
LEMMA UsageSums ==
  ASSUME NEW f \in [Namespaces -> Nat]
  PROVE  SumOver(f, Namespaces) \in Nat
<1>1. IsFiniteSet(Namespaces) /\ \A n \in Namespaces : f[n] \in Nat
  BY ControllerAssumption
<1> QED
  BY <1>1, SumSubset

\* A recount is a number: there are finitely many objects.
LEMMA CountedTyped ==
  ASSUME NEW n
  PROVE  Counted(n) \in Nat
<1>1. IsFiniteSet({o \in Objects : lister[o] = "present" /\ NsOf[o] = n})
  BY ControllerAssumption, FS_Subset
<1> QED
  BY <1>1, FS_CardinalityType DEF Counted

\* Storing a version keeps quota, its watch and what is held.
LEMMA StoreStep ==
  ASSUME ControllerTypeOK, HeldPast, NEW q \in Quota, Store(q)
  PROVE  /\ quota' \in Quota /\ qwatch' \in Seq(Quota)
         /\ quota'.rv > 0 /\ quota'.rv = quota.rv + 1
         /\ \A i \in 1..Len(qwatch') : Past(qwatch[i])'
         /\ \A v \in Quota : Past(v) => v.rv < quota'.rv
<1>1. quota \in Quota /\ qwatch \in Seq(Quota) /\ quota.rv \in Nat
  BY DEF ControllerTypeOK, Quota
<1>2. /\ quota' = [q EXCEPT !.rv = quota.rv + 1] /\ qwatch' = Append(qwatch, quota')
  BY DEF Store
<1>3. /\ quota' \in Quota /\ quota'.rv = quota.rv + 1
  <2>1. quota.rv + 1 \in Nat
    BY <1>1
  <2>2. PICK r \in Nat : r = quota.rv + 1
    BY <2>1
  <2>3. quota' = [q EXCEPT !.rv = r]
    BY <1>2, <2>2
  <2>4. [q EXCEPT !.rv = r] \in Quota
    BY DEF Quota
  <2> QED
    BY <2>2, <2>3, <2>4 DEF Quota
<1>4. qwatch' \in Seq(Quota)
  BY <1>1, <1>2, <1>3
<1>6. \A v \in Quota : Past(v) => v.rv < quota'.rv
  BY <1>1, <1>3 DEF Past, Quota
<1>7. ASSUME NEW i \in 1..Len(qwatch') PROVE Past(qwatch[i])'
  <2>1. CASE i <= Len(qwatch)
    <3>1. qwatch'[i] = qwatch[i] /\ qwatch[i] \in Quota /\ Past(qwatch[i])
      BY <1>1, <1>2, <1>3, <2>1 DEF HeldPast
    <3>2. qwatch[i].rv < quota'.rv /\ qwatch[i].rv \in Nat /\ quota'.rv \in Nat
      BY <1>1, <1>3, <1>6, <3>1 DEF Quota
    <3> QED
      BY <3>1, <3>2 DEF Past
  <2>2. CASE i > Len(qwatch)
    <3>1. qwatch'[i] = quota'
      BY <1>1, <1>2, <1>3, <2>2
    <3> QED
      BY <1>1, <1>3, <3>1 DEF Past
  <2> QED
    BY <1>1, <2>1, <2>2
<1> QED
  BY <1>1, <1>3, <1>4, <1>6, <1>7

\* The sync's return: the worker rests, and holds the blank quota.
LEMMA ReturnStep ==
  ASSUME ControllerTypeOK, NEW k \in Queues, NEW failed \in BOOLEAN,
         wpc[k] = "write", Return(k, failed)
  PROVE  /\ dirty' \subseteq Queues
         /\ wpc' \in [Queues -> {"idle", "list", "usage", "write"}]
         /\ wquota' \in [Queues -> Quota]
         /\ wused' \in [Queues -> [Namespaces -> Nat]]
         /\ werr' \in [Queues -> BOOLEAN]
         /\ \A j \in Queues : (wpc'[j] = "usage") <=> (wtodo'[j] # {})
         /\ wtodo' \in [Queues -> SUBSET Namespaces]
         /\ wquota'[k].rv = 0
         /\ \A j \in Queues \ {k} : wquota'[j] = wquota[j] /\ wpc'[j] = wpc[j]
         /\ UNCHANGED <<owned, obj, qcache, ownedCache, lister, changes, moves, hardEdits>>
<1> USE DEF ControllerTypeOK, Return, cacheVars
<1>1. Blank \in Quota /\ Blank.rv = 0 /\ Nothing \in [Namespaces -> Nat]
  BY BlankTyped
<1>2. wquota' \in [Queues -> Quota] /\ wquota'[k].rv = 0
  BY <1>1
<1>3. wused' \in [Queues -> [Namespaces -> Nat]]
  BY <1>1
<1>4. \A j \in Queues : (wpc'[j] = "usage") <=> (wtodo'[j] # {})
  OBVIOUS
<1> QED
  BY <1>2, <1>3, <1>4

\* A step that stores nothing and gives no worker another copy.
LEMMA HeldSame ==
  ASSUME HeldPast, UNCHANGED <<quota, qwatch, qcache, wquota>>
  PROVE  HeldPast'
BY DEF HeldPast, Past

\* Every step of the cluster keeps what is held and the types.
LEMMA ClusterStep ==
  ASSUME ControllerInv, Cluster
  PROVE  ControllerInv'
<1> USE DEF ControllerInv, ControllerTypeOK, apiVars, cacheVars, syncVars, controllerBounds
<1>q. quota \in Quota /\ quota.rv \in Nat /\ quota.total \in Nat /\ quota.ns \in [Namespaces -> Nat]
  BY DEF Quota
<1>s. ASSUME NEW q \in Quota, Store(q),
             UNCHANGED <<qcache, wquota>>
      PROVE  quota' \in Quota /\ qwatch' \in Seq(Quota) /\ HeldPast'
  <2>1. /\ quota' \in Quota /\ qwatch' \in Seq(Quota)
        /\ quota'.rv > 0
        /\ \A i \in 1..Len(qwatch') : Past(qwatch[i])'
        /\ \A v \in Quota : Past(v) => v.rv < quota'.rv
    BY <1>s, StoreStep
  <2>2. \A v \in Quota : Past(v) => v.rv \in Nat /\ v.rv < quota'.rv /\ quota'.rv \in Nat
    BY <2>1 DEF Quota
  <2>3. Past(qcache)'
    <3>1. qcache.rv \in Nat /\ qcache.rv < quota'.rv /\ quota'.rv \in Nat /\ qcache' = qcache
      BY <1>s, <2>2 DEF HeldPast
    <3> QED
      BY <3>1 DEF Past
  <2>4. ASSUME NEW k \in Queues PROVE Past(wquota[k])'
    <3>1. /\ wquota[k].rv \in Nat /\ wquota[k].rv < quota'.rv /\ quota'.rv \in Nat
          /\ wquota'[k] = wquota[k]
      BY <1>s, <2>2 DEF HeldPast
    <3> QED
      BY <3>1 DEF Past
  <2> QED
    BY <2>1, <2>3, <2>4 DEF HeldPast
<1>1. ASSUME NEW o \in Objects, Admit(o) PROVE ControllerInv'
  <2>1. obj' \in [Objects -> {"new", "admitted", "live", "deleted"}]
    BY <1>1 DEF Admit
  <2>2. CASE NsOf[o] \in owned /\ quota.hard # Unset
    <3>1. PICK n \in Namespaces : n = NsOf[o]
      BY <2>2
    <3>2. PICK q : q = [quota EXCEPT !.total = @ + 1, !.ns[n] = @ + 1]
      OBVIOUS
    <3>3. Store(q) /\ UNCHANGED <<qcache, wquota>>
      BY <1>1, <2>2, <3>1, <3>2 DEF Admit
    <3>4. PICK g \in [Namespaces -> Nat] : g = [quota.ns EXCEPT ![n] = @ + 1]
      <4>1. quota.ns[n] + 1 \in Nat
        BY <1>q
      <4> QED
        BY <1>q, <4>1
    <3>6. q \in Quota
      <4>1. quota.total + 1 \in Nat
        BY <1>q
      <4>2. q = [quota EXCEPT !.total = quota.total + 1, !.ns = g]
        BY <1>q, <3>2, <3>4 DEF Quota
      <4> QED
        BY <1>q, <3>4, <4>1, <4>2 DEF Quota
    <3>9. quota' \in Quota /\ qwatch' \in Seq(Quota) /\ HeldPast'
      BY <1>s, <3>3, <3>6
    <3> QED
      BY <1>1, <2>1, <3>9 DEF Admit
  <2>3. CASE ~(NsOf[o] \in owned /\ quota.hard # Unset)
    <3>1. UNCHANGED <<quota, qwatch, qcache, wquota>>
      BY <1>1, <2>3 DEF Admit
    <3>2. HeldPast'
      BY <3>1, HeldSame
    <3> QED
      BY <1>1, <2>1, <3>1, <3>2 DEF Admit
  <2> QED
    BY <2>2, <2>3
<1>2. ASSUME NEW o \in Objects, CreateObject(o) \/ DeleteObject(o) PROVE ControllerInv'
  <2>1. UNCHANGED <<quota, qwatch, qcache, wquota>>
    BY <1>2 DEF CreateObject, DeleteObject
  <2>2. HeldPast'
    BY <2>1, HeldSame
  <2> QED
    BY <1>2, <2>2 DEF CreateObject, DeleteObject
<1>3. ASSUME NEW n \in Namespaces, Move(n) PROVE ControllerInv'
  <2>1. UNCHANGED <<quota, qwatch, qcache, wquota>>
    BY <1>3 DEF Move
  <2>2. HeldPast'
    BY <2>1, HeldSame
  <2>3. moves' \in 0..MaxMoves /\ owned' \subseteq Namespaces
    BY <1>3, ControllerAssumption DEF Move
  <2> QED
    BY <1>3, <2>2, <2>3 DEF Move
<1>4. ASSUME NEW h \in Hards, EditHard(h) PROVE ControllerInv'
  <2>1. PICK q : q = [quota EXCEPT !.spec = h]
    OBVIOUS
  <2>2. Store(q) /\ UNCHANGED <<qcache, wquota>>
    BY <1>4, <2>1 DEF EditHard
  <2>3. h \in Nat
    BY ControllerAssumption
  <2>4. q \in Quota
    BY <2>1, <2>3 DEF Quota
  <2>6. quota' \in Quota /\ qwatch' \in Seq(Quota) /\ HeldPast'
    BY <1>s, <2>2, <2>4
  <2>7. hardEdits' \in 0..MaxHardEdits
    BY <1>4, ControllerAssumption DEF EditHard
  <2> QED
    BY <1>4, <2>6, <2>7 DEF EditHard
<1> QED
  BY <1>1, <1>2, <1>3, <1>4 DEF Cluster

\* So does every event that reaches a cache, and its handler.
LEMMA CacheStep ==
  ASSUME ControllerInv,
         \/ QuotaEvent
         \/ \E n \in Namespaces : NamespaceEvent(n)
         \/ \E o \in Objects : ObjectAdded(o) \/ ObjectDeleted(o) \/ ReplenishQuota(o)
         \/ EnqueueAll
  PROVE  ControllerInv'
<1> USE DEF ControllerInv, ControllerTypeOK, apiVars, cacheVars, syncVars, controllerBounds
<1>0. \A v : QueuesFor(v) \subseteq Queues
  BY DEF QueuesFor, Queues
<1>1. CASE QuotaEvent
  <2>1. /\ qwatch # <<>> /\ qcache' = Head(qwatch) /\ qwatch' = Tail(qwatch)
        /\ UNCHANGED <<quota, wquota>>
    BY <1>1 DEF QuotaEvent
  <2>2. qcache' = qwatch[1] /\ qcache' \in Quota /\ 1 \in 1..Len(qwatch)
    BY <2>1
  <2>3. /\ qwatch' \in Seq(Quota)
        /\ \A i \in 1..Len(qwatch') : i + 1 \in 1..Len(qwatch) /\ qwatch'[i] = qwatch[i + 1]
    BY <2>1
  <2>4. HeldPast'
    BY <2>1, <2>2, <2>3 DEF HeldPast, Past
  <2>5. dirty' \subseteq Queues
    BY <1>0, <1>1 DEF QuotaEvent
  <2> QED
    BY <1>1, <2>2, <2>3, <2>4, <2>5 DEF QuotaEvent
<1>2. ASSUME UNCHANGED <<quota, qwatch, qcache, wquota>>
      PROVE  HeldPast'
  BY <1>2, HeldSame
<1>3. ASSUME NEW n \in Namespaces, NamespaceEvent(n) PROVE ControllerInv'
  BY <1>2, <1>3 DEF NamespaceEvent, Queues
<1>4. ASSUME NEW o \in Objects, ObjectAdded(o) \/ ObjectDeleted(o) PROVE ControllerInv'
  BY <1>2, <1>4 DEF ObjectAdded, ObjectDeleted
<1>5. ASSUME NEW o \in Objects, ReplenishQuota(o) PROVE ControllerInv'
  BY <1>2, <1>5 DEF ReplenishQuota, Queues
<1>6. CASE EnqueueAll
  BY <1>2, <1>6 DEF EnqueueAll, Queues
<1> QED
  BY <1>1, <1>3, <1>4, <1>5, <1>6

\* And so does every step of a worker.
LEMMA WorkerStep ==
  ASSUME ControllerInv, NEW k \in Queues, Worker(k)
  PROVE  ControllerInv'
<1> USE DEF ControllerInv, ControllerTypeOK, apiVars, cacheVars, controllerBounds
<1>1. CASE SyncGet(k)
  <2>1. /\ wquota' = [wquota EXCEPT ![k] = qcache] /\ UNCHANGED <<quota, qwatch, qcache>>
    BY <1>1 DEF SyncGet
  <2>2. wquota' \in [Queues -> Quota]
    BY <2>1
  <2>3. HeldPast'
    BY <2>1 DEF HeldPast, Past
  <2> QED
    BY <1>1, <2>2, <2>3 DEF SyncGet
<1>2. ASSUME UNCHANGED <<quota, qwatch, qcache, wquota>>
      PROVE  HeldPast'
  BY <1>2, HeldSame
<1>3. CASE SyncList(k)
  <2>1. wused' \in [Queues -> [Namespaces -> Nat]]
    BY <1>3, BlankTyped DEF SyncList
  <2> QED
    BY <1>2, <1>3, <2>1 DEF SyncList
<1>4. ASSUME NEW n \in Namespaces, SyncUsage(k, n) PROVE ControllerInv'
  <2>1. Counted(n) \in Nat /\ wquota[k].ns[n] \in Nat
    BY CountedTyped DEF Quota
  <2>2. wused' \in [Queues -> [Namespaces -> Nat]]
    <3>1. PICK u \in Nat : wused' = [wused EXCEPT ![k][n] = u]
      BY <1>4, <2>1 DEF SyncUsage
    <3>2. PICK f \in [Namespaces -> Nat] : f = [wused[k] EXCEPT ![n] = u]
      OBVIOUS
    <3>3. wused' = [wused EXCEPT ![k] = f]
      BY <3>1, <3>2
    <3> QED
      BY <3>3
  <2>3. errors' \in 0..MaxErrors /\ werr' \in [Queues -> BOOLEAN]
    <3>1. \/ errors' = errors /\ werr' = werr
          \/ errors < MaxErrors /\ errors' = errors + 1 /\ werr' = [werr EXCEPT ![k] = TRUE]
      BY <1>4 DEF SyncUsage
    <3>2. errors' \in 0..MaxErrors
      BY <3>1, ControllerAssumption
    <3>3. werr' \in [Queues -> BOOLEAN]
      BY <3>1
    <3> QED
      BY <3>2, <3>3
  <2>4. \A j \in Queues : (wpc'[j] = "usage") <=> (wtodo'[j] # {})
    BY <1>4 DEF SyncUsage
  <2> QED
    BY <1>2, <1>4, <2>2, <2>3, <2>4 DEF SyncUsage
<1>5. CASE SyncUpdate(k)
  <2>1. PICK q : q = NewStatus(k)
    OBVIOUS
  <2>2. wpc[k] = "write" /\ Store(q)
    BY <1>5, <2>1 DEF SyncUpdate
  <2>3. PICK failed \in BOOLEAN : Return(k, failed)
    BY <1>5 DEF SyncUpdate
  <2>4. errors' \in 0..MaxErrors
    <3>1. errors' = errors \/ (errors < MaxErrors /\ errors' = errors + 1)
      BY <1>5 DEF SyncUpdate
    <3> QED
      BY <3>1, ControllerAssumption
  <2>5. PICK f \in [Namespaces -> Nat] : f = wused[k]
    OBVIOUS
  <2>6. SumOver(f, Namespaces) \in Nat
    BY UsageSums
  <2>7. q \in Quota
    <3>1. PICK t \in Nat : t = SumOver(f, Namespaces)
      BY <2>6
    <3>2. q = [wquota[k] EXCEPT !.hard = wquota[k].spec, !.total = t, !.ns = f]
      BY <2>1, <2>5, <3>1 DEF NewStatus, Sum
    <3>3. wquota[k] \in Quota
      OBVIOUS
    <3> QED
      BY <3>1, <3>2, <3>3 DEF Quota
  <2>9. /\ quota' \in Quota /\ qwatch' \in Seq(Quota)
        /\ quota'.rv > 0
        /\ \A i \in 1..Len(qwatch') : Past(qwatch[i])'
        /\ \A v \in Quota : Past(v) => v.rv < quota'.rv
    BY <2>2, <2>7, StoreStep
  <2>10. /\ dirty' \subseteq Queues
         /\ wpc' \in [Queues -> {"idle", "list", "usage", "write"}]
         /\ wquota' \in [Queues -> Quota]
         /\ wused' \in [Queues -> [Namespaces -> Nat]]
         /\ werr' \in [Queues -> BOOLEAN]
         /\ \A j \in Queues : (wpc'[j] = "usage") <=> (wtodo'[j] # {})
         /\ wtodo' \in [Queues -> SUBSET Namespaces]
         /\ wquota'[k].rv = 0
         /\ \A j \in Queues \ {k} : wquota'[j] = wquota[j]
         /\ UNCHANGED <<owned, obj, qcache, ownedCache, lister, changes, moves, hardEdits>>
    BY <2>2, <2>3, ReturnStep
  <2>11. \A v \in Quota : Past(v) => v.rv \in Nat /\ v.rv < quota'.rv /\ quota'.rv \in Nat
    BY <2>9 DEF Quota
  <2>12. Past(qcache)'
    <3>1. qcache.rv \in Nat /\ qcache.rv < quota'.rv /\ quota'.rv \in Nat /\ qcache' = qcache
      BY <2>10, <2>11 DEF HeldPast
    <3> QED
      BY <3>1 DEF Past
  <2>13. ASSUME NEW j \in Queues PROVE Past(wquota[j])'
    <3>1. CASE j = k
      <4>1. wquota'[j].rv = 0 /\ quota'.rv > 0 /\ quota'.rv \in Nat
        BY <2>9, <2>10, <3>1 DEF Quota
      <4> QED
        BY <4>1 DEF Past
    <3>2. CASE j # k
      <4>1. /\ wquota[j].rv \in Nat /\ wquota[j].rv < quota'.rv /\ quota'.rv \in Nat
            /\ wquota'[j] = wquota[j]
        BY <2>10, <2>11, <3>2 DEF HeldPast
      <4> QED
        BY <4>1 DEF Past
    <3> QED
      BY <3>1, <3>2
  <2>14. HeldPast'
    BY <2>9, <2>12, <2>13 DEF HeldPast
  <2> QED
    BY <2>4, <2>9, <2>10, <2>14
<1>6. CASE SyncConflict(k) \/ SyncClean(k)
  <2>1. wpc[k] = "write" /\ UNCHANGED <<quota, qwatch, errors>>
    BY <1>6 DEF SyncConflict, SyncClean
  <2>2. PICK failed \in BOOLEAN : Return(k, failed)
    BY <1>6 DEF SyncConflict, SyncClean
  <2>3. /\ dirty' \subseteq Queues
        /\ wpc' \in [Queues -> {"idle", "list", "usage", "write"}]
        /\ wquota' \in [Queues -> Quota]
        /\ wused' \in [Queues -> [Namespaces -> Nat]]
        /\ werr' \in [Queues -> BOOLEAN]
        /\ \A j \in Queues : (wpc'[j] = "usage") <=> (wtodo'[j] # {})
        /\ wtodo' \in [Queues -> SUBSET Namespaces]
        /\ wquota'[k].rv = 0
        /\ \A j \in Queues \ {k} : wquota'[j] = wquota[j]
        /\ UNCHANGED <<owned, obj, qcache, ownedCache, lister, changes, moves, hardEdits>>
    BY <2>1, <2>2, ReturnStep
  <2>4. ASSUME NEW j \in Queues PROVE Past(wquota[j])'
    <3>1. CASE j = k
      <4>1. wquota'[j].rv = 0 /\ quota'.rv > 0 /\ quota'.rv \in Nat
        BY <2>1, <2>3, <3>1 DEF Quota, HeldPast
      <4> QED
        BY <4>1 DEF Past
    <3>2. CASE j # k
      BY <2>1, <2>3, <3>2 DEF HeldPast, Past
    <3> QED
      BY <3>1, <3>2
  <2>5. HeldPast'
    BY <2>1, <2>3, <2>4 DEF HeldPast, Past
  <2> QED
    BY <2>1, <2>3, <2>5
<1> QED
  BY <1>1, <1>3, <1>4, <1>5, <1>6 DEF Worker

\* The invariant holds at first and is kept.
LEMMA ControllerInductive ==
  /\ ControllerInit => ControllerInv
  /\ ControllerInv /\ [ControllerNext]_controllerVars => ControllerInv'
<1>1. ASSUME ControllerInit PROVE ControllerInv
  <2>1. Nothing \in [Namespaces -> Nat] /\ Blank \in Quota /\ Blank.rv = 0
    BY BlankTyped
  <2>2. PICK nothing \in [Namespaces -> Nat] : nothing = Nothing
    BY <2>1
  <2>3. quota = [rv |-> 1, spec |-> FirstHard, hard |-> FirstStatus, total |-> 0, ns |-> nothing]
    BY <1>1, <2>2 DEF ControllerInit
  <2>4. quota \in Quota /\ quota.rv = 1
    BY <2>3, ControllerAssumption DEF Quota
  <2>7. dirty \subseteq Queues
    BY <1>1 DEF ControllerInit, QueuesFor, Queues
  <2>8. HeldPast
    BY <1>1, <2>1, <2>4 DEF ControllerInit, HeldPast, Past
  <2>9. ControllerTypeOK
    BY <1>1, <2>1, <2>4, <2>7, ControllerAssumption DEF ControllerInit, ControllerTypeOK
  <2> QED
    BY <2>8, <2>9 DEF ControllerInv
<1>2. ASSUME ControllerInv, UNCHANGED controllerVars PROVE ControllerInv'
  BY <1>2 DEF ControllerInv, ControllerTypeOK, HeldPast, Past,
     controllerVars, apiVars, cacheVars, syncVars, controllerBounds
<1>3. ASSUME ControllerInv, ControllerNext PROVE ControllerInv'
  <2>1. CASE Cluster
    BY <1>3, <2>1, ClusterStep
  <2>2. CASE \E k \in Queues : Worker(k)
    BY <1>3, <2>2, WorkerStep
  <2>3. CASE \/ QuotaEvent
             \/ \E n \in Namespaces : NamespaceEvent(n)
             \/ \E o \in Objects : ObjectAdded(o) \/ ObjectDeleted(o) \/ ReplenishQuota(o)
             \/ EnqueueAll
    BY <1>3, <2>3, CacheStep
  <2> QED
    BY <1>3, <2>1, <2>2, <2>3 DEF ControllerNext
<1> QED
  BY <1>1, <1>2, <1>3

\* The quota, its versions in caches and watches, and both workers keep their
\* types; a worker counts exactly while it has namespaces left to count.
THEOREM ControllerTyped == ControllerSpec => []ControllerTypeOK
<1>1. ControllerInv => ControllerTypeOK
  BY DEF ControllerInv
<1> QED
  BY <1>1, ControllerInductive, PTL DEF ControllerSpec

\* ReplacesWhatItRead, for any number of namespaces and objects: only a sync's
\* own update moves it on from there and changes the quota, and a copy with the
\* version of the stored quota is the stored quota.
THEOREM NothingUnseenReplaced == ControllerSpec => ReplacesWhatItRead
<1>1. ASSUME ControllerInv, [ControllerNext]_controllerVars, NEW k \in Queues,
             wpc[k] = "write", wpc'[k] # "write", quota' # quota
      PROVE  wquota[k] = quota
  <2>1. wpc \in [Queues -> {"idle", "list", "usage", "write"}] /\ wpc' # wpc
    BY <1>1 DEF ControllerInv, ControllerTypeOK
  <2>2. ~Cluster /\ ~QuotaEvent /\ ~EnqueueAll
    BY <2>1 DEF Cluster, Admit, CreateObject, DeleteObject, Move, EditHard, QuotaEvent,
       EnqueueAll, syncVars
  <2>3. /\ ~\E n \in Namespaces : NamespaceEvent(n)
        /\ ~\E o \in Objects : ObjectAdded(o) \/ ObjectDeleted(o) \/ ReplenishQuota(o)
    BY <2>1 DEF NamespaceEvent, ObjectAdded, ObjectDeleted, ReplenishQuota, syncVars
  <2>4. ~UNCHANGED controllerVars
    BY <2>1 DEF controllerVars, syncVars
  <2>5. PICK j \in Queues : Worker(j)
    BY <1>1, <2>2, <2>3, <2>4 DEF ControllerNext
  <2>6. SyncUpdate(j)
    BY <1>1, <2>5 DEF Worker, SyncGet, SyncList, SyncUsage, SyncConflict, SyncClean,
       apiVars
  <2>7. wquota[j].rv = quota.rv /\ (j # k => wpc'[k] = wpc[k])
    BY <2>1, <2>6 DEF SyncUpdate, Return
  <2> QED
    BY <1>1, <2>7 DEF ControllerInv, HeldPast, Past
<1>2. ControllerInv /\ [ControllerNext]_controllerVars =>
        [\A k \in Queues :
           wpc[k] = "write" /\ wpc'[k] # "write" /\ quota' # quota => wquota[k] = quota]_controllerVars
  BY <1>1
<1> QED
  BY <1>2, ControllerInductive, PTL DEF ControllerSpec, ReplacesWhatItRead

-----------------------------------------------------------------------------
(* The recalculation that stores edited limits is not forgotten.  Only a   *)
(* sync from the newest version can store one, and then the cache holds    *)
(* that version: so the limits in the stored status are those of each      *)
(* version from the cache on, or those that its spec asks for.             *)

\* The cache lags by the versions the watch has to deliver, and a worker's copy
\* is no newer than the cache.
Lag ==
  /\ quota.rv = qcache.rv + Len(qwatch)
  /\ \A i \in 1..Len(qwatch) : qwatch[i].rv = qcache.rv + i
  /\ \A k \in Queues : wquota[k].rv <= qcache.rv

Standing(v) == quota.hard \in {v.hard, v.spec}
Stands == Standing(qcache) /\ \A i \in 1..Len(qwatch) : Standing(qwatch[i])

\* Whoever can see in the cache that the limits are not stored will do it.
AtWork(k) == wpc[k] # "idle" /\ wquota[k].spec # wquota[k].hard
Due ==
  qcache.spec # qcache.hard /\ quota.hard # qcache.spec =>
    dirty # {} \/ \E k \in Queues : AtWork(k)

DueInv == Lag /\ Stands /\ Due

\* A new version is one more for the watch to deliver.
LEMMA StoreLag ==
  ASSUME ControllerTypeOK, HeldPast, Lag, NEW q \in Quota, Store(q), UNCHANGED qcache,
         \A k \in Queues : wquota'[k].rv <= qcache.rv
  PROVE  /\ Lag' /\ quota'.hard = q.hard /\ quota'.spec = q.spec
         /\ \A i \in 1..Len(qwatch') :
              qwatch'[i] = quota' \/ (i \in 1..Len(qwatch) /\ qwatch'[i] = qwatch[i])
<1>1. /\ qwatch \in Seq(Quota) /\ qcache.rv \in Nat
      /\ quota' \in Quota /\ quota'.rv = quota.rv + 1
  BY StoreStep DEF ControllerTypeOK, Quota
<1>2. quota' = [q EXCEPT !.rv = quota.rv + 1] /\ qwatch' = Append(qwatch, quota')
  BY DEF Store
<1>3. quota'.hard = q.hard /\ quota'.spec = q.spec
  BY <1>2 DEF Quota
<1>4. /\ Len(qwatch') = Len(qwatch) + 1 /\ Len(qwatch) \in Nat
      /\ \A i \in 1..Len(qwatch) : qwatch'[i] = qwatch[i]
      /\ qwatch'[Len(qwatch) + 1] = quota'
  BY <1>1, <1>2
<1>5. quota'.rv = qcache'.rv + Len(qwatch')
  <2>1. quota.rv = qcache.rv + Len(qwatch) /\ qcache'.rv = qcache.rv
    BY DEF Lag
  <2>2. \A r, n \in Nat : (r + n) + 1 = r + (n + 1)
    OBVIOUS
  <2> QED
    BY <1>1, <1>4, <2>1, <2>2
<1>6. \A i \in 1..Len(qwatch') : i \in 1..Len(qwatch) \/ i = Len(qwatch) + 1
  BY <1>4
<1>7. ASSUME NEW i \in 1..Len(qwatch') PROVE qwatch'[i].rv = qcache'.rv + i
  <2>1. CASE i \in 1..Len(qwatch)
    <3>1. qwatch'[i] = qwatch[i]
      BY <1>4, <2>1
    <3>2. qwatch[i].rv = qcache.rv + i
      BY <2>1 DEF Lag
    <3> QED
      BY <3>1, <3>2
  <2>2. CASE i = Len(qwatch) + 1
    BY <1>4, <1>5, <2>2
  <2> QED
    BY <1>6, <2>1, <2>2
<1> QED
  BY <1>3, <1>4, <1>5, <1>6, <1>7 DEF Lag

\* A step that stores nothing, delivers no version and takes no copy.
LEMMA SameDue ==
  ASSUME DueInv, UNCHANGED <<quota, qwatch, qcache>>, \A k \in Queues : wquota'[k].rv <= qcache.rv,
         dirty' # {} \/ (dirty' = dirty /\ \A k \in Queues : AtWork(k) => AtWork(k)')
  PROVE  DueInv'
BY DEF DueInv, Lag, Stands, Standing, Due

\* A version stored by others keeps the limits of the status.
LEMMA OthersDue ==
  ASSUME ControllerInv, DueInv, NEW q \in Quota, q.hard = quota.hard, Store(q),
         UNCHANGED <<qcache, dirty, wpc, wquota>>
  PROVE  DueInv'
<1>1. \A k \in Queues : wquota'[k].rv <= qcache.rv
  BY DEF DueInv, Lag
<1>2. /\ Lag' /\ quota'.hard = quota.hard
      /\ \A i \in 1..Len(qwatch') :
           qwatch'[i] = quota' \/ (i \in 1..Len(qwatch) /\ qwatch'[i] = qwatch[i])
  BY <1>1, StoreLag DEF ControllerInv, DueInv
<1>3. Stands'
  BY <1>2 DEF DueInv, Stands, Standing
<1>4. Due'
  BY <1>2 DEF DueInv, Due, AtWork
<1> QED
  BY <1>2, <1>3, <1>4 DEF DueInv

\* A worker's own update stores the limits that the cached spec asks for.
LEMMA UpdateDue ==
  ASSUME ControllerInv, DueInv, NEW k \in Queues, SyncUpdate(k)
  PROVE  DueInv'
<1>1. /\ quota \in Quota /\ qcache \in Quota /\ qwatch \in Seq(Quota) /\ wquota[k] \in Quota
      /\ wused[k] \in [Namespaces -> Nat]
      /\ quota.rv \in Nat /\ qcache.rv \in Nat /\ Len(qwatch) \in Nat
  BY DEF ControllerInv, ControllerTypeOK, Quota
<1>2. wquota[k].rv = quota.rv /\ Store(NewStatus(k)) /\ wpc[k] = "write"
  BY DEF SyncUpdate
<1>3. PICK failed \in BOOLEAN : Return(k, failed)
  BY DEF SyncUpdate, ControllerInv, ControllerTypeOK
<1>4. wquota[k] = quota
  BY <1>2 DEF ControllerInv, HeldPast, Past
<1>5. qcache.rv = quota.rv /\ Len(qwatch) = 0
  <2>1. wquota[k].rv <= qcache.rv /\ quota.rv = qcache.rv + Len(qwatch)
    BY DEF DueInv, Lag
  <2> QED
    BY <1>1, <1>2, <2>1
<1>6. qcache = quota
  BY <1>5 DEF ControllerInv, HeldPast, Past
<1>7. PICK q \in Quota : q = NewStatus(k) /\ q.hard = quota.spec /\ q.spec = quota.spec
  <2>1. PICK t \in Nat : t = Sum(wused[k])
    BY <1>1, UsageSums DEF Sum
  <2>2. PICK q : q = [quota EXCEPT !.hard = quota.spec, !.total = t, !.ns = wused[k]]
    OBVIOUS
  <2>3. q \in Quota /\ q.hard = quota.spec /\ q.spec = quota.spec
    BY <1>1, <2>2 DEF Quota
  <2> QED
    BY <1>4, <2>1, <2>2, <2>3 DEF NewStatus
<1>8. /\ wquota'[k].rv = 0 /\ \A j \in Queues \ {k} : wquota'[j] = wquota[j]
      /\ qcache' = qcache
  BY <1>2, <1>3, ReturnStep DEF ControllerInv
<1>9. \A j \in Queues : wquota'[j].rv <= qcache.rv
  <2>1. 0 <= qcache.rv
    BY <1>1
  <2> QED
    BY <1>8, <2>1 DEF DueInv, Lag
<1>10. /\ Lag' /\ quota'.hard = quota.spec /\ quota'.spec = quota.spec
       /\ \A i \in 1..Len(qwatch') :
            qwatch'[i] = quota' \/ (i \in 1..Len(qwatch) /\ qwatch'[i] = qwatch[i])
  BY <1>2, <1>7, <1>8, <1>9, StoreLag DEF ControllerInv, DueInv
<1>11. \A i \in 1..Len(qwatch') : qwatch'[i] = quota'
  BY <1>5, <1>10
<1> QED
  BY <1>6, <1>8, <1>10, <1>11 DEF DueInv, Stands, Standing, Due

\* A worker that ends otherwise gives the quota back, or its copy had the
\* limits stored.
LEMMA EndDue ==
  ASSUME ControllerInv, DueInv, NEW k \in Queues, SyncConflict(k) \/ SyncClean(k)
  PROVE  DueInv'
<1>1. /\ wpc[k] = "write" /\ UNCHANGED <<quota, qwatch>> /\ qcache.rv \in Nat
  BY DEF SyncConflict, SyncClean, ControllerInv, ControllerTypeOK, Quota
<1>2. PICK failed \in BOOLEAN : Return(k, failed) /\ (failed \/ SyncClean(k))
  BY DEF SyncConflict, SyncClean, ControllerInv, ControllerTypeOK
<1>3. /\ wquota'[k].rv = 0 /\ qcache' = qcache
      /\ \A j \in Queues \ {k} : wquota'[j] = wquota[j] /\ wpc'[j] = wpc[j]
  BY <1>1, <1>2, ReturnStep DEF ControllerInv
<1>4. \A j \in Queues : wquota'[j].rv <= qcache.rv
  <2>1. 0 <= qcache.rv
    BY <1>1
  <2> QED
    BY <1>3, <2>1 DEF DueInv, Lag
<1>5. dirty' = IF failed THEN dirty \cup {k} ELSE dirty
  BY <1>2 DEF Return
<1>6. ~failed => ~AtWork(k)
  BY <1>2 DEF SyncClean, NeedsUpdate, AtWork
<1>7. \A j \in Queues : AtWork(j) /\ j # k => AtWork(j)'
  BY <1>3 DEF AtWork
<1> QED
  BY <1>1, <1>3, <1>4, <1>5, <1>6, <1>7, SameDue

\* The cache gets the next version: its handler queues a quota whose spec has
\* changed, and otherwise the version before was no less in need of a sync.
LEMMA EventDue ==
  ASSUME ControllerInv, DueInv, QuotaEvent
  PROVE  DueInv'
<1>1. /\ qwatch # <<>> /\ qcache' = Head(qwatch) /\ qwatch' = Tail(qwatch)
      /\ qwatch \in Seq(Quota) /\ qcache \in Quota
      /\ UNCHANGED <<quota, wquota, wpc>>
      /\ \A k \in Queues : wquota[k] \in Quota
  BY DEF QuotaEvent, ControllerInv, ControllerTypeOK, syncVars
<1>2. /\ Len(qwatch) \in Nat \ {0} /\ 1 \in 1..Len(qwatch) /\ qcache' = qwatch[1]
      /\ Len(qwatch') = Len(qwatch) - 1
      /\ \A i \in 1..Len(qwatch') : i + 1 \in 1..Len(qwatch) /\ qwatch'[i] = qwatch[i + 1]
  BY <1>1
<1>3. qcache'.rv = qcache.rv + 1 /\ qcache.rv \in Nat
  BY <1>1, <1>2 DEF DueInv, Lag, Quota
<1>4. Lag'
  <2>1. quota'.rv = qcache'.rv + Len(qwatch')
    BY <1>1, <1>2, <1>3 DEF DueInv, Lag
  <2>2. ASSUME NEW i \in 1..Len(qwatch') PROVE qwatch'[i].rv = qcache'.rv + i
    <3>1. i \in Nat /\ i + 1 \in 1..Len(qwatch) /\ qwatch'[i] = qwatch[i + 1]
      BY <1>2
    <3>2. qwatch[i + 1].rv = qcache.rv + (i + 1)
      BY <3>1 DEF DueInv, Lag
    <3>3. \A r, n \in Nat : r + (n + 1) = (r + 1) + n
      OBVIOUS
    <3> QED
      BY <1>3, <3>1, <3>2, <3>3
  <2>3. \A k \in Queues : wquota'[k].rv <= qcache'.rv
    <3>1. \A k \in Queues : wquota[k].rv \in Nat /\ wquota[k].rv <= qcache.rv
      BY <1>1 DEF DueInv, Lag, Quota
    <3> QED
      BY <1>1, <1>3, <3>1
  <2> QED
    BY <2>1, <2>2, <2>3 DEF Lag
<1>5. Stands'
  BY <1>1, <1>2 DEF DueInv, Stands, Standing
<1>6. Due'
  <2> SUFFICES ASSUME qcache'.spec # qcache'.hard, quota.hard # qcache'.spec
               PROVE  dirty' # {} \/ \E k \in Queues : AtWork(k)
    BY <1>1 DEF Due, AtWork
  <2>1. CASE qcache'.spec # qcache.spec
    BY <1>1, <2>1 DEF QuotaEvent
  <2>2. CASE qcache'.spec = qcache.spec
    <3>1. dirty' = dirty
      BY <1>1, <2>2 DEF QuotaEvent
    <3>2. qcache.spec # qcache.hard /\ quota.hard # qcache.spec
      BY <2>2 DEF DueInv, Stands, Standing
    <3> QED
      BY <3>1, <3>2 DEF DueInv, Due
  <2> QED
    BY <2>1, <2>2
<1> QED
  BY <1>4, <1>5, <1>6 DEF DueInv

\* Every step.
LEMMA NextDue ==
  ASSUME ControllerInv, DueInv, [ControllerNext]_controllerVars
  PROVE  DueInv'
<1> USE DEF apiVars, cacheVars, syncVars
<1>0. \A k \in Queues : wquota[k].rv <= qcache.rv
  BY DEF DueInv, Lag
<1>q. quota \in Quota /\ quota.total \in Nat /\ quota.ns \in [Namespaces -> Nat]
  BY DEF ControllerInv, ControllerTypeOK, Quota
<1>1. ASSUME UNCHANGED <<quota, qwatch, qcache, wquota, wpc>>, dirty \subseteq dirty'
      PROVE  DueInv'
  BY <1>0, <1>1, SameDue DEF AtWork
<1>2. ASSUME NEW o \in Objects, Admit(o) PROVE DueInv'
  <2>1. CASE NsOf[o] \in owned /\ quota.hard # Unset
    <3>1. PICK n \in Namespaces : n = NsOf[o]
      BY ControllerAssumption
    <3>2. PICK g \in [Namespaces -> Nat] : g = [quota.ns EXCEPT ![n] = @ + 1]
      <4>1. quota.ns[n] + 1 \in Nat
        BY <1>q
      <4> QED
        BY <1>q, <4>1
    <3>3. PICK q : q = [quota EXCEPT !.total = quota.total + 1, !.ns = g]
      OBVIOUS
    <3>4. q \in Quota /\ q.hard = quota.hard
      <4>1. quota.total + 1 \in Nat
        BY <1>q
      <4> QED
        BY <1>q, <3>3, <4>1 DEF Quota
    <3>5. q = [quota EXCEPT !.total = @ + 1, !.ns[NsOf[o]] = @ + 1]
      BY <1>q, <3>1, <3>2, <3>3
    <3>6. Store(q) /\ UNCHANGED <<qcache, dirty, wpc, wquota>>
      BY <1>2, <2>1, <3>5 DEF Admit
    <3> QED
      BY <3>4, <3>6, OthersDue
  <2>2. CASE ~(NsOf[o] \in owned /\ quota.hard # Unset)
    BY <1>1, <1>2, <2>2 DEF Admit
  <2> QED
    BY <2>1, <2>2
<1>3. ASSUME NEW h \in Hards, EditHard(h) PROVE DueInv'
  <2>1. PICK q : q = [quota EXCEPT !.spec = h]
    OBVIOUS
  <2>2. q \in Quota /\ q.hard = quota.hard
    <3>1. h \in Nat
      BY ControllerAssumption
    <3> QED
      BY <1>q, <2>1, <3>1 DEF Quota
  <2> QED
    BY <1>3, <2>1, <2>2, OthersDue DEF EditHard
<1>4. ASSUME NEW k \in Queues, SyncGet(k) PROVE DueInv'
  <2>1. /\ UNCHANGED <<quota, qwatch, qcache>>
        /\ wquota'[k] = qcache /\ wpc'[k] = "list"
        /\ \A j \in Queues \ {k} : wquota'[j] = wquota[j]
    BY <1>4 DEF SyncGet, ControllerInv, ControllerTypeOK
  <2>2. Lag' /\ Stands'
    <3>1. qcache.rv <= qcache.rv
      BY DEF ControllerInv, ControllerTypeOK, Quota
    <3> QED
      BY <2>1, <3>1 DEF DueInv, Lag, Stands, Standing
  <2>3. Due'
    BY <2>1 DEF Due, AtWork
  <2> QED
    BY <2>2, <2>3 DEF DueInv
<1>5. ASSUME NEW k \in Queues, SyncList(k) \/ \E n \in Namespaces : SyncUsage(k, n) PROVE DueInv'
  <2>1. UNCHANGED <<quota, qwatch, qcache, wquota, dirty>>
    BY <1>5 DEF SyncList, SyncUsage
  <2>2. \A j \in Queues : AtWork(j) => AtWork(j)'
    BY <1>5, <2>1 DEF SyncList, SyncUsage, AtWork, ControllerInv, ControllerTypeOK
  <2> QED
    BY <1>0, <2>1, <2>2, SameDue
<1>6. CASE \/ \E o \in Objects : CreateObject(o) \/ DeleteObject(o)
           \/ \E n \in Namespaces : Move(n)
           \/ \E n \in Namespaces : NamespaceEvent(n)
           \/ \E o \in Objects : ObjectAdded(o) \/ ObjectDeleted(o) \/ ReplenishQuota(o)
           \/ EnqueueAll
  BY <1>1, <1>6 DEF CreateObject, DeleteObject, Move, NamespaceEvent, ObjectAdded, ObjectDeleted,
     ReplenishQuota, EnqueueAll
<1>7. CASE UNCHANGED controllerVars
  BY <1>1, <1>7 DEF controllerVars
<1> QED
  BY <1>2, <1>3, <1>4, <1>5, <1>6, <1>7, UpdateDue, EndDue, EventDue DEF ControllerNext, Cluster, Worker

\* In the beginning the quota waits in a workqueue.
LEMMA InitDue ==
  ASSUME ControllerInit
  PROVE  DueInv
<1>1. /\ qwatch = <<>> /\ qcache = quota /\ dirty # {} /\ quota.rv = 1
      /\ \A k \in Queues : wquota[k] = Blank
  BY DEF ControllerInit
<1>2. Blank.rv = 0
  BY BlankTyped
<1> QED
  BY <1>1, <1>2 DEF DueInv, Lag, Stands, Standing, Due

\* LimitsDue, for any number of namespaces, objects and edits and any lag of the
\* caches: the recalculation that brings edited limits into the status stays due
\* until they are there, without the help of the timer.
THEOREM EditsRemembered == ControllerSpec => []LimitsDue
<1>1. ControllerInv /\ DueInv => LimitsDue
  <2> SUFFICES ASSUME ControllerInv, DueInv, quota.spec # quota.hard, qwatch = <<>>
               PROVE  dirty # {} \/ \E k \in Queues : AtWork(k)
    BY DEF LimitsDue, AtWork
  <2>1. qcache.rv = quota.rv
    <3>1. qcache.rv \in Nat /\ Len(qwatch) = 0
      BY DEF ControllerInv, ControllerTypeOK, Quota
    <3> QED
      BY <3>1 DEF DueInv, Lag
  <2>2. qcache = quota
    BY <2>1 DEF ControllerInv, HeldPast, Past
  <2> QED
    BY <2>2 DEF DueInv, Due
<1> QED
  BY <1>1, InitDue, NextDue, ControllerInductive, PTL DEF ControllerSpec

=============================================================================
