----------------------------- MODULE SumProofs ------------------------------
(***************************************************************************)
(* What a sum over a finite set is: the recursive definition behind        *)
(* MapThenSumSet has a solution, which does not depend on the order in     *)
(* which elements are picked; so an element can be taken out, a summand    *)
(* changed, and two sums compared summand by summand.                      *)
(***************************************************************************)
EXTENDS Sums, FiniteSetTheorems, WellFoundedInduction, TLAPS

-----------------------------------------------------------------------------
(* Induction, over sets and not over formulas.                             *)

\* A set that has 0 and the successor of each of its numbers has them all.
LEMMA NumbersReached ==
  ASSUME NEW T, 0 \in T, \A n \in Nat : n \in T => n + 1 \in T
  PROVE  Nat \subseteq T
<1> DEFINE D == Nat \ T
<1> SUFFICES ASSUME D # {} PROVE FALSE
  OBVIOUS
<1>1. PICK x \in D : \A y \in D : ~(<<y, x>> \in OpToRel(<, Nat))
  <2> HIDE DEF D
  <2>1. D \subseteq Nat
    BY DEF D
  <2> QED
    BY <2>1, NatLessThanWellFounded, WFMin
<1>2. \A y \in Nat : y < x => <<y, x>> \in OpToRel(<, Nat)
  BY DEF OpToRel
<1>3. x # 0 /\ x - 1 \in Nat /\ x - 1 < x
  OBVIOUS
<1>4. x - 1 \in T
  BY <1>1, <1>2, <1>3
<1> QED
  BY <1>3, <1>4

\* A family of subsets of a finite set S that has every subset whose smaller
\* neighbours it has, has them all.
LEMMA SubsetsReached ==
  ASSUME NEW S, IsFiniteSet(S), NEW F,
         \A A \in SUBSET S : (\A x \in A : A \ {x} \in F) => A \in F
  PROVE  SUBSET S \subseteq F
<1> DEFINE T == {n \in Nat : \A A \in SUBSET S : Cardinality(A) = n => A \in F}
<1>1. \A A \in SUBSET S : IsFiniteSet(A) /\ Cardinality(A) \in Nat
  BY FS_Subset, FS_CardinalityType
<1>2. 0 \in T
  <2>1. \A A \in SUBSET S : Cardinality(A) = 0 => A = {}
    BY <1>1, FS_EmptySet
  <2> QED
    BY <2>1
<1>3. ASSUME NEW n \in Nat, n \in T
      PROVE  n + 1 \in T
  <2> SUFFICES ASSUME NEW A \in SUBSET S, Cardinality(A) = n + 1 PROVE A \in F
    OBVIOUS
  <2>1. ASSUME NEW x \in A PROVE A \ {x} \in F
    <3>1. Cardinality(A \ {x}) = n
      <4>1. Cardinality(A \ {x}) = Cardinality(A) - 1
        BY <1>1, FS_RemoveElement
      <4> QED
        BY <4>1
    <3> QED
      BY <1>3, <3>1
  <2> QED
    BY <2>1
<1>4. Nat \subseteq T
  <2> HIDE DEF T
  <2> QED
    BY <1>2, <1>3, NumbersReached
<1> QED
  BY <1>1, <1>4

-----------------------------------------------------------------------------
(* The recursive definition.                                               *)

Picked(s) == CHOOSE x \in s : TRUE
Round(f, g, s) == IF s = {} THEN 0 ELSE f[Picked(s)] + g[s \ {Picked(s)}]
Solves(f, D, g) == g = [s \in D |-> Round(f, g, s)]

\* A sum is the value of a function that is chosen to satisfy the recursion.
LEMMA SumChosen ==
  ASSUME NEW f, NEW S
  PROVE  SumOver(f, S) = (CHOOSE g : Solves(f, SUBSET S, g))[S]
BY DEF Solves, SumOver, MapThenSumSet, MapThenFoldSet, Round, Picked

\* There is such a function.
LEMMA RecursionSolved ==
  ASSUME NEW f, NEW S, IsFiniteSet(S)
  PROVE  \E g : Solves(f, SUBSET S, g)
<1> DEFINE D(n) == {s \in SUBSET S : Cardinality(s) <= n}
           T == {n \in Nat : \E g : Solves(f, D(n), g)}
<1>1. \A A \in SUBSET S : IsFiniteSet(A) /\ Cardinality(A) \in Nat /\ Cardinality(A) <= Cardinality(S)
  BY FS_Subset, FS_CardinalityType
<1>2. 0 \in T
  <2>1. \A s \in D(0) : s = {}
    BY <1>1, FS_EmptySet
  <2> DEFINE g == [s \in D(0) |-> 0]
  <2>2. Solves(f, D(0), g)
    BY <2>1 DEF Round, Solves
  <2> QED
    BY <2>2
<1>3. ASSUME NEW n \in Nat, n \in T
      PROVE  n + 1 \in T
  <2>1. PICK g : Solves(f, D(n), g)
    BY <1>3
  <2> DEFINE h == [s \in D(n + 1) |-> Round(f, g, s)]
  <2>2. \A s \in D(n) : s \in D(n + 1) /\ h[s] = g[s]
    BY <1>1, <2>1 DEF Solves
  <2>3. ASSUME NEW s \in D(n + 1), s # {}
        PROVE  s \ {Picked(s)} \in D(n)
    <3>1. Picked(s) \in s
      BY <2>3 DEF Picked
    <3>2. Cardinality(s \ {Picked(s)}) = Cardinality(s) - 1
      BY <1>1, <3>1, FS_RemoveElement
    <3> QED
      BY <1>1, <3>2
  <2>4. \A s \in D(n + 1) : Round(f, h, s) = Round(f, g, s)
    BY <2>2, <2>3 DEF Round
  <2>5. Solves(f, D(n + 1), h)
    BY <2>4 DEF Solves
  <2> HIDE DEF h, D
  <2>6. \E k : Solves(f, D(n + 1), k)
    BY <2>5
  <2> QED
    BY <2>6
<1>4. Cardinality(S) \in T
  <2>1. Nat \subseteq T
    <3> HIDE DEF T
    <3> QED
      BY <1>2, <1>3, NumbersReached
  <2> QED
    BY <1>1, <2>1
<1>5. D(Cardinality(S)) = SUBSET S
  BY <1>1
<1> QED
  BY <1>4, <1>5

\* Two such functions agree on the sets that both are about.
LEMMA RecursionUnique ==
  ASSUME NEW f, NEW S, NEW R, NEW g, NEW h, IsFiniteSet(S), S \subseteq R,
         Solves(f, SUBSET R, g), Solves(f, SUBSET S, h)
  PROVE  \A s \in SUBSET S : g[s] = h[s]
<1> DEFINE F == {s \in SUBSET S : g[s] = h[s]}
<1>1. ASSUME NEW A \in SUBSET S, \A x \in A : A \ {x} \in F
      PROVE  A \in F
  <2>1. g[A] = Round(f, g, A) /\ h[A] = Round(f, h, A)
    BY DEF Solves
  <2>2. A # {} => Picked(A) \in A
    BY DEF Picked
  <2> QED
    BY <1>1, <2>1, <2>2 DEF Round
<1>2. SUBSET S \subseteq F
  <2> HIDE DEF F
  <2> QED
    BY <1>1, SubsetsReached
<1> QED
  BY <1>2

\* A sum is the picked summand and the sum of the others.
LEMMA SumUnfolds ==
  ASSUME NEW f, NEW S, IsFiniteSet(S)
  PROVE  SumOver(f, S) = IF S = {} THEN 0
                         ELSE f[Picked(S)] + SumOver(f, S \ {Picked(S)})
<1> DEFINE Fold(R) == CHOOSE g : Solves(f, SUBSET R, g)
<1>1. ASSUME NEW R, IsFiniteSet(R)
      PROVE  Solves(f, SUBSET R, Fold(R))
  BY <1>1, RecursionSolved
<1>2. \A R : SumOver(f, R) = Fold(R)[R]
  BY SumChosen
<1> HIDE DEF Fold
<1>3. SumOver(f, S) = Round(f, Fold(S), S)
  BY <1>1, <1>2 DEF Solves
<1>4. CASE S = {}
  BY <1>3, <1>4 DEF Round
<1>5. CASE S # {}
  <2> DEFINE R == S \ {Picked(S)}
  <2>1. IsFiniteSet(R) /\ R \subseteq S
    BY FS_RemoveElement
  <2>2. Fold(S)[R] = Fold(R)[R]
    <3> HIDE DEF R
    <3>1. Solves(f, SUBSET S, Fold(S)) /\ Solves(f, SUBSET R, Fold(R))
      BY <1>1, <2>1
    <3>2. \A s \in SUBSET R : Fold(S)[s] = Fold(R)[s]
      BY <2>1, <3>1, RecursionUnique
    <3> QED
      BY <3>2
  <2> QED
    BY <1>2, <1>3, <1>5, <2>2 DEF Round
<1> QED
  BY <1>4, <1>5

-----------------------------------------------------------------------------
(* What follows for sums.                                                  *)

\* The sum over nothing.
LEMMA SumEmpty == ASSUME NEW f PROVE SumOver(f, {}) = 0
  BY FS_EmptySet, SumUnfolds

\* A sum of integers is one, and any element of the set can be taken out.
LEMMA SumInteger ==
  ASSUME NEW f, NEW S, IsFiniteSet(S), \A x \in S : f[x] \in Int
  PROVE  \A A \in SUBSET S : SumOver(f, A) \in Int
<1> DEFINE F == {A \in SUBSET S : SumOver(f, A) \in Int}
<1>1. ASSUME NEW A \in SUBSET S, \A x \in A : A \ {x} \in F
      PROVE  A \in F
  <2>1. IsFiniteSet(A) /\ (A # {} => Picked(A) \in A)
    BY FS_Subset DEF Picked
  <2>2. SumOver(f, A) = IF A = {} THEN 0 ELSE f[Picked(A)] + SumOver(f, A \ {Picked(A)})
    BY <2>1, SumUnfolds
  <2> QED
    BY <1>1, <2>1, <2>2
<1>2. SUBSET S \subseteq F
  <2> HIDE DEF F
  <2> QED
    BY <1>1, SubsetsReached
<1> QED
  BY <1>2

\* Any element can be taken out of a sum.
LEMMA SumRemove ==
  ASSUME NEW f, NEW S, IsFiniteSet(S), \A x \in S : f[x] \in Int, NEW y \in S
  PROVE  SumOver(f, S) = f[y] + SumOver(f, S \ {y})
<1> DEFINE F == {A \in SUBSET S : \A x \in A : SumOver(f, A) = f[x] + SumOver(f, A \ {x})}
<1>1. ASSUME NEW A \in SUBSET S, \A x \in A : A \ {x} \in F
      PROVE  A \in F
  <2> SUFFICES ASSUME NEW x \in A PROVE SumOver(f, A) = f[x] + SumOver(f, A \ {x})
    OBVIOUS
  <2>1. PICK p : p = Picked(A)
    OBVIOUS
  <2>2. IsFiniteSet(A) /\ p \in A
    BY <2>1, FS_Subset DEF Picked
  <2>3. SumOver(f, A) = f[p] + SumOver(f, A \ {p})
    BY <2>1, <2>2, SumUnfolds
  <2>4. CASE p # x
    <3>1. PICK R : R = (A \ {p}) \ {x} /\ R = (A \ {x}) \ {p}
      BY Zenon
    <3>2. SumOver(f, A \ {p}) = f[x] + SumOver(f, R)
      BY <1>1, <2>2, <2>4, <3>1
    <3>3. SumOver(f, A \ {x}) = f[p] + SumOver(f, R)
      BY <1>1, <2>2, <2>4, <3>1
    <3>4. SumOver(f, R) \in Int /\ f[p] \in Int /\ f[x] \in Int
      <4>1. R \in SUBSET S
        BY <3>1
      <4> QED
        BY <2>2, <4>1, SumInteger
    <3> HIDE DEF F
    <3> QED
      BY <2>3, <3>2, <3>3, <3>4
  <2> QED
    BY <2>3, <2>4
<1>2. SUBSET S \subseteq F
  <2> HIDE DEF F
  <2> QED
    BY <1>1, SubsetsReached
<1> QED
  BY <1>2

\* A new element is added to a sum.
LEMMA SumAdd ==
  ASSUME NEW f, NEW S, IsFiniteSet(S), NEW y, y \notin S, \A x \in S \cup {y} : f[x] \in Int
  PROVE  SumOver(f, S \cup {y}) = f[y] + SumOver(f, S)
<1>1. IsFiniteSet(S \cup {y}) /\ (S \cup {y}) \ {y} = S
  BY FS_AddElement
<1> QED
  BY <1>1, SumRemove

\* A sum of what is not negative is not negative, and not less over more.
LEMMA SumSubset ==
  ASSUME NEW f, NEW S, IsFiniteSet(S), \A x \in S : f[x] \in Nat
  PROVE  \A A \in SUBSET S : /\ SumOver(f, A) \in Nat
                             /\ \A B \in SUBSET A : SumOver(f, B) <= SumOver(f, A)
<1> DEFINE F == {A \in SUBSET S : /\ SumOver(f, A) \in Nat
                                  /\ \A B \in SUBSET A : SumOver(f, B) <= SumOver(f, A)}
<1>1. ASSUME NEW A \in SUBSET S, \A x \in A : A \ {x} \in F
      PROVE  A \in F
  <2>1. IsFiniteSet(A)
    BY FS_Subset
  <2>2. \A x \in A : SumOver(f, A) = f[x] + SumOver(f, A \ {x})
    BY <2>1, SumRemove
  <2>3. SumOver(f, A) \in Nat
    <3>1. CASE A = {}
      BY <3>1, SumEmpty
    <3>2. CASE A # {}
      <4>1. PICK x \in A : TRUE
        BY <3>2
      <4>2. f[x] \in Nat /\ SumOver(f, A \ {x}) \in Nat
        BY <1>1
      <4> QED
        BY <2>2, <4>2
    <3> QED
      BY <3>1, <3>2
  <2>4. ASSUME NEW B \in SUBSET A PROVE SumOver(f, B) <= SumOver(f, A)
    <3>1. CASE B = A
      BY <2>3, <3>1
    <3>2. CASE B # A
      <4>1. PICK x \in A : x \notin B
        BY <3>2
      <4>2. A \ {x} \in F /\ B \in SUBSET (A \ {x})
        BY <1>1, <4>1
      <4>3. /\ SumOver(f, B) <= SumOver(f, A \ {x}) /\ SumOver(f, A \ {x}) \in Nat
            /\ SumOver(f, B) \in Int
        BY <4>2, SumInteger
      <4>4. f[x] \in Nat
        OBVIOUS
      <4> QED
        BY <2>2, <4>3, <4>4
    <3> QED
      BY <3>1, <3>2
  <2> QED
    BY <2>3, <2>4
<1>2. SUBSET S \subseteq F
  <2> HIDE DEF F
  <2> QED
    BY <1>1, SubsetsReached
<1> QED
  BY <1>2

\* Two sums with the same summands.
LEMMA SumSame ==
  ASSUME NEW f, NEW g, NEW S, IsFiniteSet(S), \A x \in S : f[x] = g[x]
  PROVE  SumOver(f, S) = SumOver(g, S)
<1> DEFINE F == {A \in SUBSET S : SumOver(f, A) = SumOver(g, A)}
<1>1. ASSUME NEW A \in SUBSET S, \A x \in A : A \ {x} \in F
      PROVE  A \in F
  <2>1. PICK p : p = Picked(A)
    OBVIOUS
  <2>2. IsFiniteSet(A) /\ (A # {} => p \in A)
    BY <2>1, FS_Subset DEF Picked
  <2>3. /\ SumOver(f, A) = IF A = {} THEN 0 ELSE f[p] + SumOver(f, A \ {p})
        /\ SumOver(g, A) = IF A = {} THEN 0 ELSE g[p] + SumOver(g, A \ {p})
    BY <2>1, <2>2, SumUnfolds
  <2> QED
    BY <1>1, <2>2, <2>3
<1>2. SUBSET S \subseteq F
  <2> HIDE DEF F
  <2> QED
    BY <1>1, SubsetsReached
<1> QED
  BY <1>2

\* One summand changes.
LEMMA SumChange ==
  ASSUME NEW f, NEW g, NEW S, IsFiniteSet(S), \A x \in S : f[x] \in Int /\ g[x] \in Int,
         NEW y \in S, \A x \in S \ {y} : f[x] = g[x]
  PROVE  SumOver(g, S) = SumOver(f, S) + (g[y] - f[y])
<1>1. SumOver(f, S) = f[y] + SumOver(f, S \ {y}) /\ SumOver(g, S) = g[y] + SumOver(g, S \ {y})
  BY SumRemove
<1>2. SumOver(f, S \ {y}) = SumOver(g, S \ {y})
  <2>1. IsFiniteSet(S \ {y})
    BY FS_RemoveElement
  <2> QED
    BY <2>1, SumSame
<1>3. SumOver(f, S \ {y}) \in Int /\ f[y] \in Int /\ g[y] \in Int
  BY SumInteger
<1> QED
  BY <1>1, <1>2, <1>3

\* A sum of zeros.
LEMMA SumZero ==
  ASSUME NEW f, NEW S, IsFiniteSet(S), \A x \in S : f[x] = 0
  PROVE  SumOver(f, S) = 0
<1> DEFINE F == {A \in SUBSET S : SumOver(f, A) = 0}
<1>1. ASSUME NEW A \in SUBSET S, \A x \in A : A \ {x} \in F
      PROVE  A \in F
  <2>1. IsFiniteSet(A) /\ (A # {} => Picked(A) \in A)
    BY FS_Subset DEF Picked
  <2>2. SumOver(f, A) = IF A = {} THEN 0 ELSE f[Picked(A)] + SumOver(f, A \ {Picked(A)})
    BY <2>1, SumUnfolds
  <2> QED
    BY <1>1, <2>1, <2>2
<1>2. SUBSET S \subseteq F
  <2> HIDE DEF F
  <2> QED
    BY <1>1, SubsetsReached
<1> QED
  BY <1>2

\* A sum over two sets is at most their sums together.
LEMMA SumUnion ==
  ASSUME NEW f, NEW S, IsFiniteSet(S), \A x \in S : f[x] \in Nat, NEW B \in SUBSET S
  PROVE  \A A \in SUBSET S : SumOver(f, A \cup B) <= SumOver(f, A) + SumOver(f, B)
<1> DEFINE F == {A \in SUBSET S : SumOver(f, A \cup B) <= SumOver(f, A) + SumOver(f, B)}
<1>1. \A A \in SUBSET S : SumOver(f, A) \in Nat
  BY SumSubset
<1>2. ASSUME NEW A \in SUBSET S, \A x \in A : A \ {x} \in F
      PROVE  A \in F
  <2>1. CASE A = {}
    <3>1. A \cup B = B /\ SumOver(f, A) = 0 /\ SumOver(f, B) \in Nat
      BY <1>1, <2>1, SumEmpty
    <3>2. SumOver(f, B) <= SumOver(f, A) + SumOver(f, B)
      BY <3>1
    <3> QED
      BY <3>1, <3>2
  <2>2. CASE A # {}
    <3>1. PICK x \in A : TRUE
      BY <2>2
    <3>2. PICK R \in SUBSET S : R = A \ {x}
      OBVIOUS
    <3>3. SumOver(f, R \cup B) <= SumOver(f, R) + SumOver(f, B)
      BY <1>2, <3>1, <3>2
    <3>4. IsFiniteSet(R) /\ IsFiniteSet(R \cup B) /\ x \notin R /\ A = R \cup {x}
      BY <3>1, <3>2, FS_Subset
    <3>5. SumOver(f, A) = f[x] + SumOver(f, R)
      BY <3>4, SumAdd
    <3>6. f[x] \in Nat /\ SumOver(f, R) \in Nat /\ SumOver(f, B) \in Nat /\ SumOver(f, R \cup B) \in Nat
      BY <1>1
    <3>7. CASE x \in B
      <4>1. A \cup B = R \cup B
        BY <3>4, <3>7
      <4>2. SumOver(f, R \cup B) <= SumOver(f, A) + SumOver(f, B)
        BY <3>3, <3>5, <3>6
      <4> QED
        BY <4>1, <4>2
    <3>8. CASE x \notin B
      <4>1. A \cup B = (R \cup B) \cup {x} /\ x \notin R \cup B
        BY <3>4, <3>8
      <4>2. SumOver(f, (R \cup B) \cup {x}) = f[x] + SumOver(f, R \cup B)
        BY <3>4, <4>1, SumAdd
      <4>3. f[x] + SumOver(f, R \cup B) <= SumOver(f, A) + SumOver(f, B)
        BY <3>3, <3>5, <3>6
      <4> QED
        BY <4>1, <4>2, <4>3
    <3> QED
      BY <3>7, <3>8
  <2> QED
    BY <2>1, <2>2
<1>3. SUBSET S \subseteq F
  <2> HIDE DEF F
  <2> QED
    BY <1>2, SubsetsReached
<1> QED
  BY <1>3

\* A sum over a part of a set, as one over the set.
LEMMA SumPart ==
  ASSUME NEW f, NEW g, NEW S, IsFiniteSet(S), NEW A \in SUBSET S,
         \A x \in A : g[x] = f[x] /\ f[x] \in Int, \A x \in S \ A : g[x] = 0
  PROVE  SumOver(f, A) = SumOver(g, S)
<1> DEFINE F == {B \in SUBSET S : SumOver(f, A \cap B) = SumOver(g, B)}
<1>1. ASSUME NEW B \in SUBSET S, \A x \in B : B \ {x} \in F
      PROVE  B \in F
  <2>1. CASE B = {}
    BY <2>1, SumEmpty
  <2>2. CASE B # {}
    <3>1. PICK x \in B : TRUE
      BY <2>2
    <3>2. PICK C \in SUBSET S : C = B \ {x}
      OBVIOUS
    <3>3. SumOver(f, A \cap C) = SumOver(g, C)
      BY <1>1, <3>1, <3>2
    <3>4. IsFiniteSet(B) /\ IsFiniteSet(A \cap B) /\ \A y \in B : g[y] \in Int
      <4>1. \A y \in S : g[y] \in Int
        OBVIOUS
      <4> QED
        BY <4>1, FS_Subset
    <3>5. SumOver(g, B) = g[x] + SumOver(g, C) /\ SumOver(g, C) \in Int
      BY <3>2, <3>4, SumRemove, SumInteger
    <3>6. CASE x \in A
      <4>1. (A \cap B) \ {x} = A \cap C
        BY <3>2
      <4>2. SumOver(f, A \cap B) = f[x] + SumOver(f, (A \cap B) \ {x})
        BY <3>1, <3>4, <3>6, SumRemove
      <4> QED
        BY <3>3, <3>5, <3>6, <4>1, <4>2
    <3>7. CASE x \notin A
      <4>1. A \cap B = A \cap C /\ g[x] = 0
        BY <3>1, <3>2, <3>7
      <4>2. SumOver(g, B) = SumOver(g, C)
        BY <3>5, <4>1
      <4>3. SumOver(f, A \cap B) = SumOver(g, B)
        BY <3>3, <4>1, <4>2, Zenon
      <4> QED
        BY <4>3
    <3> QED
      BY <3>6, <3>7
  <2> QED
    BY <2>1, <2>2
<1>2. SUBSET S \subseteq F
  <2> HIDE DEF F
  <2> QED
    BY <1>1, SubsetsReached
<1>3. A \cap S = A
  OBVIOUS
<1> QED
  BY <1>2, <1>3

\* A sum over two disjoint sets.
LEMMA SumOfTwo ==
  ASSUME NEW f, NEW S, IsFiniteSet(S), \A x \in S : f[x] \in Int,
         NEW A \in SUBSET S, NEW B \in SUBSET S, A \cap B = {}
  PROVE  SumOver(f, A \cup B) = SumOver(f, A) + SumOver(f, B)
<1> DEFINE F == {C \in SUBSET A : SumOver(f, C \cup B) = SumOver(f, C) + SumOver(f, B)}
<1>1. IsFiniteSet(A) /\ \A C \in SUBSET S : SumOver(f, C) \in Int
  BY FS_Subset, SumInteger
<1>2. ASSUME NEW C \in SUBSET A, \A x \in C : C \ {x} \in F
      PROVE  C \in F
  <2>1. CASE C = {}
    <3>1. C \cup B = B /\ SumOver(f, C) = 0 /\ SumOver(f, B) \in Int
      BY <1>1, <2>1, SumEmpty
    <3>2. SumOver(f, B) = SumOver(f, C) + SumOver(f, B)
      BY <3>1
    <3>3. SumOver(f, C \cup B) = SumOver(f, C) + SumOver(f, B)
      BY <3>1, <3>2, Zenon
    <3> QED
      BY <3>3
  <2>2. CASE C # {}
    <3>1. PICK x \in C : TRUE
      BY <2>2
    <3>2. PICK D \in SUBSET A : D = C \ {x}
      OBVIOUS
    <3>3. SumOver(f, D \cup B) = SumOver(f, D) + SumOver(f, B)
      BY <1>2, <3>1, <3>2
    <3>4. IsFiniteSet(C) /\ IsFiniteSet(C \cup B) /\ (C \cup B) \ {x} = D \cup B
      BY <3>1, <3>2, FS_Subset
    <3>5. SumOver(f, C) = f[x] + SumOver(f, D)
      BY <3>1, <3>2, <3>4, SumRemove
    <3>6. SumOver(f, C \cup B) = f[x] + SumOver(f, D \cup B)
      BY <3>1, <3>4, SumRemove
    <3>7. f[x] \in Int /\ SumOver(f, D) \in Int /\ SumOver(f, B) \in Int
      BY <1>1, <3>1
    <3> QED
      BY <3>3, <3>5, <3>6, <3>7
  <2> QED
    BY <2>1, <2>2
<1>3. SUBSET A \subseteq F
  <2> HIDE DEF F
  <2> QED
    BY <1>1, <1>2, SubsetsReached
<1> QED
  BY <1>3

\* A sum of the sums over disjoint parts.
LEMMA SumOfParts ==
  ASSUME NEW f, NEW S, IsFiniteSet(S), \A x \in S : f[x] \in Int,
         NEW E, IsFiniteSet(E), NEW Part, \A e \in E : Part[e] \in SUBSET S,
         \A d \in E, e \in E : d # e => Part[d] \cap Part[e] = {},
         NEW t, \A e \in E : t[e] = SumOver(f, Part[e]),
         NEW A, \A x : x \in A <=> \E e \in E : x \in Part[e]
  PROVE  SumOver(t, E) = SumOver(f, A)
<1> DEFINE F == {D \in SUBSET E : SumOver(t, D) = SumOver(f, UNION {Part[e] : e \in D})}
<1>1. \A e \in E : t[e] \in Int
  BY SumInteger
<1>2. ASSUME NEW D \in SUBSET E, \A e \in D : D \ {e} \in F
      PROVE  D \in F
  <2>1. CASE D = {}
    <3>1. UNION {Part[e] : e \in D} = {}
      BY <2>1
    <3> QED
      BY <2>1, <3>1, SumEmpty
  <2>2. CASE D # {}
    <3>1. PICK d \in D : TRUE
      BY <2>2
    <3>2. PICK C \in SUBSET E : C = D \ {d}
      OBVIOUS
    <3>3. PICK U : U = UNION {Part[e] : e \in C}
      OBVIOUS
    <3>4. SumOver(t, C) = SumOver(f, U)
      BY <1>2, <3>1, <3>2, <3>3
    <3>5. IsFiniteSet(D)
      BY FS_Subset
    <3>6. SumOver(t, D) = t[d] + SumOver(t, C)
      BY <1>1, <3>1, <3>2, <3>5, SumRemove
    <3>7. UNION {Part[e] : e \in D} = Part[d] \cup U
      BY <3>1, <3>2, <3>3
    <3>8. U \in SUBSET S /\ Part[d] \in SUBSET S /\ Part[d] \cap U = {}
      BY <3>1, <3>2, <3>3
    <3>9. SumOver(f, Part[d] \cup U) = SumOver(f, Part[d]) + SumOver(f, U)
      BY <3>8, SumOfTwo
    <3> QED
      BY <1>1, <3>1, <3>4, <3>6, <3>7, <3>9
  <2> QED
    BY <2>1, <2>2
<1>3. SUBSET E \subseteq F
  <2> HIDE DEF F
  <2> QED
    BY <1>2, SubsetsReached
<1>4. A = UNION {Part[e] : e \in E}
  OBVIOUS
<1> QED
  BY <1>3, <1>4

=============================================================================
