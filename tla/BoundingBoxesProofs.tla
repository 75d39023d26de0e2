-------------------------- MODULE BoundingBoxesProofs --------------------------
(***************************************************************************)
(* Theorems about Build and the boxes computed after it, for every number  *)
(* of ranks and particles, every block size and every choice of axes: the  *)
(* variables keep their types, all ranks hold the same tree and particle   *)
(* map, that tree splits all particles down to blocks, and every node gets *)
(* the box of its particles on every rank.  The last two need the whole    *)
(* history of Build, so they come last: what a rank's tree looks like as   *)
(* it is split (Shape), how the trees of the ranks come together           *)
(* (MergedInv), that the maps stay permutations (MapsPermuted), and what a *)
(* climb that is under way has done (RankGrows).                           *)
(***************************************************************************)
EXTENDS BoundingBoxes, TLAPS, FiniteSetTheorems, NaturalsInduction,
        WellFoundedInduction

-----------------------------------------------------------------------------
(* Induction, with a set in the place of a predicate *)

\* A set of natural numbers has a least element.
LEMMA LeastNumber ==
  ASSUME NEW A \in SUBSET Nat, A # {}
  PROVE  \E m \in A : \A x \in A : m <= x
<1>1. PICK m \in A : \A x \in A : ~ (<<x, m>> \in OpToRel(<, Nat))
  BY WFMin, NatLessThanWellFounded
<1>2. \A x \in A : ~ (x < m)
  BY <1>1 DEF OpToRel
<1> QED BY <1>2

\* What holds of a set once it holds of its proper subsets, holds of all sets.
LEMMA SubsetInduction ==
  ASSUME NEW S, IsFiniteSet(S), NEW Q,
         \A s \in SUBSET S : (\A t \in SUBSET s : t # s => t \in Q) => s \in Q
  PROVE  \A s \in SUBSET S : s \in Q
<1> DEFINE Sizes == {Cardinality(s) : s \in {t \in SUBSET S : t \notin Q}}
<1> SUFFICES ASSUME NEW u \in SUBSET S, u \notin Q PROVE FALSE
  OBVIOUS
<1>1. \A s \in SUBSET S : IsFiniteSet(s) /\ Cardinality(s) \in Nat
  BY FS_Subset, FS_CardinalityType
<1>2. Sizes \in SUBSET Nat /\ Sizes # {}
  BY <1>1
<1>3. PICK n \in Sizes : \A k \in Sizes : n <= k
  <2> HIDE DEF Sizes
  <2> QED BY <1>2, LeastNumber
<1>4. PICK s \in SUBSET S : s \notin Q /\ Cardinality(s) = n
  BY <1>3
<1>5. ASSUME NEW t \in SUBSET s, t # s PROVE t \in Q
  <2>1. Cardinality(t) < Cardinality(s)
    BY <1>1, <1>5, FS_Subset
  <2>2. CASE t \notin Q
    <3>1. Cardinality(t) \in Sizes
      BY <2>2
    <3>2. n <= Cardinality(t) /\ Cardinality(t) \in Nat /\ n \in Nat
      BY <3>1, <1>1, <1>3, <1>4
    <3> QED BY <2>1, <3>2, <1>4
  <2> QED BY <2>2
<1> QED BY <1>4, <1>5

-----------------------------------------------------------------------------
(* Sums over finite sets *)

\* The sum of the values of a function over a set.
Total(f, S) == MapThenSumSet(LAMBDA x : f[x], S)

\* The recursion it is computed by: one element is taken out after another.
Chosen(s) == CHOOSE x \in s : TRUE
Adds(g, f, S) ==
  [s \in SUBSET S |-> IF s = {} THEN 0 ELSE f[Chosen(s)] + g[s \ {Chosen(s)}]]
Partial(f, S) == CHOOSE g : g = Adds(g, f, S)

LEMMA TotalPartial ==
  ASSUME NEW f, NEW S
  PROVE  Total(f, S) = Partial(f, S)[S]
BY DEF Total, MapThenSumSet, MapThenFoldSet, Partial, Adds, Chosen

LEMMA ChosenIn ==
  ASSUME NEW s, s # {}
  PROVE  Chosen(s) \in s
BY DEF Chosen

\* Two functions that follow the recursion agree on the sets both are for.
LEMMA AddsUnique ==
  ASSUME NEW f, NEW S, NEW T, IsFiniteSet(S), NEW g, NEW h, g = Adds(g, f, S), h = Adds(h, f, T)
  PROVE  \A s \in SUBSET (S \cap T) : g[s] = h[s]
<1> DEFINE Q == {s \in SUBSET (S \cap T) : g[s] = h[s]}
<1>1. ASSUME NEW s \in SUBSET (S \cap T), \A t \in SUBSET s : t # s => t \in Q
      PROVE  s \in Q
  <2>1. CASE s = {}
    BY <2>1 DEF Adds
  <2>2. CASE s # {}
    <3>1. Chosen(s) \in s
      BY <2>2, ChosenIn
    <3>2. s \ {Chosen(s)} \in Q
      BY <1>1, <3>1
    <3>3. s \in SUBSET S /\ s \in SUBSET T
      OBVIOUS
    <3>4. g[s] = f[Chosen(s)] + g[s \ {Chosen(s)}]
      BY <2>2, <3>3 DEF Adds
    <3>5. h[s] = f[Chosen(s)] + h[s \ {Chosen(s)}]
      BY <2>2, <3>3 DEF Adds
    <3> QED BY <3>2, <3>4, <3>5
  <2> QED BY <2>1, <2>2
<1>2. IsFiniteSet(S \cap T)
  BY FS_Subset
<1>3. \A s \in SUBSET (S \cap T) : s \in Q
  <2> HIDE DEF Q
  <2> QED BY <1>1, <1>2, SubsetInduction
<1> QED BY <1>3

\* There is a function that follows the recursion.
LEMMA AddsExists ==
  ASSUME NEW f, NEW S, IsFiniteSet(S)
  PROVE  \E g : g = Adds(g, f, S)
<1> DEFINE Q == {s \in SUBSET S : \E g : g = Adds(g, f, s)}
<1>1. ASSUME NEW s \in SUBSET S, \A t \in SUBSET s : t # s => t \in Q
      PROVE  s \in Q
  <2> DEFINE G(t) == CHOOSE g : g = Adds(g, f, t)
  <2>1. \A t \in SUBSET s : t # s => G(t) = Adds(G(t), f, t)
    BY <1>1
  <2> HIDE DEF G
  <2> DEFINE Rest(v) == v \ {Chosen(v)}
             g == [v \in SUBSET s |->
                     IF v = {} THEN 0 ELSE f[Chosen(v)] + G(Rest(v))[Rest(v)]]
  <2>2. ASSUME NEW v \in SUBSET s, v # s PROVE G(v)[v] = g[v]
    <3>1. CASE v = {}
      BY <2>1, <2>2, <3>1 DEF Adds
    <3>2. CASE v # {}
      <4>1. Chosen(v) \in v
        BY <3>2, ChosenIn
      <4>2. Rest(v) \in SUBSET s /\ Rest(v) # s /\ Rest(v) \in SUBSET v
        BY <4>1
      <4>3. G(v)[Rest(v)] = G(Rest(v))[Rest(v)]
        <5>1. G(v) = Adds(G(v), f, v) /\ G(Rest(v)) = Adds(G(Rest(v)), f, Rest(v))
          BY <2>1, <2>2, <4>2
        <5>2. IsFiniteSet(v) /\ Rest(v) \in SUBSET (v \cap Rest(v))
          BY <4>2, FS_Subset
        <5> HIDE DEF Rest
        <5> QED BY <5>1, <5>2, AddsUnique
      <4>4. G(v)[v] = f[Chosen(v)] + G(v)[Rest(v)]
        <5>1. v \in SUBSET v /\ G(v) = Adds(G(v), f, v)
          BY <2>1, <2>2
        <5> QED BY <5>1, <3>2 DEF Adds
      <4>5. g[v] = f[Chosen(v)] + G(Rest(v))[Rest(v)]
        BY <3>2
      <4> QED BY <4>3, <4>4, <4>5
    <3> QED BY <3>1, <3>2
  <2>3. ASSUME NEW v \in SUBSET s, v # {} PROVE g[v] = f[Chosen(v)] + g[Rest(v)]
    <3>1. Chosen(v) \in v
      BY <2>3, ChosenIn
    <3>2. Rest(v) \in SUBSET s /\ Rest(v) # s
      BY <3>1
    <3>3. G(Rest(v))[Rest(v)] = g[Rest(v)]
      <4> HIDE DEF g, Rest
      <4> QED BY <3>2, <2>2
    <3> QED BY <2>3, <3>3
  <2>4. g = Adds(g, f, s)
    <3>1. \A v \in SUBSET s : g[v] = IF v = {} THEN 0 ELSE f[Chosen(v)] + g[v \ {Chosen(v)}]
      BY <2>3
    <3>2. g = [v \in SUBSET s |-> g[v]]
      OBVIOUS
    <3> HIDE DEF g
    <3> QED BY <3>1, <3>2 DEF Adds
  <2> QED BY <2>4
<1>2. \A s \in SUBSET S : s \in Q
  <2> HIDE DEF Q
  <2> QED BY <1>1, SubsetInduction
<1>3. S \in Q
  BY <1>2
<1> QED BY <1>3

LEMMA PartialAdds ==
  ASSUME NEW f, NEW S, IsFiniteSet(S)
  PROVE  Partial(f, S) = Adds(Partial(f, S), f, S)
BY AddsExists DEF Partial

\* A sum is that of its set without one element, and that element's value.
LEMMA TotalStep ==
  ASSUME NEW f, NEW S, IsFiniteSet(S), S # {}
  PROVE  Total(f, S) = f[Chosen(S)] + Total(f, S \ {Chosen(S)})
<1> DEFINE R == S \ {Chosen(S)}
<1>1. IsFiniteSet(R) /\ R \in SUBSET (S \cap R)
  BY FS_Subset
<1>2. Partial(f, S)[R] = Partial(f, R)[R]
  BY <1>1, PartialAdds, AddsUnique
<1>3. Partial(f, S)[S] = f[Chosen(S)] + Partial(f, S)[R]
  <2> DEFINE p == Partial(f, S)
  <2>1. p = Adds(p, f, S)
    BY PartialAdds
  <2> HIDE DEF p
  <2>2. p[S] = f[Chosen(S)] + p[R]
    BY <2>1 DEF Adds
  <2> QED BY <2>2 DEF p
<1> QED BY <1>2, <1>3, TotalPartial

LEMMA TotalEmpty ==
  ASSUME NEW f
  PROVE  Total(f, {}) = 0
<1> DEFINE p == Partial(f, {})
<1>1. p = Adds(p, f, {})
  BY PartialAdds, FS_EmptySet
<1> HIDE DEF p
<1>2. p[{}] = 0
  BY <1>1 DEF Adds
<1> QED BY <1>2, TotalPartial DEF p

\* A sum of numbers is a number, and of natural numbers a natural number.
LEMMA TotalType ==
  ASSUME NEW S, IsFiniteSet(S), NEW f, \A x \in S : f[x] \in Int
  PROVE  /\ Total(f, S) \in Int
         /\ (\A x \in S : f[x] >= 0) => Total(f, S) >= 0
<1> DEFINE Q == {s \in SUBSET S : /\ Total(f, s) \in Int
                                  /\ (\A x \in s : f[x] >= 0) => Total(f, s) >= 0}
<1>1. ASSUME NEW s \in SUBSET S, \A t \in SUBSET s : t # s => t \in Q
      PROVE  s \in Q
  <2>1. CASE s = {}
    BY <2>1, TotalEmpty
  <2>2. CASE s # {}
    <3>1. Chosen(s) \in s /\ IsFiniteSet(s)
      BY <2>2, ChosenIn, FS_Subset
    <3>2. s \ {Chosen(s)} \in Q
      BY <1>1, <3>1
    <3>3. Total(f, s) = f[Chosen(s)] + Total(f, s \ {Chosen(s)})
      BY <2>2, <3>1, TotalStep
    <3> QED BY <3>1, <3>2, <3>3
  <2> QED BY <2>1, <2>2
<1>2. \A s \in SUBSET S : s \in Q
  <2> HIDE DEF Q
  <2> QED BY <1>1, SubsetInduction
<1>3. S \in Q
  BY <1>2
<1> QED BY <1>3

-----------------------------------------------------------------------------
(* Powers of two *)

Doubles(g, n) == g = [l \in 0 .. n |-> IF l = 0 THEN 1 ELSE 2 * g[l - 1]]

LEMMA DoublesExists ==
  ASSUME NEW n \in Nat
  PROVE  \E g : Doubles(g, n)
<1> DEFINE A == {k \in Nat : ~ \E g : Doubles(g, k)}
<1> SUFFICES ASSUME A # {} PROVE FALSE
  OBVIOUS
<1>1. PICK k \in A : \A j \in A : k <= j
  <2> A \in SUBSET Nat
    OBVIOUS
  <2> HIDE DEF A
  <2> QED BY LeastNumber
<1>2. CASE k = 0
  <2> DEFINE h == [l \in 0 .. 0 |-> 1]
  <2>1. h = [l \in 0 .. 0 |-> IF l = 0 THEN 1 ELSE 2 * h[l - 1]]
    OBVIOUS
  <2>2. Doubles(h, 0)
    <3> HIDE DEF h
    <3> QED BY <2>1 DEF Doubles
  <2> QED BY <1>2, <2>2
<1>3. CASE k # 0
  <2>1. k - 1 \in Nat /\ k - 1 \notin A
    BY <1>1, <1>3
  <2>2. PICK g : Doubles(g, k - 1)
    BY <2>1
  <2> DEFINE h == [l \in 0 .. k |-> IF l = k THEN 2 * g[k - 1] ELSE g[l]]
  <2>3. \A l \in 0 .. k - 1 : g[l] = IF l = 0 THEN 1 ELSE 2 * g[l - 1]
    BY <2>1, <2>2 DEF Doubles
  <2>4. \A l \in 0 .. k : h[l] = IF l = 0 THEN 1 ELSE 2 * h[l - 1]
    <3> TAKE l \in 0 .. k
    <3>1. CASE l = k
      BY <1>3, <2>1, <3>1
    <3>2. CASE l # k
      BY <2>1, <2>3, <3>2
    <3> QED BY <3>1, <3>2
  <2>5. h = [l \in 0 .. k |-> h[l]]
    OBVIOUS
  <2>6. Doubles(h, k)
    <3> HIDE DEF h
    <3> QED BY <2>4, <2>5 DEF Doubles
  <2> QED BY <2>6
<1> QED BY <1>2, <1>3

LEMMA Powers ==
  /\ Power[0] = 1
  /\ \A l \in 1 .. P + 2 : Power[l] = 2 * Power[l - 1]
<1> DEFINE p == Power
<1>1. P + 2 \in Nat
  BY BuildAssumption
<1>2. Doubles(p, P + 2)
  BY <1>1, DoublesExists DEF Power, Doubles
<1> HIDE DEF p
<1>3. /\ p[0] = 1
      /\ \A l \in 1 .. P + 2 : p[l] = 2 * p[l - 1]
  BY <1>1, <1>2 DEF Doubles
<1> QED BY <1>3 DEF p

LEMMA PowersGrow ==
  \A l \in 0 .. P + 2 : Power[l] \in Nat /\ Power[l] > l
<1> DEFINE A == {l \in 0 .. P + 2 : ~ (Power[l] \in Nat /\ Power[l] > l)}
<1> SUFFICES ASSUME A # {} PROVE FALSE
  OBVIOUS
<1>0. P \in Nat
  BY BuildAssumption
<1>1. PICK k \in A : \A j \in A : k <= j
  <2> A \in SUBSET Nat
    BY <1>0
  <2> HIDE DEF A
  <2> QED BY LeastNumber
<1>2. CASE k = 0
  BY <1>2, Powers
<1>3. CASE k # 0
  <2>1. k - 1 \in 0 .. P + 2 /\ k - 1 \notin A
    BY <1>0, <1>1, <1>3
  <2>2. Power[k - 1] \in Nat /\ Power[k - 1] > k - 1
    BY <2>1
  <2>3. Power[k] = 2 * Power[k - 1]
    BY <1>0, <1>3, Powers
  <2> QED BY <1>0, <1>3, <2>2, <2>3
<1> QED BY <1>2, <1>3

\* There is a working rank, no more of them than ranks, and the top of the tree
\* has rows for their start nodes.
LEMMA LevelSizes ==
  /\ P \in Nat /\ P >= 1 /\ N \in Nat /\ N >= 1
  /\ InitialLevel \in Nat /\ MaxWorkSize \in Nat
  /\ 1 <= MaxWorkSize /\ MaxWorkSize <= P
  /\ InitialNodeSize = 4 * MaxWorkSize - 1
  /\ \A r : StartNode(r) = MaxWorkSize - 1 + r
  /\ InitialLevel <= P /\ MaxWorkSize = Power[InitialLevel]
<1>0. P \in Nat /\ P >= 1 /\ N \in Nat /\ N >= 1
  BY BuildAssumption
<1> DEFINE A == {l \in 0 .. P + 2 : P < Power[l]}
<1>1. P \in A
  BY <1>0, PowersGrow
<1>2. PICK k \in A : \A j \in A : k <= j
  <2> A \in SUBSET Nat
    BY <1>0
  <2> HIDE DEF A
  <2> QED BY <1>1, LeastNumber
<1>3. k # 0 /\ k <= P
  BY <1>0, <1>1, <1>2, Powers
<1>4. k - 1 \in 0 .. P /\ k - 1 \notin A
  BY <1>0, <1>2, <1>3
<1>5. Power[k - 1] <= P /\ P < Power[(k - 1) + 1]
  BY <1>0, <1>2, <1>4, PowersGrow
<1>6. InitialLevel \in 0 .. P /\ Power[InitialLevel] <= P
  BY <1>4, <1>5 DEF InitialLevel
<1>7. /\ Power[InitialLevel + 1] = 2 * Power[InitialLevel]
      /\ Power[InitialLevel + 2] = 2 * Power[InitialLevel + 1]
  <2>1. /\ InitialLevel + 1 \in 1 .. P + 2 /\ InitialLevel + 2 \in 1 .. P + 2
        /\ (InitialLevel + 1) - 1 = InitialLevel /\ (InitialLevel + 2) - 1 = InitialLevel + 1
    BY <1>0, <1>6
  <2> QED BY <2>1, Powers
<1>8. Power[InitialLevel] \in Nat /\ Power[InitialLevel] > 0
  BY <1>0, <1>6, PowersGrow
<1> QED BY <1>0, <1>6, <1>7, <1>8 DEF MaxWorkSize, InitialNodeSize, StartNode

LEMMA Sizes ==
  /\ P \in Nat /\ P >= 1 /\ N \in Nat /\ N >= 1
  /\ InitialLevel \in Nat /\ MaxWorkSize \in Nat
  /\ 1 <= MaxWorkSize /\ MaxWorkSize <= P
  /\ InitialNodeSize = 4 * MaxWorkSize - 1
  /\ \A r : StartNode(r) = MaxWorkSize - 1 + r
BY LevelSizes

-----------------------------------------------------------------------------
(* Divide *)

\* Position j is sorted before position i.
Before(m, axis, j, i) ==
  \/ axis[m[j]] < axis[m[i]]
  \/ axis[m[j]] = axis[m[i]] /\ j < i

\* The sort gives each position of the range a place of its own, and every place
\* is taken.
LEMMA PlaceOnto ==
  ASSUME NEW m \in [Particles -> Particles], NEW axis \in Axes,
         NEW first \in 0 .. N, NEW last \in 0 .. N, first <= last
  PROVE  LET range == first .. last - 1
         IN  /\ \A i \in range : Place(m, range, axis, i) \in 0 .. last - first - 1
             /\ \A i, j \in range :
                  Place(m, range, axis, i) = Place(m, range, axis, j) => i = j
             /\ \A k \in range : \E i \in range : first + Place(m, range, axis, i) = k
<1> DEFINE range == first .. last - 1
           B(i) == {j \in range : Before(m, axis, j, i)}
<1>0. N \in Nat /\ axis \in [Particles -> Int] /\ range \subseteq Particles
      /\ range \subseteq Int
  <2>1. N \in Nat /\ axis \in [Particles -> Int]
    BY BuildAssumption
  <2>2. range \subseteq Particles /\ range \subseteq Int
    BY <2>1 DEF Particles
  <2> QED BY <2>1, <2>2
<1>1. \A i : Place(m, range, axis, i) = Cardinality(B(i))
  BY DEF Place, Before
<1>2. IsFiniteSet(range) /\ Cardinality(range) = last - first
  BY <1>0, FS_Interval
<1>3. \A i \in range : axis[m[i]] \in Int
  BY <1>0
<1>4. ASSUME NEW i \in range PROVE Cardinality(B(i)) \in 0 .. last - first - 1
  <2>1. B(i) \subseteq range /\ i \notin B(i)
    BY <1>3, <1>4, <1>0 DEF Before
  <2>2. Cardinality(B(i)) \in Nat /\ Cardinality(B(i)) < Cardinality(range)
    <3> HIDE DEF B
    <3> QED BY <1>2, <1>4, <2>1, FS_Subset, FS_CardinalityType
  <2> QED BY <1>2, <2>2
<1>5. ASSUME NEW i \in range, NEW j \in range, Before(m, axis, i, j)
      PROVE  Cardinality(B(i)) < Cardinality(B(j))
  <2>1. \A k \in range : Before(m, axis, k, i) => Before(m, axis, k, j)
    BY <1>0, <1>3, <1>5 DEF Before
  <2>2. i \in B(j) /\ i \notin B(i) /\ B(i) \subseteq B(j)
    <3>1. ~ Before(m, axis, i, i)
      BY <1>0, <1>3 DEF Before
    <3> QED BY <2>1, <3>1, <1>5
  <2>3. IsFiniteSet(B(j))
    BY <1>2, FS_Subset
  <2>4. IsFiniteSet(B(i)) /\ B(i) # B(j)
    BY <2>2, <2>3, FS_Subset
  <2> HIDE DEF B
  <2>5. Cardinality(B(i)) <= Cardinality(B(j)) /\ Cardinality(B(i)) # Cardinality(B(j))
    BY <2>2, <2>3, <2>4, FS_Subset
  <2> QED BY <2>3, <2>4, <2>5, FS_CardinalityType
<1>6. \A i, j \in range : i # j => Before(m, axis, i, j) \/ Before(m, axis, j, i)
  BY <1>0, <1>3 DEF Before
<1>7. \A i, j \in range : Cardinality(B(i)) = Cardinality(B(j)) => i = j
  <2> SUFFICES ASSUME NEW i \in range, NEW j \in range,
                      Cardinality(B(i)) = Cardinality(B(j)), i # j
               PROVE  FALSE
    OBVIOUS
  <2>1. Cardinality(B(i)) < Cardinality(B(j)) \/ Cardinality(B(j)) < Cardinality(B(i))
    BY <1>5, <1>6
  <2>2. Cardinality(B(i)) \in Int /\ Cardinality(B(j)) \in Int
    BY <1>4
  <2> QED BY <2>1, <2>2
<1> DEFINE T == 0 .. last - first - 1
           f == [i \in range |-> Cardinality(B(i))]
<1>8. IsFiniteSet(T) /\ Cardinality(T) = Cardinality(range)
  BY <1>2, <1>0, FS_Interval
<1>9. f \in Injection(range, T)
  BY <1>4, <1>7 DEF Injection, IsInjective
<1>10. f \in Surjection(range, T)
  <2> HIDE DEF f, T, range
  <2> QED BY <1>8, <1>9, FS_Injection
<1>11. \A k \in range : \E i \in range : first + Cardinality(B(i)) = k
  <2> TAKE k \in range
  <2>1. k - first \in T
    BY <1>0
  <2>2. PICK i \in range : f[i] = k - first
    BY <1>10, <2>1 DEF Surjection
  <2>3. first + Cardinality(B(i)) = k
    BY <2>2, <1>4, <1>0
  <2> QED BY <2>3
<1>12. \A i \in range : Place(m, range, axis, i) \in 0 .. last - first - 1
  <2> HIDE DEF B, range
  <2> QED BY <1>1, <1>4
<1>13. \A i, j \in range : Place(m, range, axis, i) = Place(m, range, axis, j) => i = j
  <2> HIDE DEF B, range
  <2> QED BY <1>1, <1>7
<1>14. \A k \in range : \E i \in range : first + Place(m, range, axis, i) = k
  <2> HIDE DEF B, range
  <2> QED BY <1>1, <1>11
<1> QED BY <1>12, <1>13, <1>14

\* Divide reorders the positions of its range and touches no other.
LEMMA SortedMapType ==
  ASSUME NEW m \in [Particles -> Particles], NEW axis \in Axes,
         NEW first \in 0 .. N, NEW last \in 0 .. N, first <= last
  PROVE  /\ SortedMap(m, first, last, axis) \in [Particles -> Particles]
         /\ \A k \in Particles \ (first .. last - 1) :
              SortedMap(m, first, last, axis)[k] = m[k]
<1> DEFINE range == first .. last - 1
           from(k) == CHOOSE i \in range : first + Place(m, range, axis, i) = k
<1>1. \A k \in range : from(k) \in range
  <2>1. \A k \in range : \E i \in range : first + Place(m, range, axis, i) = k
    BY PlaceOnto
  <2> HIDE DEF range
  <2> QED BY <2>1
<1>2. range \subseteq Particles
  BY BuildAssumption DEF Particles
<1>3. SortedMap(m, first, last, axis) = [k \in Particles |-> IF k \in range THEN m[from(k)] ELSE m[k]]
  BY DEF SortedMap
<1> HIDE DEF from, range
<1>4. \A k \in range : m[from(k)] \in Particles
  BY <1>1, <1>2
<1> QED BY <1>3, <1>4 DEF range

\* The cut is in the range or at one of its ends.
LEMMA CutsType ==
  ASSUME NEW m, NEW axis,
         NEW first \in 0 .. N, NEW last \in 0 .. N, first <= last
  PROVE  Cuts(m, first, last, axis) \subseteq first .. last
<1> DEFINE range == first .. last - 1
           along == [i \in range |-> axis[m[i]]]
           sum == MapThenSumSet(LAMBDA i : along[i], range)
           low == {i \in range : (last - first) * along[i] <= sum}
<1> HIDE DEF sum
<1>1. IsFiniteSet(range) /\ Cardinality(range) = last - first
  <2> HIDE DEF low
  <2>1. first \in Int /\ last \in Int
    BY BuildAssumption
  <2>2. last - 1 \in Int /\ (first > last - 1 => last - first = 0)
    BY <2>1
  <2> DEFINE b == last - 1
  <2>3. b \in Int
    BY <2>1
  <2>4. /\ IsFiniteSet(first .. b)
        /\ Cardinality(first .. b) = IF first > b THEN 0 ELSE b - first + 1
    <3> HIDE DEF b
    <3> QED BY <2>1, <2>3, FS_Interval
  <2> QED BY <2>1, <2>4
<1>2. Cardinality(low) \in 0 .. last - first
  <2>1. low \subseteq range
    OBVIOUS
  <2> HIDE DEF low, range
  <2> QED BY <1>1, <2>1, FS_Subset, FS_CardinalityType
<1>3. first + Cardinality(low) \in first .. last
  <2> HIDE DEF low
  <2> N \in Nat
    BY BuildAssumption
  <2> QED BY <1>2
<1>4. Cuts(m, first, last, axis) \subseteq {first, last, first + Cardinality(low)}
  <2> HIDE DEF sum
  <2> QED BY DEF Cuts, sum
<1>5. first \in first .. last /\ last \in first .. last
  BY BuildAssumption
<1> QED BY <1>3, <1>4, <1>5

-----------------------------------------------------------------------------
(* One visit of a row *)

\* The trees a visit leaves when it does not split the row.
Unsplit(tree, node) == {[tree EXCEPT ![node].left = 0, ![node].right = 0], tree}

\* The two rows a split makes.
NewRows(num) == <<num, num + 1>>

\* A row without children, with children, and a row a split has made.
Bare(row) == [row EXCEPT !.left = 0, !.right = 0]
Parent(row, num) == [row EXCEPT !.left = num, !.right = num + 1]
Child(row, first, last, level) == [row EXCEPT !.first = first, !.last = last, !.level = level]

\* What a visit does to the map, the tree and the counter.
MapOutcome(tree, m, node, v) ==
  /\ v.map \in [Particles -> Particles]
  /\ \A k \in Particles \ Positions(tree[node]) : v.map[k] = m[k]
RowOutcome(n, tree, node, num, v) ==
  \/ v.tree \in Unsplit(tree, node) /\ v.num = num /\ v.children = <<>>
  \/ \E mid \in tree[node].first .. tree[node].last :
       /\ num + 1 \in 0 .. n - 1 /\ v.tree = Split(tree, node, num, mid)
       /\ v.num = num + 2 /\ v.children = NewRows(num)

\* A visit splits the row in two new ones or makes it a leaf, and reorders no
\* position outside the row.
LEMMA VisitFacts ==
  ASSUME NEW n \in Nat, NEW b \in Nat, NEW tree \in [0 .. n - 1 -> RowType(b)],
         NEW m \in [Particles -> Particles], NEW node \in 0 .. n - 1, NEW num \in Nat,
         tree[node].first <= tree[node].last, NEW v \in Visits(tree, m, node, num)
  PROVE  MapOutcome(tree, m, node, v) /\ RowOutcome(n, tree, node, num, v)
<1> DEFINE row == tree[node]
           leaf(newMap) ==
             [tree |-> [tree EXCEPT ![node].left = 0, ![node].right = 0],
              map |-> newMap, num |-> num, children |-> <<>>, fault |-> FALSE]
           split(newMap, mid) ==
             [tree |-> Split(tree, node, num, mid), map |-> newMap,
              num |-> num + 2, children |-> <<num, num + 1>>, fault |-> FALSE]
           visit(newMap, mid) ==
             IF mid = 0 THEN leaf(newMap)
             ELSE IF num + 1 \in DOMAIN tree THEN split(newMap, mid)
             ELSE [leaf(newMap) EXCEPT !.tree = tree, !.fault = TRUE]
<1>1. row.first \in 0 .. N /\ row.last \in 0 .. N /\ row.first <= row.last
  BY DEF RowType
<1>2. \/ v = leaf(m)
      \/ \E axis \in Axes :
           \E mid \in Cuts(m, row.first, row.last, axis) :
             v = visit(SortedMap(m, row.first, row.last, axis), mid)
  <2> DEFINE W(axis) == {visit(SortedMap(m, row.first, row.last, axis), mid) :
                           mid \in Cuts(m, row.first, row.last, axis)}
  <2>1. Visits(tree, m, node, num) =
          IF TooLarge(row) THEN UNION {W(axis) : axis \in Axes} ELSE {leaf(m)}
    BY DEF Visits
  <2>2. CASE ~ TooLarge(row)
    BY <2>1, <2>2
  <2>3. CASE TooLarge(row)
    <3> HIDE DEF leaf
    <3>1. v \in UNION {W(axis) : axis \in Axes}
      BY <2>1, <2>3
    <3>2. PICK axis \in Axes : v \in W(axis)
      <4> HIDE DEF W
      <4> QED BY <3>1
    <3> HIDE DEF visit
    <3>3. \E mid \in Cuts(m, row.first, row.last, axis) :
            v = visit(SortedMap(m, row.first, row.last, axis), mid)
      BY <3>2
    <3> QED BY <3>3
  <2> QED BY <2>2, <2>3
<1>3. ASSUME v = leaf(m)
      PROVE  v.map = m /\ v.tree \in Unsplit(tree, node) /\ v.num = num /\ v.children = <<>>
  BY <1>3 DEF Unsplit
<1>4. ASSUME NEW axis \in Axes, NEW mid \in Cuts(m, row.first, row.last, axis),
             v = visit(SortedMap(m, row.first, row.last, axis), mid)
      PROVE  /\ v.map = SortedMap(m, row.first, row.last, axis)
             /\ mid \in row.first .. row.last
             /\ \/ v.tree \in Unsplit(tree, node) /\ v.num = num /\ v.children = <<>>
                \/ /\ num + 1 \in 0 .. n - 1 /\ v.tree = Split(tree, node, num, mid)
                   /\ v.num = num + 2 /\ v.children = NewRows(num)
  <2> DEFINE newMap == SortedMap(m, row.first, row.last, axis)
  <2>1. mid \in row.first .. row.last
    BY <1>1, CutsType
  <2> HIDE DEF newMap
  <2>2. CASE v = leaf(newMap)
    BY <2>1, <2>2 DEF Unsplit, newMap
  <2>3. CASE v = split(newMap, mid) /\ num + 1 \in DOMAIN tree
    BY <2>1, <2>3 DEF newMap, NewRows
  <2>4. CASE v = [leaf(newMap) EXCEPT !.tree = tree, !.fault = TRUE]
    BY <2>1, <2>4 DEF Unsplit, newMap
  <2> QED BY <1>4, <2>2, <2>3, <2>4 DEF newMap
<1>5. \A axis \in Axes :
        /\ SortedMap(m, row.first, row.last, axis) \in [Particles -> Particles]
        /\ \A k \in Particles \ Positions(row) :
             SortedMap(m, row.first, row.last, axis)[k] = m[k]
  BY <1>1, SortedMapType DEF Positions
<1> HIDE DEF leaf, split, visit, row
<1>6. ASSUME NEW axis \in Axes, NEW mid \in Cuts(m, row.first, row.last, axis),
             v = visit(SortedMap(m, row.first, row.last, axis), mid)
      PROVE  /\ v.map \in [Particles -> Particles]
             /\ \A k \in Particles \ Positions(row) : v.map[k] = m[k]
             /\ \/ v.tree \in Unsplit(tree, node) /\ v.num = num /\ v.children = <<>>
                \/ \E c \in row.first .. row.last :
                     /\ num + 1 \in 0 .. n - 1 /\ v.tree = Split(tree, node, num, c)
                     /\ v.num = num + 2 /\ v.children = NewRows(num)
  BY <1>4, <1>5, <1>6
<1>7. MapOutcome(tree, m, node, v)
  BY <1>2, <1>3, <1>6 DEF row, MapOutcome
<1>8. RowOutcome(n, tree, node, num, v)
  <2>1. CASE v = leaf(m)
    BY <1>3, <2>1 DEF RowOutcome
  <2>2. CASE v # leaf(m)
    BY <1>2, <1>6, <2>2 DEF RowOutcome, row
  <2> QED BY <2>1, <2>2
<1> QED BY <1>7, <1>8

\* What a split makes of the rows.
SplitOutcome(n, b, tree, node, num, mid, t) ==
  /\ t \in [0 .. n - 1 -> RowType(b)]
  /\ \A i \in 0 .. n - 1 : i \notin {node, num, num + 1} => t[i] = tree[i]
  /\ t[node] = Parent(tree[node], num)
  /\ t[num] = Child(tree[num], tree[node].first, mid, tree[node].level + 1)
  /\ t[num + 1] = Child(tree[num + 1], mid, tree[node].last, tree[node].level + 1)

LEMMA SplitRows ==
  ASSUME NEW n \in Nat, NEW b \in Nat, NEW tree \in [0 .. n - 1 -> RowType(b)],
         NEW node \in 0 .. n - 1, NEW num \in Nat, node < num, num + 1 \in 0 .. n - 1,
         NEW mid \in tree[node].first .. tree[node].last,
         num + 1 <= b, tree[node].level < InitialLevel + N
  PROVE  SplitOutcome(n, b, tree, node, num, mid, Split(tree, node, num, mid))
<1> DEFINE t == Split(tree, node, num, mid)
           a == Parent(tree[node], num)
           l == Child(tree[num], tree[node].first, mid, tree[node].level + 1)
           r == Child(tree[num + 1], mid, tree[node].last, tree[node].level + 1)
<1>0. N \in Nat /\ InitialLevel \in Nat
  BY Sizes
<1>1. num \in 0 .. n - 1 /\ node # num /\ node # num + 1 /\ num # num + 1
  OBVIOUS
<1>2. tree[node] \in RowType(b) /\ tree[num] \in RowType(b) /\ tree[num + 1] \in RowType(b)
  BY <1>1
<1>3. t = [tree EXCEPT ![node] = a, ![num] = l, ![num + 1] = r]
  BY <1>1, <1>2 DEF Split, RowType, Parent, Child
<1>4. mid \in 0 .. N /\ tree[node].level + 1 \in 0 .. InitialLevel + N
  <2>1. /\ tree[node].first \in 0 .. N /\ tree[node].last \in 0 .. N
        /\ tree[node].level \in 0 .. InitialLevel + N
    BY <1>2 DEF RowType
  <2>2. InitialLevel + N \in Nat
    BY <1>0
  <2>3. mid \in 0 .. N
    BY <1>0, <2>1
  <2> QED BY <2>1, <2>2, <2>3
<1>5. num \in 0 .. b /\ num + 1 \in 0 .. b
  OBVIOUS
<1>6. a \in RowType(b) /\ l \in RowType(b) /\ r \in RowType(b)
  BY <1>2, <1>4, <1>5 DEF RowType, Parent, Child
<1> HIDE DEF a, l, r, t
<1>7. t \in [0 .. n - 1 -> RowType(b)]
  BY <1>1, <1>3, <1>6
<1>8. /\ \A i \in 0 .. n - 1 : i \notin {node, num, num + 1} => t[i] = tree[i]
      /\ t[node] = a /\ t[num] = l /\ t[num + 1] = r
  BY <1>1, <1>3
<1> QED BY <1>7, <1>8 DEF a, l, r, t, SplitOutcome

-----------------------------------------------------------------------------
(* The inductive invariant of Build *)

Elements(q) == {q[k] : k \in DOMAIN q}
Queued(r) == Elements(queue[r])
Phase(A) == \A r \in Ranks : pc[r] \in A

\* The ranks go through the phases together.
PhaseInv ==
  \/ Phase({"initial"}) /\ merging = 0
  \/ Phase({"local", "fault"}) /\ merging = 0
  \/ Phase({"merge"}) /\ merging < MaxWorkSize
  \/ Phase({"done"}) /\ merging = MaxWorkSize

\* Rows are handed out in order, and a queued row was handed out before.
TopInv ==
  /\ \A r \in Ranks : \A i \in 0 .. InitialNodeSize - 1 :
       /\ initTree[r][i].first <= initTree[r][i].last
       /\ initTree[r][i].level <= InitialLevel + 1
  /\ pc[0] = "initial" =>
       /\ newNodeNum[0] \in 1 .. InitialNodeSize
       /\ \A i \in Queued(0) : i < newNodeNum[0] /\ initTree[0][i].level <= InitialLevel

\* A row is at most as many levels below its start node as there are rows before it.
LocalInv ==
  \A r \in Ranks :
    /\ \A i \in 0 .. N - 1 :
         /\ localTree[r][i].level <= InitialLevel + 1 + i
         /\ i > 0 => localTree[r][i].left <= N /\ localTree[r][i].right <= N
    /\ pc[r] \in {"local", "fault"} =>
         newNodeNum[r] \in 1 .. N /\ \A i \in Queued(r) : i < newNodeNum[r]
    /\ pc[r] \in {"merge", "done"} => newNodeNum[r] \in 0 .. N - 1

\* All ranks allocated as many rows for the merged tree.
HostInv ==
  Phase({"merge", "done"}) =>
    \E n \in Nat : /\ n >= InitialNodeSize
                   /\ \A r \in Ranks : hostTree[r] \in [0 .. n - 1 -> RowType(InitialNodeSize + P * N)]

BuildInv ==
  /\ TypeOK /\ PhaseInv /\ TopInv /\ LocalInv /\ HostInv
  /\ offset <= InitialNodeSize + merging * N

LEMMA RowTypeGrows ==
  ASSUME NEW b \in Int, NEW c \in Int, b <= c
  PROVE  RowType(b) \subseteq RowType(c)
BY DEF RowType

\* What becomes of a queue whose front row was visited.
LEMMA RowFields ==
  ASSUME NEW b \in Nat, NEW row \in RowType(b)
  PROVE  /\ row.left \in Nat /\ row.right \in Nat /\ row.left <= b /\ row.right <= b
         /\ row.first \in 0 .. N /\ row.last \in 0 .. N
         /\ row.level \in Nat /\ row.level <= InitialLevel + N
<1>1. InitialLevel + N \in Nat
  BY Sizes
<1> QED BY <1>1 DEF RowType

LEMMA QueueNext ==
  ASSUME NEW A, NEW q \in Seq(A), q # <<>>, NEW children \in Seq(A)
  PROVE  /\ Enqueue(q, children) \in Seq(A)
         /\ Head(q) \in A /\ Head(q) \in Elements(q)
         /\ Elements(Enqueue(q, children)) \subseteq Elements(q) \cup Elements(children)
<1>1. Tail(q) \in Seq(A) /\ Len(q) > 0 /\ Head(q) = q[1]
  OBVIOUS
<1>2. Enqueue(q, children) \in Seq(A)
  BY <1>1 DEF Enqueue
<1>3. ASSUME NEW k \in DOMAIN Enqueue(q, children)
      PROVE  Enqueue(q, children)[k] \in
               {q[i] : i \in DOMAIN q} \cup {children[i] : i \in DOMAIN children}
  <2>1. k \in 1 .. Len(Tail(q)) + Len(children)
    BY <1>1, <1>3 DEF Enqueue
  <2>2. CASE k <= Len(Tail(q))
    <3>1. Enqueue(q, children)[k] = q[k + 1] /\ k + 1 \in DOMAIN q
      BY <1>1, <2>1, <2>2 DEF Enqueue
    <3> QED BY <3>1
  <2>3. CASE k > Len(Tail(q))
    <3>1. /\ Enqueue(q, children)[k] = children[k - Len(Tail(q))]
          /\ k - Len(Tail(q)) \in DOMAIN children
      BY <1>1, <2>1, <2>3 DEF Enqueue
    <3> QED BY <3>1
  <2> QED BY <1>1, <2>1, <2>2, <2>3
<1> QED BY <1>1, <1>2, <1>3 DEF Elements

LEMMA BuildInit ==
  ASSUME Init
  PROVE  BuildInv
<1> USE Sizes
<1>1. 0 \in Ranks /\ P * N \in Nat
  BY DEF Ranks
<1>2. TypeOK
  <2>1. NullRow \in RowType(InitialNodeSize) /\ NullRow \in RowType(InitialNodeSize + N)
        /\ [NullRow EXCEPT !.last = N] \in RowType(InitialNodeSize)
    BY DEF NullRow, RowType
  <2>2. pc \in [Ranks -> {"initial", "local", "merge", "done", "fault"}]
    BY DEF Init
  <2>3. queue \in [Ranks -> Seq(0 .. N + InitialNodeSize)]
    <3> DEFINE A == 0 .. N + InitialNodeSize
    <3>1. 0 \in A
      OBVIOUS
    <3> HIDE DEF A
    <3>2. <<0>> \in Seq(A) /\ <<>> \in Seq(A)
      BY <3>1
    <3>3. queue \in [Ranks -> Seq(A)]
      BY <3>2 DEF Init
    <3> QED BY <3>3 DEF A
  <2>4. newNodeNum \in [Ranks -> 0 .. N + InitialNodeSize]
    BY DEF Init
  <2>5. initTree \in [Ranks -> [0 .. InitialNodeSize - 1 -> RowType(InitialNodeSize)]]
    BY <2>1 DEF Init
  <2>6. localTree \in [Ranks -> [0 .. N - 1 -> RowType(InitialNodeSize + N)]]
    BY <2>1 DEF Init
  <2>7. map \in [Ranks -> [Particles -> Particles]]
    BY DEF Init, Particles
  <2>8. \A r \in Ranks : DOMAIN hostTree[r] = {}
    BY DEF Init
  <2>9. offset \in InitialNodeSize .. InitialNodeSize + P * N /\ merging \in 0 .. MaxWorkSize
    BY <1>1 DEF Init
  <2>10. \A r \in Ranks : \A i \in 0 .. N - 1 : localTree[r][i].first <= localTree[r][i].last
    BY DEF Init, NullRow
  <2> QED BY <2>2, <2>3, <2>4, <2>5, <2>6, <2>7, <2>8, <2>9, <2>10 DEF TypeOK
<1>3. Phase({"initial"})
  BY DEF Init, Phase
<1>4. TopInv
  <2>1. \A r \in Ranks : \A i \in 0 .. InitialNodeSize - 1 :
          initTree[r][i].first <= initTree[r][i].last /\ initTree[r][i].level = 0
    BY DEF Init, NullRow
  <2>2. Queued(0) \subseteq {0} /\ newNodeNum[0] = 1
    BY <1>1 DEF Init, Queued, Elements
  <2> QED BY <2>1, <2>2, <1>1 DEF TopInv
<1>5. LocalInv
  BY DEF Init, LocalInv, NullRow
<1>6. HostInv
  BY <1>1, <1>3 DEF HostInv, Phase
<1> QED BY <1>2, <1>3, <1>4, <1>5, <1>6 DEF BuildInv, PhaseInv, Init

LEMMA BareRow ==
  ASSUME NEW b, NEW row \in RowType(b), 0 \in 0 .. b
  PROVE  LET bare == Bare(row)
         IN  /\ bare \in RowType(b)
             /\ bare.left = 0 /\ bare.right = 0 /\ bare.first = row.first
             /\ bare.last = row.last /\ bare.level = row.level
BY DEF RowType, Bare

\* The rows that were handed out before the visit keep ranges and levels.
RowsKept(n, tree, num, v) ==
  /\ \A i \in 0 .. num - 1 : /\ v.tree[i].first = tree[i].first
                             /\ v.tree[i].last = tree[i].last
                             /\ v.tree[i].level = tree[i].level
  /\ \A i \in 0 .. num - 1 :
       \/ v.tree[i].left = tree[i].left /\ v.tree[i].right = tree[i].right
       \/ v.tree[i].left <= n /\ v.tree[i].right <= n
  /\ \A i \in num .. n - 1 : v.tree[i].left = tree[i].left /\ v.tree[i].right = tree[i].right

\* The rows the visit hands out are one level below the row, in its range.
RowsMade(n, tree, node, num, v) ==
  /\ \/ v.num = num /\ v.children = <<>>
     \/ v.num = num + 2 /\ v.children = NewRows(num) /\ num + 1 \in 0 .. n - 1
  /\ \A i \in num .. n - 1 : v.tree[i] = tree[i] \/ (v.num = num + 2 /\ i \in {num, num + 1})
  /\ v.num = num + 2 =>
       \A i \in {num, num + 1} :
         /\ v.tree[i].level = tree[node].level + 1
         /\ v.tree[i].first >= tree[node].first /\ v.tree[i].last <= tree[node].last

RowsAfter(n, b, tree, node, num, v) ==
  /\ v.tree \in [0 .. n - 1 -> RowType(b)]
  /\ \A i \in 0 .. n - 1 : v.tree[i].first <= v.tree[i].last
  /\ RowsKept(n, tree, num, v) /\ RowsMade(n, tree, node, num, v)

LEMMA UnsplitRows ==
  ASSUME NEW n \in Nat, NEW b \in Nat, NEW tree \in [0 .. n - 1 -> RowType(b)],
         NEW node \in 0 .. n - 1, NEW num \in 1 .. n, node < num,
         \A i \in 0 .. n - 1 : tree[i].first <= tree[i].last, NEW v,
         v.tree \in Unsplit(tree, node), v.num = num, v.children = <<>>
  PROVE  RowsAfter(n, b, tree, node, num, v)
<1>0. n \in Nat /\ num \in Nat
  OBVIOUS
<1> DEFINE bare == Bare(tree[node])
<1>a. tree[node] \in RowType(b)
  OBVIOUS
<1>b. /\ bare \in RowType(b)
      /\ bare.left = 0 /\ bare.right = 0 /\ bare.first = tree[node].first
      /\ bare.last = tree[node].last /\ bare.level = tree[node].level
  BY <1>a, BareRow
<1>c. v.tree = [tree EXCEPT ![node] = bare] \/ v.tree = tree
  BY <1>a DEF Unsplit, RowType, Bare
<1> HIDE DEF bare
<1>1. v.tree \in [0 .. n - 1 -> RowType(b)]
  BY <1>b, <1>c
<1>2. \A i \in 0 .. n - 1 :
        /\ v.tree[i].first = tree[i].first /\ v.tree[i].last = tree[i].last
        /\ v.tree[i].level = tree[i].level
        /\ i # node => v.tree[i] = tree[i]
        /\ i = node => \/ v.tree[i] = tree[i]
                       \/ v.tree[i].left = 0 /\ v.tree[i].right = 0
  BY <1>b, <1>c
<1>3. num .. n - 1 \subseteq 0 .. n - 1 /\ 0 .. num - 1 \subseteq 0 .. n - 1
      /\ node \notin num .. n - 1 /\ v.num # num + 2
  BY <1>0
<1>4. RowsKept(n, tree, num, v)
  BY <1>0, <1>2, <1>3 DEF RowsKept
<1>5. RowsMade(n, tree, node, num, v)
  BY <1>0, <1>2, <1>3 DEF RowsMade
<1>6. \A i \in 0 .. n - 1 : v.tree[i].first <= v.tree[i].last
  BY <1>2
<1> QED BY <1>1, <1>4, <1>5, <1>6 DEF RowsAfter

LEMMA VisitRows ==
  ASSUME NEW n \in Nat, NEW b \in Nat, NEW tree \in [0 .. n - 1 -> RowType(b)],
         NEW m \in [Particles -> Particles], NEW node \in 0 .. n - 1, NEW num \in 1 .. n,
         node < num, n <= b, tree[node].level < InitialLevel + N,
         \A i \in 0 .. n - 1 : tree[i].first <= tree[i].last,
         NEW v \in Visits(tree, m, node, num)
  PROVE  MapOutcome(tree, m, node, v) /\ RowsAfter(n, b, tree, node, num, v)
<1>0. n \in Nat /\ num \in Nat /\ N \in Nat
  BY Sizes
<1>1. MapOutcome(tree, m, node, v) /\ RowOutcome(n, tree, node, num, v)
  <2>1. tree[node].first <= tree[node].last
    OBVIOUS
  <2> QED BY <1>0, <2>1, VisitFacts
<1>2. \/ v.tree \in Unsplit(tree, node) /\ v.num = num /\ v.children = <<>>
      \/ \E mid \in tree[node].first .. tree[node].last :
            /\ num + 1 \in 0 .. n - 1 /\ v.tree = Split(tree, node, num, mid)
            /\ v.num = num + 2 /\ v.children = NewRows(num)
  BY <1>1 DEF RowOutcome
<1>3. CASE v.tree \in Unsplit(tree, node) /\ v.num = num /\ v.children = <<>>
  BY <1>1, <1>3, UnsplitRows
<1>4. ASSUME NEW mid \in tree[node].first .. tree[node].last,
             num + 1 \in 0 .. n - 1, v.tree = Split(tree, node, num, mid),
             v.num = num + 2, v.children = NewRows(num)
      PROVE  /\ v.tree \in [0 .. n - 1 -> RowType(b)]
             /\ \A i \in 0 .. n - 1 :
                  /\ i \notin {node, num, num + 1} => v.tree[i] = tree[i]
                  /\ i = node => /\ v.tree[i].left = num /\ v.tree[i].right = num + 1
                                 /\ v.tree[i].first = tree[i].first
                                 /\ v.tree[i].last = tree[i].last
                                 /\ v.tree[i].level = tree[i].level
                  /\ i \in {num, num + 1} =>
                       /\ v.tree[i].left = tree[i].left /\ v.tree[i].right = tree[i].right
                       /\ v.tree[i].level = tree[node].level + 1
                       /\ v.tree[i].first >= tree[node].first
                       /\ v.tree[i].last <= tree[node].last
                       /\ v.tree[i].first <= v.tree[i].last
  <2>1. num + 1 <= b
    BY <1>0, <1>4
  <2>2. SplitOutcome(n, b, tree, node, num, mid, v.tree)
    BY <1>0, <1>4, <2>1, SplitRows
  <2>3. num \in 0 .. n - 1 /\ node # num /\ node # num + 1
    BY <1>0, <1>4
  <2>4. /\ tree[node] \in RowType(b) /\ tree[num] \in RowType(b) /\ tree[num + 1] \in RowType(b)
        /\ tree[node].first <= tree[node].last
    BY <1>4, <2>3
  <2>5. /\ tree[node].first \in Int /\ tree[node].last \in Int /\ mid \in Int
        /\ tree[node].first <= mid /\ mid <= tree[node].last
    BY <1>4, <2>4 DEF RowType
  <2>6. /\ v.tree[node].left = num /\ v.tree[node].right = num + 1
        /\ v.tree[node].first = tree[node].first /\ v.tree[node].last = tree[node].last
        /\ v.tree[node].level = tree[node].level
    BY <2>2, <2>4 DEF SplitOutcome, RowType, Parent, Child
  <2>7. /\ v.tree[num].left = tree[num].left /\ v.tree[num].right = tree[num].right
        /\ v.tree[num].level = tree[node].level + 1
        /\ v.tree[num].first = tree[node].first /\ v.tree[num].last = mid
    BY <2>2, <2>4 DEF SplitOutcome, RowType, Parent, Child
  <2>8. /\ v.tree[num + 1].left = tree[num + 1].left /\ v.tree[num + 1].right = tree[num + 1].right
        /\ v.tree[num + 1].level = tree[node].level + 1
        /\ v.tree[num + 1].first = mid /\ v.tree[num + 1].last = tree[node].last
    BY <2>2, <2>4 DEF SplitOutcome, RowType, Parent, Child
  <2>9. /\ v.tree \in [0 .. n - 1 -> RowType(b)]
        /\ \A i \in 0 .. n - 1 : i \notin {node, num, num + 1} => v.tree[i] = tree[i]
    BY <2>2 DEF SplitOutcome
  <2> QED BY <2>3, <2>5, <2>6, <2>7, <2>8, <2>9, SMTT(30)
<1>5. CASE \E mid \in tree[node].first .. tree[node].last :
             /\ num + 1 \in 0 .. n - 1 /\ v.tree = Split(tree, node, num, mid)
             /\ v.num = num + 2 /\ v.children = NewRows(num)
  <2>1. num + 1 \in 0 .. n - 1 /\ v.num = num + 2 /\ v.children = NewRows(num)
    BY <1>5
  <2>2. /\ v.tree \in [0 .. n - 1 -> RowType(b)]
        /\ \A i \in 0 .. n - 1 :
             /\ i \notin {node, num, num + 1} => v.tree[i] = tree[i]
             /\ i = node => /\ v.tree[i].left = num /\ v.tree[i].right = num + 1
                            /\ v.tree[i].first = tree[i].first
                            /\ v.tree[i].last = tree[i].last
                            /\ v.tree[i].level = tree[i].level
             /\ i \in {num, num + 1} =>
                  /\ v.tree[i].left = tree[i].left /\ v.tree[i].right = tree[i].right
                  /\ v.tree[i].level = tree[node].level + 1
                  /\ v.tree[i].first >= tree[node].first
                  /\ v.tree[i].last <= tree[node].last
                  /\ v.tree[i].first <= v.tree[i].last
    BY <1>4, <1>5
  <2>3. /\ num .. n - 1 \subseteq 0 .. n - 1 /\ 0 .. num - 1 \subseteq 0 .. n - 1
        /\ node \notin num .. n - 1 /\ num \notin 0 .. num - 1 /\ num + 1 \notin 0 .. num - 1
        /\ num \in 0 .. n - 1 /\ num + 2 \in num .. n
    BY <1>0, <2>1
  <2>4. \A i \in 0 .. n - 1 : v.tree[i].first <= v.tree[i].last
    BY <2>2
  <2>5. \A i \in 0 .. num - 1 : /\ v.tree[i].first = tree[i].first
                                /\ v.tree[i].last = tree[i].last
                                /\ v.tree[i].level = tree[i].level
    BY <2>2, <2>3
  <2>6. \A i \in num .. n - 1 : v.tree[i].left = tree[i].left /\ v.tree[i].right = tree[i].right
    BY <2>2, <2>3
  <2>7. \A i \in 0 .. num - 1 :
          \/ v.tree[i].left = tree[i].left /\ v.tree[i].right = tree[i].right
          \/ v.tree[i].left <= n /\ v.tree[i].right <= n
    <3>1. num <= n /\ num + 1 <= n
      BY <1>0, <2>1
    <3> QED BY <2>2, <2>3, <3>1
  <2>8. \A i \in num .. n - 1 : v.tree[i] = tree[i] \/ (v.num = num + 2 /\ i \in {num, num + 1})
    BY <2>1, <2>2, <2>3
  <2>9. \A i \in {num, num + 1} :
          /\ v.tree[i].level = tree[node].level + 1
          /\ v.tree[i].first >= tree[node].first /\ v.tree[i].last <= tree[node].last
    BY <2>1, <2>2, <2>3
  <2>10. RowsKept(n, tree, num, v)
    BY <2>5, <2>6, <2>7 DEF RowsKept
  <2>11. RowsMade(n, tree, node, num, v)
    BY <2>1, <2>3, <2>8, <2>9 DEF RowsMade
  <2> QED BY <1>1, <2>2, <2>4, <2>10, <2>11 DEF RowsAfter
<1> QED BY <1>2, <1>3, <1>5

LEMMA NewRowsSeq ==
  ASSUME NEW A, NEW num \in Nat, num \in A, num + 1 \in A
  PROVE  /\ NewRows(num) \in Seq(A) /\ NewRows(num) # <<>>
         /\ Elements(NewRows(num)) = {num, num + 1}
         /\ Head(NewRows(num)) = num
<1>1. NewRows(num) \in Seq(A) /\ NewRows(num) # <<>> /\ Head(NewRows(num)) = num
  BY DEF NewRows
<1>2. DOMAIN NewRows(num) = {1, 2} /\ NewRows(num)[1] = num /\ NewRows(num)[2] = num + 1
  BY DEF NewRows
<1> HIDE DEF NewRows
<1> QED BY <1>1, <1>2 DEF Elements

LEMMA InitialSplitBuild ==
  ASSUME BuildInv, InitialSplit
  PROVE  BuildInv'
<1> DEFINE S == InitialNodeSize
           node == Head(queue[0])
           num == newNodeNum[0]
           A == 0 .. N + S
<1>0. /\ TypeOK /\ PhaseInv /\ TopInv /\ LocalInv /\ HostInv
      /\ offset <= InitialNodeSize + merging * N
      /\ pc[0] = "initial" /\ queue[0] # <<>> /\ 0 \in Ranks
      /\ UNCHANGED <<pc, localTree, hostTree, offset, merging>>
  BY Sizes DEF BuildInv, InitialSplit, Ranks
<1>s. S \in Nat /\ N \in Nat /\ N >= 1 /\ InitialLevel \in Nat
  BY Sizes
<1>1. PICK v \in Visits(initTree[0], map[0], node, num) :
        /\ initTree' = [initTree EXCEPT ![0] = v.tree]
        /\ map' = [map EXCEPT ![0] = v.map]
        /\ newNodeNum' = [newNodeNum EXCEPT ![0] = v.num]
        /\ queue' = [queue EXCEPT ![0] =
             Enqueue(@, IF v.children # <<>> /\ v.tree[Head(v.children)].level < InitialLevel
                        THEN v.children ELSE <<>>)]
  BY DEF InitialSplit
<1>2. /\ queue \in [Ranks -> Seq(A)] /\ newNodeNum \in [Ranks -> A]
      /\ initTree \in [Ranks -> [0 .. S - 1 -> RowType(S)]]
      /\ map \in [Ranks -> [Particles -> Particles]]
  BY <1>0 DEF TypeOK
<1>3. node \in A /\ node \in Queued(0)
  <2> HIDE DEF A
  <2>1. queue[0] \in Seq(A) /\ queue[0] # <<>> /\ queue[0] = queue[0]
    BY <1>0, <1>2
  <2> QED BY <2>1, QueueNext DEF Queued
<1>4. num \in 1 .. S /\ node < num /\ initTree[0][node].level <= InitialLevel
  BY <1>0, <1>3 DEF TopInv
<1>5. node \in 0 .. S - 1 /\ S \in Nat
  BY <1>3, <1>4, <1>s
<1>6. MapOutcome(initTree[0], map[0], node, v) /\ RowsAfter(S, S, initTree[0], node, num, v)
  <2>1. initTree[0] \in [0 .. S - 1 -> RowType(S)] /\ map[0] \in [Particles -> Particles]
    BY <1>0, <1>2
  <2>2. \A i \in 0 .. S - 1 : initTree[0][i].first <= initTree[0][i].last
    BY <1>0 DEF TopInv
  <2>3. initTree[0][node].level < InitialLevel + N
    <3>1. initTree[0][node] \in RowType(S)
      BY <1>5, <2>1
    <3>2. initTree[0][node].level \in Int
      BY <1>s, <3>1, RowFields
    <3> QED BY <1>4, <1>s, <3>2
  <2>4. S <= S /\ v \in Visits(initTree[0], map[0], node, num)
    BY <1>s
  <2> HIDE DEF node, num, S
  <2> QED BY <1>s, <1>4, <1>5, <2>1, <2>2, <2>3, <2>4, VisitRows
<1> DEFINE children == IF v.children # <<>> /\ v.tree[Head(v.children)].level < InitialLevel
                       THEN v.children ELSE <<>>
<1>7. \/ v.num = num /\ children = <<>>
      \/ /\ v.num = num + 2 /\ num + 1 \in 0 .. S - 1
         /\ \/ children = <<>>
            \/ children = NewRows(num) /\ v.tree[num].level < InitialLevel
  <2>1. \/ v.num = num /\ v.children = <<>>
        \/ v.num = num + 2 /\ v.children = NewRows(num) /\ num + 1 \in 0 .. S - 1
    BY <1>6 DEF RowsAfter, RowsMade
  <2>2. CASE v.num = num /\ v.children = <<>>
    BY <2>2
  <2>3. CASE v.num = num + 2 /\ v.children = NewRows(num) /\ num + 1 \in 0 .. S - 1
    <3>1. Head(v.children) = num
      <4>1. num \in Nat /\ num \in 0 .. S - 1 /\ num + 1 \in 0 .. S - 1
        BY <1>s, <1>4, <2>3
      <4> HIDE DEF num
      <4> QED BY <2>3, <4>1, NewRowsSeq
    <3> HIDE DEF num
    <3> QED BY <2>3, <3>1
  <2> QED BY <2>1, <2>2, <2>3
<1>8. v.num \in num .. S
  BY <1>4, <1>5, <1>7
<1>9. children \in Seq(A) /\ Elements(children) \subseteq num .. v.num - 1
      /\ (children = <<>> => Elements(children) = {})
  <2>1. CASE children = <<>>
    <3> HIDE DEF children
    <3> QED BY <2>1 DEF Elements
  <2>2. CASE children = NewRows(num) /\ v.num = num + 2 /\ num + 1 \in 0 .. S - 1
    <3>1. num \in Nat /\ num \in A /\ num + 1 \in A
      BY <1>4, <1>s, <2>2
    <3>2. children \in Seq(A) /\ Elements(children) = {num, num + 1} /\ children # <<>>
      <4> HIDE DEF children, num, A
      <4> QED BY <2>2, <3>1, NewRowsSeq
    <3>3. {num, num + 1} \subseteq num .. v.num - 1
      BY <2>2, <3>1
    <3> HIDE DEF children
    <3> QED BY <3>2, <3>3
  <2> HIDE DEF children, num, A
  <2> QED BY <1>7, <2>1, <2>2
<1>10. /\ initTree'[0] = v.tree /\ map'[0] = v.map /\ newNodeNum'[0] = v.num
       /\ queue'[0] = Enqueue(queue[0], children)
       /\ \A r \in Ranks \ {0} : /\ initTree'[r] = initTree[r] /\ map'[r] = map[r]
                                 /\ newNodeNum'[r] = newNodeNum[r] /\ queue'[r] = queue[r]
  BY <1>0, <1>1, <1>2
<1>11. /\ queue'[0] \in Seq(A)
       /\ \A i \in Queued(0)' : i \in Queued(0) \/ i \in num .. v.num - 1
  <2>1. queue[0] \in Seq(A) /\ queue[0] # <<>>
    BY <1>0, <1>2
  <2> HIDE DEF children, A
  <2>2. /\ Enqueue(queue[0], children) \in Seq(A)
        /\ Elements(Enqueue(queue[0], children)) \subseteq Queued(0) \cup Elements(children)
    BY <2>1, <1>9, QueueNext DEF Queued
  <2> QED BY <2>2, <1>9, <1>10 DEF Queued
<1> HIDE DEF children
<1>12. TypeOK'
  <2>1. queue' \in [Ranks -> Seq(A)]
    BY <1>1, <1>2, <1>10, <1>11
  <2>2. newNodeNum' \in [Ranks -> A]
    <3>1. v.num \in A
      BY <1>s, <1>4, <1>8
    <3> QED BY <1>1, <1>2, <3>1
  <2>3. initTree' \in [Ranks -> [0 .. S - 1 -> RowType(S)]]
    BY <1>1, <1>2, <1>6 DEF RowsAfter
  <2>4. map' \in [Ranks -> [Particles -> Particles]]
    BY <1>1, <1>2, <1>6 DEF MapOutcome
  <2> QED BY <1>0, <2>1, <2>2, <2>3, <2>4 DEF TypeOK
<1>13. PhaseInv' /\ HostInv' /\ (offset <= InitialNodeSize + merging * N)'
  BY <1>0 DEF PhaseInv, HostInv, Phase
<1>14. TopInv'
  <2>1. \A i \in 0 .. S - 1 : v.tree[i].first <= v.tree[i].last /\ v.tree[i].level <= InitialLevel + 1
    <3> TAKE i \in 0 .. S - 1
    <3>1. v.tree[i].first <= v.tree[i].last
      BY <1>6 DEF RowsAfter
    <3>2. initTree[0][i].level <= InitialLevel + 1 /\ initTree[0][node].level <= InitialLevel
          /\ initTree[0][node].level \in Int /\ initTree[0][i].level \in Int
      <4>1. initTree[0][i] \in RowType(S) /\ initTree[0][node] \in RowType(S)
        BY <1>0, <1>2, <1>5
      <4>2. initTree[0][i].level <= InitialLevel + 1
        BY <1>0 DEF TopInv
      <4> QED BY <1>s, <1>4, <4>1, <4>2, RowFields
    <3>3. CASE i < num
      <4>1. i \in 0 .. num - 1
        BY <1>4, <3>3
      <4>2. v.tree[i].level = initTree[0][i].level
        BY <4>1, <1>6 DEF RowsAfter, RowsKept
      <4> QED BY <1>s, <3>1, <3>2, <4>2
    <3>4. CASE ~ (i < num)
      <4>1. i \in num .. S - 1
        BY <1>4, <3>4
      <4>2. v.tree[i] = initTree[0][i] \/ v.tree[i].level = initTree[0][node].level + 1
        BY <4>1, <1>6 DEF RowsAfter, RowsMade
      <4> QED BY <1>s, <3>1, <3>2, <4>2
    <3> QED BY <3>3, <3>4
  <2>2. \A r \in Ranks : \A i \in 0 .. S - 1 :
          /\ initTree'[r][i].first <= initTree'[r][i].last
          /\ initTree'[r][i].level <= InitialLevel + 1
    BY <1>0, <1>10, <2>1 DEF TopInv
  <2>3. ASSUME NEW i \in Queued(0)' PROVE i < v.num /\ v.tree[i].level <= InitialLevel
    <3>1. CASE i \in Queued(0)
      <4>1. i < num /\ initTree[0][i].level <= InitialLevel /\ i \in A
        <5>1. i < num /\ initTree[0][i].level <= InitialLevel
          BY <1>0, <3>1 DEF TopInv
        <5>2. i \in A
          <6> HIDE DEF A
          <6>1. queue[0] \in Seq(A)
            BY <1>0, <1>2
          <6> QED BY <3>1, <6>1 DEF Queued, Elements
        <5> QED BY <5>1, <5>2
      <4>2. i \in 0 .. num - 1
        BY <1>s, <1>4, <4>1
      <4>3. v.tree[i].level = initTree[0][i].level
        BY <4>2, <1>6 DEF RowsAfter, RowsKept
      <4> QED BY <1>4, <1>8, <4>1, <4>2, <4>3
    <3>2. CASE i \in num .. v.num - 1 /\ children # <<>>
      <4>1. v.num = num + 2 /\ v.tree[num].level < InitialLevel
        BY <1>7, <3>2
      <4>2. i \in {num, num + 1}
        BY <1>4, <3>2, <4>1
      <4>3. v.tree[i].level = v.tree[num].level
        BY <1>6, <4>1, <4>2 DEF RowsAfter, RowsMade
      <4>4. v.tree[num].level \in Int
        <5>1. num \in 0 .. S - 1
          BY <1>s, <1>4, <1>7, <4>1
        <5>2. v.tree[num] \in RowType(S)
          BY <5>1, <1>6 DEF RowsAfter
        <5> QED BY <5>2, <1>s, RowFields
      <4> QED BY <1>s, <1>4, <3>2, <4>1, <4>2, <4>3, <4>4
    <3>3. CASE children = <<>>
      <4>1. Elements(children) = {}
        BY <1>9, <3>3
      <4>2. i \in Queued(0)
        <5>1. queue[0] \in Seq(A) /\ queue[0] # <<>> /\ children \in Seq(A)
          BY <1>0, <1>2, <1>9
        <5> HIDE DEF A
        <5>2. Elements(Enqueue(queue[0], children)) \subseteq Queued(0) \cup Elements(children)
          BY <5>1, QueueNext DEF Queued
        <5> QED BY <2>3, <4>1, <5>2, <1>10 DEF Queued
      <4> QED BY <3>1, <4>2
    <3> QED BY <1>11, <3>1, <3>2, <3>3
  <2>4. v.num \in 1 .. S
    BY <1>4, <1>8
  <2> QED BY <1>10, <2>2, <2>3, <2>4 DEF TopInv
<1>15. LocalInv'
  <2>1. \A r \in Ranks : pc[r] = "initial"
    BY <1>0 DEF PhaseInv, Phase
  <2> QED BY <1>0, <2>1 DEF LocalInv
<1> QED BY <1>12, <1>13, <1>14, <1>15 DEF BuildInv

LEMMA BcastInitialBuild ==
  ASSUME BuildInv, BcastInitial
  PROVE  BuildInv'
<1> DEFINE S == InitialNodeSize
           A == 0 .. N + S
<1>s. /\ S \in Nat /\ N \in Nat /\ N >= 1 /\ InitialLevel \in Nat /\ 0 \in Ranks
      /\ Ranks \subseteq Nat
      /\ \A r \in Ranks : r < MaxWorkSize => StartNode(r) \in 0 .. S - 1
  BY Sizes DEF Ranks
<1>0. /\ TypeOK /\ PhaseInv /\ TopInv /\ LocalInv /\ HostInv
      /\ offset <= InitialNodeSize + merging * N
      /\ UNCHANGED <<hostTree, offset, merging>>
      /\ initTree' = [r \in Ranks |-> initTree[0]]
      /\ map' = [r \in Ranks |-> map[0]]
      /\ localTree' = [r \in Ranks |->
           IF r < MaxWorkSize
           THEN [localTree[r] EXCEPT ![0] = initTree[0][StartNode(r)]]
           ELSE localTree[r]]
      /\ queue' = [r \in Ranks |-> IF r < MaxWorkSize THEN <<0>> ELSE <<>>]
      /\ newNodeNum' = [r \in Ranks |-> 1]
      /\ pc' = [r \in Ranks |-> "local"]
  BY DEF BuildInv, BcastInitial
<1>1. /\ initTree \in [Ranks -> [0 .. S - 1 -> RowType(S)]]
      /\ localTree \in [Ranks -> [0 .. N - 1 -> RowType(S + N)]]
      /\ map \in [Ranks -> [Particles -> Particles]]
  BY <1>0 DEF TypeOK
<1>2. \A r \in Ranks : r < MaxWorkSize =>
        /\ initTree[0][StartNode(r)] \in RowType(S + N)
        /\ initTree[0][StartNode(r)].first <= initTree[0][StartNode(r)].last
        /\ initTree[0][StartNode(r)].level <= InitialLevel + 1
  <2> TAKE r \in Ranks
  <2> HAVE r < MaxWorkSize
  <2>1. StartNode(r) \in 0 .. S - 1
    BY <1>s
  <2>2. initTree[0][StartNode(r)] \in RowType(S)
    BY <1>1, <1>s, <2>1
  <2>3. S \in Int /\ S + N \in Int /\ S <= S + N
    BY <1>s
  <2>4. initTree[0][StartNode(r)] \in RowType(S + N)
    <3> HIDE DEF S
    <3> QED BY <2>2, <2>3, RowTypeGrows
  <2>5. /\ initTree[0][StartNode(r)].first <= initTree[0][StartNode(r)].last
        /\ initTree[0][StartNode(r)].level <= InitialLevel + 1
    BY <1>0, <1>s, <2>1 DEF TopInv
  <2> QED BY <2>4, <2>5
<1>3. ASSUME NEW r \in Ranks
      PROVE  /\ localTree'[r] \in [0 .. N - 1 -> RowType(S + N)]
             /\ \A i \in 0 .. N - 1 :
                  \/ localTree'[r][i] = localTree[r][i]
                  \/ i = 0 /\ r < MaxWorkSize /\ localTree'[r][i] = initTree[0][StartNode(r)]
  <2>1. 0 \in 0 .. N - 1
    BY <1>s
  <2>2. localTree[r] \in [0 .. N - 1 -> RowType(S + N)]
    BY <1>1
  <2>3. localTree'[r] = IF r < MaxWorkSize
                        THEN [localTree[r] EXCEPT ![0] = initTree[0][StartNode(r)]]
                        ELSE localTree[r]
    BY <1>0
  <2> QED BY <2>1, <2>2, <2>3, <1>2
<1>4. TypeOK'
  <2>1. queue' \in [Ranks -> Seq(A)]
    <3>1. 0 \in A
      BY <1>s
    <3> HIDE DEF A
    <3>2. <<0>> \in Seq(A) /\ <<>> \in Seq(A)
      BY <3>1
    <3> QED BY <3>2, <1>0
  <2>2. newNodeNum' \in [Ranks -> A]
    BY <1>0, <1>s
  <2>3. initTree' \in [Ranks -> [0 .. S - 1 -> RowType(S)]]
    BY <1>0, <1>1, <1>s
  <2>4. localTree' \in [Ranks -> [0 .. N - 1 -> RowType(S + N)]]
    BY <1>0, <1>3
  <2>5. map' \in [Ranks -> [Particles -> Particles]]
    BY <1>0, <1>1, <1>s
  <2>6. pc' \in [Ranks -> {"initial", "local", "merge", "done", "fault"}]
    BY <1>0
  <2>7. \A r \in Ranks : \A i \in 0 .. N - 1 : localTree'[r][i].first <= localTree'[r][i].last
    BY <1>0, <1>2, <1>3 DEF TypeOK
  <2> QED BY <1>0, <2>1, <2>2, <2>3, <2>4, <2>5, <2>6, <2>7 DEF TypeOK
<1>5. PhaseInv'
  <2>1. merging = 0
    BY <1>s DEF BuildInv, BcastInitial, PhaseInv, Phase
  <2> QED BY <1>0, <2>1 DEF PhaseInv, Phase
<1>6. TopInv'
  <2>1. pc'[0] # "initial"
    BY <1>0, <1>s
  <2> QED BY <1>0, <1>s, <2>1 DEF TopInv
<1>7. LocalInv'
  <2> SUFFICES ASSUME NEW r \in Ranks
               PROVE  /\ \A i \in 0 .. N - 1 :
                           /\ localTree'[r][i].level <= InitialLevel + 1 + i
                           /\ i > 0 => localTree'[r][i].left <= N /\ localTree'[r][i].right <= N
                      /\ newNodeNum'[r] \in 1 .. N /\ \A i \in Queued(r)' : i < newNodeNum'[r]
                      /\ pc'[r] = "local"
    BY DEF LocalInv
  <2>1. \A i \in 0 .. N - 1 :
          /\ localTree'[r][i].level <= InitialLevel + 1 + i
          /\ i > 0 => localTree'[r][i].left <= N /\ localTree'[r][i].right <= N
    <3> TAKE i \in 0 .. N - 1
    <3>1. CASE localTree'[r][i] = localTree[r][i]
      BY <1>0, <3>1 DEF LocalInv
    <3>2. CASE i = 0 /\ r < MaxWorkSize /\ localTree'[r][i] = initTree[0][StartNode(r)]
      BY <1>2, <1>s, <3>2
    <3> QED BY <1>3, <3>1, <3>2
  <2>2. newNodeNum'[r] = 1 /\ pc'[r] = "local" /\ Queued(r)' \subseteq {0}
    BY <1>0 DEF Queued, Elements
  <2> QED BY <1>s, <2>1, <2>2
<1>8. HostInv'
  BY <1>0, <1>s DEF HostInv, Phase
<1> QED BY <1>0, <1>4, <1>5, <1>6, <1>7, <1>8 DEF BuildInv

\* What a turn of a rank's loop does, from the visit it makes.
LEMMA LocalSplitVisit ==
  ASSUME BuildInv, NEW r \in Ranks, LocalSplit(r)
  PROVE  /\ Phase({"local", "fault"}) /\ pc[r] = "local" /\ merging = 0
         /\ \E node \in Queued(r), num \in 1 .. N :
              /\ num = newNodeNum[r] /\ node < num /\ node \in 0 .. N - 1
              /\ \E v \in Visits(localTree[r], map[r], node, num) :
                   /\ MapOutcome(localTree[r], map[r], node, v)
                   /\ RowsAfter(N, InitialNodeSize + N, localTree[r], node, num, v)
                   /\ localTree' = [localTree EXCEPT ![r] = v.tree]
                   /\ map' = [map EXCEPT ![r] = v.map]
                   /\ newNodeNum' = [newNodeNum EXCEPT ![r] = v.num]
                   /\ queue' \in [Ranks -> Seq(0 .. N + InitialNodeSize)]
                   /\ \A s \in Ranks \ {r} : queue'[s] = queue[s]
                   /\ \A i \in Queued(r)' : i \in Queued(r) \/ i \in num .. v.num - 1
                   /\ pc' = [pc EXCEPT ![r] = IF v.fault THEN "fault" ELSE @]
<1> DEFINE S == InitialNodeSize
           A == 0 .. N + S
           node == Head(queue[r])
           num == newNodeNum[r]
<1>s. /\ S \in Nat /\ N \in Nat /\ N >= 1 /\ InitialLevel \in Nat /\ S + N \in Nat
  BY Sizes
<1>0. /\ TypeOK /\ PhaseInv /\ LocalInv /\ pc[r] = "local" /\ queue[r] # <<>>
  BY DEF BuildInv, LocalSplit
<1>1. PICK v \in Visits(localTree[r], map[r], node, num) :
        /\ localTree' = [localTree EXCEPT ![r] = v.tree]
        /\ map' = [map EXCEPT ![r] = v.map]
        /\ newNodeNum' = [newNodeNum EXCEPT ![r] = v.num]
        /\ queue' = [queue EXCEPT ![r] = Enqueue(@, v.children)]
        /\ pc' = [pc EXCEPT ![r] = IF v.fault THEN "fault" ELSE @]
  BY DEF LocalSplit
<1>2. /\ queue \in [Ranks -> Seq(A)]
      /\ localTree \in [Ranks -> [0 .. N - 1 -> RowType(S + N)]]
      /\ map \in [Ranks -> [Particles -> Particles]]
  BY <1>0 DEF TypeOK
<1>3. node \in A /\ node \in Queued(r)
  <2> HIDE DEF A
  <2>1. queue[r] \in Seq(A) /\ queue[r] # <<>>
    BY <1>0, <1>2
  <2> QED BY <2>1, QueueNext DEF Queued
<1>4. num \in 1 .. N /\ node < num
  BY <1>0, <1>3 DEF LocalInv
<1>5. node \in 0 .. N - 1
  BY <1>3, <1>4, <1>s
<1>6. MapOutcome(localTree[r], map[r], node, v) /\ RowsAfter(N, S + N, localTree[r], node, num, v)
  <2>1. localTree[r] \in [0 .. N - 1 -> RowType(S + N)] /\ map[r] \in [Particles -> Particles]
    BY <1>0, <1>2
  <2>2. \A i \in 0 .. N - 1 : localTree[r][i].first <= localTree[r][i].last
    BY <1>0 DEF TypeOK
  <2>3. CASE localTree[r][node].level < InitialLevel + N
    <3>1. N <= S + N /\ v \in Visits(localTree[r], map[r], node, num)
      BY <1>s
    <3> HIDE DEF node, num, S
    <3> QED BY <1>s, <1>4, <1>5, <2>1, <2>2, <2>3, <3>1, VisitRows
  <2>4. CASE ~ (localTree[r][node].level < InitialLevel + N)
    <3>1. localTree[r][node] \in RowType(S + N)
      BY <1>5, <2>1
    <3>2. localTree[r][node].level \in Nat
      BY <1>s, <3>1, RowFields
    <3>3. localTree[r][node].level <= InitialLevel + 1 + node
      BY <1>0, <1>5 DEF LocalInv
    <3>4. node >= N - 1
      BY <1>s, <1>5, <2>4, <3>2, <3>3
    <3>5. num = N /\ node = N - 1
      BY <1>s, <1>4, <1>5, <3>4
    <3>6. MapOutcome(localTree[r], map[r], node, v) /\ RowOutcome(N, localTree[r], node, num, v)
      <4>1. localTree[r][node].first <= localTree[r][node].last /\ num \in Nat
            /\ v \in Visits(localTree[r], map[r], node, num)
        BY <1>5, <1>s, <2>2, <3>5
      <4> HIDE DEF node, num, S
      <4> QED BY <1>s, <1>5, <2>1, <4>1, VisitFacts
    <3>7. v.tree \in Unsplit(localTree[r], node) /\ v.num = num /\ v.children = <<>>
      BY <1>s, <3>5, <3>6 DEF RowOutcome
    <3> QED BY <1>s, <1>4, <1>5, <2>1, <2>2, <3>6, <3>7, UnsplitRows
  <2> QED BY <2>3, <2>4
<1>7. \/ v.num = num /\ v.children = <<>>
      \/ v.num = num + 2 /\ v.children = NewRows(num) /\ num + 1 \in 0 .. N - 1
  BY <1>6 DEF RowsAfter, RowsMade
<1>9. v.children \in Seq(A) /\ Elements(v.children) \subseteq num .. v.num - 1
  <2>1. CASE v.children = <<>>
    <3>1. <<>> \in Seq(A) /\ Elements(<<>>) = {}
      BY DEF Elements
    <3> QED BY <2>1, <3>1
  <2>2. CASE v.children = NewRows(num) /\ v.num = num + 2 /\ num + 1 \in 0 .. N - 1
    <3>1. num \in Nat /\ num \in A /\ num + 1 \in A
      BY <1>4, <1>s, <2>2
    <3>2. NewRows(num) \in Seq(A) /\ Elements(NewRows(num)) = {num, num + 1}
      <4> HIDE DEF num, A
      <4> QED BY <3>1, NewRowsSeq
    <3>3. {num, num + 1} \subseteq num .. v.num - 1
      BY <2>2, <3>1
    <3> HIDE DEF num, A
    <3> QED BY <2>2, <3>2, <3>3
  <2> QED BY <1>7, <2>1, <2>2
<1>11. /\ queue'[r] \in Seq(A)
       /\ \A i \in Queued(r)' : i \in Queued(r) \/ i \in num .. v.num - 1
  <2>1. queue[r] \in Seq(A) /\ queue[r] # <<>> /\ queue'[r] = Enqueue(queue[r], v.children)
    BY <1>0, <1>1, <1>2
  <2> HIDE DEF A, num
  <2>2. /\ Enqueue(queue[r], v.children) \in Seq(A)
        /\ Elements(Enqueue(queue[r], v.children)) \subseteq Queued(r) \cup Elements(v.children)
    BY <2>1, <1>9, QueueNext DEF Queued
  <2> QED BY <2>1, <2>2, <1>9 DEF Queued
<1>12. queue' \in [Ranks -> Seq(A)] /\ \A s \in Ranks \ {r} : queue'[s] = queue[s]
  <2> HIDE DEF A
  <2> QED BY <1>1, <1>2, <1>11
<1>13. Phase({"local", "fault"}) /\ merging = 0
  BY <1>0 DEF PhaseInv, Phase
<1> HIDE DEF node, num, A, S
<1>14. /\ num = newNodeNum[r] /\ node < num /\ node \in 0 .. N - 1
       /\ \E w \in Visits(localTree[r], map[r], node, num) :
                   /\ MapOutcome(localTree[r], map[r], node, w)
                   /\ RowsAfter(N, S + N, localTree[r], node, num, w)
                   /\ localTree' = [localTree EXCEPT ![r] = w.tree]
                   /\ map' = [map EXCEPT ![r] = w.map]
                   /\ newNodeNum' = [newNodeNum EXCEPT ![r] = w.num]
                   /\ queue' \in [Ranks -> Seq(A)]
                   /\ \A s \in Ranks \ {r} : queue'[s] = queue[s]
                   /\ \A i \in Queued(r)' : i \in Queued(r) \/ i \in num .. w.num - 1
                   /\ pc' = [pc EXCEPT ![r] = IF w.fault THEN "fault" ELSE @]
  <2>1. num = newNodeNum[r]
    BY DEF num
  <2> QED BY <1>1, <1>4, <1>5, <1>6, <1>11, <1>12, <2>1
<1> QED BY <1>0, <1>3, <1>4, <1>13, <1>14 DEF A, S

LEMMA LocalSplitBuild ==
  ASSUME BuildInv, NEW r \in Ranks, LocalSplit(r)
  PROVE  BuildInv'
<1> DEFINE S == InitialNodeSize
           A == 0 .. N + S
<1>s. /\ S \in Nat /\ N \in Nat /\ N >= 1 /\ InitialLevel \in Nat /\ S + N \in Nat
      /\ 0 \in Ranks
  BY Sizes DEF Ranks
<1>0. /\ TypeOK /\ PhaseInv /\ TopInv /\ LocalInv /\ HostInv
      /\ offset <= InitialNodeSize + merging * N
      /\ UNCHANGED <<initTree, hostTree, offset, merging>>
  BY DEF BuildInv, LocalSplit
<1>p. Phase({"local", "fault"}) /\ pc[r] = "local" /\ merging = 0
  BY LocalSplitVisit
<1>1. PICK node \in Queued(r), num \in 1 .. N :
              /\ num = newNodeNum[r] /\ node < num /\ node \in 0 .. N - 1
              /\ \E v \in Visits(localTree[r], map[r], node, num) :
                   /\ MapOutcome(localTree[r], map[r], node, v)
                   /\ RowsAfter(N, S + N, localTree[r], node, num, v)
                   /\ localTree' = [localTree EXCEPT ![r] = v.tree]
                   /\ map' = [map EXCEPT ![r] = v.map]
                   /\ newNodeNum' = [newNodeNum EXCEPT ![r] = v.num]
                   /\ queue' \in [Ranks -> Seq(A)]
                   /\ \A s \in Ranks \ {r} : queue'[s] = queue[s]
                   /\ \A i \in Queued(r)' : i \in Queued(r) \/ i \in num .. v.num - 1
                   /\ pc' = [pc EXCEPT ![r] = IF v.fault THEN "fault" ELSE @]
  BY LocalSplitVisit
<1>2. PICK v \in Visits(localTree[r], map[r], node, num) :
                   /\ MapOutcome(localTree[r], map[r], node, v)
                   /\ RowsAfter(N, S + N, localTree[r], node, num, v)
                   /\ localTree' = [localTree EXCEPT ![r] = v.tree]
                   /\ map' = [map EXCEPT ![r] = v.map]
                   /\ newNodeNum' = [newNodeNum EXCEPT ![r] = v.num]
                   /\ queue' \in [Ranks -> Seq(A)]
                   /\ \A s \in Ranks \ {r} : queue'[s] = queue[s]
                   /\ \A i \in Queued(r)' : i \in Queued(r) \/ i \in num .. v.num - 1
                   /\ pc' = [pc EXCEPT ![r] = IF v.fault THEN "fault" ELSE @]
  BY <1>1
<1> HIDE DEF A, S
<1>3. /\ newNodeNum \in [Ranks -> A]
      /\ localTree \in [Ranks -> [0 .. N - 1 -> RowType(S + N)]]
      /\ map \in [Ranks -> [Particles -> Particles]]
      /\ pc \in [Ranks -> {"initial", "local", "merge", "done", "fault"}]
  BY <1>0 DEF TypeOK, A, S
<1>4. /\ localTree'[r] = v.tree /\ map'[r] = v.map /\ newNodeNum'[r] = v.num
      /\ pc'[r] \in {"local", "fault"}
      /\ \A s \in Ranks \ {r} : /\ localTree'[s] = localTree[s] /\ map'[s] = map[s]
                                /\ newNodeNum'[s] = newNodeNum[s] /\ pc'[s] = pc[s]
  BY <1>2, <1>3, <1>p
<1>5. v.tree \in [0 .. N - 1 -> RowType(S + N)] /\ v.map \in [Particles -> Particles]
  BY <1>2 DEF RowsAfter, MapOutcome
<1>6. \/ v.num = num
      \/ v.num = num + 2 /\ num + 1 \in 0 .. N - 1
  BY <1>2 DEF RowsAfter, RowsMade
<1>7. v.num \in num .. N
  BY <1>s, <1>6
<1>8. TypeOK'
  <2>1. newNodeNum' \in [Ranks -> A]
    <3>1. v.num \in A
      BY <1>s, <1>7 DEF A
    <3> QED BY <1>2, <1>3, <3>1
  <2>2. localTree' \in [Ranks -> [0 .. N - 1 -> RowType(S + N)]]
    BY <1>2, <1>3, <1>5
  <2>3. map' \in [Ranks -> [Particles -> Particles]]
    BY <1>2, <1>3, <1>5
  <2>4. pc' \in [Ranks -> {"initial", "local", "merge", "done", "fault"}]
    BY <1>2, <1>3
  <2>5. queue' \in [Ranks -> Seq(A)]
    BY <1>2
  <2>6. \A s \in Ranks : \A i \in 0 .. N - 1 : localTree'[s][i].first <= localTree'[s][i].last
    <3>1. \A i \in 0 .. N - 1 : v.tree[i].first <= v.tree[i].last
      BY <1>2 DEF RowsAfter
    <3>2. \A s \in Ranks : \A i \in 0 .. N - 1 : localTree[s][i].first <= localTree[s][i].last
      BY <1>0 DEF TypeOK
    <3> QED BY <1>4, <3>1, <3>2
  <2> QED BY <1>0, <2>1, <2>2, <2>3, <2>4, <2>5, <2>6 DEF TypeOK, A, S
<1>9. PhaseInv'
  BY <1>p, <1>0, <1>4 DEF PhaseInv, Phase
<1>10. TopInv'
  <2>1. pc'[0] # "initial"
    BY <1>s, <1>4, <1>p DEF Phase
  <2> QED BY <1>0, <2>1 DEF TopInv
<1>11. LocalInv'
  <2> SUFFICES ASSUME NEW s \in Ranks
               PROVE  /\ \A i \in 0 .. N - 1 :
                           /\ localTree'[s][i].level <= InitialLevel + 1 + i
                           /\ i > 0 => localTree'[s][i].left <= N /\ localTree'[s][i].right <= N
                      /\ pc'[s] \in {"local", "fault"} =>
                           newNodeNum'[s] \in 1 .. N /\ \A i \in Queued(s)' : i < newNodeNum'[s]
                      /\ pc'[s] \in {"merge", "done"} => newNodeNum'[s] \in 0 .. N - 1
    BY DEF LocalInv
  <2>1. CASE s # r
    BY <1>0, <1>2, <1>4, <2>1 DEF LocalInv, Queued
  <2>2. CASE s = r
    <3>1. ASSUME NEW i \in 0 .. N - 1
          PROVE  /\ v.tree[i].level <= InitialLevel + 1 + i
                 /\ i > 0 => v.tree[i].left <= N /\ v.tree[i].right <= N
      <4>0. /\ localTree[r][i].level <= InitialLevel + 1 + i
            /\ i > 0 => localTree[r][i].left <= N /\ localTree[r][i].right <= N
            /\ localTree[r][node].level <= InitialLevel + 1 + node
        BY <1>0, <1>1 DEF LocalInv
      <4>1. CASE i < num
        <5>1. i \in 0 .. num - 1
          BY <4>1
        <5>2. v.tree[i].level = localTree[r][i].level
          BY <5>1, <1>2 DEF RowsAfter, RowsKept
        <5>3. \/ v.tree[i].left = localTree[r][i].left /\ v.tree[i].right = localTree[r][i].right
              \/ v.tree[i].left <= N /\ v.tree[i].right <= N
          BY <5>1, <1>2 DEF RowsAfter, RowsKept
        <5> QED BY <4>0, <5>2, <5>3
      <4>2. CASE ~ (i < num)
        <5>1. i \in num .. N - 1
          BY <1>s, <4>2
        <5>2. v.tree[i].left = localTree[r][i].left /\ v.tree[i].right = localTree[r][i].right
          BY <5>1, <1>2 DEF RowsAfter, RowsKept
        <5>3. v.tree[i] = localTree[r][i] \/ v.tree[i].level = localTree[r][node].level + 1
          BY <5>1, <1>2 DEF RowsAfter, RowsMade
        <5>4. localTree[r][node].level \in Nat /\ node \in Nat /\ node < i
          <6>1. localTree[r][node] \in RowType(S + N)
            <7>1. node \in 0 .. N - 1
              BY <1>1
            <7> QED BY <7>1, <1>3
          <6>2. localTree[r][node].level \in Nat
            BY <6>1, <1>s, RowFields
          <6> QED BY <1>1, <1>s, <5>1, <6>2
        <5>5. v.tree[i].level <= InitialLevel + 1 + i
          BY <1>s, <4>0, <5>3, <5>4
        <5> QED BY <4>0, <5>2, <5>5
      <4> QED BY <4>1, <4>2
    <3>2. v.num \in 1 .. N
      BY <1>s, <1>7
    <3>3. ASSUME NEW i \in Queued(r)' PROVE i < v.num
      <4>1. CASE i \in Queued(r)
        <5>1. i < num
          BY <1>0, <1>1, <1>p, <4>1 DEF LocalInv
        <5>2. i \in Int
          <6>1. queue[r] \in Seq(A)
            BY <1>0 DEF TypeOK, A, S
          <6>2. i \in A
            BY <4>1, <6>1 DEF Queued, Elements
          <6> QED BY <6>2 DEF A
        <5> QED BY <1>s, <1>7, <5>1, <5>2
      <4>2. CASE i \in num .. v.num - 1
        BY <1>7, <4>2
      <4> QED BY <1>2, <4>1, <4>2
    <3> QED BY <2>2, <1>4, <3>1, <3>2, <3>3
  <2> QED BY <2>1, <2>2
<1>12. HostInv'
  <2>1. \A s \in Ranks : pc'[s] \in {"local", "fault"}
    BY <1>4, <1>p DEF Phase
  <2> QED BY <1>s, <2>1 DEF HostInv, Phase
<1> QED BY <1>0, <1>8, <1>9, <1>10, <1>11, <1>12 DEF BuildInv

LEMMA SumSizesBuild ==
  ASSUME BuildInv, SumSizes
  PROVE  BuildInv'
<1> DEFINE S == InitialNodeSize
           rankSize == [r \in Ranks |-> newNodeNum[r] - 1]
           treeSize == S + Total(rankSize, Ranks)
           B == S + P * N
<1>s. /\ S \in Nat /\ N \in Nat /\ N >= 1 /\ InitialLevel \in Nat /\ P \in Nat /\ P * N \in Nat
      /\ 0 \in Ranks /\ 1 <= MaxWorkSize
  BY Sizes DEF Ranks
<1>0. /\ TypeOK /\ PhaseInv /\ TopInv /\ LocalInv /\ HostInv
      /\ offset <= InitialNodeSize + merging * N
      /\ UNCHANGED <<queue, initTree, localTree, map, offset, merging>>
      /\ \A r \in Ranks : pc[r] = "local"
      /\ pc' = [r \in Ranks |-> "merge"]
  BY DEF BuildInv, SumSizes
<1>1. /\ newNodeNum' = rankSize
      /\ hostTree' = [r \in Ranks |->
           [i \in 0 .. treeSize - 1 |-> IF i < S THEN initTree[r][i] ELSE NullRow]]
  BY DEF SumSizes, Total
<1>2. \A r \in Ranks : newNodeNum[r] \in 1 .. N
  BY <1>0 DEF LocalInv
<1>3. \A r \in Ranks : rankSize[r] \in 0 .. N - 1
  BY <1>s, <1>2
<1>4. Total(rankSize, Ranks) \in Nat
  <2>1. IsFiniteSet(Ranks)
    <3>1. 0 \in Int /\ P - 1 \in Int
      BY <1>s
    <3> QED BY <3>1, FS_Interval DEF Ranks
  <2>2. (\A r \in Ranks : rankSize[r] \in Int) /\ (\A r \in Ranks : rankSize[r] >= 0)
    BY <1>s, <1>3
  <2> HIDE DEF rankSize
  <2>3. Total(rankSize, Ranks) \in Int /\ Total(rankSize, Ranks) >= 0
    BY <2>1, <2>2, TotalType
  <2> QED BY <2>3
<1>5. treeSize \in Nat /\ treeSize >= S
  BY <1>s, <1>4
<1>6. NullRow \in RowType(B) /\ RowType(S) \subseteq RowType(B)
  <2>1. B \in Nat /\ S <= B
    BY <1>s
  <2>2. NullRow \in RowType(B)
    BY <2>1, <1>s DEF NullRow, RowType
  <2> HIDE DEF B, S
  <2> QED BY <1>s, <2>1, <2>2, RowTypeGrows
<1>7. \A r \in Ranks : hostTree'[r] \in [0 .. treeSize - 1 -> RowType(B)]
  <2> TAKE r \in Ranks
  <2>1. initTree[r] \in [0 .. S - 1 -> RowType(S)]
    BY <1>0 DEF TypeOK
  <2>2. hostTree'[r] = [i \in 0 .. treeSize - 1 |-> IF i < S THEN initTree[r][i] ELSE NullRow]
    BY <1>1
  <2>3. \A i \in 0 .. treeSize - 1 : i < S => i \in 0 .. S - 1
    BY <1>s, <1>5
  <2> HIDE DEF S, B, treeSize
  <2> QED BY <2>1, <2>2, <2>3, <1>6
<1>8. TypeOK'
  <2>1. newNodeNum' \in [Ranks -> 0 .. N + S]
    BY <1>1, <1>s, <1>3
  <2>2. \A r \in Ranks : \A i \in DOMAIN hostTree'[r] : hostTree'[r][i] \in RowType(B)
    BY <1>7
  <2>3. pc' \in [Ranks -> {"initial", "local", "merge", "done", "fault"}]
    BY <1>0
  <2> QED BY <1>0, <2>1, <2>2, <2>3 DEF TypeOK
<1>9. PhaseInv'
  <2>1. merging = 0
    BY <1>0, <1>s DEF PhaseInv, Phase
  <2>2. merging' < MaxWorkSize
    BY <1>0, <1>s, <2>1, Sizes
  <2> QED BY <1>0, <2>2 DEF PhaseInv, Phase
<1>10. TopInv'
  <2>1. pc'[0] # "initial"
    BY <1>0, <1>s
  <2> QED BY <1>0, <2>1 DEF TopInv
<1>11. LocalInv'
  BY <1>0, <1>1, <1>3 DEF LocalInv
<1>12. HostInv'
  <2> HIDE DEF treeSize
  <2> QED BY <1>5, <1>7 DEF HostInv
<1> QED BY <1>0, <1>1, <1>8, <1>9, <1>10, <1>11, <1>12, <1>s DEF BuildInv

LEMMA ProductGrows ==
  ASSUME NEW a \in Nat, NEW b \in Nat, NEW c \in Nat, a <= b
  PROVE  a * c <= b * c
<1>1. b * c = a * c + (b - a) * c /\ b - a \in Nat
  OBVIOUS
<1>2. (b - a) * c \in Nat /\ a * c \in Nat
  BY <1>1
<1> QED BY <1>1, <1>2

LEMMA RowLevel ==
  ASSUME NEW b \in Nat, NEW row \in RowType(b)
  PROVE  row.level \in 0 .. InitialLevel + N
BY DEF RowType

\* The rows the owner has moved, which all ranks receive.
LEMMA MovedType ==
  ASSUME BuildInv, Phase({"merge"}), NEW n \in Nat, NEW owner \in Ranks, owner = merging,
         hostTree[owner] \in [0 .. n - 1 -> RowType(InitialNodeSize + P * N)]
  PROVE  Moved(owner) \in [0 .. n - 1 -> RowType(InitialNodeSize + P * N)]
<1> DEFINE S == InitialNodeSize
           B == S + P * N
           rows == offset .. offset + newNodeNum[owner] - 1
<1>s. /\ S \in Nat /\ N \in Nat /\ N >= 1 /\ P \in Nat /\ P * N \in Nat
      /\ merging \in Nat /\ merging < P /\ S >= 3
  BY Sizes DEF Ranks
<1>0. /\ TypeOK /\ LocalInv /\ offset <= S + merging * N /\ pc[owner] = "merge"
  BY DEF BuildInv, Phase
<1>1. newNodeNum[owner] \in 0 .. N - 1 /\ offset \in Nat /\ offset >= S
  BY <1>0, <1>s DEF LocalInv, TypeOK
<1>2. offset + N <= B
  <2>1. merging * N + N <= P * N
    <3>1. merging + 1 <= P /\ (merging + 1) * N = merging * N + N
      BY <1>s
    <3>2. (merging + 1) * N <= P * N
      BY <1>s, <3>1, ProductGrows
    <3> QED BY <3>1, <3>2
  <2>2. merging * N \in Nat
    BY <1>s
  <2> QED BY <1>0, <1>1, <1>s, <2>1, <2>2, SMTT(30)
<1>3. ASSUME NEW row \in RowType(S + N), row.left <= N, row.right <= N
      PROVE  [row EXCEPT !.left = IF IsLeaf(row) THEN 0 ELSE @ + offset - 1,
                         !.right = IF IsLeaf(row) THEN 0 ELSE @ + offset - 1]
               \in RowType(B)
  <2>0. S + N \in Nat /\ B \in Nat
    BY <1>s
  <2>1. /\ row.left \in Nat /\ row.right \in Nat
        /\ row.first \in 0 .. N /\ row.last \in 0 .. N /\ row.level \in 0 .. InitialLevel + N
    <3>1. /\ row.left \in Nat /\ row.right \in Nat /\ row.first \in 0 .. N /\ row.last \in 0 .. N
          /\ row.level \in 0 .. InitialLevel + N
      BY <1>3, <2>0, RowLevel, RowFields
    <3> QED BY <3>1
  <2> DEFINE l == IF IsLeaf(row) THEN 0 ELSE row.left + offset - 1
             r == IF IsLeaf(row) THEN 0 ELSE row.right + offset - 1
  <2>2. l \in 0 .. B /\ r \in 0 .. B
    BY <1>1, <1>2, <1>3, <1>s, <2>0, <2>1, SMTT(30)
  <2> HIDE DEF B
  <2>3. [row EXCEPT !.left = l, !.right = r] \in RowType(B)
    <3> HIDE DEF l, r
    <3> QED BY <1>3, <2>1, <2>2 DEF RowType
  <2> QED BY <2>3
<1>4. ASSUME NEW i \in 0 .. n - 1 PROVE Moved(owner)[i] \in RowType(B)
  <2> DEFINE k == i - offset + 1
             row == localTree[owner][k]
  <2>0. DOMAIN hostTree[owner] = 0 .. n - 1
    OBVIOUS
  <2>1. CASE i \in rows
    <3>1. k \in 0 .. N - 1 /\ k > 0
      BY <1>1, <1>s, <2>1
    <3>2. row \in RowType(S + N)
      BY <1>0, <3>1 DEF TypeOK
    <3>3. row.left <= N /\ row.right <= N
      BY <1>0, <3>1 DEF LocalInv
    <3>4. Moved(owner)[i] =
            [row EXCEPT !.left = IF IsLeaf(row) THEN 0 ELSE @ + offset - 1,
                        !.right = IF IsLeaf(row) THEN 0 ELSE @ + offset - 1]
      BY <1>4, <2>0, <2>1 DEF Moved
    <3> HIDE DEF row, B
    <3> QED BY <1>3, <3>2, <3>3, <3>4
  <2>2. CASE i \notin rows
    <3>1. Moved(owner)[i] = hostTree[owner][i]
      BY <1>4, <2>0, <2>2 DEF Moved
    <3> QED BY <1>4, <3>1
  <2> QED BY <2>1, <2>2
<1>5. Moved(owner) = [i \in 0 .. n - 1 |-> Moved(owner)[i]]
  <2>1. DOMAIN hostTree[owner] = 0 .. n - 1
    OBVIOUS
  <2> QED BY <2>1 DEF Moved
<1> QED BY <1>4, <1>5

\* What rank r holds in entry c of row i after the broadcasts of the owner's rows, and in
\* the row as a whole.
Entry(r, i, c, moved, rankSize, owner) ==
  IF r = owner \/ Broadcast(i, c, Cardinality(DOMAIN moved), rankSize)
  THEN moved[i][Cols[c]] ELSE hostTree[r][i][Cols[c]]
Received(r, i, moved, rankSize, owner) ==
  [left |-> Entry(r, i, 1, moved, rankSize, owner),
   right |-> Entry(r, i, 2, moved, rankSize, owner),
   first |-> Entry(r, i, 3, moved, rankSize, owner),
   last |-> Entry(r, i, 4, moved, rankSize, owner),
   level |-> Entry(r, i, 5, moved, rankSize, owner)]
Copied(r, moved, rankSize, owner) ==
  [i \in DOMAIN moved |-> Received(r, i, moved, rankSize, owner)]
Hung(tree, start) == [tree EXCEPT ![start].left = offset, ![start].right = offset + 1]

LEMMA MergeRankTrees ==
  ASSUME MergeRank
  PROVE  /\ hostTree' = [r \in Ranks |->
              Hung(Copied(r, Moved(merging), newNodeNum[merging], merging), StartNode(merging))]
         /\ map' = [r \in Ranks |-> MapPiece(r, merging)]
         /\ offset' = offset + newNodeNum[merging]
         /\ merging' = merging + 1
         /\ pc' = [r \in Ranks |-> IF merging + 1 = MaxWorkSize THEN "done" ELSE "merge"]
         /\ UNCHANGED <<queue, newNodeNum, initTree, localTree>>
         /\ Phase({"merge"})
BY DEF MergeRank, Hung, Copied, Received, Entry, Phase

LEMMA CopiedType ==
  ASSUME NEW n \in Nat, NEW b \in Nat, NEW r \in Ranks, NEW owner, NEW rankSize,
         hostTree[r] \in [0 .. n - 1 -> RowType(b)],
         NEW moved \in [0 .. n - 1 -> RowType(b)]
  PROVE  Copied(r, moved, rankSize, owner) \in [0 .. n - 1 -> RowType(b)]
<1>1. ASSUME NEW i \in 0 .. n - 1
      PROVE  Received(r, i, moved, rankSize, owner) \in RowType(b)
  <2>1. moved[i] \in RowType(b) /\ hostTree[r][i] \in RowType(b)
    OBVIOUS
  <2>2. /\ Cols[1] = "left" /\ Cols[2] = "right" /\ Cols[3] = "first"
        /\ Cols[4] = "last" /\ Cols[5] = "level"
    BY DEF Cols
  <2>3. Entry(r, i, 1, moved, rankSize, owner) \in {moved[i].left, hostTree[r][i].left}
    BY <2>2 DEF Entry
  <2>4. Entry(r, i, 2, moved, rankSize, owner) \in {moved[i].right, hostTree[r][i].right}
    BY <2>2 DEF Entry
  <2>5. Entry(r, i, 3, moved, rankSize, owner) \in {moved[i].first, hostTree[r][i].first}
    BY <2>2 DEF Entry
  <2>6. Entry(r, i, 4, moved, rankSize, owner) \in {moved[i].last, hostTree[r][i].last}
    BY <2>2 DEF Entry
  <2>7. Entry(r, i, 5, moved, rankSize, owner) \in {moved[i].level, hostTree[r][i].level}
    BY <2>2 DEF Entry
  <2> QED BY <2>1, <2>3, <2>4, <2>5, <2>6, <2>7 DEF Received, RowType
<1>2. DOMAIN moved = 0 .. n - 1
  OBVIOUS
<1> QED BY <1>1, <1>2 DEF Copied

LEMMA HungType ==
  ASSUME NEW n \in Nat, NEW b \in Nat, NEW tree \in [0 .. n - 1 -> RowType(b)],
         NEW start \in 0 .. n - 1, offset \in 0 .. b, offset + 1 \in 0 .. b
  PROVE  /\ Hung(tree, start) \in [0 .. n - 1 -> RowType(b)]
         /\ \A i \in 0 .. n - 1 : i # start => Hung(tree, start)[i] = tree[i]
         /\ Hung(tree, start)[start] = [tree[start] EXCEPT !.left = offset, !.right = offset + 1]
<1> DEFINE row == [tree[start] EXCEPT !.left = offset, !.right = offset + 1]
<1>1. tree[start] \in RowType(b)
  OBVIOUS
<1>2. row \in RowType(b)
  BY <1>1 DEF RowType
<1>3. Hung(tree, start) = [tree EXCEPT ![start] = row]
  BY <1>1 DEF Hung, RowType
<1> HIDE DEF row
<1>4. Hung(tree, start) \in [0 .. n - 1 -> RowType(b)]
  BY <1>2, <1>3
<1>5. \A i \in 0 .. n - 1 : i # start => Hung(tree, start)[i] = tree[i]
  BY <1>3
<1>6. Hung(tree, start)[start] = row
  BY <1>3
<1> QED BY <1>4, <1>5, <1>6 DEF row

LEMMA MergeRankBuild ==
  ASSUME BuildInv, MergeRank
  PROVE  BuildInv'
<1> DEFINE S == InitialNodeSize
           B == S + P * N
           size == newNodeNum[merging]
           start == StartNode(merging)
<1>0. /\ TypeOK /\ PhaseInv /\ TopInv /\ LocalInv /\ HostInv
      /\ offset <= S + merging * N
  BY DEF BuildInv
<1>1. /\ map' = [r \in Ranks |-> MapPiece(r, merging)]
      /\ offset' = offset + size
      /\ merging' = merging + 1
      /\ pc' = [r \in Ranks |-> IF merging + 1 = MaxWorkSize THEN "done" ELSE "merge"]
      /\ UNCHANGED <<queue, newNodeNum, initTree, localTree>>
      /\ Phase({"merge"})
  BY MergeRankTrees
<1>t. hostTree' = [r \in Ranks |-> Hung(Copied(r, Moved(merging), size, merging), start)]
  BY MergeRankTrees
<1>2. 0 \in Ranks /\ merging < MaxWorkSize /\ merging \in Nat
  <2>1. 0 \in Ranks
    BY Sizes DEF Ranks
  <2>2. pc[0] = "merge"
    BY <1>1, <2>1 DEF Phase
  <2> QED BY <1>0, <2>1, <2>2, Sizes DEF PhaseInv, Phase, TypeOK
<1>s. /\ S \in Nat /\ N \in Nat /\ N >= 1 /\ P \in Nat /\ P * N \in Nat /\ B \in Nat
      /\ MaxWorkSize \in Nat /\ MaxWorkSize <= P /\ merging \in Ranks
      /\ start \in 0 .. S - 1
  BY <1>2, Sizes DEF Ranks
<1>3. size \in 0 .. N - 1
  BY <1>0, <1>1, <1>s DEF LocalInv, Phase
<1>4. offset \in Nat /\ offset >= S
  BY <1>0, <1>s DEF TypeOK
<1>5. /\ (merging + 1) * N = merging * N + N /\ merging * N \in Nat
      /\ (merging + 1) * N <= P * N
  <2>1. merging + 1 \in Nat /\ merging + 1 <= P
    BY <1>2, <1>s
  <2> QED BY <1>2, <1>s, <2>1, ProductGrows
<1>6. /\ offset' <= S + merging' * N /\ offset' \in S .. B
      /\ offset \in 0 .. B /\ offset + 1 \in 0 .. B
  <2>1. offset + N <= S + (merging + 1) * N
    BY <1>0, <1>2, <1>4, <1>5, <1>s
  <2>2. offset + N <= B
    BY <1>4, <1>5, <1>s, <2>1
  <2> HIDE DEF B, size
  <2> QED BY <1>1, <1>3, <1>4, <1>5, <1>s, <2>1, <2>2
<1>7. PICK n \in Nat : /\ n >= S
                       /\ \A r \in Ranks : hostTree[r] \in [0 .. n - 1 -> RowType(B)]
  BY <1>0, <1>1 DEF HostInv, Phase
<1>8. \A r \in Ranks : hostTree'[r] \in [0 .. n - 1 -> RowType(B)]
  <2> TAKE r \in Ranks
  <2>1. Moved(merging) \in [0 .. n - 1 -> RowType(B)]
    BY <1>1, <1>7, <1>s, MovedType
  <2>2. Copied(r, Moved(merging), size, merging) \in [0 .. n - 1 -> RowType(B)]
    <3> HIDE DEF B, size
    <3> QED BY <1>7, <1>s, <2>1, CopiedType
  <2>3. start \in 0 .. n - 1
    BY <1>7, <1>s
  <2>4. Hung(Copied(r, Moved(merging), size, merging), start) \in [0 .. n - 1 -> RowType(B)]
    <3> HIDE DEF B, size, start
    <3> QED BY <1>6, <1>s, <2>2, <2>3, HungType
  <2> HIDE DEF B, size, start
  <2> QED BY <1>t, <2>4
<1>9. TypeOK'
  <2>1. pc' \in [Ranks -> {"initial", "local", "merge", "done", "fault"}]
    BY <1>1
  <2>2. map' \in [Ranks -> [Particles -> Particles]]
    <3>1. \A r \in Ranks : map[r] \in [Particles -> Particles]
      BY <1>0 DEF TypeOK
    <3>2. \A r \in Ranks : MapPiece(r, merging) \in [Particles -> Particles]
      BY <1>s, <3>1 DEF MapPiece
    <3> QED BY <1>1, <3>2
  <2>3. \A r \in Ranks : \A i \in DOMAIN hostTree'[r] : hostTree'[r][i] \in RowType(B)
    BY <1>8
  <2>4. merging' \in 0 .. MaxWorkSize
    BY <1>1, <1>2, <1>s
  <2> QED BY <1>0, <1>1, <1>6, <2>1, <2>2, <2>3, <2>4 DEF TypeOK
<1>10. PhaseInv'
  BY <1>1, <1>2, <1>s DEF PhaseInv, Phase
<1>11. TopInv'
  <2>1. pc'[0] # "initial"
    BY <1>1, <1>2
  <2> QED BY <1>0, <1>1, <2>1 DEF TopInv
<1>12. LocalInv'
  BY <1>0, <1>1 DEF LocalInv, Phase
<1>13. HostInv'
  <2> HIDE DEF B
  <2> QED BY <1>7, <1>8 DEF HostInv, B
<1> QED BY <1>6, <1>9, <1>10, <1>11, <1>12, <1>13 DEF BuildInv

LEMMA BuildNextInv ==
  ASSUME BuildInv, [BuildNext]_vars
  PROVE  BuildInv'
<1>1. CASE BuildNext
  BY <1>1, InitialSplitBuild, BcastInitialBuild, LocalSplitBuild, SumSizesBuild, MergeRankBuild
     DEF BuildNext
<1>2. CASE UNCHANGED vars
  BY <1>2 DEF vars, BuildInv, TypeOK, PhaseInv, TopInv, LocalInv, HostInv, Phase, Queued
<1> QED BY <1>1, <1>2

-----------------------------------------------------------------------------
(* The types of the boxes *)

Box == {b \in SUBSET (Particles \cup {-1}) : b = Unset \/ b \subseteq Particles}
HostRow == RowType(InitialNodeSize + P * N)

\* The boxes of one tree of n rows on every rank.
BoxesOver(n) ==
  /\ n >= InitialNodeSize
  /\ \A r \in Ranks : hostTree[r] \in [0 .. n - 1 -> HostRow]
  /\ aux \in [Ranks -> [0 .. n - 1 -> Box]]
  /\ auxStack \in [Ranks -> Seq(0 .. n - 1)]

\* No box before the tree is final, and one for every row of it afterwards.
AuxInv ==
  \/ /\ auxPc = [r \in Ranks |-> "build"] /\ sender = 0
     /\ aux = [r \in Ranks |-> <<>>] /\ auxStack = [r \in Ranks |-> <<>>]
  \/ /\ Finished /\ LinksStay
     /\ auxPc \in [Ranks -> {"leaves", "subtree", "bcast", "top", "done"}]
     /\ \A r \in Ranks : auxPc[r] \in {"leaves", "subtree"} => r < MaxWorkSize
     /\ sender \in 0 .. MaxWorkSize
     /\ (\E r \in Ranks : auxPc[r] \in {"leaves", "subtree", "bcast"}) => sender < MaxWorkSize
     /\ \E n \in Nat : BoxesOver(n)

BoxInv == BuildInv /\ AuxInv

LEMMA BoxesInitInv ==
  ASSUME BoxesInit
  PROVE  BoxInv
BY BuildInit DEF BoxesInit, BoxInv, AuxInv

LEMMA PopType ==
  ASSUME NEW A, NEW s \in Seq(A), s # <<>>
  PROVE  Top(s) \in A /\ Pop(s) \in Seq(A)
<1>1. Len(s) \in Nat /\ Len(s) >= 1
  OBVIOUS
<1>2. Top(s) \in A
  BY <1>1 DEF Top
<1>3. Pop(s) \in Seq(A)
  BY <1>1 DEF Pop
<1> QED BY <1>2, <1>3

\* A collection of particles is a box.
LEMMA ComputeAuxType ==
  ASSUME BuildInv, NEW r \in Ranks, NEW row \in HostRow
  PROVE  ComputeAux(r, row) \in Box
<1>1. map[r] \in [Particles -> Particles]
  BY DEF BuildInv, TypeOK
<1>2. Positions(row) \subseteq Particles
  <2>1. row.first \in 0 .. N /\ row.last \in 0 .. N /\ N \in Nat
    BY Sizes DEF HostRow, RowType
  <2> QED BY <2>1 DEF Positions, Particles
<1> QED BY <1>1, <1>2 DEF ComputeAux, Box

\* A link leads to a row of the tree.
LEMMA LinkInTree ==
  ASSUME LinksStay, NEW r \in Ranks, NEW n \in Nat,
         hostTree[r] \in [0 .. n - 1 -> HostRow],
         NEW node \in 0 .. n - 1, ~IsLeaf(hostTree[r][node])
  PROVE  hostTree[r][node].left \in 0 .. n - 1 /\ hostTree[r][node].right \in 0 .. n - 1
<1>1. node \in Links(hostTree[r])
  BY DEF Links
<1>2. {hostTree[r][node].left, hostTree[r][node].right} \subseteq Children(hostTree[r])
  BY <1>1 DEF Children
<1> QED BY <1>2 DEF LinksStay

LEMMA UnionBox ==
  ASSUME NEW a \in Box, NEW b \in Box, a # Unset, b # Unset
  PROVE  a \cup b \in Box
BY DEF Box

\* One turn of a climbing loop.
LEMMA ClimbType ==
  ASSUME BuildInv, LinksStay, NEW n \in Nat, BoxesOver(n), NEW r \in Ranks,
         auxStack[r] # <<>>, NEW leafBox \in Box, Climb(r, leafBox), UNCHANGED vars
  PROVE  BoxesOver(n)'
<1> DEFINE node == Top(auxStack[r])
           row == hostTree[r][node]
<1>0. /\ aux \in [Ranks -> [0 .. n - 1 -> Box]]
      /\ auxStack \in [Ranks -> Seq(0 .. n - 1)]
      /\ hostTree[r] \in [0 .. n - 1 -> HostRow]
  BY DEF BoxesOver
<1>1. node \in 0 .. n - 1 /\ Pop(auxStack[r]) \in Seq(0 .. n - 1)
  BY <1>0, PopType
<1>2. aux' \in [Ranks -> [0 .. n - 1 -> Box]] /\ auxStack' \in [Ranks -> Seq(0 .. n - 1)]
  <2>1. CASE IsLeaf(row)
    <3>1. /\ aux' = [aux EXCEPT ![r][node] = leafBox]
          /\ auxStack' = [auxStack EXCEPT ![r] = Pop(@)]
      BY <2>1 DEF Climb
    <3> HIDE DEF node
    <3> QED BY <3>1, <1>0, <1>1
  <2>2. CASE ~IsLeaf(row) /\ Missing(r, row) # <<>>
    <3>1. /\ aux' = aux
          /\ auxStack' = [auxStack EXCEPT ![r] = @ \o Missing(r, row)]
      BY <2>2 DEF Climb
    <3>2. row.left \in 0 .. n - 1 /\ row.right \in 0 .. n - 1
      BY <2>2, <1>0, <1>1, LinkInTree
    <3>3. /\ IfMissing(r, row.left) \in Seq(0 .. n - 1)
          /\ IfMissing(r, row.right) \in Seq(0 .. n - 1)
      <4> DEFINE A == 0 .. n - 1
      <4> HIDE DEF A, row
      <4>1. row.left \in A /\ row.right \in A
        BY <3>2 DEF A
      <4>2. /\ IfMissing(r, row.left) \in Seq(A)
            /\ IfMissing(r, row.right) \in Seq(A)
        BY <4>1 DEF IfMissing
      <4> QED BY <4>2 DEF A
    <3>4. Missing(r, row) \in Seq(0 .. n - 1)
      <4> HIDE DEF row
      <4> QED BY <3>3 DEF Missing
    <3>5. auxStack[r] \o Missing(r, row) \in Seq(0 .. n - 1)
      <4> HIDE DEF row
      <4> QED BY <3>4, <1>0
    <3> QED BY <3>1, <3>5, <1>0
  <2>3. CASE ~IsLeaf(row) /\ Missing(r, row) = <<>>
    <3>1. /\ aux' = [aux EXCEPT ![r][node] = aux[r][row.left] \cup aux[r][row.right]]
          /\ auxStack' = [auxStack EXCEPT ![r] = Pop(@)]
      BY <2>3 DEF Climb
    <3>2. row.left \in 0 .. n - 1 /\ row.right \in 0 .. n - 1
      BY <2>3, <1>0, <1>1, LinkInTree
    <3>3. aux[r][row.left] # Unset /\ aux[r][row.right] # Unset
      <4> HIDE DEF row
      <4>1. \A c : IfMissing(r, c) \in Seq({c})
        <5> TAKE c
        <5>1. <<c>> \in Seq({c}) /\ <<>> \in Seq({c})
          OBVIOUS
        <5> QED BY <5>1 DEF IfMissing
      <4>2. Len(IfMissing(r, row.left)) + Len(IfMissing(r, row.right)) = 0
        BY <2>3, <4>1 DEF Missing
      <4>3. Len(IfMissing(r, row.left)) = 0 /\ Len(IfMissing(r, row.right)) = 0
        BY <4>1, <4>2
      <4> QED BY <4>3 DEF IfMissing
    <3>4. aux[r][row.left] \cup aux[r][row.right] \in Box
      BY <3>2, <3>3, <1>0, UnionBox
    <3> HIDE DEF node, row
    <3> QED BY <3>1, <3>4, <1>0, <1>1
  <2> QED BY <2>1, <2>2, <2>3
<1> QED BY <1>2 DEF BoxesOver, vars

LEMMA BoxesNextInv ==
  ASSUME BoxInv, [BoxesNext]_allVars
  PROVE  BoxInv'
<1>0. BuildInv /\ AuxInv
  BY DEF BoxInv
<1>1. CASE UNCHANGED allVars
  BY <1>0, <1>1 DEF allVars, boxVars, vars, BoxInv, AuxInv, BoxesOver, Finished, LinksStay,
    BuildInv, TypeOK, PhaseInv, TopInv, LocalInv, HostInv, Phase, Queued
<1>2. CASE BuildStep
  <2>1. BuildInv' /\ UNCHANGED boxVars
    BY <1>0, <1>2, BuildNextInv DEF BuildStep
  <2>2. ~Finished
    <3>1. 0 \in Ranks
      BY Sizes DEF Ranks
    <3> QED BY <1>2, <3>1 DEF BuildStep, BuildNext, Finished, InitialSplit, BcastInitial, LocalSplit,
      SumSizes, MergeRank
  <2> QED BY <1>0, <2>1, <2>2 DEF AuxInv, BoxInv, boxVars
<1> SUFFICES ASSUME UNCHANGED vars, ~BuildStep, ~UNCHANGED allVars
             PROVE  AuxInv'
  <2>1. CASE UNCHANGED vars
    <3>1. BuildInv'
      BY <1>0, <2>1, BuildNextInv
    <3> QED BY <1>1, <1>2, <2>1, <3>1 DEF BoxInv
  <2>2. CASE ~UNCHANGED vars
    BY <1>1, <1>2, <2>2 DEF BoxesNext, EnterCheck, LocalLeaves, ClimbSubtree, LeaveSubtree, BcastBoxes,
      ClimbTop, LeaveTop, BoxesStop, allVars
  <2> QED BY <2>1, <2>2
<1>3. CASE EnterCheck
  <2>1. Finished' /\ LinksStay'
    BY <1>3 DEF EnterCheck, Finished, LinksStay, vars
  <2>2. /\ aux' = [r \in Ranks |-> [i \in DOMAIN hostTree[r] |-> Unset]]
        /\ auxPc' = [r \in Ranks |-> IF r < MaxWorkSize THEN "leaves" ELSE "bcast"]
        /\ auxStack' = auxStack /\ sender' = sender
    BY <1>3 DEF EnterCheck
  <2>3. 0 \in Ranks /\ auxPc[0] = "build"
    BY <1>3, Sizes DEF Ranks, EnterCheck
  <2>4. sender = 0 /\ auxStack = [r \in Ranks |-> <<>>]
    BY <1>0, <2>3 DEF AuxInv
  <2>5. Phase({"merge", "done"})
    BY <1>3 DEF EnterCheck, Finished, Phase
  <2>6. PICK n \in Nat : /\ n >= InitialNodeSize
                         /\ \A r \in Ranks : hostTree[r] \in [0 .. n - 1 -> HostRow]
    BY <1>0, <2>5 DEF BuildInv, HostInv, HostRow
  <2>7. Unset \in Box
    BY DEF Box, Unset
  <2>8. aux' \in [Ranks -> [0 .. n - 1 -> Box]]
    BY <2>2, <2>6, <2>7
  <2>9. auxStack' \in [Ranks -> Seq(0 .. n - 1)]
    BY <2>2, <2>4
  <2>10. BoxesOver(n)'
    BY <2>6, <2>8, <2>9 DEF BoxesOver, vars
  <2> QED BY <2>1, <2>2, <2>4, <2>10, Sizes DEF AuxInv
<1> SUFFICES ASSUME ~EnterCheck PROVE AuxInv'
  BY <1>3
<1>4. auxPc # [r \in Ranks |-> "build"]
  <2>1. 0 \in Ranks
    BY Sizes DEF Ranks
  <2> QED BY <2>1 DEF BoxesNext, LocalLeaves, ClimbSubtree, LeaveSubtree, BcastBoxes, ClimbTop, LeaveTop, BoxesStop,
    BoxesDone, allVars
<1>5. PICK n \in Nat : BoxesOver(n)
  BY <1>0, <1>4 DEF AuxInv
<1>6. /\ Finished /\ LinksStay
      /\ auxPc \in [Ranks -> {"leaves", "subtree", "bcast", "top", "done"}]
      /\ \A r \in Ranks : auxPc[r] \in {"leaves", "subtree"} => r < MaxWorkSize
      /\ sender \in 0 .. MaxWorkSize
      /\ (\E r \in Ranks : auxPc[r] \in {"leaves", "subtree", "bcast"}) => sender < MaxWorkSize
  BY <1>0, <1>4 DEF AuxInv
<1>7. Finished' /\ LinksStay'
  BY <1>6 DEF Finished, LinksStay, vars
<1>8. /\ \A r \in Ranks : hostTree[r] \in [0 .. n - 1 -> HostRow]
      /\ aux \in [Ranks -> [0 .. n - 1 -> Box]] /\ auxStack \in [Ranks -> Seq(0 .. n - 1)]
      /\ n >= InitialNodeSize
  BY <1>5 DEF BoxesOver
<1>9. ASSUME NEW r \in Ranks, LocalLeaves(r) PROVE AuxInv'
  <2>1. PICK leaves : aux' = [aux EXCEPT ![r] =
          [i \in DOMAIN aux[r] |->
             IF i \in leaves THEN ComputeAux(r, hostTree[r][i]) ELSE aux[r][i]]]
    BY <1>9 DEF LocalLeaves
  <2>2. aux' \in [Ranks -> [0 .. n - 1 -> Box]]
    <3>1. \A i \in 0 .. n - 1 : ComputeAux(r, hostTree[r][i]) \in Box
      BY <1>0, <1>8, ComputeAuxType
    <3> QED BY <2>1, <3>1, <1>8
  <2>3. StartNode(r) \in 0 .. n - 1
    BY <1>6, <1>8, <1>9, Sizes DEF LocalLeaves, Ranks
  <2>4. auxStack' \in [Ranks -> Seq(0 .. n - 1)]
    <3> DEFINE A == 0 .. n - 1
    <3> HIDE DEF A
    <3>1. StartNode(r) \in A /\ auxStack \in [Ranks -> Seq(A)]
      BY <2>3, <1>8 DEF A
    <3>2. <<StartNode(r)>> \in Seq(A)
      BY <3>1
    <3> QED BY <3>1, <3>2, <1>9 DEF LocalLeaves, A
  <2>5. BoxesOver(n)'
    BY <1>8, <2>2, <2>4 DEF BoxesOver, vars
  <2> QED BY <1>6, <1>7, <1>9, <2>5 DEF LocalLeaves, AuxInv
<1>10. ASSUME NEW r \in Ranks, ClimbSubtree(r) PROVE AuxInv'
  <2>1. aux[r][Top(auxStack[r])] \in Box
    BY <1>8, <1>10, PopType DEF ClimbSubtree
  <2>2. BoxesOver(n)'
    BY <1>0, <1>5, <1>6, <1>10, <2>1, ClimbType DEF ClimbSubtree
  <2> QED BY <1>6, <1>7, <1>10, <2>2 DEF ClimbSubtree, AuxInv
<1>11. ASSUME NEW r \in Ranks, ClimbTop(r) PROVE AuxInv'
  <2>1. ComputeAux(r, hostTree[r][Top(auxStack[r])]) \in Box
    BY <1>0, <1>8, <1>11, PopType, ComputeAuxType DEF ClimbTop
  <2>2. BoxesOver(n)'
    BY <1>0, <1>5, <1>6, <1>11, <2>1, ClimbType DEF ClimbTop
  <2> QED BY <1>6, <1>7, <1>11, <2>2 DEF ClimbTop, AuxInv
<1>12. ASSUME NEW r \in Ranks, LeaveSubtree(r) \/ LeaveTop(r) PROVE AuxInv'
  <2>1. BoxesOver(n)'
    BY <1>8, <1>12 DEF LeaveSubtree, LeaveTop, BoxesOver, vars
  <2> QED BY <1>6, <1>7, <1>12, <2>1 DEF LeaveSubtree, LeaveTop, AuxInv
<1>13. CASE BcastBoxes
  <2>1. 0 \in Ranks /\ sender < MaxWorkSize /\ sender \in Ranks
    BY <1>6, <1>13, Sizes DEF BcastBoxes, Ranks
  <2>2. aux' \in [Ranks -> [0 .. n - 1 -> Box]]
    BY <1>8, <1>13, <2>1 DEF BcastBoxes
  <2>3. 0 \in 0 .. n - 1
    BY <1>8, Sizes
  <2>4. auxStack' \in [Ranks -> Seq(0 .. n - 1)]
    <3> DEFINE A == 0 .. n - 1
    <3> HIDE DEF A
    <3>1. 0 \in A /\ auxStack \in [Ranks -> Seq(A)]
      BY <2>3, <1>8 DEF A
    <3>2. <<0>> \in Seq(A)
      BY <3>1
    <3> QED BY <3>1, <3>2, <1>13 DEF BcastBoxes, A
  <2>5. BoxesOver(n)'
    BY <1>8, <2>2, <2>4 DEF BoxesOver, vars
  <2>6. sender' \in 0 .. MaxWorkSize
    BY <1>13, <2>1, <1>6, Sizes DEF BcastBoxes
  <2>7. CASE sender + 1 = MaxWorkSize
    BY <1>7, <1>13, <2>5, <2>6, <2>7 DEF BcastBoxes, AuxInv
  <2>8. CASE sender + 1 # MaxWorkSize
    <3>1. auxPc' = auxPc /\ sender' = sender + 1 /\ sender' < MaxWorkSize
      BY <1>6, <1>13, <2>1, <2>8, Sizes DEF BcastBoxes
    <3> QED BY <1>6, <1>7, <2>5, <2>6, <3>1 DEF AuxInv
  <2> QED BY <2>7, <2>8
<1> QED BY <1>9, <1>10, <1>11, <1>12, <1>13 DEF BoxesNext, BoxesStop

\* Build and the boxes keep their types: no row is handed out past the arrays
\* of the top and of the merged tree, the sort keeps a particle number in every
\* place of the map, and a rank never looks for the box of a row the tree lacks.
THEOREM BoxesKeepTypes == BoxesSpec => []BoxesTypeOK
<1>1. BoxesInit => BoxInv
  BY BoxesInitInv
<1>2. BoxInv /\ [BoxesNext]_allVars => BoxInv'
  BY BoxesNextInv
<1>3. BoxInv => BoxesTypeOK
  <2> SUFFICES ASSUME BoxInv PROVE BoxesTypeOK
    OBVIOUS
  <2>1. TypeOK /\ AuxInv
    BY DEF BoxInv, BuildInv
  <2>2. CASE auxPc = [r \in Ranks |-> "build"]
    <3>0. <<>> \in Seq({}) /\ Len(<<>>) = 0 /\ 0 \in Ranks
      BY Sizes DEF Ranks
    <3>1. /\ sender = 0 /\ \A r \in Ranks : aux[r] = <<>> /\ auxStack[r] = <<>>
      <4>1. auxPc[0] = "build"
        BY <2>2, <3>0
      <4> QED BY <2>1, <3>0, <4>1 DEF AuxInv
    <3>2. \A i : i \notin DOMAIN <<>>
      OBVIOUS
    <3> QED BY <2>1, <2>2, <3>1, <3>2, Sizes DEF BoxesTypeOK
  <2>3. CASE auxPc # [r \in Ranks |-> "build"]
    <3>1. PICK n \in Nat : BoxesOver(n)
      BY <2>1, <2>3 DEF AuxInv
    <3>2. /\ \A r \in Ranks : hostTree[r] \in [0 .. n - 1 -> HostRow]
          /\ aux \in [Ranks -> [0 .. n - 1 -> Box]] /\ auxStack \in [Ranks -> Seq(0 .. n - 1)]
      BY <3>1 DEF BoxesOver
    <3>3. \A r \in Ranks :
            /\ \A i \in DOMAIN aux[r] : aux[r][i] = Unset \/ aux[r][i] \subseteq Particles
            /\ \A k \in DOMAIN auxStack[r] : auxStack[r][k] \in DOMAIN hostTree[r]
      BY <3>2 DEF Box
    <3>4. /\ auxPc \in [Ranks -> {"leaves", "subtree", "bcast", "top", "done"}]
          /\ sender \in 0 .. MaxWorkSize
      BY <2>1, <2>3 DEF AuxInv
    <3> QED BY <2>1, <3>3, <3>4 DEF BoxesTypeOK
  <2> QED BY <2>2, <2>3
<1> QED BY <1>1, <1>2, <1>3, PTL DEF BoxesSpec

-----------------------------------------------------------------------------
(* The ranks agree on the tree and the map *)

Started == Phase({"local", "fault", "merge", "done"})

\* The positions under the start node of a rank whose map was not yet broadcast.
Pending(r) ==
  IF r < MaxWorkSize /\ merging <= r THEN Positions(initTree[0][StartNode(r)]) ELSE {}

\* A rank with rows to visit has a start node, and visits rows inside its range.
InsideStart ==
  Phase({"local", "fault"}) =>
    \A r \in Ranks : \A i \in Queued(r) :
      /\ r < MaxWorkSize
      /\ localTree[r][i].first >= initTree[0][StartNode(r)].first
      /\ localTree[r][i].last <= initTree[0][StartNode(r)].last

\* Two maps differ only where one of the two ranks has work that is not broadcast.
MapsAgree ==
  Started => \A r, s \in Ranks : \A k \in Particles :
    k \notin Pending(r) /\ k \notin Pending(s) => map[r][k] = map[s][k]

TopsAgree == Started => \A r \in Ranks : initTree[r] = initTree[0]
TreesAgree == Phase({"merge", "done"}) => \A r \in Ranks : hostTree[r] = hostTree[0]

AgreeInv == BuildInv /\ InsideStart /\ MapsAgree /\ TopsAgree /\ TreesAgree

LEMMA AgreeInit ==
  ASSUME Init
  PROVE  AgreeInv
<1>1. 0 \in Ranks /\ pc[0] = "initial"
  BY Sizes DEF Ranks, Init
<1>2. ~Started /\ ~Phase({"local", "fault"}) /\ ~Phase({"merge", "done"})
  BY <1>1 DEF Started, Phase
<1> QED BY <1>2, BuildInit DEF AgreeInv, InsideStart, MapsAgree, TopsAgree, TreesAgree

LEMMA InitialSplitAgree ==
  ASSUME AgreeInv, InitialSplit
  PROVE  AgreeInv'
<1>1. 0 \in Ranks /\ pc'[0] = "initial"
  BY Sizes DEF Ranks, InitialSplit
<1>2. ~Started' /\ ~Phase({"local", "fault"})' /\ ~Phase({"merge", "done"})'
  BY <1>1 DEF Started, Phase
<1>3. BuildInv'
  BY InitialSplitBuild DEF AgreeInv
<1> QED BY <1>2, <1>3 DEF AgreeInv, InsideStart, MapsAgree, TopsAgree, TreesAgree

LEMMA BcastInitialAgree ==
  ASSUME AgreeInv, BcastInitial
  PROVE  AgreeInv'
<1>1. BuildInv' /\ 0 \in Ranks
  BY BcastInitialBuild, Sizes DEF AgreeInv, Ranks
<1>2. /\ initTree' = [r \in Ranks |-> initTree[0]]
      /\ map' = [r \in Ranks |-> map[0]]
      /\ localTree' = [r \in Ranks |->
           IF r < MaxWorkSize
           THEN [localTree[r] EXCEPT ![0] = initTree[0][StartNode(r)]]
           ELSE localTree[r]]
      /\ queue' = [r \in Ranks |-> IF r < MaxWorkSize THEN <<0>> ELSE <<>>]
      /\ pc' = [r \in Ranks |-> "local"]
  BY DEF BcastInitial
<1>3. TopsAgree' /\ MapsAgree'
  BY <1>1, <1>2 DEF TopsAgree, MapsAgree
<1>4. TreesAgree'
  BY <1>1, <1>2 DEF TreesAgree, Phase
<1>5. InsideStart'
  <2>1. ASSUME NEW r \in Ranks, NEW i \in Queued(r)'
        PROVE  /\ r < MaxWorkSize
               /\ localTree'[r][i].first >= initTree'[0][StartNode(r)].first
               /\ localTree'[r][i].last <= initTree'[0][StartNode(r)].last
    <3>1. r < MaxWorkSize /\ i = 0
      BY <1>2, <2>1 DEF Queued, Elements
    <3>2. localTree[r] \in [0 .. N - 1 -> RowType(InitialNodeSize + N)] /\ 0 \in 0 .. N - 1
      BY Sizes DEF AgreeInv, BuildInv, TypeOK
    <3>3. localTree'[r][i] = initTree'[0][StartNode(r)]
      BY <1>1, <1>2, <3>1, <3>2
    <3>4. initTree'[0][StartNode(r)] \in RowType(InitialNodeSize)
      <4>1. StartNode(r) \in 0 .. InitialNodeSize - 1
        BY <3>1, Sizes DEF Ranks
      <4> QED BY <1>1, <4>1, ZenonT(40) DEF BuildInv, TypeOK
    <3>5. /\ initTree'[0][StartNode(r)].first \in Int /\ initTree'[0][StartNode(r)].last \in Int
      BY <3>4, Sizes DEF RowType
    <3> QED BY <3>1, <3>3, <3>5
  <2> QED BY <2>1 DEF InsideStart
<1> QED BY <1>1, <1>3, <1>4, <1>5 DEF AgreeInv

\* A rank reorders positions under its own start node only.
LEMMA LocalSplitMoves ==
  ASSUME AgreeInv, NEW r \in Ranks, LocalSplit(r), NEW k \in Particles, k \notin Pending(r)
  PROVE  map'[r][k] = map[r][k]
<1> DEFINE S == InitialNodeSize
           start == initTree[0][StartNode(r)]
<1>s. S \in Nat /\ N \in Nat /\ S + N \in Nat /\ 0 \in Ranks /\ r \in Nat
  BY Sizes DEF Ranks
<1>0. BuildInv /\ InsideStart
  BY DEF AgreeInv
<1>p. Phase({"local", "fault"}) /\ pc[r] = "local" /\ merging = 0
  BY <1>0, LocalSplitVisit
<1>1. PICK node \in Queued(r), num \in 1 .. N :
        /\ node \in 0 .. N - 1
        /\ \E v \in Visits(localTree[r], map[r], node, num) :
             MapOutcome(localTree[r], map[r], node, v) /\ map' = [map EXCEPT ![r] = v.map]
  BY <1>0, LocalSplitVisit
<1>2. PICK v \in Visits(localTree[r], map[r], node, num) :
        MapOutcome(localTree[r], map[r], node, v) /\ map' = [map EXCEPT ![r] = v.map]
  BY <1>1
<1>3. /\ localTree \in [Ranks -> [0 .. N - 1 -> RowType(S + N)]]
      /\ map \in [Ranks -> [Particles -> Particles]]
      /\ initTree \in [Ranks -> [0 .. S - 1 -> RowType(S)]]
  BY <1>0 DEF BuildInv, TypeOK
<1>4. /\ r < MaxWorkSize
      /\ localTree[r][node].first >= start.first /\ localTree[r][node].last <= start.last
  BY <1>0, <1>p, <1>1 DEF InsideStart
<1>5. start \in RowType(S) /\ localTree[r][node] \in RowType(S + N)
  <2>1. StartNode(r) \in 0 .. S - 1
    BY <1>4, <1>s, Sizes
  <2> QED BY <1>1, <1>3, <1>s, <2>1
<1>6. /\ start.first \in Int /\ start.last \in Int
      /\ localTree[r][node].first \in Int /\ localTree[r][node].last \in Int
  BY <1>5, <1>s DEF RowType
<1>7. Positions(localTree[r][node]) \subseteq Pending(r)
  <2>1. Pending(r) = start.first .. start.last - 1
    BY <1>4, <1>p, <1>s DEF Pending, Positions
  <2> QED BY <1>4, <1>6, <2>1 DEF Positions
<1> QED BY <1>2, <1>3, <1>7 DEF MapOutcome

LEMMA LocalSplitAgree ==
  ASSUME AgreeInv, NEW r \in Ranks, LocalSplit(r)
  PROVE  AgreeInv'
<1> DEFINE S == InitialNodeSize
           A == 0 .. N + S
           start == initTree[0][StartNode(r)]
<1>s. /\ S \in Nat /\ N \in Nat /\ N >= 1 /\ InitialLevel \in Nat /\ S + N \in Nat
      /\ 0 \in Ranks /\ r \in Nat
  BY Sizes DEF Ranks
<1>0. BuildInv /\ InsideStart /\ MapsAgree /\ TopsAgree /\ TreesAgree
  BY DEF AgreeInv
<1>b. BuildInv'
  BY <1>0, LocalSplitBuild
<1>u. UNCHANGED <<initTree, hostTree, offset, merging>>
  BY DEF LocalSplit
<1>p. Phase({"local", "fault"}) /\ pc[r] = "local" /\ merging = 0
  BY <1>0, LocalSplitVisit
<1>1. PICK node \in Queued(r), num \in 1 .. N :
              /\ num = newNodeNum[r] /\ node < num /\ node \in 0 .. N - 1
              /\ \E v \in Visits(localTree[r], map[r], node, num) :
                   /\ MapOutcome(localTree[r], map[r], node, v)
                   /\ RowsAfter(N, S + N, localTree[r], node, num, v)
                   /\ localTree' = [localTree EXCEPT ![r] = v.tree]
                   /\ map' = [map EXCEPT ![r] = v.map]
                   /\ newNodeNum' = [newNodeNum EXCEPT ![r] = v.num]
                   /\ queue' \in [Ranks -> Seq(A)]
                   /\ \A s \in Ranks \ {r} : queue'[s] = queue[s]
                   /\ \A i \in Queued(r)' : i \in Queued(r) \/ i \in num .. v.num - 1
                   /\ pc' = [pc EXCEPT ![r] = IF v.fault THEN "fault" ELSE @]
  BY <1>0, LocalSplitVisit
<1>2. PICK v \in Visits(localTree[r], map[r], node, num) :
                   /\ MapOutcome(localTree[r], map[r], node, v)
                   /\ RowsAfter(N, S + N, localTree[r], node, num, v)
                   /\ localTree' = [localTree EXCEPT ![r] = v.tree]
                   /\ map' = [map EXCEPT ![r] = v.map]
                   /\ newNodeNum' = [newNodeNum EXCEPT ![r] = v.num]
                   /\ queue' \in [Ranks -> Seq(A)]
                   /\ \A s \in Ranks \ {r} : queue'[s] = queue[s]
                   /\ \A i \in Queued(r)' : i \in Queued(r) \/ i \in num .. v.num - 1
                   /\ pc' = [pc EXCEPT ![r] = IF v.fault THEN "fault" ELSE @]
  BY <1>1
<1> HIDE DEF A
<1>3. /\ localTree \in [Ranks -> [0 .. N - 1 -> RowType(S + N)]]
      /\ map \in [Ranks -> [Particles -> Particles]]
      /\ pc \in [Ranks -> {"initial", "local", "merge", "done", "fault"}]
      /\ initTree \in [Ranks -> [0 .. S - 1 -> RowType(S)]]
  BY <1>0 DEF BuildInv, TypeOK
<1>4. /\ localTree'[r] = v.tree /\ map'[r] = v.map
      /\ \A s \in Ranks \ {r} : localTree'[s] = localTree[s] /\ map'[s] = map[s]
  BY <1>2, <1>3
<1>5. Phase({"local", "fault"})'
  BY <1>2, <1>3, <1>p DEF Phase
<1>6. /\ r < MaxWorkSize
      /\ localTree[r][node].first >= start.first /\ localTree[r][node].last <= start.last
  BY <1>0, <1>p, <1>1 DEF InsideStart
<1>7. start \in RowType(S) /\ localTree[r][node] \in RowType(S + N)
  <2>1. StartNode(r) \in 0 .. S - 1
    BY <1>6, <1>s, Sizes
  <2> QED BY <1>1, <1>3, <1>s, <2>1
<1>8. /\ start.first \in Int /\ start.last \in Int
      /\ localTree[r][node].first \in Int /\ localTree[r][node].last \in Int
  BY <1>7, <1>s DEF RowType
<1>9. \A s : Pending(s)' = Pending(s)
  BY <1>u DEF Pending
<1>10. MapsAgree'
  <2> SUFFICES ASSUME NEW q \in Ranks, NEW s \in Ranks, NEW k \in Particles,
                      k \notin Pending(q), k \notin Pending(s)
               PROVE  map'[q][k] = map'[s][k]
    BY <1>9 DEF MapsAgree
  <2>1. \A t \in Ranks : k \notin Pending(t) => map'[t][k] = map[t][k]
    <3> TAKE t \in Ranks
    <3>1. CASE t = r
      BY <3>1, LocalSplitMoves
    <3>2. CASE t # r
      BY <3>2, <1>4
    <3> QED BY <3>1, <3>2
  <2>2. Started
    BY <1>p DEF Started, Phase
  <2>3. map[q][k] = map[s][k]
    BY <1>0, <2>2 DEF MapsAgree
  <2> QED BY <2>1, <2>3
<1>11. TopsAgree'
  <2>1. Started
    BY <1>p DEF Started, Phase
  <2> QED BY <1>0, <1>u, <2>1 DEF TopsAgree
<1>12. TreesAgree'
  BY <1>5, <1>s DEF TreesAgree, Phase
<1>13. InsideStart'
  <2> SUFFICES ASSUME NEW s \in Ranks, NEW i \in Queued(s)'
               PROVE  /\ s < MaxWorkSize
                      /\ localTree'[s][i].first >= initTree[0][StartNode(s)].first
                      /\ localTree'[s][i].last <= initTree[0][StartNode(s)].last
    BY <1>u DEF InsideStart
  <2>1. CASE s # r
    <3>1. i \in Queued(s)
      BY <2>1, <1>2 DEF Queued
    <3> QED BY <2>1, <3>1, <1>0, <1>4, <1>p DEF InsideStart
  <2>2. CASE s = r /\ i \in Queued(r)
    <3>1. i \in 0 .. num - 1
      <4>1. i < newNodeNum[r]
        BY <1>0, <1>p, <2>2 DEF BuildInv, LocalInv
      <4>2. queue \in [Ranks -> Seq(A)]
        BY <1>0 DEF BuildInv, TypeOK, A
      <4>3. i \in A
        BY <4>2, <2>2 DEF Queued, Elements
      <4> QED BY <4>1, <4>3, <1>1, <1>s DEF A
    <3>2. /\ v.tree[i].first = localTree[r][i].first
          /\ v.tree[i].last = localTree[r][i].last
      BY <3>1, <1>2 DEF RowsAfter, RowsKept
    <3> QED BY <2>2, <3>2, <1>0, <1>4, <1>p DEF InsideStart
  <2>3. CASE s = r /\ i \in num .. v.num - 1
    <3>1. v.num = num + 2 /\ i \in {num, num + 1} /\ num + 1 \in 0 .. N - 1
      BY <2>3, <1>2 DEF RowsAfter, RowsMade
    <3>2. /\ v.tree[i].first >= localTree[r][node].first
          /\ v.tree[i].last <= localTree[r][node].last
      BY <3>1, <1>2 DEF RowsAfter, RowsMade
    <3>3. v.tree[i] \in RowType(S + N)
      BY <3>1, <1>2, <1>s, SMTT(30) DEF RowsAfter
    <3>4. v.tree[i].first \in Int /\ v.tree[i].last \in Int
      BY <3>3, <1>s DEF RowType
    <3> QED BY <2>3, <3>2, <3>4, <1>4, <1>6, <1>8
  <2> QED BY <2>1, <2>2, <2>3, <1>2
<1> QED BY <1>b, <1>10, <1>11, <1>12, <1>13 DEF AgreeInv

LEMMA SumSizesAgree ==
  ASSUME AgreeInv, SumSizes
  PROVE  AgreeInv'
<1>1. 0 \in Ranks
  BY Sizes DEF Ranks
<1>2. BuildInv /\ InsideStart /\ MapsAgree /\ TopsAgree /\ TreesAgree /\ BuildInv'
  BY SumSizesBuild DEF AgreeInv
<1>3. Started /\ pc' = [r \in Ranks |-> "merge"] /\ UNCHANGED <<queue, initTree, localTree, map, offset, merging>>
  BY DEF SumSizes, Started, Phase
<1>4. \A s : Pending(s)' = Pending(s)
  BY <1>3 DEF Pending
<1>5. MapsAgree' /\ TopsAgree'
  BY <1>2, <1>3, <1>4 DEF MapsAgree, TopsAgree
<1>6. InsideStart'
  BY <1>1, <1>3 DEF InsideStart, Phase
<1>7. TreesAgree'
  <2>1. PICK treeSize : hostTree' = [r \in Ranks |->
              [i \in 0 .. treeSize - 1 |->
                 IF i < InitialNodeSize THEN initTree[r][i] ELSE NullRow]]
    BY DEF SumSizes
  <2>2. \A r \in Ranks : initTree[r] = initTree[0]
    BY <1>2, <1>3 DEF TopsAgree
  <2> QED BY <1>1, <2>1, <2>2 DEF TreesAgree
<1> QED BY <1>2, <1>5, <1>6, <1>7 DEF AgreeInv

\* In a "left" layout each column of the owner's rows is broadcast.
LEMMA LeftBroadcast ==
  ASSUME Layout = "left", NEW n \in Nat, NEW size \in Nat, offset \in Nat,
         NEW i \in offset .. offset + size - 1, NEW c \in 1 .. 5
  PROVE  Broadcast(i, c, n, size)
<1>1. Len(Cols) = 5
  BY DEF Cols
<1>2. c - 1 \in 0 .. Len(Cols) - 1 /\ (c - 1) * n \in Int
  BY <1>1
<1>3. Address(i, c, n) = (c - 1) * n + i
  BY DEF Address
<1> DEFINE base == (c - 1) * n
<1>4. base + i \in base + offset .. base + offset + size - 1
  <2> HIDE DEF base
  <2>1. base \in Int
    BY <1>2 DEF base
  <2> QED BY <2>1
<1> QED BY <1>2, <1>3, <1>4 DEF Broadcast

LEMMA CopiedIsMoved ==
  ASSUME Layout = "left", NEW n \in Nat, NEW b, NEW size \in Nat, offset \in Nat,
         NEW r \in Ranks, NEW owner \in Ranks, size = newNodeNum[owner],
         hostTree[r] = hostTree[owner], hostTree[owner] \in [0 .. n - 1 -> RowType(b)],
         Moved(owner) \in [0 .. n - 1 -> RowType(b)]
  PROVE  Copied(r, Moved(owner), size, owner) = Moved(owner)
<1> DEFINE moved == Moved(owner)
<1>0. DOMAIN moved = 0 .. n - 1 /\ Cardinality(0 .. n - 1) = n
  <2>1. Cardinality(0 .. n - 1) = IF 0 > n - 1 THEN 0 ELSE (n - 1) - 0 + 1
    BY FS_Interval
  <2> QED BY <2>1
<1>1. \A i \in 0 .. n - 1 : i \notin offset .. offset + size - 1 => moved[i] = hostTree[r][i]
  BY DEF Moved
<1> HIDE DEF moved
<1>2. ASSUME NEW i \in 0 .. n - 1, NEW c \in 1 .. 5
      PROVE  Entry(r, i, c, moved, size, owner) = moved[i][Cols[c]]
  <2>1. CASE i \in offset .. offset + size - 1
    BY <1>0, <2>1, LeftBroadcast DEF Entry
  <2>2. CASE i \notin offset .. offset + size - 1
    BY <1>1, <2>2 DEF Entry
  <2> QED BY <2>1, <2>2
<1>3. ASSUME NEW i \in 0 .. n - 1
      PROVE  Received(r, i, moved, size, owner) = moved[i]
  <2>1. /\ Cols[1] = "left" /\ Cols[2] = "right" /\ Cols[3] = "first"
        /\ Cols[4] = "last" /\ Cols[5] = "level"
    BY DEF Cols
  <2>2. /\ Entry(r, i, 1, moved, size, owner) = moved[i].left
        /\ Entry(r, i, 2, moved, size, owner) = moved[i].right
        /\ Entry(r, i, 3, moved, size, owner) = moved[i].first
        /\ Entry(r, i, 4, moved, size, owner) = moved[i].last
        /\ Entry(r, i, 5, moved, size, owner) = moved[i].level
    BY <1>2, <2>1
  <2>3. moved[i] \in RowType(b)
    BY DEF moved
  <2> QED BY <2>2, <2>3 DEF Received, RowType
<1>4. Copied(r, moved, size, owner) = [i \in 0 .. n - 1 |-> moved[i]]
  BY <1>0, <1>3 DEF Copied
<1>5. moved \in [0 .. n - 1 -> RowType(b)]
  BY DEF moved
<1> QED BY <1>4, <1>5 DEF moved

\* With a "left" layout every rank holds the owner's rows after a turn of the loop.
LEMMA MergeRankCopies ==
  ASSUME AgreeInv, MergeRank, Layout = "left"
  PROVE  /\ merging \in Ranks /\ merging < MaxWorkSize /\ merging \in Nat
         /\ \A r \in Ranks : Copied(r, Moved(merging), newNodeNum[merging], merging) = Moved(merging)
<1> DEFINE size == newNodeNum[merging]
           B == InitialNodeSize + P * N
<1>1. BuildInv /\ TreesAgree /\ Phase({"merge"})
  BY MergeRankTrees DEF AgreeInv
<1>2. 0 \in Ranks /\ Phase({"merge", "done"})
  BY <1>1, Sizes DEF Ranks, Phase
<1>3. merging \in Ranks /\ merging < MaxWorkSize /\ merging \in Nat
  <2>1. pc[0] = "merge"
    BY <1>1, <1>2 DEF Phase
  <2>2. merging \in 0 .. MaxWorkSize /\ MaxWorkSize <= P
    BY <1>1, Sizes DEF BuildInv, TypeOK
  <2>3. merging < MaxWorkSize
    BY <1>1, <1>2, <2>1, Sizes DEF BuildInv, PhaseInv, Phase
  <2> QED BY <2>2, <2>3, Sizes DEF Ranks
<1>4. PICK n \in Nat : \A r \in Ranks : hostTree[r] \in [0 .. n - 1 -> RowType(B)]
  BY <1>1, <1>2 DEF BuildInv, HostInv
<1>5. \A r \in Ranks : hostTree[r] = hostTree[merging]
  BY <1>1, <1>2, <1>3 DEF TreesAgree
<1>6. Moved(merging) \in [0 .. n - 1 -> RowType(B)]
  BY <1>1, <1>3, <1>4, MovedType
<1>7. size \in Nat /\ offset \in Nat
  <2>1. pc[merging] = "merge"
    BY <1>1, <1>3 DEF Phase
  <2> QED BY <1>1, <1>3, <2>1, Sizes DEF BuildInv, LocalInv, TypeOK
<1>8. ASSUME NEW r \in Ranks PROVE Copied(r, Moved(merging), size, merging) = Moved(merging)
  <2>1. hostTree[r] = hostTree[merging] /\ hostTree[merging] \in [0 .. n - 1 -> RowType(B)]
    BY <1>3, <1>4, <1>5
  <2>2. size = newNodeNum[merging]
    OBVIOUS
  <2> HIDE DEF B, size
  <2>3. /\ size \in Nat /\ offset \in Nat /\ merging \in Ranks
        /\ Moved(merging) \in [0 .. n - 1 -> RowType(B)]
    BY <1>3, <1>6, <1>7
  <2> HIDE DEF size, B
  <2>4. n \in Nat
    BY <1>4
  <2>5. \A o \in Ranks :
          /\ size = newNodeNum[o]
          /\ hostTree[r] = hostTree[o] /\ hostTree[o] \in [0 .. n - 1 -> RowType(B)]
          /\ Moved(o) \in [0 .. n - 1 -> RowType(B)]
          => Copied(r, Moved(o), size, o) = Moved(o)
    BY <2>3, <2>4, CopiedIsMoved, SMTT(30)
  <2> QED BY <2>1, <2>2, <2>3, <2>5
<1> QED BY <1>3, <1>8

\* The owner's piece of the map is the piece that was pending.
LEMMA MergeRankAgree ==
  ASSUME AgreeInv, MergeRank, Layout = "left"
  PROVE  AgreeInv'
<1> DEFINE size == newNodeNum[merging]
           start == StartNode(merging)
<1>0. BuildInv /\ InsideStart /\ MapsAgree /\ TopsAgree /\ TreesAgree /\ BuildInv'
  BY MergeRankBuild DEF AgreeInv
<1>1. /\ hostTree' = [r \in Ranks |-> Hung(Copied(r, Moved(merging), size, merging), start)]
      /\ map' = [r \in Ranks |-> MapPiece(r, merging)]
      /\ merging' = merging + 1
      /\ pc' = [r \in Ranks |-> IF merging + 1 = MaxWorkSize THEN "done" ELSE "merge"]
      /\ UNCHANGED <<queue, newNodeNum, initTree, localTree>>
      /\ Phase({"merge"})
  BY MergeRankTrees
<1>2. 0 \in Ranks /\ Started /\ Phase({"merge", "done"})
  BY <1>1, Sizes DEF Ranks, Started, Phase
<1>3. merging \in Ranks /\ merging < MaxWorkSize /\ merging \in Nat
  BY MergeRankCopies
<1>4. InsideStart'
  <2>1. pc'[0] \in {"done", "merge"}
    BY <1>1, <1>2
  <2> QED BY <1>2, <2>1 DEF InsideStart, Phase
<1>5. TopsAgree'
  BY <1>0, <1>1, <1>2 DEF TopsAgree
<1>6. MapsAgree'
  <2> SUFFICES ASSUME NEW r \in Ranks, NEW s \in Ranks, NEW k \in Particles,
                      k \notin Pending(r)', k \notin Pending(s)'
               PROVE  map'[r][k] = map'[s][k]
    BY DEF MapsAgree
  <2> DEFINE piece == Positions(initTree[0][start])
  <2>1. \A t \in Ranks : map'[t][k] = IF k \in piece THEN map[merging][k] ELSE map[t][k]
    BY <1>0, <1>1, <1>2 DEF MapPiece, TopsAgree
  <2>2. CASE k \in piece
    BY <2>1, <2>2
  <2>3. CASE k \notin piece
    <3>1. \A t \in Ranks : k \notin Pending(t)' => k \notin Pending(t)
      <4> TAKE t \in Ranks
      <4>1. CASE t = merging
        BY <4>1, <2>3 DEF Pending
      <4>2. CASE t # merging
        <5>1. t \in Nat /\ (merging <= t => merging + 1 <= t)
          BY <4>2, <1>3 DEF Ranks
        <5> QED BY <5>1, <1>1 DEF Pending
      <4> QED BY <4>1, <4>2
    <3>2. map[r][k] = map[s][k]
      BY <3>1, <1>0, <1>2 DEF MapsAgree
    <3> QED BY <3>2, <2>1, <2>3
  <2> QED BY <2>2, <2>3
<1>7. TreesAgree'
  <2>1. \A r \in Ranks : Copied(r, Moved(merging), size, merging) = Moved(merging)
    BY MergeRankCopies
  <2> HIDE DEF size, start
  <2> QED BY <1>1, <1>2, <2>1 DEF TreesAgree
<1> QED BY <1>0, <1>4, <1>5, <1>6, <1>7 DEF AgreeInv

LEMMA UnchangedAgree ==
  ASSUME AgreeInv, UNCHANGED vars
  PROVE  AgreeInv'
<1>1. BuildInv'
  BY BuildNextInv DEF AgreeInv
<1> QED BY <1>1 DEF vars, AgreeInv, InsideStart, MapsAgree, TopsAgree, TreesAgree, Started, Phase,
  Pending, Queued

\* A step is a step of Build or leaves what Build works on as it is.
LEMMA BuildOrRest ==
  ASSUME [BoxesNext]_allVars
  PROVE  UNCHANGED vars \/ BuildNext
BY DEF BoxesNext, BuildStep, EnterCheck, LocalLeaves, ClimbSubtree, LeaveSubtree, BcastBoxes,
   ClimbTop, LeaveTop, BoxesStop, allVars

\* With a "left" layout all ranks leave Build with the same tree and the same
\* map, whichever ranks worked and however large their trees are: they then
\* split the work by index, each on its own.
THEOREM AllRanksAgree ==
  ASSUME Layout = "left"
  PROVE  BoxesSpec => []RanksAgree
<1>1. BoxesInit => AgreeInv
  BY AgreeInit DEF BoxesInit
<1>2. AgreeInv /\ [BoxesNext]_allVars => AgreeInv'
  <2> SUFFICES ASSUME AgreeInv, [BoxesNext]_allVars PROVE AgreeInv'
    OBVIOUS
  <2>1. CASE BuildNext
    BY <2>1, InitialSplitAgree, BcastInitialAgree, LocalSplitAgree, SumSizesAgree, MergeRankAgree
    DEF BuildNext
  <2> QED BY <2>1, UnchangedAgree, BuildOrRest
<1>3. AgreeInv => RanksAgree
  <2> SUFFICES ASSUME AgreeInv, Finished PROVE \A r \in Ranks : hostTree[r] = hostTree[0] /\ map[r] = map[0]
    BY DEF RanksAgree
  <2>1. 0 \in Ranks /\ Started /\ Phase({"merge", "done"}) /\ pc[0] = "done"
    BY Sizes DEF Ranks, Finished, Started, Phase
  <2>2. merging = MaxWorkSize
    BY <2>1 DEF AgreeInv, BuildInv, PhaseInv, Phase
  <2>3. \A r \in Ranks : Pending(r) = {}
    BY <2>2, Sizes DEF Pending, Ranks
  <2>4. \A r \in Ranks : \A k \in Particles : map[r][k] = map[0][k]
    BY <2>1, <2>3 DEF AgreeInv, MapsAgree
  <2>5. \A r \in Ranks : map[r] \in [Particles -> Particles]
    BY DEF AgreeInv, BuildInv, TypeOK
  <2>6. \A r \in Ranks : map[r] = map[0]
    BY <2>1, <2>4, <2>5
  <2> QED BY <2>1, <2>6 DEF AgreeInv, TreesAgree
<1> QED BY <1>1, <1>2, <1>3, PTL DEF BoxesSpec

-----------------------------------------------------------------------------
(* More about sums: the order is arbitrary, and bounds *)

LEMMA TotalRemove ==
  ASSUME NEW S, IsFiniteSet(S), NEW f, \A x \in S : f[x] \in Int, NEW e \in S
  PROVE  Total(f, S) = f[e] + Total(f, S \ {e})
<1> DEFINE Q == {s \in SUBSET S : \A x \in s : Total(f, s) = f[x] + Total(f, s \ {x})}
<1>1. ASSUME NEW s \in SUBSET S, \A t \in SUBSET s : t # s => t \in Q
      PROVE  s \in Q
  <2> SUFFICES ASSUME NEW x \in s PROVE Total(f, s) = f[x] + Total(f, s \ {x})
    OBVIOUS
  <2> DEFINE c == Chosen(s)
  <2>1. c \in s /\ IsFiniteSet(s)
    BY ChosenIn, FS_Subset
  <2>2. Total(f, s) = f[c] + Total(f, s \ {c})
    BY <2>1, TotalStep
  <2> HIDE DEF c
  <2>3. CASE c = x
    BY <2>2, <2>3
  <2>4. CASE c # x
    <3>1. s \ {c} \in Q /\ s \ {x} \in Q /\ (s \ {c}) \ {x} = (s \ {x}) \ {c}
      BY <1>1, <2>1
    <3>2. /\ Total(f, s \ {c}) = f[x] + Total(f, (s \ {c}) \ {x})
          /\ Total(f, s \ {x}) = f[c] + Total(f, (s \ {x}) \ {c})
      BY <3>1, <2>1, <2>4
    <3> DEFINE rest == Total(f, (s \ {x}) \ {c})
    <3>3. rest \in Int /\ f[x] \in Int /\ f[c] \in Int
      <4>1. IsFiniteSet((s \ {x}) \ {c})
        BY <2>1, FS_Subset
      <4> QED BY <4>1, <2>1, TotalType
    <3>4. Total(f, s \ {c}) = f[x] + rest /\ Total(f, s \ {x}) = f[c] + rest
      BY <3>1, <3>2
    <3> HIDE DEF rest
    <3> QED BY <2>2, <3>3, <3>4
  <2> QED BY <2>3, <2>4
<1>2. \A s \in SUBSET S : s \in Q
  <2> HIDE DEF Q
  <2> QED BY <1>1, SubsetInduction
<1>3. S \in Q
  BY <1>2
<1> QED BY <1>3

\* A factor of every value is a factor of the sum.
LEMMA TotalTimes ==
  ASSUME NEW S, IsFiniteSet(S), NEW f, \A x \in S : f[x] \in Int, NEW w \in Int,
         NEW g, \A x \in S : g[x] = w * f[x]
  PROVE  Total(g, S) = w * Total(f, S)
<1> DEFINE Q == {s \in SUBSET S : Total(g, s) = w * Total(f, s)}
<1>1. ASSUME NEW s \in SUBSET S, \A t \in SUBSET s : t # s => t \in Q
      PROVE  s \in Q
  <2>1. CASE s = {}
    BY <2>1, TotalEmpty
  <2>2. CASE s # {}
    <3> DEFINE c == Chosen(s)
               rest == s \ {c}
    <3>1. c \in s /\ IsFiniteSet(s)
      BY <2>2, ChosenIn, FS_Subset
    <3>2. /\ Total(f, s) = f[c] + Total(f, rest)
          /\ Total(g, s) = g[c] + Total(g, rest)
      BY <2>2, <3>1, TotalStep
    <3>3. Total(g, rest) = w * Total(f, rest)
      BY <1>1, <3>1
    <3>4. Total(f, rest) \in Int
      <4>1. IsFiniteSet(rest)
        BY <3>1, FS_Subset
      <4> QED BY <4>1, TotalType
    <3>5. f[c] \in Int /\ g[c] = w * f[c]
      BY <3>1
    <3> HIDE DEF c, rest
    <3>6. w * (f[c] + Total(f, rest)) = w * f[c] + w * Total(f, rest)
      BY <3>4, <3>5
    <3> QED BY <3>2, <3>3, <3>5, <3>6
  <2> QED BY <2>1, <2>2
<1>2. \A s \in SUBSET S : s \in Q
  <2> HIDE DEF Q
  <2> QED BY <1>1, SubsetInduction
<1>3. S \in Q
  BY <1>2
<1> QED BY <1>3

\* A sum is at most the bound of its values times their number, and less if
\* a value is; and it is at least the bound from below times their number.
LEMMA TotalBounds ==
  ASSUME NEW S, IsFiniteSet(S), NEW f, \A x \in S : f[x] \in Int, NEW b \in Int
  PROVE  /\ (\A x \in S : f[x] <= b) => Total(f, S) <= Cardinality(S) * b
         /\ (\A x \in S : f[x] >= b) => Total(f, S) >= Cardinality(S) * b
<1> DEFINE Q == {s \in SUBSET S :
                   /\ (\A x \in S : f[x] <= b) => Total(f, s) <= Cardinality(s) * b
                   /\ (\A x \in S : f[x] >= b) => Total(f, s) >= Cardinality(s) * b}
<1>1. ASSUME NEW s \in SUBSET S, \A t \in SUBSET s : t # s => t \in Q
      PROVE  s \in Q
  <2>1. CASE s = {}
    <3>1. Cardinality(s) = 0 /\ Total(f, s) = 0
      BY <2>1, TotalEmpty, FS_EmptySet
    <3> QED BY <3>1
  <2>2. CASE s # {}
    <3> DEFINE c == Chosen(s)
               rest == s \ {c}
    <3>1. c \in s /\ IsFiniteSet(s)
      BY <2>2, ChosenIn, FS_Subset
    <3>2. Total(f, s) = f[c] + Total(f, rest)
      BY <2>2, <3>1, TotalStep
    <3>3. rest \in Q
      BY <1>1, <3>1
    <3>4. IsFiniteSet(rest) /\ Cardinality(rest) = Cardinality(s) - 1 /\ Cardinality(s) \in Nat
      BY <3>1, FS_RemoveElement, FS_CardinalityType
    <3>5. Total(f, rest) \in Int
      BY <3>4, TotalType
    <3>6. f[c] \in Int /\ ((\A x \in S : f[x] <= b) => f[c] <= b)
          /\ ((\A x \in S : f[x] >= b) => f[c] >= b)
      BY <3>1
    <3> HIDE DEF c, rest
    <3>7. Cardinality(s) * b = Cardinality(rest) * b + b /\ Cardinality(rest) * b \in Int
      <4>1. Cardinality(rest) \in Int /\ Cardinality(s) = Cardinality(rest) + 1
        BY <3>4
      <4> QED BY <4>1
    <3> QED BY <3>2, <3>3, <3>5, <3>6, <3>7
  <2> QED BY <2>1, <2>2
<1>2. \A s \in SUBSET S : s \in Q
  <2> HIDE DEF Q
  <2> QED BY <1>1, SubsetInduction
<1>3. S \in Q
  BY <1>2
<1> QED BY <1>3

LEMMA TotalBelow ==
  ASSUME NEW S, IsFiniteSet(S), NEW f, \A x \in S : f[x] \in Int, NEW b \in Int,
         \A x \in S : f[x] <= b, NEW e \in S, f[e] < b
  PROVE  Total(f, S) < Cardinality(S) * b
<1> DEFINE rest == S \ {e}
<1>1. IsFiniteSet(rest) /\ Cardinality(rest) = Cardinality(S) - 1 /\ Cardinality(S) \in Nat
  BY FS_RemoveElement, FS_CardinalityType
<1>2. Total(f, S) = f[e] + Total(f, rest)
  BY TotalRemove
<1>3. Total(f, rest) <= Cardinality(rest) * b /\ Total(f, rest) \in Int
  BY <1>1, TotalBounds, TotalType
<1> HIDE DEF rest
<1>4. Cardinality(S) * b = Cardinality(rest) * b + b /\ Cardinality(rest) * b \in Int
  <2>1. Cardinality(rest) \in Int /\ Cardinality(S) = Cardinality(rest) + 1
    BY <1>1
  <2> QED BY <2>1
<1> QED BY <1>2, <1>3, <1>4

-----------------------------------------------------------------------------
(* Divide cuts inside the range when the axes tell particles apart *)

\* More particles than fit in a block are not all at the same place of an axis.
AxesSeparate ==
  \A axis \in Axes : \A S \in SUBSET Particles :
    Cardinality(S) > BlockSize => \E a, b \in S : axis[a] # axis[b]

OneToOne(m) == \A j, k \in Particles : m[j] = m[k] => j = k

LEMMA CutsInside ==
  ASSUME AxesSeparate, NEW m \in [Particles -> Particles], OneToOne(m), NEW axis \in Axes,
         NEW first \in 0 .. N, NEW last \in 0 .. N, last - first > BlockSize
  PROVE  Cuts(m, first, last, axis) \subseteq first + 1 .. last - 1
<1> DEFINE range == first .. last - 1
           along == [i \in range |-> axis[m[i]]]
           w == last - first
           sum == MapThenSumSet(LAMBDA i : along[i], range)
           low == {i \in range : w * along[i] <= sum}
           scaled == [i \in range |-> w * along[i]]
<1>0. N \in Nat /\ BlockSize \in Nat /\ axis \in [Particles -> Int]
  BY BuildAssumption
<1>1. range \subseteq Particles /\ w \in Nat /\ w > 0
  BY <1>0 DEF Particles
<1>2. IsFiniteSet(range) /\ Cardinality(range) = w
  <2> DEFINE b == last - 1
  <2>1. first \in Int /\ b \in Int /\ first <= b
    BY <1>0
  <2>2. /\ IsFiniteSet(first .. b)
        /\ Cardinality(first .. b) = IF first > b THEN 0 ELSE b - first + 1
    <3> HIDE DEF b
    <3> QED BY <2>1, FS_Interval
  <2> QED BY <2>1, <2>2
<1>3. \A i \in range : along[i] \in Int /\ along[i] = axis[m[i]]
  BY <1>0, <1>1
<1>4. sum = Total(along, range)
  <2> HIDE DEF along, range
  <2> QED BY DEF Total
<1>5. \E i, j \in range : along[i] # along[j]
  <2> DEFINE S == {m[i] : i \in range}
             f == [i \in range |-> m[i]]
  <2>1. f \in Surjection(range, S)
    BY DEF Surjection
  <2>2. f \in Injection(range, S)
    BY <1>1 DEF Injection, IsInjective, OneToOne
  <2>3. Cardinality(S) = w
    <3> HIDE DEF f, S, range
    <3> QED BY <2>1, <2>2, <1>2, FS_Surjection
  <2>4. S \in SUBSET Particles
    BY <1>1
  <2>5. PICK a \in S, b \in S : axis[a] # axis[b]
    <3> HIDE DEF S
    <3> QED BY <2>3, <2>4 DEF AxesSeparate
  <2>6. PICK i \in range, j \in range : a = m[i] /\ b = m[j]
    OBVIOUS
  <2> QED BY <2>5, <2>6, <1>3
<1>6. sum \in Int
  <2> HIDE DEF along, sum, range
  <2> QED BY <1>2, <1>3, <1>4, TotalType
<1>7. Total(scaled, range) = w * sum
  <2>1. \A i \in range : scaled[i] = w * along[i]
    OBVIOUS
  <2> HIDE DEF along, sum, range, scaled, w
  <2> QED BY <1>1, <1>2, <1>3, <1>4, <2>1, TotalTimes
<1>8. \A i \in range : scaled[i] \in Int /\ scaled[i] = w * along[i]
  <2> HIDE DEF along
  <2> QED BY <1>1, <1>3
<1> DEFINE total == w * sum
<1>9. total \in Int /\ Cardinality(range) * sum = total
  <2> HIDE DEF sum, range
  <2> QED BY <1>1, <1>2, <1>6
<1>10. low # range
  <2> SUFFICES ASSUME low = range PROVE FALSE
    OBVIOUS
  <2>1. \A i \in range : scaled[i] <= sum
    BY <1>8
  <2>2. PICK i \in range, j \in range : along[i] # along[j]
    BY <1>5
  <2>3. scaled[i] # scaled[j]
    <3> DEFINE a == along[i]
               b == along[j]
    <3>1. a \in Int /\ b \in Int /\ a # b
      BY <1>3, <2>2
    <3>2. w * a # w * b
      <4> HIDE DEF a, b, w
      <4> QED BY <1>1, <3>1
    <3> QED BY <1>8, <3>2
  <2>4. PICK e \in range : scaled[e] < sum
    <3>1. scaled[i] < sum \/ scaled[j] < sum
      <4> HIDE DEF scaled, sum
      <4> QED BY <2>1, <2>3, <1>6, <1>8
    <3> QED BY <3>1
  <2> HIDE DEF low, scaled, range, sum
  <2>5. Total(scaled, range) < Cardinality(range) * sum
    BY <1>2, <1>6, <1>8, <2>1, <2>4, TotalBelow
  <2> HIDE DEF total
  <2> QED BY <1>7, <1>9, <2>5 DEF total
<1>11. low # {}
  <2> SUFFICES ASSUME low = {} PROVE FALSE
    OBVIOUS
  <2>1. \A i \in range : scaled[i] >= sum + 1
    <3> TAKE i \in range
    <3>1. ~ (w * along[i] <= sum)
      OBVIOUS
    <3>2. scaled[i] \in Int /\ ~ (scaled[i] <= sum)
      BY <3>1, <1>8
    <3> HIDE DEF scaled, sum
    <3> QED BY <3>2, <1>6
  <2> HIDE DEF low, scaled, range, sum
  <2>2. sum + 1 \in Int
    BY <1>6
  <2>3. Total(scaled, range) >= Cardinality(range) * (sum + 1)
    BY <1>2, <1>8, <2>1, <2>2, TotalBounds
  <2>4. Cardinality(range) * (sum + 1) = Cardinality(range) * sum + Cardinality(range)
    BY <1>1, <1>2, <1>6
  <2> HIDE DEF total
  <2>5. total >= total + w
    BY <1>2, <1>7, <1>9, <2>3, <2>4 DEF total
  <2> HIDE DEF w
  <2> QED BY <1>1, <1>9, <2>5
<1>12. Cardinality(low) \in 1 .. w - 1
  <2>1. low \subseteq range
    OBVIOUS
  <2> HIDE DEF low, range
  <2>2. IsFiniteSet(low) /\ Cardinality(low) <= w /\ Cardinality(low) # w /\ Cardinality(low) \in Nat
    BY <1>2, <1>10, <2>1, FS_Subset, FS_CardinalityType
  <2>3. Cardinality(low) # 0
    BY <2>2, <1>11, FS_EmptySet
  <2> HIDE DEF w
  <2> QED BY <2>2, <2>3, <1>1
<1>13. Cuts(m, first, last, axis) = {first + Cardinality(low)}
  <2> DEFINE all == \A i, j \in range : along[i] = along[j]
  <2>1. ~all
    BY <1>5
  <2>2. Cuts(m, first, last, axis) = IF all THEN {first, last} ELSE {first + Cardinality(low)}
    <3> HIDE DEF sum
    <3> QED BY DEF Cuts, sum
  <2> HIDE DEF all
  <2> QED BY <2>1, <2>2
<1>14. first + Cardinality(low) \in first + 1 .. last - 1
  <2> DEFINE c == Cardinality(low)
  <2>1. c \in 1 .. w - 1 /\ first \in Int /\ last \in Int
    BY <1>0, <1>12
  <2>2. c \in 1 .. (last - first) - 1
    BY <2>1
  <2> HIDE DEF c, low
  <2>3. first + c \in first + 1 .. last - 1
    BY <2>1, <2>2
  <2> QED BY <2>3 DEF c
<1> HIDE DEF low
<1> QED BY <1>13, <1>14

\* A reordering: no particle is lost or held twice.
LEMMA SortedMapOneToOne ==
  ASSUME NEW m \in [Particles -> Particles], OneToOne(m), NEW axis \in Axes,
         NEW first \in 0 .. N, NEW last \in 0 .. N, first <= last
  PROVE  OneToOne(SortedMap(m, first, last, axis))
<1> DEFINE range == first .. last - 1
           from(k) == CHOOSE i \in range : first + Place(m, range, axis, i) = k
<1>1. \A k \in range : from(k) \in range /\ first + Place(m, range, axis, from(k)) = k
  <2>1. \A k \in range : \E i \in range : first + Place(m, range, axis, i) = k
    BY PlaceOnto
  <2> HIDE DEF range
  <2> QED BY <2>1
<1>2. range \subseteq Particles
  BY BuildAssumption DEF Particles
<1>3. SortedMap(m, first, last, axis) = [k \in Particles |-> IF k \in range THEN m[from(k)] ELSE m[k]]
  BY DEF SortedMap
<1> HIDE DEF from, range
<1> SUFFICES ASSUME NEW j \in Particles, NEW k \in Particles,
                    SortedMap(m, first, last, axis)[j] = SortedMap(m, first, last, axis)[k]
             PROVE  j = k
  BY DEF OneToOne
<1>4. CASE j \in range /\ k \in range
  <2>1. m[from(j)] = m[from(k)]
    BY <1>3, <1>4
  <2>2. from(j) = from(k)
    BY <1>1, <1>2, <1>4, <2>1 DEF OneToOne
  <2> QED BY <1>1, <1>4, <2>2
<1>5. CASE j \in range /\ k \notin range
  BY <1>1, <1>2, <1>3, <1>5 DEF OneToOne
<1>6. CASE j \notin range /\ k \in range
  BY <1>1, <1>2, <1>3, <1>6 DEF OneToOne
<1>7. CASE j \notin range /\ k \notin range
  BY <1>3, <1>7 DEF OneToOne
<1> QED BY <1>4, <1>5, <1>6, <1>7

-----------------------------------------------------------------------------
(* What a visit makes of a tree when the axes tell particles apart *)

SameRange(row, other) ==
  row.first = other.first /\ row.last = other.last /\ row.level = other.level
SameLinks(row, other) == row.left = other.left /\ row.right = other.right

\* The row becomes a leaf, which fits in a block.
LeafStep(n, tree, node, t) ==
  /\ \A i \in 0 .. n - 1 : i # node => t[i] = tree[i]
  /\ t[node].left = 0 /\ t[node].right = 0 /\ SameRange(t[node], tree[node])
  /\ Size(tree[node]) <= BlockSize

\* The row is cut in two parts, neither of them empty.
SplitStep(n, tree, node, num, t) ==
  /\ num + 1 \in 0 .. n - 1
  /\ \A i \in 0 .. n - 1 : i \notin {node, num, num + 1} => t[i] = tree[i]
  /\ t[node].left = num /\ t[node].right = num + 1 /\ SameRange(t[node], tree[node])
  /\ SameLinks(t[num], tree[num]) /\ SameLinks(t[num + 1], tree[num + 1])
  /\ t[num].first = tree[node].first /\ t[num].last = t[num + 1].first
  /\ t[num + 1].last = tree[node].last
  /\ tree[node].first < t[num].last /\ t[num].last < tree[node].last
  /\ t[num].level = tree[node].level + 1 /\ t[num + 1].level = tree[node].level + 1
  /\ t[num].last \in 0 .. N

VisitOutcome(n, tree, node, num, v) ==
  \/ /\ LeafStep(n, tree, node, v.tree)
     /\ v.num = num /\ v.children = <<>> /\ v.fault = FALSE
  \/ /\ SplitStep(n, tree, node, num, v.tree)
     /\ v.num = num + 2 /\ v.children = NewRows(num) /\ v.fault = FALSE
  \/ /\ num + 1 \notin 0 .. n - 1
     /\ v.tree = tree /\ v.num = num /\ v.children = <<>> /\ v.fault = TRUE

LEMMA LeafStepMade ==
  ASSUME NEW n \in Nat, NEW b \in Nat, NEW tree \in [0 .. n - 1 -> RowType(b)],
         NEW node \in 0 .. n - 1, Size(tree[node]) <= BlockSize
  PROVE  LeafStep(n, tree, node, [tree EXCEPT ![node].left = 0, ![node].right = 0])
<1>1. tree[node] \in RowType(b)
  OBVIOUS
<1> DEFINE row == [tree[node] EXCEPT !.left = 0, !.right = 0]
           t == [tree EXCEPT ![node].left = 0, ![node].right = 0]
<1>2. t = [tree EXCEPT ![node] = row]
  BY <1>1 DEF RowType
<1>3. row.left = 0 /\ row.right = 0 /\ SameRange(row, tree[node])
  BY <1>1 DEF RowType, SameRange
<1> HIDE DEF row, t
<1>4. t[node] = row /\ \A i \in 0 .. n - 1 : i # node => t[i] = tree[i]
  BY <1>2
<1> QED BY <1>3, <1>4 DEF LeafStep, t

LEMMA SplitStepMade ==
  ASSUME NEW n \in Nat, NEW b \in Nat, NEW tree \in [0 .. n - 1 -> RowType(b)],
         NEW node \in 0 .. n - 1, NEW num \in Nat, node < num, num + 1 \in 0 .. n - 1,
         NEW mid \in tree[node].first + 1 .. tree[node].last - 1
  PROVE  SplitStep(n, tree, node, num, Split(tree, node, num, mid))
<1> DEFINE t == Split(tree, node, num, mid)
           a == Parent(tree[node], num)
           l == Child(tree[num], tree[node].first, mid, tree[node].level + 1)
           r == Child(tree[num + 1], mid, tree[node].last, tree[node].level + 1)
<1>1. num \in 0 .. n - 1 /\ node # num /\ node # num + 1 /\ num # num + 1
  OBVIOUS
<1>2. tree[node] \in RowType(b) /\ tree[num] \in RowType(b) /\ tree[num + 1] \in RowType(b)
  BY <1>1
<1>3. t = [tree EXCEPT ![node] = a, ![num] = l, ![num + 1] = r]
  BY <1>1, <1>2 DEF Split, RowType, Parent, Child
<1>4. /\ a.left = num /\ a.right = num + 1 /\ SameRange(a, tree[node])
      /\ SameLinks(l, tree[num]) /\ SameLinks(r, tree[num + 1])
      /\ l.first = tree[node].first /\ l.last = mid /\ r.first = mid /\ r.last = tree[node].last
      /\ l.level = tree[node].level + 1 /\ r.level = tree[node].level + 1
  BY <1>2 DEF RowType, Parent, Child, SameRange, SameLinks
<1>5. tree[node].first \in 0 .. N /\ tree[node].last \in 0 .. N /\ N \in Nat
  BY <1>2, Sizes DEF RowType
<1>6. tree[node].first < mid /\ mid < tree[node].last /\ mid \in 0 .. N
  BY <1>5
<1> HIDE DEF a, l, r, t
<1>7. /\ \A i \in 0 .. n - 1 : i \notin {node, num, num + 1} => t[i] = tree[i]
      /\ t[node] = a /\ t[num] = l /\ t[num + 1] = r
  BY <1>1, <1>3
<1> QED BY <1>4, <1>6, <1>7 DEF SplitStep, t

LEMMA VisitSteps ==
  ASSUME AxesSeparate, NEW n \in Nat, NEW b \in Nat, NEW tree \in [0 .. n - 1 -> RowType(b)],
         NEW m \in [Particles -> Particles], OneToOne(m), NEW node \in 0 .. n - 1, NEW num \in Nat,
         node < num, tree[node].first <= tree[node].last,
         NEW v \in Visits(tree, m, node, num)
  PROVE  OneToOne(v.map) /\ VisitOutcome(n, tree, node, num, v)
<1> DEFINE row == tree[node]
           leaf(newMap) ==
             [tree |-> [tree EXCEPT ![node].left = 0, ![node].right = 0],
              map |-> newMap, num |-> num, children |-> <<>>, fault |-> FALSE]
           split(newMap, mid) ==
             [tree |-> Split(tree, node, num, mid), map |-> newMap,
              num |-> num + 2, children |-> <<num, num + 1>>, fault |-> FALSE]
           visit(newMap, mid) ==
             IF mid = 0 THEN leaf(newMap)
             ELSE IF num + 1 \in DOMAIN tree THEN split(newMap, mid)
             ELSE [leaf(newMap) EXCEPT !.tree = tree, !.fault = TRUE]
<1>1. row.first \in 0 .. N /\ row.last \in 0 .. N /\ row.first <= row.last
  BY DEF RowType
<1>d. DOMAIN tree = 0 .. n - 1
  OBVIOUS
<1>2. CASE ~ TooLarge(row)
  <2>1. v = leaf(m)
    BY <1>2 DEF Visits
  <2>2. Size(row) <= BlockSize
    BY <1>1, <1>2, BuildAssumption DEF TooLarge, Size
  <2>3. LeafStep(n, tree, node, v.tree)
    BY <2>1, <2>2, LeafStepMade
  <2> QED BY <2>1, <2>3 DEF VisitOutcome
<1>3. CASE TooLarge(row)
  <2> DEFINE W(axis) == {visit(SortedMap(m, row.first, row.last, axis), mid) :
                           mid \in Cuts(m, row.first, row.last, axis)}
  <2>1. v \in UNION {W(axis) : axis \in Axes}
    <3>1. Visits(tree, m, node, num) =
            IF TooLarge(row) THEN UNION {W(axis) : axis \in Axes} ELSE {leaf(m)}
      BY DEF Visits
    <3> HIDE DEF leaf, W
    <3> QED BY <3>1, <1>3
  <2>2. PICK axis \in Axes : v \in W(axis)
    <3> HIDE DEF W
    <3> QED BY <2>1
  <2>3. PICK mid \in Cuts(m, row.first, row.last, axis) :
          v = visit(SortedMap(m, row.first, row.last, axis), mid)
    <3> HIDE DEF visit
    <3> QED BY <2>2
  <2> DEFINE newMap == SortedMap(m, row.first, row.last, axis)
  <2>4. row.last - row.first > BlockSize
    BY <1>3 DEF TooLarge, Size
  <2>5. mid \in row.first + 1 .. row.last - 1
    BY <1>1, <2>3, <2>4, CutsInside
  <2>6. OneToOne(newMap)
    BY <1>1, SortedMapOneToOne
  <2> HIDE DEF newMap
  <2>7. mid # 0
    BY <1>1, <2>5
  <2>8. CASE num + 1 \in 0 .. n - 1
    <3>1. v = split(newMap, mid)
      BY <2>3, <2>7, <2>8, <1>d DEF newMap
    <3>2. v.tree = Split(tree, node, num, mid)
      BY <3>1
    <3>3. SplitStep(n, tree, node, num, v.tree)
      BY <2>5, <2>8, <3>2, SplitStepMade
    <3>4. v.map = newMap /\ v.num = num + 2 /\ v.children = NewRows(num) /\ v.fault = FALSE
      BY <3>1 DEF NewRows
    <3> QED BY <2>6, <3>3, <3>4 DEF VisitOutcome
  <2>9. CASE num + 1 \notin 0 .. n - 1
    <3>1. v = [leaf(newMap) EXCEPT !.tree = tree, !.fault = TRUE]
      BY <2>3, <2>7, <2>9, <1>d DEF newMap
    <3>2. v.map = newMap /\ v.tree = tree /\ v.num = num /\ v.children = <<>> /\ v.fault = TRUE
      BY <3>1
    <3> QED BY <2>6, <2>9, <3>2 DEF VisitOutcome
  <2> QED BY <2>8, <2>9
<1> QED BY <1>2, <1>3

-----------------------------------------------------------------------------
(* The shape of a tree under construction: num rows are handed out, the first *)
(* h of them have been visited and the others are in the queue, in order      *)

IsSplit(tree, i) == tree[i].left # 0

\* The children of a row are its two halves.
CutAt(tree, i, l) ==
  /\ tree[i].right = l + 1
  /\ tree[l].first = tree[i].first /\ tree[l].last = tree[l + 1].first
  /\ tree[l + 1].last = tree[i].last
  /\ tree[l].first < tree[l].last /\ tree[l + 1].first < tree[l + 1].last
  /\ tree[l].level = tree[i].level + 1 /\ tree[l + 1].level = tree[i].level + 1

Counted(tree, num, h) ==
  /\ num \in Nat /\ num >= 1 /\ h \in 0 .. num /\ num <= 2 * h + 1
  /\ h > 0 => tree[0].left \in {0, 1}
  /\ num = 2 * h + 1 => \A i \in 0 .. h - 1 : tree[i].left = 2 * i + 1

Visited(tree, num, h) ==
  \A i \in 0 .. h - 1 :
    \/ IsSplit(tree, i) /\ tree[i].left \in i + 1 .. num - 2 /\ CutAt(tree, i, tree[i].left)
    \/ ~IsSplit(tree, i) /\ tree[i].right = 0 /\ Size(tree[i]) <= BlockSize

Numbered(tree, num, h) ==
  /\ \A i, j \in 0 .. h - 1 :
       i < j /\ IsSplit(tree, i) /\ IsSplit(tree, j) => tree[i].left + 2 <= tree[j].left
  /\ \A c \in 1 .. num - 1 : \E i \in 0 .. h - 1 :
       IsSplit(tree, i) /\ (c = tree[i].left \/ c = tree[i].left + 1)

Levelled(tree, num, h) ==
  /\ \A i, j \in 0 .. num - 1 : i <= j => tree[i].level <= tree[j].level
  /\ h < num => \A j \in 0 .. num - 1 : tree[j].level <= tree[h].level + 1

Ranged(tree, num) ==
  \A i \in 0 .. num - 1 :
    /\ tree[0].first <= tree[i].first /\ tree[i].last <= tree[0].last
    /\ i > 0 => tree[i].first < tree[i].last

Beside(row, other) == row.last <= other.first \/ other.last <= row.first
Disjoint(tree, num) ==
  \A i, j \in 0 .. num - 1 :
    i # j /\ tree[i].level = tree[j].level => Beside(tree[i], tree[j])

Shape(tree, num, h) ==
  /\ Counted(tree, num, h) /\ Visited(tree, num, h) /\ Numbered(tree, num, h)
  /\ Levelled(tree, num, h) /\ Ranged(tree, num) /\ Disjoint(tree, num)

LEMMA RowInts ==
  ASSUME NEW b \in Nat, NEW row \in RowType(b)
  PROVE  /\ row.left \in Int /\ row.right \in Int /\ row.first \in Int /\ row.last \in Int
         /\ row.level \in Int /\ row.level >= 0
BY Sizes DEF RowType

LEMMA ShapeAfterLeaf ==
  ASSUME NEW n \in Nat, NEW b \in Nat,
         NEW tree \in [0 .. n - 1 -> RowType(b)], NEW t \in [0 .. n - 1 -> RowType(b)],
         NEW num \in Nat, num <= n, NEW h \in 0 .. num - 1,
         Shape(tree, num, h), LeafStep(n, tree, h, t)
  PROVE  Shape(t, num, h + 1)
<1>0. /\ Counted(tree, num, h) /\ Visited(tree, num, h) /\ Numbered(tree, num, h)
      /\ Levelled(tree, num, h) /\ Ranged(tree, num) /\ Disjoint(tree, num)
  BY DEF Shape
<1>i. /\ \A i \in 0 .. n - 1 : /\ tree[i].left \in Int /\ tree[i].first \in Int
                               /\ tree[i].last \in Int /\ tree[i].level \in Int
      /\ \A i \in 0 .. num - 1 : i \in 0 .. n - 1
  BY RowInts
<1>1. /\ \A i \in 0 .. num - 1 : i # h => t[i] = tree[i]
      /\ t[h].left = 0 /\ t[h].right = 0 /\ Size(tree[h]) <= BlockSize
  BY DEF LeafStep
<1>2. \A i \in 0 .. num - 1 : SameRange(t[i], tree[i])
  BY <1>1 DEF LeafStep, SameRange
<1>3. \A i \in 0 .. h - 1 : t[i] = tree[i]
  BY <1>1
<1>4. Counted(t, num, h + 1)
  BY <1>0, <1>1, <1>3 DEF Counted
<1>5. Visited(t, num, h + 1)
  <2> SUFFICES ASSUME NEW i \in 0 .. h
               PROVE  \/ /\ IsSplit(t, i) /\ t[i].left \in i + 1 .. num - 2
                         /\ CutAt(t, i, t[i].left)
                      \/ ~IsSplit(t, i) /\ t[i].right = 0 /\ Size(t[i]) <= BlockSize
    BY DEF Visited
  <2>1. CASE i = h
    BY <2>1, <1>1, <1>2 DEF IsSplit, Size, SameRange
  <2>2. CASE i < h /\ ~IsSplit(tree, i)
    BY <2>2, <1>0, <1>3 DEF Visited, IsSplit
  <2>3. CASE i < h /\ IsSplit(tree, i)
    <3> DEFINE l == tree[i].left
    <3>1. /\ t[i] = tree[i] /\ l \in i + 1 .. num - 2 /\ CutAt(tree, i, l)
          /\ IsSplit(t, i)
      BY <2>3, <1>0, <1>3 DEF Visited, IsSplit
    <3>2. l \in 0 .. num - 1 /\ l + 1 \in 0 .. num - 1
      BY <3>1
    <3>3. SameRange(t[l], tree[l]) /\ SameRange(t[l + 1], tree[l + 1])
      BY <1>2, <3>2
    <3>4. CutAt(t, i, l)
      <4> HIDE DEF l
      <4> QED BY <3>1, <3>3 DEF CutAt, SameRange
    <3> QED BY <3>1, <3>4
  <2> QED BY <2>1, <2>2, <2>3
<1>6. Numbered(t, num, h + 1)
  BY <1>0, <1>1, <1>3, SMTT(30) DEF Numbered, IsSplit
<1>7. Levelled(t, num, h + 1)
  <2>1. \A i \in 0 .. num - 1 : t[i].level = tree[i].level /\ tree[i].level \in Int
    BY <1>2, <1>i DEF SameRange
  <2>2. \A i, j \in 0 .. num - 1 : i <= j => t[i].level <= t[j].level
    BY <2>1, <1>0 DEF Levelled
  <2>3. ASSUME h + 1 < num, NEW j \in 0 .. num - 1 PROVE t[j].level <= t[h + 1].level + 1
    <3>1. tree[j].level <= tree[h].level + 1
      BY <1>0 DEF Levelled
    <3>2. h + 1 \in 0 .. num - 1
      BY <2>3
    <3>3. tree[h].level <= tree[h + 1].level
      BY <3>2, <1>0 DEF Levelled
    <3> QED BY <2>1, <3>1, <3>2, <3>3
  <2> QED BY <2>2, <2>3 DEF Levelled
<1>8. Ranged(t, num) /\ Disjoint(t, num)
  <2>1. 0 \in 0 .. num - 1
    OBVIOUS
  <2> QED BY <2>1, <1>0, <1>2 DEF Ranged, Disjoint, Beside, SameRange
<1> QED BY <1>4, <1>5, <1>6, <1>7, <1>8 DEF Shape

LEMMA ShapeAfterSplit ==
  ASSUME NEW n \in Nat, NEW b \in Nat,
         NEW tree \in [0 .. n - 1 -> RowType(b)], NEW t \in [0 .. n - 1 -> RowType(b)],
         NEW num \in Nat, NEW h \in 0 .. num - 1,
         Shape(tree, num, h), SplitStep(n, tree, h, num, t)
  PROVE  Shape(t, num + 2, h + 1)
<1>0. /\ Counted(tree, num, h) /\ Visited(tree, num, h) /\ Numbered(tree, num, h)
      /\ Levelled(tree, num, h) /\ Ranged(tree, num) /\ Disjoint(tree, num)
  BY DEF Shape
<1>n. num + 1 \in 0 .. n - 1 /\ num \in 0 .. n - 1
  BY DEF SplitStep
<1>i. /\ \A i \in 0 .. n - 1 : /\ tree[i].left \in Int /\ tree[i].first \in Int
                               /\ tree[i].last \in Int /\ tree[i].level \in Int
      /\ \A i \in 0 .. num - 1 : i \in 0 .. n - 1
  BY <1>n, RowInts
<1>1. /\ \A i \in 0 .. num - 1 : i # h => t[i] = tree[i]
      /\ t[h].left = num /\ t[h].right = num + 1
  BY <1>i DEF SplitStep
<1>2. \A i \in 0 .. num - 1 : SameRange(t[i], tree[i])
  BY <1>1 DEF SplitStep, SameRange
<1>3. \A i \in 0 .. h - 1 : t[i] = tree[i]
  BY <1>1
<1>c. /\ t[num].first = tree[h].first /\ t[num].last = t[num + 1].first
      /\ t[num + 1].last = tree[h].last
      /\ tree[h].first < t[num].last /\ t[num].last < tree[h].last
      /\ t[num].level = tree[h].level + 1 /\ t[num + 1].level = tree[h].level + 1
      /\ t[num].last \in Int
  BY Sizes DEF SplitStep
<1>h. tree[h].first \in Int /\ tree[h].last \in Int /\ tree[h].level \in Int
  BY <1>i
<1>d. /\ \A c \in {num, num + 1} :
           /\ tree[h].first <= t[c].first /\ t[c].last <= tree[h].last /\ t[c].first < t[c].last
           /\ t[c].first \in Int /\ t[c].last \in Int /\ t[c].level = tree[h].level + 1
      /\ \A j \in 0 .. num + 1 : j \in 0 .. num - 1 \/ j \in {num, num + 1}
  <2>1. /\ tree[h].first <= t[num].first /\ t[num].last <= tree[h].last /\ t[num].first < t[num].last
        /\ t[num].first \in Int /\ t[num].last \in Int /\ t[num].level = tree[h].level + 1
    BY <1>c, <1>h
  <2>2. /\ tree[h].first <= t[num + 1].first /\ t[num + 1].last <= tree[h].last
        /\ t[num + 1].first < t[num + 1].last
        /\ t[num + 1].first \in Int /\ t[num + 1].last \in Int
        /\ t[num + 1].level = tree[h].level + 1
    BY <1>c, <1>h
  <2> QED BY <2>1, <2>2
<1>4. Counted(t, num + 2, h + 1)
  <2>1. num + 2 \in Nat /\ num + 2 >= 1 /\ h + 1 \in 0 .. num + 2 /\ num + 2 <= 2 * (h + 1) + 1
    BY <1>0 DEF Counted
  <2>2. t[0].left \in {0, 1}
    <3>1. CASE h = 0
      BY <3>1, <1>0, <1>1 DEF Counted
    <3>2. CASE h > 0
      BY <3>2, <1>0, <1>3 DEF Counted
    <3> QED BY <3>1, <3>2
  <2>3. ASSUME num + 2 = 2 * (h + 1) + 1, NEW i \in 0 .. h
        PROVE  t[i].left = 2 * i + 1
    <3>1. CASE i = h
      BY <3>1, <2>3, <1>1
    <3>2. CASE i < h
      BY <3>2, <2>3, <1>0, <1>3 DEF Counted
    <3> QED BY <3>1, <3>2
  <2> QED BY <2>1, <2>2, <2>3 DEF Counted
<1>5. Visited(t, num + 2, h + 1)
  <2> SUFFICES ASSUME NEW i \in 0 .. h
               PROVE  \/ /\ IsSplit(t, i) /\ t[i].left \in i + 1 .. num
                         /\ CutAt(t, i, t[i].left)
                      \/ ~IsSplit(t, i) /\ t[i].right = 0 /\ Size(t[i]) <= BlockSize
    BY DEF Visited
  <2>1. CASE i = h
    <3>1. IsSplit(t, i) /\ t[i].left \in i + 1 .. num
      BY <2>1, <1>1 DEF IsSplit
    <3>2. SameRange(t[h], tree[h])
      BY <1>2
    <3>3. CutAt(t, h, num)
      BY <1>1, <1>c, <3>2 DEF CutAt, SameRange
    <3> QED BY <2>1, <3>1, <3>3, <1>1
  <2>2. CASE i < h /\ ~IsSplit(tree, i)
    BY <2>2, <1>0, <1>3 DEF Visited, IsSplit
  <2>3. CASE i < h /\ IsSplit(tree, i)
    <3> DEFINE l == tree[i].left
    <3>1. /\ t[i] = tree[i] /\ l \in i + 1 .. num - 2 /\ CutAt(tree, i, l)
          /\ IsSplit(t, i)
      BY <2>3, <1>0, <1>3 DEF Visited, IsSplit
    <3>2. l \in 0 .. num - 1 /\ l + 1 \in 0 .. num - 1 /\ l \in i + 1 .. num
      BY <3>1
    <3>3. SameRange(t[l], tree[l]) /\ SameRange(t[l + 1], tree[l + 1])
      BY <1>2, <3>2
    <3>4. CutAt(t, i, l)
      <4> HIDE DEF l
      <4> QED BY <3>1, <3>3 DEF CutAt, SameRange
    <3> QED BY <3>1, <3>2, <3>4
  <2> QED BY <2>1, <2>2, <2>3
<1>6. Numbered(t, num + 2, h + 1)
  <2>1. ASSUME NEW i \in 0 .. h, NEW j \in 0 .. h, i < j, IsSplit(t, i), IsSplit(t, j)
        PROVE  t[i].left + 2 <= t[j].left
    <3>1. t[i] = tree[i] /\ i \in 0 .. h - 1 /\ IsSplit(tree, i)
      BY <2>1, <1>3 DEF IsSplit
    <3>2. CASE j = h
      <4>1. tree[i].left \in i + 1 .. num - 2
        BY <3>1, <1>0 DEF Visited
      <4> QED BY <3>1, <3>2, <4>1, <1>1
    <3>3. CASE j < h
      BY <3>1, <3>3, <2>1, <1>0, <1>3 DEF Numbered, IsSplit
    <3> QED BY <3>2, <3>3
  <2>2. ASSUME NEW c \in 1 .. num + 1
        PROVE  \E i \in 0 .. h : IsSplit(t, i) /\ (c = t[i].left \/ c = t[i].left + 1)
    <3>1. CASE c < num
      <4>1. PICK i \in 0 .. h - 1 : IsSplit(tree, i) /\ (c = tree[i].left \/ c = tree[i].left + 1)
        BY <3>1, <1>0 DEF Numbered
      <4> QED BY <4>1, <1>3 DEF IsSplit
    <3>2. CASE c >= num
      <4>1. h \in 0 .. h /\ IsSplit(t, h) /\ (c = t[h].left \/ c = t[h].left + 1)
        BY <3>2, <1>1 DEF IsSplit
      <4> QED BY <4>1
    <3> QED BY <3>1, <3>2
  <2> QED BY <2>1, <2>2 DEF Numbered
<1>l. \A i \in 0 .. num - 1 : t[i].level = tree[i].level /\ tree[i].level \in Int
  BY <1>2, <1>i DEF SameRange
<1>7. Levelled(t, num + 2, h + 1)
  <2>1. \A i \in 0 .. num - 1 : tree[i].level <= tree[h].level + 1
    BY <1>0 DEF Levelled
  <2>2. ASSUME NEW i \in 0 .. num + 1, NEW j \in 0 .. num + 1, i <= j
        PROVE  t[i].level <= t[j].level
    <3>1. CASE j < num
      BY <3>1, <2>2, <1>0, <1>l DEF Levelled
    <3>2. CASE j \in {num, num + 1} /\ i < num
      <4>1. i \in 0 .. num - 1
        BY <3>2
      <4>2. t[i].level <= tree[h].level + 1
        BY <4>1, <2>1, <1>l
      <4>3. t[j].level = tree[h].level + 1
        BY <3>2, <1>d
      <4> QED BY <4>2, <4>3
    <3>3. CASE i \in {num, num + 1}
      <4>1. j \in {num, num + 1}
        BY <3>3, <2>2
      <4>2. t[i].level = tree[h].level + 1 /\ t[j].level = tree[h].level + 1
        BY <3>3, <4>1, <1>d
      <4> QED BY <4>2, <1>h
    <3> QED BY <3>1, <3>2, <3>3, <1>d
  <2>3. ASSUME NEW j \in 0 .. num + 1
        PROVE  t[j].level <= t[h + 1].level + 1
    <3>1. t[j].level <= tree[h].level + 1 /\ t[j].level \in Int
      <4>1. CASE j < num
        BY <4>1, <2>1, <1>l
      <4>2. CASE j \in {num, num + 1}
        BY <4>2, <1>d, <1>h, SMTT(30)
      <4> QED BY <4>1, <4>2, <1>d
    <3>2. t[h + 1].level >= tree[h].level /\ t[h + 1].level \in Int
      <4>1. CASE h + 1 < num
        BY <4>1, <1>0, <1>l DEF Levelled
      <4>2. CASE h + 1 = num
        BY <4>2, <1>c, <1>l
      <4> QED BY <4>1, <4>2
    <3> QED BY <3>1, <3>2, <1>l, SMTT(30)
  <2> QED BY <2>2, <2>3 DEF Levelled
<1>8. Ranged(t, num + 2)
  <2> SUFFICES ASSUME NEW i \in 0 .. num + 1
               PROVE  /\ t[0].first <= t[i].first /\ t[i].last <= t[0].last
                      /\ i > 0 => t[i].first < t[i].last
    BY DEF Ranged
  <2>1. t[0].first = tree[0].first /\ t[0].last = tree[0].last
    BY <1>2 DEF SameRange
  <2>2. CASE i < num
    BY <2>1, <2>2, <1>0, <1>2 DEF Ranged, SameRange
  <2>3. CASE i \in {num, num + 1}
    <3>1. tree[0].first <= tree[h].first /\ tree[h].last <= tree[0].last
      BY <1>0 DEF Ranged
    <3>2. /\ tree[h].first <= t[i].first /\ t[i].last <= tree[h].last /\ t[i].first < t[i].last
          /\ t[i].first \in Int /\ t[i].last \in Int
      BY <2>3, <1>d
    <3>3. tree[0].first \in Int /\ tree[0].last \in Int /\ tree[h].first \in Int /\ tree[h].last \in Int
      BY <1>i
    <3> QED BY <2>1, <3>1, <3>2, <3>3
  <2> QED BY <2>2, <2>3, <1>d
<1>9. Disjoint(t, num + 2)
  <2>1. ASSUME NEW j \in 0 .. num - 1, tree[j].level = tree[h].level + 1
        PROVE  Beside(tree[j], tree[h])
    <3>1. j > 0
      <4>1. tree[0].level <= tree[h].level
        BY <1>0 DEF Levelled
      <4> QED BY <4>1, <2>1, <1>l
    <3>2. PICK p \in 0 .. h - 1 : IsSplit(tree, p) /\ (j = tree[p].left \/ j = tree[p].left + 1)
      BY <3>1, <1>0 DEF Numbered
    <3>3. tree[p].left \in p + 1 .. num - 2 /\ CutAt(tree, p, tree[p].left)
      BY <3>2, <1>0 DEF Visited
    <3>4. /\ tree[p].level + 1 = tree[j].level
          /\ tree[p].first <= tree[j].first /\ tree[j].last <= tree[p].last
      <4> DEFINE l == tree[p].left
      <4>1. l \in 0 .. n - 1 /\ l + 1 \in 0 .. n - 1 /\ p \in 0 .. n - 1
        BY <3>3, <1>n
      <4> HIDE DEF l
      <4>2. CutAt(tree, p, l) /\ (j = l \/ j = l + 1)
        BY <3>2, <3>3 DEF l
      <4> QED BY <4>1, <4>2, <1>i DEF CutAt
    <3>5. Beside(tree[p], tree[h])
      <4>1. tree[p].level = tree[h].level /\ p # h /\ p \in 0 .. num - 1
        BY <3>4, <2>1, <1>l, SMTT(30)
      <4> QED BY <4>1, <1>0 DEF Disjoint
    <3>6. p \in 0 .. n - 1 /\ j \in 0 .. n - 1
      BY <1>n
    <3>7. /\ tree[p].first \in Int /\ tree[p].last \in Int
          /\ tree[j].first \in Int /\ tree[j].last \in Int
      BY <3>6, <1>i
    <3> QED BY <3>4, <3>5, <3>7, <1>h, SMTT(30) DEF Beside
  <2>2. ASSUME NEW c \in {num, num + 1}, NEW j \in 0 .. num - 1, t[j].level = t[c].level
        PROVE  Beside(t[j], t[c])
    <3>1. tree[j].level = tree[h].level + 1
      BY <2>2, <1>c, <1>l
    <3>2. Beside(tree[j], tree[h])
      BY <2>1, <3>1
    <3>3. tree[h].first <= t[c].first /\ t[c].last <= tree[h].last /\ t[c].first \in Int /\ t[c].last \in Int
      BY <1>d
    <3>4. t[j].first = tree[j].first /\ t[j].last = tree[j].last
      BY <1>2 DEF SameRange
    <3>5. /\ tree[j].first \in Int /\ tree[j].last \in Int
          /\ tree[h].first \in Int /\ tree[h].last \in Int
      BY <1>i
    <3> QED BY <3>2, <3>3, <3>4, <3>5 DEF Beside
  <2>3. Beside(t[num], t[num + 1])
    BY <1>c DEF Beside
  <2> SUFFICES ASSUME NEW i \in 0 .. num + 1, NEW j \in 0 .. num + 1, i < j,
                      t[i].level = t[j].level
               PROVE  Beside(t[i], t[j])
    BY DEF Disjoint, Beside
  <2>4. CASE j < num
    BY <2>4, <1>0, <1>2 DEF Disjoint, Beside, SameRange
  <2>5. CASE j \in {num, num + 1} /\ i \in 0 .. num - 1
    BY <2>2, <2>5
  <2>6. CASE i \in {num, num + 1}
    <3>1. i = num /\ j = num + 1
      BY <2>6
    <3> QED BY <2>3, <3>1
  <2> QED BY <2>4, <2>5, <2>6, <1>d
<1> QED BY <1>4, <1>5, <1>6, <1>7, <1>8, <1>9 DEF Shape

LEMMA ShapeOfRoot ==
  ASSUME NEW n \in Nat, n >= 1, NEW b \in Nat, NEW tree \in [0 .. n - 1 -> RowType(b)]
  PROVE  Shape(tree, 1, 0)
<1>1. tree[0].first \in Int /\ tree[0].last \in Int /\ tree[0].level \in Int
  BY RowInts
<1>2. Counted(tree, 1, 0) /\ Visited(tree, 1, 0) /\ Numbered(tree, 1, 0)
  BY DEF Counted, Visited, Numbered
<1>3. Levelled(tree, 1, 0) /\ Ranged(tree, 1) /\ Disjoint(tree, 1)
  BY <1>1 DEF Levelled, Ranged, Disjoint
<1> QED BY <1>2, <1>3 DEF Shape

\* The queue holds the rows from h to m in order.
Run(q, h, m) ==
  h \in 0 .. m /\ Len(q) = m - h /\ \A k \in 1 .. m - h : q[k] = h + k - 1

LEMMA RunNext ==
  ASSUME NEW A, NEW q \in Seq(A), q # <<>>, NEW m \in Nat, m \in A, m + 1 \in A,
         NEW h, Run(q, h, m)
  PROVE  /\ Head(q) = h /\ h \in 0 .. m - 1
         /\ Run(Enqueue(q, <<>>), h + 1, m)
         /\ Run(Enqueue(q, NewRows(m)), h + 1, m + 2)
<1> DEFINE t == Tail(q)
           size == m - (h + 1)
<1>1. h \in Int /\ h >= 0 /\ h <= m /\ Len(q) = m - h
      /\ \A k \in 1 .. m - h : q[k] = h + k - 1
  BY DEF Run
<1>2. h < m /\ Head(q) = h /\ t \in Seq(A)
  <2>1. Len(q) > 0 /\ Head(q) = q[1]
    OBVIOUS
  <2> QED BY <1>1, <2>1
<1>3. size \in Nat /\ Len(t) = size /\ \A k \in 1 .. size : t[k] = h + k
  <2>1. Len(t) = Len(q) - 1 /\ \A k \in 1 .. Len(q) - 1 : t[k] = q[k + 1]
    OBVIOUS
  <2>2. size \in Nat /\ Len(q) - 1 = size
    BY <1>1, <1>2
  <2>3. ASSUME NEW k \in 1 .. size PROVE t[k] = h + k
    <3>1. k \in 1 .. Len(q) - 1 /\ k + 1 \in 1 .. m - h
      BY <1>1, <1>2, <2>2
    <3>2. t[k] = q[k + 1] /\ q[k + 1] = h + (k + 1) - 1
      BY <1>1, <2>1, <3>1
    <3> QED BY <1>1, <3>2
  <2> QED BY <2>1, <2>2, <2>3
<1> HIDE DEF t
<1>4. Run(Enqueue(q, <<>>), h + 1, m)
  <2>1. Enqueue(q, <<>>) = t
    BY <1>2 DEF Enqueue, t
  <2>2. h + 1 \in 0 .. m /\ \A k \in 1 .. size : t[k] = (h + 1) + k - 1
    BY <1>1, <1>2, <1>3
  <2> QED BY <1>3, <2>1, <2>2 DEF Run
<1>5. Run(Enqueue(q, NewRows(m)), h + 1, m + 2)
  <2> DEFINE u == NewRows(m)
             p == t \o u
  <2>1. u \in Seq(A) /\ Len(u) = 2 /\ u[1] = m /\ u[2] = m + 1
    BY DEF NewRows
  <2>2. Enqueue(q, NewRows(m)) = p
    BY DEF Enqueue, t
  <2> HIDE DEF u
  <2>3. /\ Len(p) = size + 2
        /\ \A k \in 1 .. size : p[k] = t[k]
        /\ \A k \in 1 .. 2 : p[size + k] = u[k]
    <3>1. /\ Len(t \o u) = Len(t) + Len(u)
          /\ \A k \in 1 .. Len(t) : (t \o u)[k] = t[k]
          /\ \A k \in 1 .. Len(u) : (t \o u)[Len(t) + k] = u[k]
      <4> HIDE DEF size, p
      <4>1. t \in Seq(A) /\ u \in Seq(A)
        BY <1>2, <2>1
      <4> QED BY <4>1
    <3> HIDE DEF size, p
    <3> QED BY <1>3, <2>1, <3>1 DEF p
  <2> HIDE DEF p
  <2>4. (m + 2) - (h + 1) = size + 2 /\ h + 1 \in 0 .. m + 2
    BY <1>1, <1>2
  <2>5. p[size + 1] = m /\ p[size + 2] = m + 1
    BY <2>1, <2>3
  <2>6. ASSUME NEW k \in 1 .. size + 2 PROVE p[k] = (h + 1) + k - 1
    <3>1. k \in 1 .. size \/ k = size + 1 \/ k = size + 2
      BY <1>3
    <3>2. k \in 1 .. size => p[k] = h + k
      BY <1>3, <2>3
    <3>3. m = (h + 1) + size
      BY <1>1
    <3> HIDE DEF size
    <3> QED BY <3>1, <3>2, <3>3, <2>5, <1>1, <1>3
  <2>7. Run(p, h + 1, m + 2)
    <3> HIDE DEF size
    <3> QED BY <2>3, <2>4, <2>6 DEF Run
  <2> QED BY <2>2, <2>7
<1> QED BY <1>1, <1>2, <1>4, <1>5

-----------------------------------------------------------------------------
(* What each phase makes of the trees *)

\* The top of the tree: a row is at least as far down as its number demands.
TopRows(tree, num, h) ==
  /\ Shape(tree, num, h) /\ num <= InitialNodeSize
  /\ tree[0].first = 0 /\ tree[0].last = N /\ tree[0].level = 0
  /\ \A i \in h .. InitialNodeSize - 1 : tree[i].left = 0
  /\ \A i \in num .. InitialNodeSize - 1 : tree[i].level = 0
  /\ \A i \in 0 .. num - 1 : i + 2 <= Power[tree[i].level + 1]

\* Rank 0 has visited the first h rows, and rows up to m were queued: those above
\* InitialLevel, from which on none is queued.
TopBuilt(h, m) ==
  /\ TopRows(initTree[0], newNodeNum[0], h)
  /\ Run(queue[0], h, m) /\ m \in 1 .. newNodeNum[0]
  /\ \A i \in 1 .. m - 1 : initTree[0][i].level < InitialLevel
  /\ m < newNodeNum[0] => \A i \in h .. m - 1 : initTree[0][i].level + 1 >= InitialLevel

TopDone ==
  \E num, h \in Nat :
    /\ TopRows(initTree[0], num, h) /\ h >= 1
    /\ \A i \in 1 .. h - 1 : initTree[0][i].level < InitialLevel

\* A working rank's tree, of num rows, under its start node.
LocalRows(r, num, h) ==
  Shape(localTree[r], num, h) /\ SameRange(localTree[r][0], initTree[0][StartNode(r)])

LocalBuilt(r) ==
  IF r < MaxWorkSize
  THEN \E h \in Nat : Run(queue[r], h, newNodeNum[r]) /\ LocalRows(r, newNodeNum[r], h)
  ELSE queue[r] = <<>> /\ newNodeNum[r] = 1

LocalDone(r) ==
  IF r < MaxWorkSize THEN LocalRows(r, newNodeNum[r] + 1, newNodeNum[r] + 1)
  ELSE newNodeNum[r] = 0

GrowInv ==
  /\ pc[0] = "initial" => OneToOne(map[0]) /\ \E h, m \in Nat : TopBuilt(h, m)
  /\ Started => TopDone
  /\ Phase({"local", "fault"}) =>
       \A r \in Ranks : OneToOne(map[r]) /\ (pc[r] = "local" => LocalBuilt(r))
  /\ Phase({"merge", "done"}) => \A r \in Ranks : LocalDone(r)

LEMMA PowersMonotone ==
  ASSUME NEW i \in 0 .. P + 2, NEW j \in 0 .. P + 2, i <= j
  PROVE  Power[i] <= Power[j]
<1> DEFINE A == {k \in 0 .. P + 2 : k >= i /\ ~ (Power[i] <= Power[k])}
<1>0. P \in Nat
  BY BuildAssumption
<1> SUFFICES ASSUME A # {} PROVE FALSE
  BY <1>0
<1>1. PICK k \in A : \A l \in A : k <= l
  <2> A \in SUBSET Nat
    BY <1>0
  <2> HIDE DEF A
  <2> QED BY LeastNumber
<1>2. k > i
  BY <1>0, <1>1, PowersGrow
<1>3. k - 1 \in 0 .. P + 2 /\ k - 1 \notin A /\ k \in 1 .. P + 2
  BY <1>0, <1>1, <1>2
<1>4. Power[i] <= Power[k - 1]
  BY <1>0, <1>1, <1>2, <1>3
<1>5. Power[k] = 2 * Power[k - 1] /\ Power[k - 1] \in Nat /\ Power[i] \in Nat
  BY <1>3, Powers, PowersGrow
<1>6. Power[i] <= Power[k]
  BY <1>4, <1>5
<1> QED BY <1>1, <1>6

LEMMA InitGrow ==
  ASSUME Init
  PROVE  GrowInv
<1>s. InitialNodeSize \in Nat /\ InitialNodeSize >= 3 /\ N \in Nat /\ 0 \in Ranks
  BY Sizes DEF Ranks
<1>0. BuildInv /\ pc[0] = "initial"
  BY <1>s, BuildInit DEF Init
<1>1. ~Started /\ ~Phase({"local", "fault"}) /\ ~Phase({"merge", "done"})
  BY <1>0, <1>s DEF Started, Phase
<1>2. OneToOne(map[0])
  BY <1>s DEF Init, OneToOne
<1> DEFINE tree == initTree[0]
<1>3. tree \in [0 .. InitialNodeSize - 1 -> RowType(InitialNodeSize)]
  BY <1>0, <1>s DEF BuildInv, TypeOK
<1>4. /\ tree[0].first = 0 /\ tree[0].last = N
      /\ \A i \in 0 .. InitialNodeSize - 1 : tree[i].left = 0 /\ tree[i].level = 0
  BY <1>s DEF Init, NullRow
<1>5. newNodeNum[0] = 1 /\ queue[0] = <<0>>
  BY <1>s DEF Init
<1>6. Shape(tree, 1, 0)
  BY <1>3, <1>s, ShapeOfRoot
<1>7. Power[1] = 2
  <2>1. 1 \in 1 .. P + 2
    BY Sizes
  <2> QED BY <2>1, Powers
<1>8. TopRows(tree, 1, 0)
  <2>1. \A i \in 0 .. 0 : i + 2 <= Power[tree[i].level + 1]
    <3>1. tree[0].level + 1 = 1
      BY <1>4, <1>s
    <3> QED BY <1>7, <3>1
  <2> HIDE DEF tree
  <2> QED BY <1>4, <1>6, <1>s, <2>1 DEF TopRows
<1>9. Run(queue[0], 0, 1)
  BY <1>5 DEF Run
<1>10. TopBuilt(0, 1)
  <2> HIDE DEF tree
  <2> QED BY <1>5, <1>8, <1>9 DEF TopBuilt, tree
<1> QED BY <1>1, <1>2, <1>10 DEF GrowInv

LEMMA InitialSplitTop ==
  ASSUME AxesSeparate, BuildInv, GrowInv, InitialSplit
  PROVE  OneToOne(map[0])' /\ \E h, m \in Nat : TopBuilt(h, m)'
<1> DEFINE S == InitialNodeSize
           A == 0 .. N + S
           tree == initTree[0]
           num == newNodeNum[0]
           q == queue[0]
<1>s. /\ S \in Nat /\ S = 4 * MaxWorkSize - 1 /\ N \in Nat /\ N >= 1 /\ 0 \in Ranks
      /\ InitialLevel \in Nat /\ P \in Nat /\ InitialLevel <= P
      /\ MaxWorkSize = Power[InitialLevel] /\ MaxWorkSize \in Nat /\ MaxWorkSize >= 1
  BY LevelSizes DEF Ranks
<1>0. TypeOK /\ TopInv /\ pc[0] = "initial" /\ q # <<>>
  BY DEF BuildInv, InitialSplit
<1>1. PICK v \in Visits(tree, map[0], Head(q), num) :
       /\ initTree' = [initTree EXCEPT ![0] = v.tree]
       /\ map' = [map EXCEPT ![0] = v.map]
       /\ newNodeNum' = [newNodeNum EXCEPT ![0] = v.num]
       /\ queue' = [queue EXCEPT ![0] =
            Enqueue(@, IF v.children # <<>> /\ v.tree[Head(v.children)].level < InitialLevel
                       THEN v.children ELSE <<>>)]
  BY DEF InitialSplit
<1>2. /\ initTree \in [Ranks -> [0 .. S - 1 -> RowType(S)]]
      /\ map \in [Ranks -> [Particles -> Particles]]
      /\ newNodeNum \in [Ranks -> A] /\ queue \in [Ranks -> Seq(A)]
  BY <1>0 DEF TypeOK
<1>3. PICK h \in Nat, m \in Nat : TopBuilt(h, m)
  BY <1>0 DEF GrowInv
<1>4. /\ TopRows(tree, num, h)
      /\ Run(q, h, m) /\ m \in 1 .. num
      /\ \A i \in 1 .. m - 1 : tree[i].level < InitialLevel
      /\ m < num => \A i \in h .. m - 1 : tree[i].level + 1 >= InitialLevel
  BY <1>3 DEF TopBuilt
<1>5. num \in 1 .. S
  BY <1>0 DEF TopInv
<1>6. tree \in [0 .. S - 1 -> RowType(S)] /\ map[0] \in [Particles -> Particles] /\ q \in Seq(A)
  BY <1>2, <1>s
<1>a. m \in A /\ m + 1 \in A /\ num \in A /\ num + 1 \in A
  <2>1. m \in 1 .. num
    BY <1>4
  <2> HIDE DEF num, S
  <2> QED BY <2>1, <1>5, <1>s
<1>b. q \in Seq(A) /\ q # <<>>
  BY <1>0, <1>6
<1>7. Head(q) = h /\ h \in 0 .. m - 1
  <2>1. Run(q, h, m)
    BY <1>4
  <2> HIDE DEF A, q
  <2> QED BY <1>a, <1>b, <2>1, RunNext
<1>8. h < num /\ h \in 0 .. S - 1 /\ h \in 0 .. num - 1
  BY <1>4, <1>5, <1>7, <1>s
<1>9. tree[h].first <= tree[h].last /\ tree[h].level \in Nat
  <2>1. tree[h].level \in Int /\ tree[h].level >= 0
    BY <1>6, <1>8, <1>s, RowInts
  <2> QED BY <2>1, <1>0, <1>8, <1>s DEF TopInv
<1>10. OneToOne(v.map) /\ VisitOutcome(S, tree, h, num, v)
  <2>1. OneToOne(map[0])
    BY <1>0 DEF GrowInv
  <2>2. v \in Visits(tree, map[0], h, num)
    BY <1>7
  <2>3. tree \in [0 .. S - 1 -> RowType(S)] /\ map[0] \in [Particles -> Particles]
    BY <1>6
  <2>4. tree[h].first <= tree[h].last
    BY <1>9
  <2>5. num \in Nat /\ h < num /\ h \in 0 .. S - 1 /\ S \in Nat
    <3> HIDE DEF num, S
    <3> QED BY <1>5, <1>8, <1>s
  <2> HIDE DEF tree, num, S
  <2> QED BY <2>1, <2>2, <2>3, <2>4, <2>5, VisitSteps
<1>11. v.tree \in [0 .. S - 1 -> RowType(S)] /\ initTree'[0] = v.tree /\ newNodeNum'[0] = v.num
       /\ map'[0] = v.map
       /\ queue'[0] = Enqueue(q, IF v.children # <<>> /\ v.tree[Head(v.children)].level < InitialLevel
                                 THEN v.children ELSE <<>>)
  <2>1. initTree'[0] = v.tree /\ newNodeNum'[0] = v.num /\ map'[0] = v.map
        /\ queue'[0] = Enqueue(q, IF v.children # <<>> /\ v.tree[Head(v.children)].level < InitialLevel
                                  THEN v.children ELSE <<>>)
    BY <1>1, <1>2, <1>s
  <2>2. BuildInv'
    BY InitialSplitBuild
  <2>3. initTree'[0] \in [0 .. S - 1 -> RowType(S)]
    BY <2>2, <1>s DEF BuildInv, TypeOK
  <2> QED BY <2>1, <2>3
\* The row's number bounds the number of rows, so that there is room.
<1>12. num <= 2 * h + 1 /\ h + 2 <= Power[tree[h].level + 1]
  <2>1. Counted(tree, num, h)
    BY <1>4 DEF TopRows, Shape
  <2> QED BY <2>1, <1>4, <1>8 DEF TopRows, Counted
<1>13. tree[h].level + 1 <= InitialLevel \/ h = 0
  BY <1>4, <1>7, <1>9, <1>s
<1>14. num + 1 <= S - 1
  <2>1. CASE h = 0
    BY <2>1, <1>12, <1>s, <1>5
  <2>2. CASE tree[h].level + 1 <= InitialLevel
    <3>1. tree[h].level + 1 \in 0 .. P + 2 /\ InitialLevel \in 0 .. P + 2
      BY <2>2, <1>9, <1>s
    <3>2. Power[tree[h].level + 1] <= MaxWorkSize /\ Power[tree[h].level + 1] \in Nat
      BY <3>1, <2>2, <1>s, PowersMonotone, PowersGrow
    <3> QED BY <3>2, <1>12, <1>5, <1>8, <1>s
  <2> QED BY <1>13, <2>1, <2>2
<1>15. num + 1 \in 0 .. S - 1
  BY <1>14, <1>5, <1>s
<1> HIDE DEF tree, num, q, S, A
<1>16. CASE LeafStep(S, tree, h, v.tree) /\ v.num = num /\ v.children = <<>>
  <2>1. queue'[0] = Enqueue(q, <<>>)
    BY <1>11, <1>16
  <2>2. Run(queue'[0], h + 1, m)
    <3> QED BY <2>1, <1>a, <1>b, <1>4, RunNext
  <2>3. Shape(v.tree, num, h + 1)
    <3>1. Shape(tree, num, h) /\ num <= S /\ num \in Nat
      BY <1>4, <1>5 DEF TopRows, S
    <3> QED BY <3>1, <1>6, <1>8, <1>11, <1>16, <1>s, ShapeAfterLeaf
  <2>4. \A i \in 0 .. S - 1 : SameRange(v.tree[i], tree[i]) /\ (i # h => v.tree[i] = tree[i])
    BY <1>16 DEF LeafStep, SameRange
  <2>5. TopRows(v.tree, num, h + 1)
    <3>1. SameRange(v.tree[0], tree[0])
      BY <2>4, <1>s
    <3>2. \A i \in 0 .. num - 1 : i \in 0 .. S - 1
      BY <1>5, <1>s
    <3>3. \A i \in num .. S - 1 : i \in 0 .. S - 1
      BY <1>5, <1>s
    <3>4. \A i \in h + 1 .. S - 1 : i \in 0 .. S - 1 /\ i \in h .. S - 1 /\ i # h
      BY <1>8, <1>s
    <3> QED BY <1>4, <2>3, <2>4, <3>1, <3>2, <3>3, <3>4 DEF TopRows, SameRange, S
  <2>6. \A i \in 0 .. m - 1 : i \in 0 .. S - 1
    BY <1>4, <1>5, <1>s
  <2>7. \A i \in 1 .. m - 1 : v.tree[i].level < InitialLevel
    BY <1>4, <2>4, <2>6 DEF SameRange
  <2>8. m < num => \A i \in h + 1 .. m - 1 : v.tree[i].level + 1 >= InitialLevel
    <3>1. \A i \in h + 1 .. m - 1 : i \in h .. m - 1 /\ i \in 0 .. m - 1
      BY <1>7, <1>4, <1>5, <1>s
    <3> QED BY <3>1, <1>4, <2>4, <2>6 DEF SameRange
  <2>9. TopBuilt(h + 1, m)'
    BY <1>4, <1>11, <1>16, <2>2, <2>5, <2>7, <2>8 DEF TopBuilt
  <2> QED BY <1>10, <1>11, <2>9
<1>17. CASE SplitStep(S, tree, h, num, v.tree) /\ v.num = num + 2 /\ v.children = NewRows(num)
  <2>1. Shape(v.tree, num + 2, h + 1)
    <3>1. Shape(tree, num, h) /\ num \in Nat
      BY <1>4, <1>5 DEF TopRows
    <3> QED BY <3>1, <1>6, <1>8, <1>11, <1>17, <1>s, ShapeAfterSplit
  <2>2. \A i \in 0 .. num - 1 : SameRange(v.tree[i], tree[i])
    <3>1. \A i \in 0 .. num - 1 : i \in 0 .. S - 1 /\ (i # h => i \notin {h, num, num + 1})
      BY <1>5, <1>s
    <3> QED BY <3>1, <1>17 DEF SplitStep, SameRange
  <2>3. \A i \in num + 2 .. S - 1 : v.tree[i] = tree[i] /\ i \in num .. S - 1
    <3>1. \A i \in num + 2 .. S - 1 : /\ i \in 0 .. S - 1 /\ i \in num .. S - 1
                                      /\ i \notin {h, num, num + 1}
      BY <1>5, <1>8, <1>s
    <3> QED BY <3>1, <1>17 DEF SplitStep
  <2>4. /\ v.tree[num].level = tree[h].level + 1 /\ v.tree[num + 1].level = tree[h].level + 1
        /\ v.tree[num].left = tree[num].left /\ v.tree[num + 1].left = tree[num + 1].left
    BY <1>17 DEF SplitStep, SameLinks
  <2>5. \A i \in h + 1 .. S - 1 : v.tree[i].left = 0
    <3> TAKE i \in h + 1 .. S - 1
    <3>1. i \in 0 .. S - 1 /\ i \in h .. S - 1 /\ i # h
      BY <1>8, <1>s
    <3>2. tree[i].left = 0
      BY <3>1, <1>4 DEF TopRows, S
    <3>3. CASE i \in {num, num + 1}
      BY <3>2, <3>3, <2>4
    <3>4. CASE i \notin {num, num + 1}
      BY <3>1, <3>2, <3>4, <1>17 DEF SplitStep
    <3> QED BY <3>3, <3>4
  <2>6. \A i \in 0 .. num + 1 : i + 2 <= Power[v.tree[i].level + 1]
    <3> TAKE i \in 0 .. num + 1
    <3>1. CASE i \in 0 .. num - 1
      BY <3>1, <1>4, <2>2 DEF TopRows, SameRange
    <3>2. CASE i \in {num, num + 1}
      <4> DEFINE l == tree[h].level
      <4>1. v.tree[i].level = l + 1
        BY <3>2, <2>4
      <4>2. l + 2 \in 1 .. P + 2 /\ (l + 2) - 1 = l + 1 /\ l + 1 \in 0 .. P + 2
        <5>1. l <= InitialLevel
          <6>1. CASE h = 0
            BY <6>1, <1>4, <1>s DEF TopRows
          <6>2. CASE l + 1 <= InitialLevel
            BY <6>2, <1>9, <1>s
          <6> QED BY <1>13, <6>1, <6>2
        <5> QED BY <5>1, <1>9, <1>s
      <4>3. Power[l + 2] = 2 * Power[l + 1] /\ Power[l + 1] \in Nat
        BY <4>2, Powers, PowersGrow
      <4>4. h + 2 <= Power[l + 1] /\ num <= 2 * h + 1
        BY <1>12
      <4>5. i <= num + 1 /\ i \in Int /\ num \in Int /\ h \in Int
        BY <3>2, <1>5, <1>8, <1>s
      <4>6. (l + 1) + 1 = l + 2
        BY <1>9
      <4> HIDE DEF l
      <4> QED BY <4>1, <4>3, <4>4, <4>5, <4>6
    <3>3. i \in 0 .. num - 1 \/ i \in {num, num + 1}
      BY <1>5, <1>s
    <3> QED BY <3>1, <3>2, <3>3
  <2>7. TopRows(v.tree, num + 2, h + 1)
    <3>1. SameRange(v.tree[0], tree[0])
      BY <2>2, <1>5, <1>s
    <3>2. num + 2 <= InitialNodeSize /\ (num + 2) - 1 = num + 1
      BY <1>14, <1>5, <1>s DEF S
    <3>3. \A i \in num + 2 .. S - 1 : v.tree[i].level = 0
      BY <2>3, <1>4 DEF TopRows, S
    <3> QED BY <1>4, <2>1, <2>5, <2>6, <3>1, <3>2, <3>3 DEF TopRows, SameRange, S
  <2>8. queue'[0] = IF tree[h].level + 1 < InitialLevel THEN Enqueue(q, NewRows(num))
                    ELSE Enqueue(q, <<>>)
    <3>1. NewRows(num) # <<>> /\ Head(NewRows(num)) = num
      BY DEF NewRows
    <3> QED BY <3>1, <2>4, <1>11, <1>17
  <2>10. \A i \in 1 .. m - 1 : v.tree[i].level < InitialLevel
    <3>1. \A i \in 1 .. m - 1 : i \in 0 .. num - 1
      BY <1>4, <1>5, <1>s
    <3> QED BY <3>1, <1>4, <2>2 DEF SameRange
  <2>11. CASE tree[h].level + 1 < InitialLevel
    <3>1. m = num
      <4>1. h \in h .. m - 1
        BY <1>7
      <4>2. m < num => tree[h].level + 1 >= InitialLevel
        BY <4>1, <1>4
      <4> QED BY <4>2, <2>11, <1>4, <1>5, <1>9, <1>s
    <3>2. Run(queue'[0], h + 1, num + 2)
      BY <2>8, <1>a, <1>b, <2>11, <3>1, <1>4, RunNext
    <3>3. \A i \in 1 .. (num + 2) - 1 : v.tree[i].level < InitialLevel
      <4> TAKE i \in 1 .. (num + 2) - 1
      <4>1. i \in 1 .. m - 1 \/ i \in {num, num + 1}
        BY <3>1, <1>5, <1>s
      <4> QED BY <4>1, <2>4, <2>10, <2>11
    <3>4. PICK k : k = num + 2
      OBVIOUS
    <3>5. /\ TopRows(initTree'[0], newNodeNum'[0], h + 1) /\ Run(queue'[0], h + 1, k)
          /\ k \in 1 .. newNodeNum'[0] /\ ~ (k < newNodeNum'[0])
          /\ \A i \in 1 .. k - 1 : initTree'[0][i].level < InitialLevel
      <4>1. num + 2 \in 1 .. num + 2 /\ ~ (num + 2 < num + 2)
        BY <1>5, <1>s
      <4>2. initTree'[0] = v.tree /\ newNodeNum'[0] = k
        BY <1>11, <1>17, <3>4
      <4> QED BY <2>7, <3>2, <3>3, <3>4, <4>1, <4>2
    <3>6. TopBuilt(h + 1, k)'
      BY <3>5 DEF TopBuilt
    <3>7. k \in Nat /\ h + 1 \in Nat
      BY <3>4, <1>5, <1>s
    <3>8. OneToOne(map[0])'
      BY <1>10, <1>11
    <3> QED BY <3>6, <3>7, <3>8
  <2>12. CASE ~ (tree[h].level + 1 < InitialLevel)
    <3>1. Run(queue'[0], h + 1, m)
      BY <2>8, <1>a, <1>b, <2>12, <1>4, RunNext
    <3>2. \A i \in h + 1 .. m - 1 : v.tree[i].level + 1 >= InitialLevel
      <4> TAKE i \in h + 1 .. m - 1
      <4>1. i \in 0 .. num - 1 /\ h <= i
        BY <1>4, <1>5, <1>7, <1>s
      <4>2. tree[h].level <= tree[i].level
        BY <4>1, <1>4, <1>8 DEF TopRows, Shape, Levelled
      <4>3. v.tree[i].level = tree[i].level /\ tree[i].level \in Int
        <5>1. i \in 0 .. S - 1
          BY <4>1, <1>5, <1>s
        <5>2. tree[i].level \in Int
          BY <5>1, <1>6, <1>s, RowInts
        <5> QED BY <4>1, <5>2, <2>2 DEF SameRange
      <4> QED BY <4>2, <4>3, <2>12, <1>9, <1>s
    <3>3. TopBuilt(h + 1, m)'
      <4>1. m \in 1 .. num + 2
        BY <1>4, <1>5, <1>s
      <4> QED BY <1>11, <1>17, <2>7, <2>10, <3>1, <3>2, <4>1 DEF TopBuilt
    <3> QED BY <1>10, <1>11, <3>3
  <2> QED BY <2>11, <2>12
<1> QED BY <1>10, <1>15, <1>16, <1>17 DEF VisitOutcome

LEMMA InitialSplitGrow ==
  ASSUME AxesSeparate, BuildInv, GrowInv, InitialSplit
  PROVE  GrowInv'
<1>1. pc'[0] = "initial" /\ 0 \in Ranks
  BY Sizes DEF Ranks, InitialSplit
<1>2. ~Started' /\ ~Phase({"local", "fault"})' /\ ~Phase({"merge", "done"})'
  BY <1>1 DEF Started, Phase
<1> QED BY <1>2, InitialSplitTop DEF GrowInv

LEMMA BcastInitialGrow ==
  ASSUME BuildInv, GrowInv, BcastInitial
  PROVE  GrowInv'
<1>s. /\ 0 \in Ranks /\ N \in Nat /\ N >= 1 /\ InitialNodeSize \in Nat
      /\ \A r \in Ranks : r < MaxWorkSize => StartNode(r) \in 0 .. InitialNodeSize - 1
  BY Sizes DEF Ranks
<1>1. /\ queue[0] = <<>> /\ pc[0] = "initial"
      /\ initTree' = [r \in Ranks |-> initTree[0]]
      /\ map' = [r \in Ranks |-> map[0]]
      /\ localTree' = [r \in Ranks |->
           IF r < MaxWorkSize
           THEN [localTree[r] EXCEPT ![0] = initTree[0][StartNode(r)]]
           ELSE localTree[r]]
      /\ queue' = [r \in Ranks |-> IF r < MaxWorkSize THEN <<0>> ELSE <<>>]
      /\ newNodeNum' = [r \in Ranks |-> 1]
      /\ pc' = [r \in Ranks |-> "local"]
  BY <1>s DEF BcastInitial
<1>2. PICK h \in Nat, m \in Nat : TopBuilt(h, m)
  BY <1>1 DEF GrowInv
<1>3. PICK num : num = newNodeNum[0]
  OBVIOUS
<1>4. TopRows(initTree[0], num, h) /\ Run(queue[0], h, m) /\ m \in 1 .. num
      /\ \A i \in 1 .. m - 1 : initTree[0][i].level < InitialLevel
  BY <1>2, <1>3 DEF TopBuilt
<1>5. h = m /\ h >= 1 /\ num \in Nat
  <2>1. Len(queue[0]) = 0 /\ Len(queue[0]) = m - h /\ h \in 0 .. m
    BY <1>1, <1>4 DEF Run
  <2>2. num \in Nat
    BY <1>4 DEF TopRows, Shape, Counted
  <2> QED BY <2>1, <2>2, <1>4
<1>6. TopDone'
  BY <1>1, <1>4, <1>5, <1>s DEF TopDone
<1>7. ASSUME NEW r \in Ranks
      PROVE  OneToOne(map'[r]) /\ LocalBuilt(r)'
  <2>1. OneToOne(map'[r])
    BY <1>1 DEF GrowInv
  <2>2. localTree[r] \in [0 .. N - 1 -> RowType(InitialNodeSize + N)] /\ 0 \in 0 .. N - 1
    BY <1>s DEF BuildInv, TypeOK
  <2>3. CASE r < MaxWorkSize
    <3>1. localTree'[r] \in [0 .. N - 1 -> RowType(InitialNodeSize + N)]
      BY BcastInitialBuild DEF BuildInv, TypeOK
    <3>2. Shape(localTree'[r], 1, 0)
      <4>1. InitialNodeSize + N \in Nat
        BY <1>s
      <4> QED BY <3>1, <4>1, <1>s, ShapeOfRoot
    <3>3. localTree'[r][0] = initTree'[0][StartNode(r)]
      BY <1>1, <1>s, <2>2, <2>3
    <3>4. queue'[r] = <<0>> /\ newNodeNum'[r] = 1
      BY <1>1, <2>3
    <3>5. Run(queue'[r], 0, newNodeNum'[r])
      BY <3>4 DEF Run
    <3>6. LocalRows(r, newNodeNum[r], 0)'
      BY <3>2, <3>3, <3>4 DEF LocalRows, SameRange
    <3> QED BY <3>5, <3>6, <2>1, <2>3 DEF LocalBuilt
  <2>4. CASE ~ (r < MaxWorkSize)
    BY <1>1, <2>1, <2>4 DEF LocalBuilt
  <2> QED BY <2>1, <2>3, <2>4
<1>8. pc'[0] # "initial" /\ ~Phase({"merge", "done"})'
  BY <1>1, <1>s DEF Phase
<1> QED BY <1>6, <1>7, <1>8 DEF GrowInv

\* The rows a rank's visit leaves, from the queue and the shape they had.
LEMMA LocalSplitShape ==
  ASSUME AxesSeparate, BuildInv, GrowInv, NEW r \in Ranks, LocalSplit(r)
  PROVE  /\ r < MaxWorkSize /\ OneToOne(map'[r])
         /\ pc'[r] = "local" => LocalBuilt(r)'
         /\ \A s \in Ranks \ {r} :
              /\ map'[s] = map[s] /\ localTree'[s] = localTree[s] /\ pc'[s] = pc[s]
              /\ newNodeNum'[s] = newNodeNum[s] /\ queue'[s] = queue[s]
<1> DEFINE B == InitialNodeSize + N
           A == 0 .. N + InitialNodeSize
           tree == localTree[r]
           q == queue[r]
<1>s. /\ N \in Nat /\ N >= 1 /\ InitialNodeSize \in Nat /\ B \in Nat
  BY Sizes
<1>0. /\ TypeOK /\ LocalInv /\ pc[r] = "local" /\ q # <<>> /\ Phase({"local", "fault"})
  BY LocalSplitVisit DEF BuildInv, LocalSplit
<1>1. PICK v \in Visits(tree, map[r], Head(q), newNodeNum[r]) :
        /\ localTree' = [localTree EXCEPT ![r] = v.tree]
        /\ map' = [map EXCEPT ![r] = v.map]
        /\ newNodeNum' = [newNodeNum EXCEPT ![r] = v.num]
        /\ queue' = [queue EXCEPT ![r] = Enqueue(@, v.children)]
        /\ pc' = [pc EXCEPT ![r] = IF v.fault THEN "fault" ELSE @]
  BY DEF LocalSplit
<1>2. /\ localTree \in [Ranks -> [0 .. N - 1 -> RowType(B)]]
      /\ map \in [Ranks -> [Particles -> Particles]]
      /\ newNodeNum \in [Ranks -> A] /\ queue \in [Ranks -> Seq(A)]
      /\ pc \in [Ranks -> {"initial", "local", "merge", "done", "fault"}]
  BY <1>0 DEF TypeOK
<1>3. PICK num : num = newNodeNum[r]
  OBVIOUS
<1>4. num \in 1 .. N /\ num \in A /\ num + 1 \in A
  <2>1. num \in 1 .. N
    BY <1>0, <1>3 DEF LocalInv
  <2>2. N + 1 <= N + InitialNodeSize
    BY Sizes
  <2> QED BY <2>1, <2>2, <1>s
<1>5. OneToOne(map[r]) /\ LocalBuilt(r)
  BY <1>0 DEF GrowInv
<1>6. r < MaxWorkSize
  BY <1>0, <1>5 DEF LocalBuilt
<1>7. PICK h \in Nat : Run(q, h, num) /\ LocalRows(r, num, h)
  BY <1>3, <1>5, <1>6 DEF LocalBuilt
<1>8. Shape(tree, num, h) /\ SameRange(tree[0], initTree[0][StartNode(r)])
  BY <1>7 DEF LocalRows
<1>9. q \in Seq(A) /\ tree \in [0 .. N - 1 -> RowType(B)] /\ map[r] \in [Particles -> Particles]
  BY <1>2
<1>10. /\ Head(q) = h /\ h \in 0 .. num - 1
       /\ Run(Enqueue(q, <<>>), h + 1, num)
       /\ Run(Enqueue(q, NewRows(num)), h + 1, num + 2)
  <2>1. num \in Nat
    BY <1>4
  <2> HIDE DEF A, q
  <2> QED BY <1>0, <1>4, <1>7, <1>9, <2>1, RunNext
<1>11. h \in 0 .. N - 1 /\ num \in Nat /\ h < num /\ num <= N
  BY <1>4, <1>10, <1>s
<1>12. OneToOne(v.map) /\ VisitOutcome(N, tree, h, num, v)
  <2>1. tree[h].first <= tree[h].last
    BY <1>0, <1>11 DEF TypeOK
  <2>2. v \in Visits(tree, map[r], h, num)
    BY <1>3, <1>10
  <2> HIDE DEF tree, B
  <2> QED BY <1>5, <1>9, <1>11, <1>s, <2>1, <2>2, VisitSteps
<1>13. /\ localTree'[r] = v.tree /\ map'[r] = v.map /\ newNodeNum'[r] = v.num
       /\ queue'[r] = Enqueue(q, v.children) /\ pc'[r] = IF v.fault THEN "fault" ELSE "local"
       /\ \A s \in Ranks \ {r} :
            /\ map'[s] = map[s] /\ localTree'[s] = localTree[s] /\ pc'[s] = pc[s]
            /\ newNodeNum'[s] = newNodeNum[s] /\ queue'[s] = queue[s]
  BY <1>0, <1>1, <1>2
<1>14. v.tree \in [0 .. N - 1 -> RowType(B)] /\ initTree' = initTree
  <2>1. localTree'[r] \in [0 .. N - 1 -> RowType(B)]
    BY LocalSplitBuild DEF BuildInv, TypeOK
  <2> QED BY <2>1, <1>13 DEF LocalSplit
<1>15. 0 \in 0 .. N - 1 /\ 0 \in 0 .. num - 1
  BY <1>4, <1>s
<1>16. CASE LeafStep(N, tree, h, v.tree) /\ v.num = num /\ v.children = <<>>
  <2>1. Shape(v.tree, num, h + 1)
    <3> HIDE DEF tree, B
    <3> QED BY <1>8, <1>9, <1>10, <1>11, <1>14, <1>16, <1>s, ShapeAfterLeaf
  <2>2. SameRange(v.tree[0], tree[0])
    BY <1>15, <1>16 DEF LeafStep, SameRange
  <2>3. LocalRows(r, num, h + 1)'
    BY <2>1, <2>2, <1>8, <1>13, <1>14 DEF LocalRows, SameRange
  <2>4. Run(queue'[r], h + 1, newNodeNum'[r])
    BY <1>10, <1>13, <1>16
  <2>5. newNodeNum'[r] = num /\ h + 1 \in Nat
    BY <1>13, <1>16
  <2>6. LocalBuilt(r)'
    BY <1>6, <2>3, <2>4, <2>5 DEF LocalBuilt
  <2> QED BY <1>6, <1>12, <1>13, <2>6
<1>17. CASE SplitStep(N, tree, h, num, v.tree) /\ v.num = num + 2 /\ v.children = NewRows(num)
  <2>1. Shape(v.tree, num + 2, h + 1)
    <3> HIDE DEF tree, B
    <3> QED BY <1>8, <1>9, <1>10, <1>11, <1>14, <1>17, <1>s, ShapeAfterSplit
  <2>2. SameRange(v.tree[0], tree[0])
    <3>1. 0 = h \/ 0 \notin {h, num, num + 1}
      BY <1>4, <1>11
    <3> QED BY <3>1, <1>15, <1>17 DEF SplitStep, SameRange
  <2>3. PICK k : k = num + 2
    OBVIOUS
  <2>4. LocalRows(r, k, h + 1)'
    BY <2>1, <2>2, <2>3, <1>8, <1>13, <1>14 DEF LocalRows, SameRange
  <2>5. Run(queue'[r], h + 1, newNodeNum'[r])
    BY <1>10, <1>13, <1>17
  <2>6. newNodeNum'[r] = k /\ h + 1 \in Nat
    BY <1>13, <1>17, <2>3
  <2>7. LocalBuilt(r)'
    BY <1>6, <2>4, <2>5, <2>6 DEF LocalBuilt
  <2> QED BY <1>6, <1>12, <1>13, <2>7
<1>18. CASE v.fault = TRUE
  <2>1. pc'[r] = "fault"
    BY <1>13, <1>18
  <2> QED BY <1>6, <1>12, <1>13, <2>1
<1> HIDE DEF tree, B
<1> QED BY <1>12, <1>16, <1>17, <1>18 DEF VisitOutcome

LEMMA LocalSplitGrow ==
  ASSUME AxesSeparate, BuildInv, GrowInv, NEW r \in Ranks, LocalSplit(r)
  PROVE  GrowInv'
<1>1. Phase({"local", "fault"}) /\ pc[r] = "local" /\ 0 \in Ranks
  BY LocalSplitVisit, Sizes DEF Ranks
<1>2. initTree' = initTree /\ Started /\ Started' /\ ~Phase({"merge", "done"})' /\ pc'[0] # "initial"
  <2>1. initTree' = initTree
    BY DEF LocalSplit
  <2>2. \A s \in Ranks : pc'[s] \in {"local", "fault"}
    <3>1. BuildInv'
      BY LocalSplitBuild
    <3>2. PICK b : pc' = [pc EXCEPT ![r] = IF b THEN "fault" ELSE @]
      BY DEF LocalSplit
    <3>3. pc \in [Ranks -> {"initial", "local", "merge", "done", "fault"}]
      BY DEF BuildInv, TypeOK
    <3> QED BY <1>1, <3>2, <3>3 DEF Phase
  <2> QED BY <1>1, <2>1, <2>2 DEF Started, Phase
<1>3. TopDone'
  BY <1>2 DEF GrowInv, TopDone
<1>4. ASSUME NEW s \in Ranks
      PROVE  OneToOne(map'[s]) /\ (pc'[s] = "local" => LocalBuilt(s)')
  <2>1. CASE s = r
    BY <2>1, LocalSplitShape
  <2>2. CASE s # r
    <3>1. /\ map'[s] = map[s] /\ localTree'[s] = localTree[s] /\ pc'[s] = pc[s]
          /\ newNodeNum'[s] = newNodeNum[s] /\ queue'[s] = queue[s]
      BY <2>2, LocalSplitShape
    <3>2. OneToOne(map[s]) /\ (pc[s] = "local" => LocalBuilt(s))
      BY <1>1 DEF GrowInv
    <3>3. ASSUME LocalBuilt(s) PROVE LocalBuilt(s)'
      BY <1>2, <3>1, <3>3 DEF LocalBuilt, LocalRows
    <3> QED BY <3>1, <3>2, <3>3
  <2> QED BY <2>1, <2>2
<1> QED BY <1>2, <1>3, <1>4 DEF GrowInv

LEMMA SumSizesGrow ==
  ASSUME BuildInv, GrowInv, SumSizes
  PROVE  GrowInv'
<1>1. /\ \A r \in Ranks : pc[r] = "local" /\ queue[r] = <<>>
      /\ newNodeNum' = [r \in Ranks |-> newNodeNum[r] - 1]
      /\ pc' = [r \in Ranks |-> "merge"] /\ initTree' = initTree /\ localTree' = localTree
      /\ 0 \in Ranks
  BY Sizes DEF SumSizes, Ranks
<1>2. TopDone'
  BY <1>1 DEF GrowInv, TopDone, Started, Phase
<1>3. ASSUME NEW r \in Ranks
      PROVE  LocalDone(r)'
  <2>1. LocalBuilt(r) /\ newNodeNum'[r] = newNodeNum[r] - 1
    BY <1>1 DEF GrowInv, Phase
  <2>2. CASE ~ (r < MaxWorkSize)
    BY <2>1, <2>2 DEF LocalBuilt, LocalDone
  <2>3. CASE r < MaxWorkSize
    <3>1. PICK num : num = newNodeNum[r]
      OBVIOUS
    <3>2. PICK h \in Nat : Run(queue[r], h, num) /\ LocalRows(r, num, h)
      BY <2>1, <2>3, <3>1 DEF LocalBuilt
    <3>3. Len(queue[r]) = 0 /\ Len(queue[r]) = num - h /\ h \in 0 .. num
      BY <1>1, <3>2 DEF Run
    <3>4. num \in Nat /\ h = num
      <4>1. num \in Nat
        BY <3>2 DEF LocalRows, Shape, Counted
      <4> QED BY <3>3, <4>1
    <3>5. newNodeNum'[r] + 1 = num
      BY <2>1, <3>1, <3>4
    <3>6. LocalRows(r, num, num)'
      BY <1>1, <3>2, <3>4 DEF LocalRows
    <3> QED BY <2>3, <3>5, <3>6 DEF LocalDone
  <2> QED BY <2>2, <2>3
<1>4. pc'[0] # "initial" /\ ~Phase({"local", "fault"})'
  BY <1>1 DEF Phase
<1> QED BY <1>2, <1>3, <1>4 DEF GrowInv

LEMMA MergeRankGrow ==
  ASSUME BuildInv, GrowInv, MergeRank
  PROVE  GrowInv'
<1>1. /\ Phase({"merge"}) /\ UNCHANGED <<queue, newNodeNum, initTree, localTree>>
      /\ pc' = [r \in Ranks |-> IF merging + 1 = MaxWorkSize THEN "done" ELSE "merge"]
      /\ 0 \in Ranks
  BY MergeRankTrees, Sizes DEF Ranks
<1>2. TopDone /\ \A r \in Ranks : LocalDone(r)
  BY <1>1 DEF GrowInv, Started, Phase
<1>3. TopDone' /\ \A r \in Ranks : LocalDone(r)'
  BY <1>1, <1>2 DEF TopDone, LocalDone, LocalRows
<1>4. pc'[0] # "initial" /\ ~Phase({"local", "fault"})'
  <2>1. pc'[0] \in {"done", "merge"}
    BY <1>1
  <2> QED BY <2>1, <1>1 DEF Phase
<1> QED BY <1>3, <1>4 DEF GrowInv

-----------------------------------------------------------------------------
(* How the local trees lie in the merged tree *)

\* The first row of the rows hung under a start node.
Base(q) == hostTree[0][StartNode(q)].left

RowMoved(row, local, base) ==
  /\ SameRange(row, local)
  /\ row.left = IF local.left = 0 THEN 0 ELSE local.left + base - 1
  /\ row.right = IF local.left = 0 THEN 0 ELSE local.right + base - 1

TopKept ==
  \A i \in 0 .. InitialNodeSize - 1 :
    /\ SameRange(hostTree[0][i], initTree[0][i])
    /\ i < MaxWorkSize - 1 \/ i >= StartNode(merging) => hostTree[0][i] = initTree[0][i]

BlocksPlaced ==
  \A q \in 0 .. merging - 1 :
    /\ hostTree[0][StartNode(q)].right = Base(q) + 1
    /\ Base(q) \in InitialNodeSize .. offset /\ Base(q) + newNodeNum[q] <= offset
    /\ \A k \in 1 .. newNodeNum[q] :
         RowMoved(hostTree[0][Base(q) + k - 1], localTree[q][k], Base(q))

BlocksOrdered ==
  \A p, q \in 0 .. merging - 1 : p < q => Base(p) + newNodeNum[p] <= Base(q)

BlocksCover ==
  \A i \in InitialNodeSize .. offset - 1 :
    \E q \in 0 .. merging - 1 : i \in Base(q) .. Base(q) + newNodeNum[q] - 1

RestEmpty == \A i \in DOMAIN hostTree[0] : i >= offset => hostTree[0][i].left = 0

Waiting == {q \in Ranks : q >= merging}
RoomLeft(n) == offset + Total(newNodeNum, Waiting) <= n

MergedInv ==
  Phase({"merge", "done"}) =>
    /\ TopKept /\ BlocksPlaced /\ BlocksOrdered /\ BlocksCover /\ RestEmpty
    /\ \E n \in Nat : hostTree[0] \in [0 .. n - 1 -> HostRow] /\ RoomLeft(n)

LEMMA SumSizesMerged ==
  ASSUME BuildInv, SumSizes
  PROVE  MergedInv'
<1> DEFINE S == InitialNodeSize
           rankSize == [r \in Ranks |-> newNodeNum[r] - 1]
           treeSize == S + Total(rankSize, Ranks)
<1>s. /\ S \in Nat /\ S = 4 * MaxWorkSize - 1 /\ MaxWorkSize \in Nat /\ MaxWorkSize >= 1
      /\ 0 \in Ranks /\ N \in Nat /\ \A r : StartNode(r) = MaxWorkSize - 1 + r
  BY Sizes DEF Ranks
<1>1. /\ \A r \in Ranks : pc[r] = "local"
      /\ newNodeNum' = rankSize
      /\ hostTree' = [r \in Ranks |->
           [i \in 0 .. treeSize - 1 |-> IF i < S THEN initTree[r][i] ELSE NullRow]]
      /\ initTree' = initTree /\ offset' = offset /\ merging' = merging
  BY DEF SumSizes, Total
<1>2. merging = 0 /\ offset = S
  <2>1. merging = 0
    BY <1>1, <1>s DEF BuildInv, PhaseInv, Phase
  <2>2. offset \in S .. S + P * N /\ offset <= S + merging * N
    BY DEF BuildInv, TypeOK
  <2>3. merging * N = 0
    BY <2>1, <1>s
  <2> HIDE DEF S
  <2> QED BY <2>1, <2>2, <2>3, <1>s
<1>3. Total(rankSize, Ranks) \in Nat
  <2>1. IsFiniteSet(Ranks)
    <3>1. 0 \in Int /\ P - 1 \in Int
      BY Sizes
    <3> QED BY <3>1, FS_Interval DEF Ranks
  <2>2. (\A r \in Ranks : rankSize[r] \in Int) /\ (\A r \in Ranks : rankSize[r] >= 0)
    BY <1>1, <1>s DEF BuildInv, LocalInv
  <2> HIDE DEF rankSize
  <2>3. Total(rankSize, Ranks) \in Int /\ Total(rankSize, Ranks) >= 0
    BY <2>1, <2>2, TotalType
  <2> QED BY <2>3
<1>4. treeSize \in Nat /\ treeSize >= S
  BY <1>3, <1>s
<1> HIDE DEF treeSize
<1>5. /\ \A i \in 0 .. S - 1 : hostTree'[0][i] = initTree'[0][i]
      /\ \A i \in S .. treeSize - 1 : hostTree'[0][i].left = 0
      /\ DOMAIN hostTree'[0] = 0 .. treeSize - 1
  <2>1. hostTree'[0] = [i \in 0 .. treeSize - 1 |-> IF i < S THEN initTree[0][i] ELSE NullRow]
    BY <1>1, <1>s
  <2>2. \A i \in 0 .. S - 1 : i \in 0 .. treeSize - 1 /\ i < S
    BY <1>4, <1>s
  <2>3. \A i \in S .. treeSize - 1 : i \in 0 .. treeSize - 1 /\ ~ (i < S)
    BY <1>4, <1>s
  <2> QED BY <2>1, <2>2, <2>3, <1>1 DEF NullRow
<1>6. TopKept'
  BY <1>5 DEF TopKept, SameRange
<1>7. BlocksPlaced' /\ BlocksOrdered' /\ BlocksCover'
  <2>1. 0 .. merging' - 1 = {} /\ S .. offset' - 1 = {}
    BY <1>1, <1>2, <1>s
  <2> QED BY <2>1 DEF BlocksPlaced, BlocksOrdered, BlocksCover
<1>8. RestEmpty'
  <2>1. \A i \in 0 .. treeSize - 1 : i >= offset' => i \in S .. treeSize - 1
    BY <1>1, <1>2, <1>4, <1>s
  <2> QED BY <1>5, <2>1 DEF RestEmpty
<1>9. \E n \in Nat : hostTree'[0] \in [0 .. n - 1 -> HostRow'] /\ RoomLeft(n)'
  <2>1. PICK n \in Nat : hostTree'[0] \in [0 .. n - 1 -> HostRow]
    <3>1. Phase({"merge", "done"})'
      BY DEF SumSizes, Phase
    <3> QED BY <3>1, <1>s, SumSizesBuild DEF BuildInv, HostInv, HostRow
  <2>2. n = treeSize
    <3>1. 0 .. n - 1 = 0 .. treeSize - 1
      BY <2>1, <1>5
    <3>2. n - 1 \in 0 .. n - 1 \/ n = 0
      BY <2>1
    <3>3. treeSize - 1 \in 0 .. treeSize - 1
      BY <1>4, <1>s
    <3> QED BY <3>1, <3>2, <3>3, <1>4
  <2>3. Waiting' = Ranks
    BY <1>1, <1>2, Sizes DEF Waiting, Ranks
  <2>4. RoomLeft(n)'
    <3>1. S + Total(rankSize, Ranks) <= treeSize
      BY <1>3, <1>s DEF treeSize
    <3> HIDE DEF rankSize
    <3> QED BY <3>1, <2>2, <2>3, <1>1, <1>2 DEF RoomLeft
  <2> QED BY <2>1, <2>4 DEF HostRow
<1> QED BY <1>6, <1>7, <1>8, <1>9 DEF MergedInv

LEMMA HungRows ==
  ASSUME NEW n \in Nat, NEW b \in Nat, NEW tree \in [0 .. n - 1 -> RowType(b)],
         NEW start \in 0 .. n - 1
  PROVE  /\ \A i \in 0 .. n - 1 : i # start => Hung(tree, start)[i] = tree[i]
         /\ Hung(tree, start)[start].left = offset /\ Hung(tree, start)[start].right = offset + 1
         /\ SameRange(Hung(tree, start)[start], tree[start])
<1> DEFINE row == [tree[start] EXCEPT !.left = offset, !.right = offset + 1]
<1>1. tree[start] \in RowType(b)
  OBVIOUS
<1>2. Hung(tree, start) = [tree EXCEPT ![start] = row]
  BY <1>1 DEF Hung, RowType
<1>3. row.left = offset /\ row.right = offset + 1 /\ SameRange(row, tree[start])
  BY <1>1 DEF RowType, SameRange
<1> HIDE DEF row
<1> QED BY <1>2, <1>3

LEMMA MovedRows ==
  ASSUME NEW n \in Nat, NEW b \in Nat, NEW c \in Nat, NEW owner \in Ranks,
         hostTree[owner] \in [0 .. n - 1 -> RowType(b)],
         localTree[owner] \in [0 .. N - 1 -> RowType(c)], newNodeNum[owner] \in 0 .. N - 1,
         offset \in Nat, offset + newNodeNum[owner] <= n
  PROVE  /\ \A i \in 0 .. n - 1 :
              i \notin offset .. offset + newNodeNum[owner] - 1 => Moved(owner)[i] = hostTree[owner][i]
         /\ \A k \in 1 .. newNodeNum[owner] :
              RowMoved(Moved(owner)[offset + k - 1], localTree[owner][k], offset)
<1>1. DOMAIN hostTree[owner] = 0 .. n - 1
  OBVIOUS
<1>2. \A i \in 0 .. n - 1 :
        i \notin offset .. offset + newNodeNum[owner] - 1 => Moved(owner)[i] = hostTree[owner][i]
  BY <1>1 DEF Moved
<1>3. ASSUME NEW k \in 1 .. newNodeNum[owner]
      PROVE  RowMoved(Moved(owner)[offset + k - 1], localTree[owner][k], offset)
  <2> DEFINE i == offset + k - 1
             row == localTree[owner][k]
             l == IF IsLeaf(row) THEN 0 ELSE row.left + offset - 1
             r == IF IsLeaf(row) THEN 0 ELSE row.right + offset - 1
  <2>1. i \in 0 .. n - 1 /\ i \in offset .. offset + newNodeNum[owner] - 1 /\ i - offset + 1 = k
    BY <1>3
  <2>2. row \in RowType(c)
    <3>1. k \in 0 .. N - 1
      BY <1>3, BuildAssumption
    <3> QED BY <3>1
  <2>3. Moved(owner)[i] = LET row_ == localTree[owner][i - offset + 1]
          IN  [row_ EXCEPT
                 !.left = IF IsLeaf(row_) THEN 0 ELSE @ + offset - 1,
                 !.right = IF IsLeaf(row_) THEN 0 ELSE @ + offset - 1]
    BY <1>1, <2>1 DEF Moved
  <2>4. Moved(owner)[i] = [row EXCEPT !.left = l, !.right = r]
    BY <2>1, <2>2, <2>3 DEF RowType
  <2> HIDE DEF l, r, row, i
  <2>5. Moved(owner)[i].left = l /\ Moved(owner)[i].right = r /\ SameRange(Moved(owner)[i], row)
    BY <2>2, <2>4 DEF RowType, SameRange
  <2> QED BY <2>5 DEF RowMoved, l, r, row, i, IsLeaf
<1> QED BY <1>2, <1>3

LEMMA MergeRankMerged ==
  ASSUME AgreeInv, MergedInv, MergeRank, Layout = "left"
  PROVE  MergedInv'
<1> DEFINE S == InitialNodeSize
           B == S + P * N
           M == MaxWorkSize
           t == hostTree[0]
           u == hostTree'[0]
<1>s. /\ S \in Nat /\ S = 4 * M - 1 /\ M \in Nat /\ M >= 1 /\ M <= P /\ P \in Nat /\ N \in Nat
      /\ N >= 1 /\ B \in Nat /\ S + N \in Nat /\ 0 \in Ranks /\ \A r : StartNode(r) = M - 1 + r
  BY Sizes DEF Ranks
<1>1. /\ merging' = merging + 1 /\ offset' = offset + newNodeNum[merging]
      /\ UNCHANGED <<newNodeNum, initTree, localTree>>
      /\ Phase({"merge"}) /\ Phase({"merge", "done"})
  BY MergeRankTrees DEF Phase
<1>2. merging \in Ranks /\ merging < M /\ merging \in Nat
  BY MergeRankCopies
<1>3. PICK own : own = merging
  OBVIOUS
<1>4. PICK off : off = offset
  OBVIOUS
<1>5. PICK size : size = newNodeNum[own]
  OBVIOUS
<1>6. own \in Ranks /\ own \in 0 .. M - 1 /\ size \in 0 .. N - 1 /\ off \in Nat /\ off >= S
  <2>1. own \in Ranks /\ own \in 0 .. M - 1
    BY <1>2, <1>3, <1>s
  <2>2. pc[own] = "merge"
    BY <1>1, <2>1 DEF Phase
  <2>3. size \in 0 .. N - 1
    BY <1>5, <2>1, <2>2 DEF AgreeInv, BuildInv, LocalInv
  <2>4. off \in S .. B
    BY <1>4 DEF AgreeInv, BuildInv, TypeOK
  <2> QED BY <2>1, <2>3, <2>4, <1>s
<1>7. PICK start : start = StartNode(own)
  OBVIOUS
<1>8. start = M - 1 + own /\ start \in 0 .. S - 1
  BY <1>6, <1>7, <1>s
<1>9. /\ TopKept /\ BlocksPlaced /\ BlocksOrdered /\ BlocksCover /\ RestEmpty
  BY <1>1 DEF MergedInv
<1>10. PICK n \in Nat : t \in [0 .. n - 1 -> RowType(B)] /\ RoomLeft(n)
  BY <1>1 DEF MergedInv, HostRow
\* The rows fit behind the rows that are there.
<1>11. off + size + Total(newNodeNum, Waiting') <= n /\ Total(newNodeNum, Waiting') \in Nat
  <2>1. IsFiniteSet(Ranks)
    <3>1. 0 \in Int /\ P - 1 \in Int
      BY <1>s
    <3> QED BY <3>1, FS_Interval DEF Ranks
  <2>2. Waiting \subseteq Ranks /\ IsFiniteSet(Waiting) /\ IsFiniteSet(Waiting')
    <3>1. Waiting \subseteq Ranks /\ Waiting' \subseteq Ranks
      BY DEF Waiting
    <3> QED BY <3>1, <2>1, FS_Subset
  <2>3. own \in Waiting /\ Waiting' = Waiting \ {own}
    <3>1. own \in Waiting
      BY <1>2, <1>3 DEF Waiting
    <3>2. \A q \in Ranks : q >= merging + 1 <=> q >= merging /\ q # merging
      BY <1>2 DEF Ranks
    <3>3. Waiting' = {q \in Ranks : q >= merging + 1}
      BY <1>1 DEF Waiting
    <3> QED BY <3>1, <3>2, <3>3, <1>3 DEF Waiting
  <2>4. \A q \in Ranks : newNodeNum[q] \in Int /\ newNodeNum[q] >= 0
    BY <1>1, <1>s DEF AgreeInv, BuildInv, LocalInv, Phase
  <2>5. Total(newNodeNum, Waiting) = newNodeNum[own] + Total(newNodeNum, Waiting \ {own})
    BY <2>2, <2>3, <2>4, TotalRemove
  <2>6. Total(newNodeNum, Waiting') \in Int /\ Total(newNodeNum, Waiting') >= 0
    <3>1. (\A q \in Waiting' : newNodeNum[q] \in Int) /\ (\A q \in Waiting' : newNodeNum[q] >= 0)
      BY <2>2, <2>3, <2>4
    <3> QED BY <3>1, <2>2, TotalType
  <2>7. off + Total(newNodeNum, Waiting) <= n
    BY <1>4, <1>10 DEF RoomLeft
  <2> QED BY <2>3, <2>5, <2>6, <2>7, <1>5, <1>6
<1>12. off + size <= n /\ start \in 0 .. n - 1
  <2> HIDE DEF S
  <2>1. off + size <= n
    BY <1>6, <1>11
  <2>2. S \in Nat /\ S <= n
    BY <2>1, <1>6, <1>s
  <2> QED BY <2>1, <2>2, <1>8
<1>13. u = Hung(Moved(own), start)
  <2>1. Copied(0, Moved(merging), newNodeNum[merging], merging) = Moved(merging)
    BY <1>s, MergeRankCopies
  <2>2. hostTree'[0] = Hung(Copied(0, Moved(merging), newNodeNum[merging], merging), StartNode(merging))
    BY <1>s, MergeRankTrees
  <2> QED BY <2>1, <2>2, <1>3, <1>7
<1>14. hostTree[own] = t
  BY <1>1, <1>6 DEF AgreeInv, TreesAgree
<1>15. Moved(own) \in [0 .. n - 1 -> RowType(B)]
  <2>1. hostTree[own] \in [0 .. n - 1 -> RowType(B)]
    BY <1>10, <1>14
  <2> QED BY <1>1, <1>3, <1>6, <2>1, MovedType DEF AgreeInv
<1>16. /\ \A i \in 0 .. n - 1 : i \notin off .. off + size - 1 => Moved(own)[i] = t[i]
       /\ \A k \in 1 .. size : RowMoved(Moved(own)[off + k - 1], localTree[own][k], off)
  <2>1. localTree[own] \in [0 .. N - 1 -> RowType(S + N)]
    BY <1>6 DEF AgreeInv, BuildInv, TypeOK
  <2>2. hostTree[own] \in [0 .. n - 1 -> RowType(B)]
    BY <1>10, <1>14
  <2>3. newNodeNum[own] \in 0 .. N - 1 /\ offset \in Nat /\ offset + newNodeNum[own] <= n
    BY <1>4, <1>5, <1>6, <1>12
  <2> DEFINE c == S + N
  <2>4. localTree[own] \in [0 .. N - 1 -> RowType(c)] /\ c \in Nat /\ B \in Nat /\ own \in Ranks
    BY <2>1, <1>6, <1>s
  <2> HIDE DEF c, B
  <2>5. /\ \A i \in 0 .. n - 1 :
             i \notin offset .. offset + newNodeNum[own] - 1 => Moved(own)[i] = hostTree[own][i]
        /\ \A k \in 1 .. newNodeNum[own] :
             RowMoved(Moved(own)[offset + k - 1], localTree[own][k], offset)
    BY <2>2, <2>3, <2>4, MovedRows
  <2> QED BY <2>5, <1>4, <1>5, <1>14
<1>17. /\ \A i \in 0 .. n - 1 : i # start => u[i] = Moved(own)[i]
       /\ u[start].left = off /\ u[start].right = off + 1
       /\ SameRange(u[start], Moved(own)[start])
  <2> HIDE DEF S, B, u
  <2> QED BY <1>4, <1>12, <1>13, <1>15, <1>s, HungRows
<1>18. /\ \A i \in 0 .. n - 1 : i # start /\ i \notin off .. off + size - 1 => u[i] = t[i]
       /\ SameRange(u[start], t[start])
       /\ \A k \in 1 .. size : RowMoved(u[off + k - 1], localTree[own][k], off)
  <2>1. start \notin off .. off + size - 1
    BY <1>6, <1>8, <1>s
  <2>2. ASSUME NEW k \in 1 .. size PROVE RowMoved(u[off + k - 1], localTree[own][k], off)
    <3>1. off + k - 1 \in 0 .. n - 1 /\ off + k - 1 # start
      BY <1>6, <1>8, <1>12, <1>s
    <3> QED BY <3>1, <1>16, <1>17
  <2> HIDE DEF u, t
  <2> QED BY <1>12, <1>16, <1>17, <2>1, <2>2
<1>19. \A i \in 0 .. S - 1 : i \in 0 .. n - 1 /\ i \notin off .. off + size - 1
  BY <1>6, <1>11, <1>s
<1> HIDE DEF u, S, B, M
<1>20. TopKept'
  <2> SUFFICES ASSUME NEW i \in 0 .. S - 1
               PROVE  /\ SameRange(u[i], initTree[0][i])
                      /\ i < M - 1 \/ i >= StartNode(merging) + 1 => u[i] = initTree[0][i]
    <3>1. StartNode(merging)' = StartNode(merging) + 1
      BY <1>1, <1>2, <1>s
    <3> QED BY <3>1, <1>1 DEF TopKept, u, S, M
  <2>1. SameRange(t[i], initTree[0][i])
    BY <1>9 DEF TopKept, S
  <2>2. CASE i = start
    <3>1. ~ (i < M - 1) /\ ~ (i >= StartNode(merging) + 1)
      BY <2>2, <1>3, <1>6, <1>7, <1>8, <1>s
    <3> QED BY <3>1, <2>1, <2>2, <1>18 DEF SameRange
  <2>3. CASE i # start
    <3>1. u[i] = t[i]
      BY <2>3, <1>18, <1>19
    <3>2. i >= StartNode(merging) + 1 => i >= StartNode(merging)
      BY <1>2, <1>s
    <3> QED BY <3>1, <3>2, <2>1, <1>9 DEF TopKept, S, M
  <2> QED BY <2>2, <2>3
\* The blocks that were there are as they were.
<1>21. ASSUME NEW q \in 0 .. own - 1
       PROVE  /\ u[StartNode(q)] = t[StartNode(q)] /\ Base(q)' = Base(q)
              /\ Base(q) \in S .. off /\ newNodeNum[q] \in 0 .. N - 1 /\ Base(q) + newNodeNum[q] <= off
              /\ t[StartNode(q)].right = Base(q) + 1
              /\ \A k \in 1 .. newNodeNum[q] :
                   /\ u[Base(q) + k - 1] = t[Base(q) + k - 1]
                   /\ RowMoved(t[Base(q) + k - 1], localTree[q][k], Base(q))
  <2>1. q \in 0 .. merging - 1 /\ q \in Ranks
    BY <1>2, <1>3, <1>s DEF Ranks
  <2>2. StartNode(q) \in 0 .. S - 1 /\ StartNode(q) # start
    BY <1>6, <1>8, <1>s
  <2>3. u[StartNode(q)] = t[StartNode(q)]
    BY <2>2, <1>18, <1>19
  <2>4. Base(q)' = Base(q)
    BY <2>3 DEF Base, u
  <2>5. /\ Base(q) \in S .. off /\ Base(q) + newNodeNum[q] <= off
        /\ t[StartNode(q)].right = Base(q) + 1
        /\ \A k \in 1 .. newNodeNum[q] : RowMoved(t[Base(q) + k - 1], localTree[q][k], Base(q))
    BY <2>1, <1>4, <1>9 DEF BlocksPlaced, S
  <2>6. newNodeNum[q] \in 0 .. N - 1
    BY <1>1, <2>1 DEF AgreeInv, BuildInv, LocalInv, Phase
  <2>7. ASSUME NEW k \in 1 .. newNodeNum[q] PROVE u[Base(q) + k - 1] = t[Base(q) + k - 1]
    <3> DEFINE b == Base(q)
               i == b + k - 1
    <3>1. b \in S .. off /\ b + newNodeNum[q] <= off
      BY <2>5
    <3> HIDE DEF b
    <3>2. i \in 0 .. n - 1 /\ i # start /\ i \notin off .. off + size - 1
      BY <3>1, <2>6, <1>6, <1>8, <1>12, <1>s
    <3> HIDE DEF i, t
    <3>3. u[i] = t[i]
      BY <3>2, <1>18
    <3> QED BY <3>3 DEF i, b
  <2> QED BY <2>3, <2>4, <2>5, <2>6, <2>7
<1>22. Base(own)' = off /\ u[StartNode(own)].right = off + 1
  BY <1>7, <1>17 DEF Base, u
<1>23. \A q \in 0 .. merging' - 1 : q \in 0 .. own - 1 \/ q = own
  BY <1>1, <1>2, <1>3
<1>24. BlocksPlaced'
  <2> SUFFICES ASSUME NEW q \in 0 .. merging' - 1
               PROVE  /\ u[StartNode(q)].right = Base(q)' + 1
                      /\ Base(q)' \in S .. off + size /\ Base(q)' + newNodeNum[q] <= off + size
                      /\ \A k \in 1 .. newNodeNum[q] :
                           RowMoved(u[Base(q)' + k - 1], localTree[q][k], Base(q)')
    BY <1>1, <1>3, <1>4, <1>5 DEF BlocksPlaced, u, S
  <2>1. CASE q \in 0 .. own - 1
    <3>1. Base(q)' = Base(q) /\ Base(q) \in S .. off /\ newNodeNum[q] \in 0 .. N - 1
          /\ Base(q) + newNodeNum[q] <= off /\ u[StartNode(q)].right = Base(q) + 1
      BY <2>1, <1>21
    <3>2. Base(q) \in S .. off + size /\ Base(q) + newNodeNum[q] <= off + size
      BY <3>1, <1>6, <1>s
    <3>3. \A k \in 1 .. newNodeNum[q] : RowMoved(u[Base(q) + k - 1], localTree[q][k], Base(q))
      <4> TAKE k \in 1 .. newNodeNum[q]
      <4>1. /\ u[Base(q) + k - 1] = t[Base(q) + k - 1]
            /\ RowMoved(t[Base(q) + k - 1], localTree[q][k], Base(q))
        BY <2>1, <1>21
      <4> HIDE DEF t
      <4> QED BY <4>1
    <3> QED BY <3>1, <3>2, <3>3
  <2>2. CASE q = own
    <3>1. off \in S .. off + size /\ off + size <= off + size
      BY <1>6, <1>s
    <3> QED BY <3>1, <2>2, <1>5, <1>18, <1>22
  <2> QED BY <1>23, <2>1, <2>2
<1>25. BlocksOrdered'
  <2> SUFFICES ASSUME NEW p \in 0 .. merging' - 1, NEW q \in 0 .. merging' - 1, p < q
               PROVE  Base(p)' + newNodeNum[p] <= Base(q)'
    BY <1>1 DEF BlocksOrdered
  <2>1. p \in 0 .. own - 1
    BY <1>1, <1>2, <1>3
  <2>2. Base(p)' = Base(p) /\ Base(p) + newNodeNum[p] <= off
    BY <2>1, <1>21
  <2>3. CASE q = own
    BY <2>2, <2>3, <1>22
  <2>4. CASE q \in 0 .. own - 1
    BY <2>1, <2>2, <2>4, <1>3, <1>9, <1>21 DEF BlocksOrdered
  <2> QED BY <1>23, <2>3, <2>4
<1>26. BlocksCover'
  <2>a. offset' = off + size /\ newNodeNum' = newNodeNum
    BY <1>1, <1>3, <1>4, <1>5
  <2> SUFFICES ASSUME NEW i \in S .. offset' - 1
               PROVE  \E q \in 0 .. merging' - 1 : i \in Base(q)' .. Base(q)' + newNodeNum'[q] - 1
    BY DEF BlocksCover, S
  <2>b. i \in S .. off + size - 1
    BY <2>a, <1>6, <1>s
  <2>1. CASE i < off
    <3>1. i \in S .. offset - 1
      BY <2>b, <2>1, <1>4, <1>6, <1>s
    <3>2. PICK q \in 0 .. merging - 1 : i \in Base(q) .. Base(q) + newNodeNum[q] - 1
      BY <3>1, <1>9 DEF BlocksCover, S
    <3>3. q \in 0 .. own - 1 /\ q \in 0 .. merging' - 1
      BY <1>1, <1>2, <1>3
    <3> QED BY <2>a, <3>2, <3>3, <1>21
  <2>2. CASE i >= off
    <3>1. own \in 0 .. merging' - 1 /\ i \in off .. off + size - 1
      BY <2>b, <2>2, <1>1, <1>2, <1>3, <1>6, <1>s
    <3> QED BY <2>a, <3>1, <1>5, <1>22
  <2> QED BY <2>b, <2>1, <2>2, <1>6, <1>s
<1>27. u \in [0 .. n - 1 -> RowType(B)]
  <2>1. BuildInv'
    BY MergeRankBuild DEF AgreeInv
  <2>2. DOMAIN u = 0 .. n - 1
    BY <1>13, <1>15 DEF Hung
  <2>3. \A i \in DOMAIN u : u[i] \in RowType(B)
    BY <2>1, <1>s DEF BuildInv, TypeOK, u, B, S
  <2>4. u = [i \in DOMAIN u |-> u[i]]
    BY <1>13, <1>15 DEF Hung
  <2> QED BY <2>2, <2>3, <2>4
<1>28. RestEmpty'
  <2>1. DOMAIN u = 0 .. n - 1
    BY <1>27
  <2>2. ASSUME NEW i \in 0 .. n - 1, i >= off + size PROVE u[i].left = 0
    <3>1. i # start /\ i \notin off .. off + size - 1 /\ i >= off
      BY <2>2, <1>6, <1>8, <1>s
    <3>2. i \in DOMAIN t
      BY <1>10
    <3>3. t[i].left = 0
      BY <3>1, <3>2, <1>4, <1>9 DEF RestEmpty
    <3> QED BY <3>1, <3>3, <1>18
  <2> QED BY <2>1, <2>2, <1>1, <1>3, <1>4, <1>5 DEF RestEmpty, u
<1>29. RoomLeft(n)'
  BY <1>1, <1>3, <1>4, <1>5, <1>11 DEF RoomLeft
<1> QED BY <1>20, <1>24, <1>25, <1>26, <1>27, <1>28, <1>29 DEF MergedInv, HostRow, u, B, S

-----------------------------------------------------------------------------
(* The merged tree, when every start node was reached and split *)

\* The top is the complete binary tree above the start nodes.
TopComplete ==
  LET top == initTree[0]
  IN  /\ top[0].first = 0 /\ top[0].last = N /\ top[0].level = 0
      /\ \A i \in 0 .. MaxWorkSize - 2 :
           top[i].left = 2 * i + 1 /\ CutAt(top, i, 2 * i + 1) /\ top[i].level < InitialLevel
      /\ \A i \in 2 * MaxWorkSize - 1 .. InitialNodeSize - 1 : top[i].left = 0
      /\ \A q \in 0 .. MaxWorkSize - 1 :
           top[StartNode(q)].level = InitialLevel /\ Size(top[StartNode(q)]) > BlockSize
      /\ \A p, q \in 0 .. MaxWorkSize - 1 :
           p # q => Beside(top[StartNode(p)], top[StartNode(q)])

LEMMA TopShape ==
  ASSUME BuildInv, TopDone, StartNodesSplit
  PROVE  TopComplete
<1> DEFINE top == initTree[0]
           M == MaxWorkSize
           S == InitialNodeSize
<1>s. /\ S \in Nat /\ S = 4 * M - 1 /\ M \in Nat /\ M >= 1 /\ P \in Nat /\ 0 \in Ranks
      /\ InitialLevel \in Nat /\ InitialLevel <= P /\ M = Power[InitialLevel]
      /\ \A r : StartNode(r) = M - 1 + r
  BY LevelSizes DEF Ranks
<1>1. top \in [0 .. S - 1 -> RowType(S)]
  BY <1>s DEF BuildInv, TypeOK
<1>2. \A i \in 0 .. S - 1 : /\ top[i].level \in Int /\ top[i].level >= 0
                            /\ top[i].left \in Int /\ top[i].first \in Int /\ top[i].last \in Int
  BY <1>1, <1>s, RowInts
<1>3. PICK num \in Nat, h \in Nat :
        /\ TopRows(top, num, h) /\ h >= 1
        /\ \A i \in 1 .. h - 1 : top[i].level < InitialLevel
  BY DEF TopDone
<1>4. /\ Counted(top, num, h) /\ Visited(top, num, h) /\ Disjoint(top, num) /\ num <= S
      /\ top[0].first = 0 /\ top[0].last = N /\ top[0].level = 0
      /\ \A i \in h .. S - 1 : top[i].left = 0
      /\ \A i \in num .. S - 1 : top[i].level = 0
      /\ \A i \in 0 .. num - 1 : i + 2 <= Power[top[i].level + 1]
  BY <1>3 DEF TopRows, Shape
<1>5. h \in 1 .. num /\ num <= 2 * h + 1
      /\ (num = 2 * h + 1 => \A i \in 0 .. h - 1 : top[i].left = 2 * i + 1)
  BY <1>3, <1>4 DEF Counted
<1>6. \A q \in 0 .. M - 1 : /\ StartNode(q) \in M - 1 .. 2 * M - 2 /\ StartNode(q) \in 0 .. S - 1
                            /\ top[StartNode(q)].level = InitialLevel
                            /\ Size(top[StartNode(q)]) > BlockSize
  <2>1. \A q \in 0 .. M - 1 : StartNode(q) \in M - 1 .. 2 * M - 2 /\ StartNode(q) \in 0 .. S - 1
    BY <1>s
  <2> QED BY <2>1 DEF StartNodesSplit
<1>7. M = 1 \/ InitialLevel > 0
  <2>1. Power[0] = 1
    BY Powers
  <2> QED BY <2>1, <1>s
<1> HIDE DEF top, M, S
<1>8. M > 1 => h = M - 1 /\ num = 2 * M - 1
  <2> HAVE M > 1
  <2>1. 2 * M - 2 \in 0 .. S - 1 /\ top[2 * M - 2].level = InitialLevel
    <3>1. M - 1 \in 0 .. M - 1 /\ StartNode(M - 1) = 2 * M - 2
      BY <1>s
    <3> QED BY <3>1, <1>6
  <2>2. 2 * M - 2 < num /\ h <= 2 * M - 2
    <3>1. InitialLevel > 0 /\ InitialLevel # 0
      BY <1>7, <1>s, <2>1
    <3>2. ~ (2 * M - 2 \in num .. S - 1)
      BY <3>1, <2>1, <1>4
    <3>3. ~ (2 * M - 2 \in 1 .. h - 1)
      BY <2>1, <1>3, <1>s DEF top
    <3> QED BY <3>2, <3>3, <2>1, <1>3, <1>s
  <2>3. h - 1 \in 0 .. num - 1 /\ h - 1 \in 0 .. S - 1 /\ top[h - 1].level + 1 <= InitialLevel
    <3>1. h - 1 \in 0 .. num - 1 /\ h - 1 \in 0 .. S - 1
      BY <1>3, <1>4, <1>5, <1>s
    <3>2. CASE h = 1
      BY <3>1, <3>2, <1>4, <1>7, <1>s
    <3>3. CASE h > 1
      <4>1. h - 1 \in 1 .. h - 1
        BY <3>3, <1>3
      <4>2. top[h - 1].level < InitialLevel
        BY <4>1, <1>3 DEF top
      <4> QED BY <3>1, <4>2, <1>2, <1>s
    <3> QED BY <3>1, <3>2, <3>3, <1>3
  <2>4. Power[top[h - 1].level + 1] <= M
    <3>1. top[h - 1].level + 1 \in 0 .. P + 2 /\ InitialLevel \in 0 .. P + 2
      BY <2>3, <1>2, <1>s
    <3> QED BY <3>1, <2>3, <1>s, PowersMonotone
  <2>5. (h - 1) + 2 <= M
    <3>1. (h - 1) + 2 <= Power[top[h - 1].level + 1]
      BY <2>3, <1>4
    <3>2. Power[top[h - 1].level + 1] \in Nat
      <4>1. top[h - 1].level + 1 \in 0 .. P + 2
        BY <2>3, <1>2, <1>s
      <4> QED BY <4>1, PowersGrow
    <3> QED BY <3>1, <3>2, <2>4, <1>3, <1>s
  <2>6. num <= 2 * h + 1 /\ num \in Nat /\ h \in Nat /\ M \in Nat
    BY <1>5, <1>s
  <2>7. 2 * M - 2 < num /\ (h - 1) + 2 <= M
    BY <2>2, <2>5
  <2> QED BY <2>6, <2>7
<1>9. ASSUME NEW i \in 0 .. M - 2
      PROVE  top[i].left = 2 * i + 1 /\ CutAt(top, i, 2 * i + 1) /\ top[i].level < InitialLevel
  <2>1. M > 1 /\ h = M - 1 /\ num = 2 * h + 1 /\ i \in 0 .. h - 1 /\ i \in 0 .. S - 1
    BY <1>8, <1>s
  <2>2. top[i].left = 2 * i + 1
    BY <2>1, <1>5
  <2>3. CutAt(top, i, 2 * i + 1)
    <3>1. IsSplit(top, i)
      BY <2>2 DEF IsSplit
    <3>2. CutAt(top, i, top[i].left)
      BY <2>1, <3>1, <1>4 DEF Visited
    <3> QED BY <2>2, <3>2
  <2>4. top[i].level < InitialLevel
    <3>1. CASE i = 0
      BY <2>1, <3>1, <1>4, <1>7, <1>s
    <3>2. CASE i # 0
      <4>1. i \in 1 .. h - 1
        BY <2>1, <3>2
      <4> QED BY <4>1, <1>3 DEF top
    <3> QED BY <3>1, <3>2
  <2> QED BY <2>2, <2>3, <2>4
<1>10. ASSUME NEW i \in 2 * M - 1 .. S - 1
       PROVE  top[i].left = 0
  <2>1. h <= 2 * M - 1
    <3>1. CASE M > 1
      BY <3>1, <1>8, <1>s
    <3>2. CASE M = 1
      <4>1. InitialLevel = 0 /\ 0 \in 0 .. M - 1 /\ StartNode(0) = 0
        <5>1. 0 \in 0 .. M - 1 /\ StartNode(0) = 0
          BY <3>2, <1>s
        <5> QED BY <5>1, <1>4, <1>6
      <4>2. ~ (h > 1)
        <5> SUFFICES ASSUME h > 1 PROVE FALSE
          OBVIOUS
        <5>1. 1 \in 1 .. h - 1 /\ 1 \in 0 .. S - 1
          BY <1>3, <3>2, <1>s
        <5>2. top[1].level < InitialLevel
          BY <5>1, <1>3 DEF top
        <5> QED BY <4>1, <5>1, <5>2, <1>2
      <4> QED BY <3>2, <4>2, <1>3
    <3> QED BY <3>1, <3>2, <1>s
  <2>2. i \in h .. S - 1
    BY <2>1, <1>3, <1>s
  <2> QED BY <2>2, <1>4
<1>11. ASSUME NEW p \in 0 .. M - 1, NEW q \in 0 .. M - 1, p # q
       PROVE  Beside(top[StartNode(p)], top[StartNode(q)])
  <2>1. M > 1 /\ num = 2 * M - 1
    BY <1>8, <1>11, <1>s
  <2>2. /\ StartNode(p) \in 0 .. num - 1 /\ StartNode(q) \in 0 .. num - 1
        /\ StartNode(p) # StartNode(q)
    BY <2>1, <1>11, <1>s
  <2> QED BY <2>2, <1>4, <1>6 DEF Disjoint
<1> QED BY <1>4, <1>6, <1>9, <1>10, <1>11 DEF TopComplete, top, M, S

Workers == 0 .. MaxWorkSize - 1

\* Where row k of rank q's local tree, whose row 0 is the start node, lies.
Addr(q, k) == IF k = 0 THEN StartNode(q) ELSE Base(q) + k - 1

\* Two rows are the halves of a row.
Halves(row, l, r) ==
  /\ l.first = row.first /\ l.last = r.first /\ r.last = row.last
  /\ Size(l) > 0 /\ Size(r) > 0 /\ l.level = row.level + 1 /\ r.level = row.level + 1

\* The merged tree's row for a local row: split or, if it fits in a block, a leaf.
SplitPlaced(q, k, row, local) ==
  /\ local.left \in k + 1 .. newNodeNum[q] - 1
  /\ row.left = Addr(q, local.left) /\ row.right = Addr(q, local.left + 1)
  /\ Halves(local, localTree[q][local.left], localTree[q][local.left + 1])
LeafPlaced(k, row, local) ==
  k > 0 /\ local.left = 0 /\ row.left = 0 /\ Size(row) <= BlockSize
RowPlaced(q, k, row, local) ==
  SameRange(row, local) /\ (SplitPlaced(q, k, row, local) \/ LeafPlaced(k, row, local))

BlockOf(q) ==
  /\ newNodeNum[q] \in Nat /\ newNodeNum[q] >= 2
  /\ Base(q) \in Nat /\ Base(q) >= InitialNodeSize
  /\ localTree[q][0].level = InitialLevel
  /\ Shape(localTree[q], newNodeNum[q] + 1, newNodeNum[q] + 1)
  /\ \A k \in 0 .. newNodeNum[q] : RowPlaced(q, k, hostTree[0][Addr(q, k)], localTree[q][k])

TopOf(t) ==
  /\ t[0].first = 0 /\ t[0].last = N /\ t[0].level = 0
  /\ \A i \in 0 .. MaxWorkSize - 2 :
       /\ t[i].left = 2 * i + 1 /\ t[i].right = 2 * i + 2 /\ t[i].level < InitialLevel
       /\ Halves(t[i], t[2 * i + 1], t[2 * i + 2])

Merged(n) ==
  /\ hostTree[0] \in [0 .. n - 1 -> HostRow] /\ InitialNodeSize <= n
  /\ TopOf(hostTree[0])
  /\ \A q \in Workers : BlockOf(q) /\ Base(q) + newNodeNum[q] <= n
  /\ \A p, q \in Workers : p < q => Base(p) + newNodeNum[p] <= Base(q)
  /\ \A p, q \in Workers : p # q => Beside(localTree[p][0], localTree[q][0])
  /\ \A i \in 0 .. n - 1 : hostTree[0][i].left # 0 =>
       \/ i \in 0 .. MaxWorkSize - 2
       \/ \E q \in Workers : \E k \in 0 .. newNodeNum[q] : i = Addr(q, k)

LEMMA HalvesSame ==
  ASSUME NEW row, NEW l, NEW r, NEW row2, NEW l2, NEW r2,
         Halves(row, l, r), SameRange(row2, row), SameRange(l2, l), SameRange(r2, r)
  PROVE  Halves(row2, l2, r2)
BY DEF Halves, SameRange, Size

LEMMA CutHalves ==
  ASSUME NEW n \in Nat, NEW b \in Nat, NEW tree \in [0 .. n - 1 -> RowType(b)],
         NEW i, NEW l \in 0 .. n - 1, l + 1 \in 0 .. n - 1, CutAt(tree, i, l)
  PROVE  Halves(tree[i], tree[l], tree[l + 1])
<1>1. /\ tree[l].first \in Int /\ tree[l].last \in Int
      /\ tree[l + 1].first \in Int /\ tree[l + 1].last \in Int
  BY RowInts
<1> QED BY <1>1 DEF Halves, CutAt, Size

LEMMA BlockMerged ==
  ASSUME BuildInv, GrowInv, MergedInv, Phase({"merge", "done"}), TopComplete,
         merging = MaxWorkSize, NEW q \in Workers
  PROVE  BlockOf(q) /\ Base(q) + newNodeNum[q] <= offset
<1> DEFINE size == newNodeNum[q]
           local == localTree[q]
           t == hostTree[0]
           base == Base(q)
           S == InitialNodeSize
           M == MaxWorkSize
<1>s. /\ S \in Nat /\ S = 4 * M - 1 /\ M \in Nat /\ M >= 1 /\ M <= P /\ P \in Nat /\ N \in Nat
      /\ S + N \in Nat /\ BlockSize \in Nat /\ \A r : StartNode(r) = M - 1 + r
  BY Sizes, BuildAssumption
<1>1. q \in Ranks /\ q < M /\ q \in 0 .. merging - 1 /\ q \in 0 .. M - 1 /\ q \in Nat
  BY <1>s DEF Workers, Ranks
<1>2. LocalRows(q, size + 1, size + 1)
  BY <1>1 DEF GrowInv, LocalDone
<1>3. Shape(local, size + 1, size + 1) /\ SameRange(local[0], initTree[0][StartNode(q)])
  BY <1>2 DEF LocalRows
<1>4. local \in [0 .. N - 1 -> RowType(S + N)] /\ size \in 0 .. N - 1
  BY <1>1 DEF BuildInv, TypeOK, LocalInv, Phase
<1>5. /\ t[StartNode(q)].right = base + 1
      /\ base \in S .. offset /\ base + size <= offset
      /\ \A k \in 1 .. size : RowMoved(t[base + k - 1], local[k], base)
  BY <1>1 DEF MergedInv, BlocksPlaced
<1>6. base \in Nat /\ base >= S /\ base >= 3
  BY <1>5, <1>s
<1>7. SameRange(t[StartNode(q)], local[0]) /\ local[0].level = InitialLevel /\ Size(local[0]) > BlockSize
  <2>1. StartNode(q) \in 0 .. S - 1
    BY <1>1, <1>s
  <2>2. SameRange(t[StartNode(q)], initTree[0][StartNode(q)])
    BY <2>1 DEF MergedInv, TopKept
  <2>3. initTree[0][StartNode(q)].level = InitialLevel /\ Size(initTree[0][StartNode(q)]) > BlockSize
    BY <1>1 DEF TopComplete
  <2> QED BY <2>2, <2>3, <1>3 DEF SameRange, Size
<1> HIDE DEF size, local, t, base, S, M
<1>8. /\ Counted(local, size + 1, size + 1)
      /\ \A i \in 0 .. size :
           \/ IsSplit(local, i) /\ local[i].left \in i + 1 .. size - 1 /\ CutAt(local, i, local[i].left)
           \/ ~IsSplit(local, i) /\ local[i].right = 0 /\ Size(local[i]) <= BlockSize
  <2>1. Counted(local, size + 1, size + 1) /\ Visited(local, size + 1, size + 1)
    BY <1>3 DEF Shape
  <2>2. (size + 1) - 2 = size - 1 /\ (size + 1) - 1 = size
    BY <1>4, <1>s
  <2> QED BY <2>1, <2>2 DEF Visited
<1>9. 0 \in 0 .. size /\ \A i \in 0 .. size : i \in 0 .. N - 1
  BY <1>4, <1>s
<1>10. local[0].left = 1 /\ size >= 2
  <2>1. IsSplit(local, 0)
    <3>1. Size(local[0]) \in Int
      <4>1. local[0].first \in Int /\ local[0].last \in Int
        BY <1>4, <1>9, <1>s, RowInts
      <4> QED BY <4>1 DEF Size
    <3>2. ~ (Size(local[0]) <= BlockSize)
      BY <3>1, <1>7, <1>s
    <3> QED BY <3>2, <1>8, <1>9
  <2>2. local[0].left \in {0, 1}
    <3>1. size + 1 > 0
      BY <1>4, <1>s
    <3> QED BY <3>1, <1>8 DEF Counted
  <2>3. local[0].left \in 1 .. size - 1
    BY <2>1, <1>8, <1>9
  <2> QED BY <2>1, <2>2, <2>3, <1>4, <1>s DEF IsSplit
<1>11. ASSUME NEW k \in 0 .. size
       PROVE  RowPlaced(q, k, t[Addr(q, k)], local[k])
  <2> DEFINE row == t[Addr(q, k)]
             l == local[k].left
  <2>1. SameRange(row, local[k])
    <3>1. CASE k = 0
      BY <3>1, <1>7 DEF Addr
    <3>2. CASE k # 0
      <4>1. k \in 1 .. size
        BY <3>2
      <4> QED BY <3>2, <4>1, <1>5 DEF Addr, RowMoved, base
    <3> QED BY <3>1, <3>2
  <2>2. CASE IsSplit(local, k)
    <3>1. l \in k + 1 .. size - 1 /\ CutAt(local, k, l)
      BY <2>2, <1>8
    <3>2. Halves(local[k], local[l], local[l + 1])
      <4>1. l \in 0 .. N - 1 /\ l + 1 \in 0 .. N - 1
        BY <3>1, <1>4, <1>s
      <4> HIDE DEF l
      <4> QED BY <3>1, <4>1, <1>4, <1>s, CutHalves
    <3>3. Addr(q, l) = l + base - 1 /\ Addr(q, l + 1) = l + base
      <4>1. l # 0 /\ l + 1 # 0 /\ l \in Int
        BY <3>1, <1>4, <1>s
      <4> HIDE DEF l
      <4> QED BY <4>1, <1>6 DEF Addr, base
    <3>4. row.left = l + base - 1 /\ row.right = l + base
      <4>1. CASE k = 0
        <5>1. l = 1 /\ row = t[StartNode(q)]
          BY <4>1, <1>10 DEF Addr
        <5>2. t[StartNode(q)].left = base
          BY DEF base, Base, t
        <5> HIDE DEF l, row
        <5> QED BY <5>1, <5>2, <1>5, <1>6
      <4>2. CASE k # 0
        <5>1. RowMoved(row, local[k], base)
          <6>1. k \in 1 .. size
            BY <4>2
          <6> QED BY <4>2, <6>1, <1>5 DEF Addr, base
        <5>2. local[k].right = l + 1 /\ l # 0 /\ l \in Int
          BY <3>1, <1>4, <1>s DEF CutAt
        <5> HIDE DEF row
        <5>3. row.left = l + base - 1 /\ row.right = (l + 1) + base - 1
          BY <5>1, <5>2 DEF RowMoved
        <5> HIDE DEF l
        <5> QED BY <5>2, <5>3, <1>6
      <4> QED BY <4>1, <4>2
    <3> HIDE DEF row
    <3> QED BY <2>1, <3>1, <3>2, <3>3, <3>4 DEF RowPlaced, SplitPlaced, size, local, row
  <2>3. CASE ~IsSplit(local, k)
    <3>1. k # 0 /\ l = 0
      BY <2>3, <1>10 DEF IsSplit
    <3>2. k \in 1 .. size
      BY <3>1
    <3>3. RowMoved(row, local[k], base)
      BY <3>1, <3>2, <1>5 DEF Addr, base
    <3>4. Size(local[k]) <= BlockSize
      BY <2>3, <1>8
    <3> HIDE DEF row
    <3>5. LeafPlaced(k, row, local[k])
      BY <2>1, <3>1, <3>2, <3>3, <3>4 DEF LeafPlaced, RowMoved, SameRange, Size
    <3> QED BY <2>1, <3>5 DEF RowPlaced, row
  <2> QED BY <2>2, <2>3
<1> QED BY <1>3, <1>4, <1>5, <1>6, <1>7, <1>10, <1>11, <1>s DEF BlockOf, size, local, t, base, S

LEMMA TreeMerged ==
  ASSUME AgreeInv, GrowInv, MergedInv, Finished, StartNodesSplit
  PROVE  \E n \in Nat : Merged(n)
<1> DEFINE S == InitialNodeSize
           M == MaxWorkSize
           t == hostTree[0]
           top == initTree[0]
<1>s. /\ S \in Nat /\ S = 4 * M - 1 /\ M \in Nat /\ M >= 1 /\ M <= P /\ P \in Nat /\ N \in Nat
      /\ N >= 1 /\ S + N \in Nat /\ 0 \in Ranks /\ \A r : StartNode(r) = M - 1 + r
  BY Sizes DEF Ranks
<1>1. BuildInv /\ Phase({"merge", "done"}) /\ merging = M
  <2>1. pc[0] = "done" /\ Phase({"merge", "done"})
    BY <1>s DEF Finished, Phase
  <2>2. merging = MaxWorkSize
    BY <1>s, <2>1 DEF AgreeInv, BuildInv, PhaseInv, Phase
  <2> QED BY <2>1, <2>2 DEF AgreeInv
<1>2. TopComplete
  <2>1. TopDone
    BY <1>1 DEF GrowInv, Started, Phase
  <2> QED BY <1>1, <2>1, TopShape
<1>3. /\ TopKept /\ BlocksPlaced /\ BlocksOrdered /\ BlocksCover /\ RestEmpty
  BY <1>1 DEF MergedInv
<1>4. PICK n \in Nat : t \in [0 .. n - 1 -> HostRow] /\ RoomLeft(n)
  BY <1>1 DEF MergedInv
<1>5. \A q \in Workers : BlockOf(q) /\ Base(q) + newNodeNum[q] <= offset
  BY <1>1, <1>2, BlockMerged
<1>6. offset \in Nat /\ offset >= S /\ offset <= n
  <2>1. offset \in S .. S + P * N
    BY <1>1 DEF BuildInv, TypeOK
  <2>2. offset \in Int /\ offset >= S
    BY <2>1, <1>s
  <2>3. Total(newNodeNum, Waiting) \in Int /\ Total(newNodeNum, Waiting) >= 0
    <3>1. IsFiniteSet(Ranks)
      <4>1. 0 \in Int /\ P - 1 \in Int
        BY <1>s
      <4> QED BY <4>1, FS_Interval DEF Ranks
    <3>2. IsFiniteSet(Waiting) /\ Waiting \subseteq Ranks
      <4>1. Waiting \subseteq Ranks
        BY DEF Waiting
      <4> QED BY <3>1, <4>1, FS_Subset
    <3>3. (\A q \in Waiting : newNodeNum[q] \in Int) /\ (\A q \in Waiting : newNodeNum[q] >= 0)
      BY <3>2, <1>1, <1>s DEF BuildInv, LocalInv, Phase
    <3> QED BY <3>2, <3>3, TotalType
  <2>4. offset + Total(newNodeNum, Waiting) <= n
    BY <1>4 DEF RoomLeft
  <2> HIDE DEF S
  <2> QED BY <2>2, <2>3, <2>4, <1>s
<1>7. top \in [0 .. S - 1 -> RowType(S)]
  BY <1>1, <1>s DEF BuildInv, TypeOK
<1>8. \A i \in 0 .. S - 1 : SameRange(t[i], top[i])
  BY <1>3 DEF TopKept
<1>9. \A i \in 0 .. M - 2 : t[i] = top[i]
  <2>1. \A i \in 0 .. M - 2 : i \in 0 .. S - 1 /\ i < M - 1
    BY <1>s
  <2> QED BY <2>1, <1>3 DEF TopKept
<1>10. TopOf(t)
  <2>1. t[0].first = 0 /\ t[0].last = N /\ t[0].level = 0
    <3>1. 0 \in 0 .. S - 1
      BY <1>s
    <3> QED BY <3>1, <1>2, <1>8 DEF TopComplete, SameRange
  <2>2. ASSUME NEW i \in 0 .. M - 2
        PROVE  /\ t[i].left = 2 * i + 1 /\ t[i].right = 2 * i + 2 /\ t[i].level < InitialLevel
               /\ Halves(t[i], t[2 * i + 1], t[2 * i + 2])
    <3> DEFINE l == 2 * i + 1
    <3>1. l \in 0 .. S - 1 /\ l + 1 \in 0 .. S - 1 /\ l + 1 = 2 * i + 2 /\ i \in 0 .. S - 1
      BY <1>s
    <3>2. top[i].left = l /\ CutAt(top, i, l) /\ top[i].level < InitialLevel
      BY <1>2 DEF TopComplete
    <3> HIDE DEF l
    <3>3. Halves(top[i], top[l], top[l + 1])
      BY <1>7, <1>s, <3>1, <3>2, CutHalves
    <3>4. Halves(t[i], t[l], t[l + 1])
      <4>1. SameRange(t[i], top[i]) /\ SameRange(t[l], top[l]) /\ SameRange(t[l + 1], top[l + 1])
        BY <3>1, <1>8
      <4> HIDE DEF t, top
      <4> QED BY <3>3, <4>1, HalvesSame
    <3>5. t[i].left = l /\ t[i].right = l + 1 /\ t[i].level < InitialLevel
      BY <3>2, <1>9 DEF CutAt
    <3> QED BY <3>1, <3>4, <3>5 DEF l
  <2> HIDE DEF t, M
  <2> QED BY <2>1, <2>2 DEF TopOf, M
<1>11. \A p, q \in Workers : p < q => Base(p) + newNodeNum[p] <= Base(q)
  BY <1>1, <1>3 DEF BlocksOrdered, Workers
<1>12. \A p, q \in Workers : p # q => Beside(localTree[p][0], localTree[q][0])
  <2>1. \A q \in Workers : SameRange(localTree[q][0], top[StartNode(q)])
    <3> TAKE q \in Workers
    <3>1. q \in Ranks /\ q < MaxWorkSize
      BY <1>s DEF Workers, Ranks
    <3>2. LocalRows(q, newNodeNum[q] + 1, newNodeNum[q] + 1)
      BY <1>1, <3>1 DEF GrowInv, LocalDone
    <3> QED BY <3>2 DEF LocalRows
  <2>2. \A p, q \in Workers : p # q => Beside(top[StartNode(p)], top[StartNode(q)])
    BY <1>2 DEF TopComplete, Workers
  <2> QED BY <2>1, <2>2 DEF Beside, SameRange
<1>13. ASSUME NEW i \in 0 .. n - 1, t[i].left # 0
       PROVE  \/ i \in 0 .. M - 2
              \/ \E q \in Workers : \E k \in 0 .. newNodeNum[q] : i = Addr(q, k)
  <2>1. CASE i \in M - 1 .. 2 * M - 2
    <3> DEFINE q == i - (M - 1)
    <3>1. q \in Workers /\ i = StartNode(q)
      BY <2>1, <1>s DEF Workers
    <3>2. 0 \in 0 .. newNodeNum[q]
      BY <3>1, <1>5 DEF BlockOf
    <3> HIDE DEF q
    <3> QED BY <3>1, <3>2 DEF Addr
  <2>2. CASE i \in 2 * M - 1 .. S - 1
    <3>1. i \in 0 .. S - 1 /\ i >= StartNode(merging)
      BY <2>2, <1>1, <1>s
    <3>2. t[i] = top[i] /\ top[i].left = 0
      BY <3>1, <2>2, <1>2, <1>3 DEF TopKept, TopComplete
    <3> QED BY <3>2, <1>13
  <2>3. CASE i \in S .. offset - 1
    <3>1. PICK q \in 0 .. merging - 1 : i \in Base(q) .. Base(q) + newNodeNum[q] - 1
      BY <2>3, <1>3 DEF BlocksCover
    <3>2. q \in Workers
      BY <1>1 DEF Workers
    <3>3. newNodeNum[q] \in Nat /\ Base(q) \in Nat
      BY <3>2, <1>5 DEF BlockOf
    <3> DEFINE k == i - Base(q) + 1
    <3>4. k \in 0 .. newNodeNum[q] /\ k # 0 /\ i = Base(q) + k - 1
      BY <3>1, <3>3
    <3> HIDE DEF k
    <3>5. i = Addr(q, k)
      BY <3>4 DEF Addr
    <3> QED BY <3>2, <3>4, <3>5
  <2>4. CASE i >= offset
    BY <2>4, <1>3, <1>4, <1>13 DEF RestEmpty
  <2>5. i \in 0 .. M - 2 \/ i \in M - 1 .. 2 * M - 2 \/ i \in 2 * M - 1 .. S - 1
        \/ i \in S .. offset - 1 \/ i >= offset
    BY <1>6, <1>s
  <2> QED BY <2>1, <2>2, <2>3, <2>4, <2>5
<1>14. S <= n
  BY <1>6, <1>s
<1>15. \A q \in Workers : BlockOf(q) /\ Base(q) + newNodeNum[q] <= n
  <2> TAKE q \in Workers
  <2>1. BlockOf(q) /\ Base(q) + newNodeNum[q] <= offset /\ Base(q) + newNodeNum[q] \in Int
    BY <1>5 DEF BlockOf
  <2> QED BY <2>1, <1>6
<1> HIDE DEF t
<1>16. Merged(n)
  BY <1>4, <1>10, <1>11, <1>12, <1>13, <1>14, <1>15 DEF Merged, t
<1> QED BY <1>16

\* The rows of a block, and where their numbers lie.
LEMMA BlockRows ==
  ASSUME NEW n \in Nat, Merged(n), NEW q \in Workers, NEW k \in 0 .. newNodeNum[q]
  PROVE  /\ Addr(q, k) \in 0 .. n - 1 /\ newNodeNum[q] \in Nat /\ newNodeNum[q] >= 2
         /\ RowPlaced(q, k, hostTree[0][Addr(q, k)], localTree[q][k])
         /\ k = 0 => Addr(q, k) \in MaxWorkSize - 1 .. 2 * MaxWorkSize - 2
         /\ k > 0 => /\ Addr(q, k) = Base(q) + k - 1
                     /\ Addr(q, k) \in Base(q) .. Base(q) + newNodeNum[q] - 1
                     /\ Addr(q, k) >= InitialNodeSize
<1>s. /\ InitialNodeSize \in Nat /\ InitialNodeSize = 4 * MaxWorkSize - 1 /\ MaxWorkSize \in Nat
      /\ MaxWorkSize >= 1 /\ \A r : StartNode(r) = MaxWorkSize - 1 + r
  BY Sizes
<1>1. /\ BlockOf(q) /\ Base(q) + newNodeNum[q] <= n /\ InitialNodeSize <= n
  BY DEF Merged
<1>2. /\ newNodeNum[q] \in Nat /\ newNodeNum[q] >= 2 /\ Base(q) \in Nat /\ Base(q) >= InitialNodeSize
      /\ RowPlaced(q, k, hostTree[0][Addr(q, k)], localTree[q][k])
  BY <1>1 DEF BlockOf
<1>3. CASE k = 0
  <2>1. Addr(q, k) = MaxWorkSize - 1 + q /\ q \in 0 .. MaxWorkSize - 1
    BY <1>3, <1>s DEF Addr, Workers
  <2>2. Addr(q, k) \in MaxWorkSize - 1 .. 2 * MaxWorkSize - 2 /\ Addr(q, k) \in 0 .. n - 1
    BY <2>1, <1>1, <1>s
  <2> QED BY <1>2, <1>3, <2>2
<1>4. CASE k # 0
  <2>1. Addr(q, k) = Base(q) + k - 1 /\ k \in 1 .. newNodeNum[q]
    BY <1>4 DEF Addr
  <2>2. /\ Addr(q, k) \in Base(q) .. Base(q) + newNodeNum[q] - 1 /\ Addr(q, k) >= InitialNodeSize
        /\ Addr(q, k) \in 0 .. n - 1
    BY <2>1, <1>1, <1>2, <1>s
  <2> QED BY <1>2, <1>4, <2>1, <2>2
<1> QED BY <1>3, <1>4

LEMMA AddrUnique ==
  ASSUME NEW n \in Nat, Merged(n), NEW p \in Workers, NEW q \in Workers,
         NEW j \in 0 .. newNodeNum[p], NEW k \in 0 .. newNodeNum[q], Addr(p, j) = Addr(q, k)
  PROVE  p = q /\ j = k
<1>s. /\ InitialNodeSize = 4 * MaxWorkSize - 1 /\ MaxWorkSize \in Nat
      /\ MaxWorkSize >= 1 /\ \A r : StartNode(r) = MaxWorkSize - 1 + r
  BY Sizes
<1>1. p \in Int /\ q \in Int
  BY <1>s DEF Workers
<1>2. /\ newNodeNum[p] \in Nat /\ newNodeNum[q] \in Nat
      /\ j = 0 => Addr(p, j) \in MaxWorkSize - 1 .. 2 * MaxWorkSize - 2
      /\ k = 0 => Addr(q, k) \in MaxWorkSize - 1 .. 2 * MaxWorkSize - 2
      /\ j > 0 => /\ Addr(p, j) = Base(p) + j - 1
                  /\ Addr(p, j) \in Base(p) .. Base(p) + newNodeNum[p] - 1
                  /\ Addr(p, j) >= InitialNodeSize
      /\ k > 0 => /\ Addr(q, k) = Base(q) + k - 1
                  /\ Addr(q, k) \in Base(q) .. Base(q) + newNodeNum[q] - 1
                  /\ Addr(q, k) >= InitialNodeSize
  BY BlockRows
<1>3. Base(p) \in Int /\ Base(q) \in Int
  BY DEF Merged, BlockOf
<1>4. (j = 0) = (k = 0)
  BY <1>2, <1>s
<1>5. CASE j = 0
  BY <1>1, <1>4, <1>5, <1>s DEF Addr
<1>6. CASE j > 0
  <2>1. k > 0
    BY <1>2, <1>4, <1>6
  <2>2. p = q
    <3>1. p < q => Base(p) + newNodeNum[p] <= Base(q)
      BY DEF Merged
    <3>2. q < p => Base(q) + newNodeNum[q] <= Base(p)
      BY DEF Merged
    <3> QED BY <1>1, <1>2, <1>3, <1>6, <2>1, <3>1, <3>2
  <2> QED BY <2>1, <2>2, <1>2, <1>3, <1>6
<1> QED BY <1>2, <1>5, <1>6

\* The rows with children.
LEMMA LinkIs ==
  ASSUME NEW n \in Nat, Merged(n), NEW i \in Links(hostTree[0])
  PROVE  /\ i \in 0 .. n - 1
         /\ \/ i \in 0 .. MaxWorkSize - 2
            \/ \E q \in Workers : \E k \in 0 .. newNodeNum[q] :
                 i = Addr(q, k) /\ SplitPlaced(q, k, hostTree[0][i], localTree[q][k])
<1>1. i \in 0 .. n - 1 /\ hostTree[0][i].left # 0
  BY DEF Links, IsLeaf, Merged
<1>2. CASE i \in 0 .. MaxWorkSize - 2
  BY <1>1, <1>2
<1>3. CASE \E q \in Workers : \E k \in 0 .. newNodeNum[q] : i = Addr(q, k)
  <2>1. PICK q \in Workers : \E k \in 0 .. newNodeNum[q] : i = Addr(q, k)
    BY <1>3
  <2>2. PICK k \in 0 .. newNodeNum[q] : i = Addr(q, k)
    BY <2>1
  <2>3. RowPlaced(q, k, hostTree[0][i], localTree[q][k])
    BY <2>2, BlockRows
  <2>4. SplitPlaced(q, k, hostTree[0][i], localTree[q][k])
    BY <1>1, <2>3 DEF RowPlaced, LeafPlaced
  <2> QED BY <1>1, <2>2, <2>4
<1> QED BY <1>1, <1>2, <1>3 DEF Merged

\* Children of a split row of a block.
LEMMA SplitChildren ==
  ASSUME NEW n \in Nat, Merged(n), NEW q \in Workers, NEW k \in 0 .. newNodeNum[q],
         NEW l, l = localTree[q][k].left,
         SplitPlaced(q, k, hostTree[0][Addr(q, k)], localTree[q][k])
  PROVE  /\ l \in k + 1 .. newNodeNum[q] - 1 /\ l \in 0 .. newNodeNum[q] /\ l + 1 \in 0 .. newNodeNum[q]
         /\ l > 0 /\ l + 1 > 0
         /\ hostTree[0][Addr(q, k)].left = Addr(q, l) /\ hostTree[0][Addr(q, k)].right = Addr(q, l + 1)
         /\ Addr(q, k) \in Links(hostTree[0])
         /\ Addr(q, k) < Addr(q, l) /\ Addr(q, k) < Addr(q, l + 1)
         /\ Halves(hostTree[0][Addr(q, k)], hostTree[0][Addr(q, l)], hostTree[0][Addr(q, l + 1)])
<1>s. /\ InitialNodeSize = 4 * MaxWorkSize - 1 /\ MaxWorkSize \in Nat /\ MaxWorkSize >= 1
  BY Sizes
<1>1. /\ l \in k + 1 .. newNodeNum[q] - 1
      /\ hostTree[0][Addr(q, k)].left = Addr(q, l) /\ hostTree[0][Addr(q, k)].right = Addr(q, l + 1)
      /\ Halves(localTree[q][k], localTree[q][l], localTree[q][l + 1])
  BY DEF SplitPlaced
<1>2. newNodeNum[q] \in Nat /\ Base(q) \in Nat
  BY DEF Merged, BlockOf
<1>3. l \in 0 .. newNodeNum[q] /\ l + 1 \in 0 .. newNodeNum[q] /\ l > 0 /\ l + 1 > 0 /\ l + 1 > k
  BY <1>1, <1>2
<1>4. /\ SameRange(hostTree[0][Addr(q, k)], localTree[q][k])
      /\ SameRange(hostTree[0][Addr(q, l)], localTree[q][l])
      /\ SameRange(hostTree[0][Addr(q, l + 1)], localTree[q][l + 1])
  BY <1>3, BlockRows DEF RowPlaced
<1>5. Halves(hostTree[0][Addr(q, k)], hostTree[0][Addr(q, l)], hostTree[0][Addr(q, l + 1)])
  <2> DEFINE a == hostTree[0][Addr(q, k)]
             b == hostTree[0][Addr(q, l)]
             c == hostTree[0][Addr(q, l + 1)]
  <2>1. SameRange(a, localTree[q][k]) /\ SameRange(b, localTree[q][l]) /\ SameRange(c, localTree[q][l + 1])
    BY <1>4
  <2> HIDE DEF a, b, c
  <2>2. Halves(a, b, c)
    BY <1>1, <2>1, HalvesSame
  <2> QED BY <2>2 DEF a, b, c
<1>6. /\ Addr(q, k) \in 0 .. n - 1
      /\ k = 0 => Addr(q, k) \in MaxWorkSize - 1 .. 2 * MaxWorkSize - 2
      /\ k > 0 => Addr(q, k) = Base(q) + k - 1
  BY BlockRows
<1>7. Addr(q, l) = Base(q) + l - 1 /\ Addr(q, l) >= InitialNodeSize
  BY <1>3, BlockRows
<1>8. Addr(q, l + 1) = Base(q) + (l + 1) - 1 /\ Addr(q, l + 1) >= InitialNodeSize
  BY <1>3, BlockRows
<1>9. Addr(q, k) < Addr(q, l) /\ Addr(q, k) < Addr(q, l + 1)
  BY <1>1, <1>2, <1>3, <1>6, <1>7, <1>8, <1>s
<1>10. Addr(q, k) \in Links(hostTree[0])
  <2>1. Addr(q, l) # 0
    BY <1>7, <1>s
  <2>2. DOMAIN hostTree[0] = 0 .. n - 1
    BY DEF Merged
  <2> QED BY <2>1, <2>2, <1>1, <1>6 DEF Links, IsLeaf
<1> QED BY <1>1, <1>3, <1>5, <1>9, <1>10

\* The start node's row of a block is split, and no row is a leaf and split.
LEMMA StartIsLink ==
  ASSUME NEW n \in Nat, Merged(n), NEW q \in Workers
  PROVE  /\ 0 \in 0 .. newNodeNum[q] /\ Addr(q, 0) \in Links(hostTree[0])
         /\ SplitPlaced(q, 0, hostTree[0][Addr(q, 0)], localTree[q][0])
<1>1. 0 \in 0 .. newNodeNum[q]
  BY DEF Merged, BlockOf
<1>2. SplitPlaced(q, 0, hostTree[0][Addr(q, 0)], localTree[q][0])
  BY <1>1, BlockRows DEF RowPlaced, LeafPlaced
<1> QED BY <1>1, <1>2, SplitChildren

LEMMA TopIsLink ==
  ASSUME NEW n \in Nat, Merged(n), NEW i \in 0 .. MaxWorkSize - 2
  PROVE  i \in Links(hostTree[0])
<1>1. i \in 0 .. n - 1
  BY Sizes DEF Merged
<1>2. hostTree[0][i].left = 2 * i + 1 /\ 2 * i + 1 # 0
  BY Sizes DEF Merged, TopOf
<1>3. DOMAIN hostTree[0] = 0 .. n - 1
  BY DEF Merged
<1> QED BY <1>1, <1>2, <1>3 DEF Links, IsLeaf

\* The rows that are nodes are the top above the start nodes and the blocks.
LEMMA NodeIs ==
  ASSUME NEW n \in Nat, Merged(n), NEW c \in Nodes(hostTree[0])
  PROVE  \/ c \in 0 .. MaxWorkSize - 2
         \/ \E q \in Workers : \E k \in 0 .. newNodeNum[q] : c = Addr(q, k)
<1>s. /\ MaxWorkSize \in Nat /\ MaxWorkSize >= 1 /\ \A r : StartNode(r) = MaxWorkSize - 1 + r
  BY Sizes
<1>1. ASSUME c \in 0 .. 2 * MaxWorkSize - 2
      PROVE  \/ c \in 0 .. MaxWorkSize - 2
             \/ \E q \in Workers : \E k \in 0 .. newNodeNum[q] : c = Addr(q, k)
  <2>1. CASE c \in 0 .. MaxWorkSize - 2
    BY <2>1
  <2>2. CASE c \in MaxWorkSize - 1 .. 2 * MaxWorkSize - 2
    <3> DEFINE q == c - (MaxWorkSize - 1)
    <3>1. q \in Workers /\ c = StartNode(q)
      BY <2>2, <1>s DEF Workers
    <3> HIDE DEF q
    <3>2. 0 \in 0 .. newNodeNum[q]
      BY <3>1, StartIsLink
    <3> QED BY <3>1, <3>2 DEF Addr
  <2> QED BY <1>1, <2>1, <2>2, <1>s
<1>2. CASE c = 0
  BY <1>1, <1>2, <1>s
<1>3. CASE c # 0
  <2>1. PICK i \in Links(hostTree[0]) : c \in {hostTree[0][i].left, hostTree[0][i].right}
    BY <1>3 DEF Nodes, Children
  <2>2. CASE i \in 0 .. MaxWorkSize - 2
    <3>1. c \in {2 * i + 1, 2 * i + 2}
      BY <2>1, <2>2 DEF Merged, TopOf
    <3>2. c \in 0 .. 2 * MaxWorkSize - 2
      BY <3>1, <2>2, <1>s
    <3> QED BY <3>2, <1>1
  <2>3. CASE \E q \in Workers : \E k \in 0 .. newNodeNum[q] :
               i = Addr(q, k) /\ SplitPlaced(q, k, hostTree[0][i], localTree[q][k])
    <3>1. PICK q \in Workers : \E k \in 0 .. newNodeNum[q] :
               i = Addr(q, k) /\ SplitPlaced(q, k, hostTree[0][i], localTree[q][k])
      BY <2>3
    <3>2. PICK k \in 0 .. newNodeNum[q] :
               i = Addr(q, k) /\ SplitPlaced(q, k, hostTree[0][i], localTree[q][k])
      BY <3>1
    <3>3. PICK l : l = localTree[q][k].left
      OBVIOUS
    <3>4. /\ l \in 0 .. newNodeNum[q] /\ l + 1 \in 0 .. newNodeNum[q]
          /\ hostTree[0][i].left = Addr(q, l) /\ hostTree[0][i].right = Addr(q, l + 1)
      BY <3>2, <3>3, SplitChildren
    <3> QED BY <2>1, <3>4
  <2> QED BY <2>1, <2>2, <2>3, LinkIs
<1> QED BY <1>2, <1>3

LEMMA LinkChildren ==
  ASSUME NEW t, NEW i \in Links(t)
  PROVE  t[i].left \in Nodes(t) /\ t[i].right \in Nodes(t)
<1>1. {t[i].left, t[i].right} \subseteq Children(t)
  BY DEF Children
<1> QED BY <1>1 DEF Nodes

\* Every row of the top down to the start nodes has a parent above them.
LEMMA TopIsNode ==
  ASSUME NEW n \in Nat, Merged(n), NEW c \in 0 .. 2 * MaxWorkSize - 2
  PROVE  c \in Nodes(hostTree[0])
<1>s. MaxWorkSize \in Nat /\ MaxWorkSize >= 1
  BY Sizes
<1>1. CASE c = 0
  BY <1>1 DEF Nodes
<1>2. CASE c # 0
  <2>1. PICK i \in 0 .. MaxWorkSize - 2 : c = 2 * i + 1 \/ c = 2 * i + 2
    <3> DEFINE i == (c - 1) \div 2
    <3>1. c - 1 \in Nat /\ c \in Int
      BY <1>2, <1>s
    <3>2. i \in Int /\ 2 * i <= c - 1 /\ c - 1 <= 2 * i + 1
      BY <3>1
    <3> HIDE DEF i
    <3>3. i \in 0 .. MaxWorkSize - 2 /\ (c = 2 * i + 1 \/ c = 2 * i + 2)
      BY <1>2, <1>s, <3>1, <3>2
    <3> QED BY <3>3
  <2>2. i \in Links(hostTree[0])
    BY TopIsLink
  <2>3. hostTree[0][i].left = 2 * i + 1 /\ hostTree[0][i].right = 2 * i + 2
    BY DEF Merged, TopOf
  <2> QED BY <2>1, <2>2, <2>3, LinkChildren
<1> QED BY <1>1, <1>2

\* A row of a block other than the start node has a split parent in the block, and is on a
\* level below the start nodes.
LEMMA BlockParent ==
  ASSUME NEW n \in Nat, Merged(n), NEW q \in Workers, NEW k \in 1 .. newNodeNum[q]
  PROVE  \E j \in 0 .. newNodeNum[q] :
           /\ SplitPlaced(q, j, hostTree[0][Addr(q, j)], localTree[q][j])
           /\ k = localTree[q][j].left \/ k = localTree[q][j].left + 1
<1> DEFINE size == newNodeNum[q]
           local == localTree[q]
<1>1. size \in Nat /\ Shape(local, size + 1, size + 1)
  BY DEF Merged, BlockOf
<1>2. Numbered(local, size + 1, size + 1)
  BY <1>1 DEF Shape
<1>3. PICK j \in 0 .. size : IsSplit(local, j) /\ (k = local[j].left \/ k = local[j].left + 1)
  <2>1. (size + 1) - 1 = size
    BY <1>1
  <2> HIDE DEF size, local
  <2>2. k \in 1 .. (size + 1) - 1
    BY <2>1 DEF size
  <2>3. \E j \in 0 .. (size + 1) - 1 : IsSplit(local, j) /\ (k = local[j].left \/ k = local[j].left + 1)
    BY <1>2, <2>2 DEF Numbered
  <2> QED BY <2>1, <2>3
<1>4. RowPlaced(q, j, hostTree[0][Addr(q, j)], local[j])
  BY BlockRows
<1>5. SplitPlaced(q, j, hostTree[0][Addr(q, j)], local[j])
  BY <1>3, <1>4 DEF RowPlaced, LeafPlaced, IsSplit
<1> QED BY <1>3, <1>5

LEMMA BlockIsNode ==
  ASSUME NEW n \in Nat, Merged(n), NEW q \in Workers, NEW k \in 0 .. newNodeNum[q]
  PROVE  Addr(q, k) \in Nodes(hostTree[0])
<1>1. CASE k = 0
  <2>1. Addr(q, k) \in MaxWorkSize - 1 .. 2 * MaxWorkSize - 2
    BY <1>1, BlockRows
  <2>2. Addr(q, k) \in 0 .. 2 * MaxWorkSize - 2
    BY <2>1, Sizes
  <2> QED BY <2>2, TopIsNode
<1>2. CASE k # 0
  <2>1. k \in 1 .. newNodeNum[q]
    BY <1>2
  <2>2. PICK j \in 0 .. newNodeNum[q] :
           /\ SplitPlaced(q, j, hostTree[0][Addr(q, j)], localTree[q][j])
           /\ k = localTree[q][j].left \/ k = localTree[q][j].left + 1
    BY <2>1, BlockParent
  <2>3. PICK l : l = localTree[q][j].left
    OBVIOUS
  <2>4. /\ Addr(q, j) \in Links(hostTree[0])
        /\ hostTree[0][Addr(q, j)].left = Addr(q, l) /\ hostTree[0][Addr(q, j)].right = Addr(q, l + 1)
    BY <2>2, <2>3, SplitChildren
  <2> QED BY <2>2, <2>3, <2>4, LinkChildren
<1> QED BY <1>1, <1>2

\* What TreeWellFormed says of one tree, in parts.
LinksCut(t) ==
  \A i \in Links(t) :
    /\ {t[i].left, t[i].right} \subseteq {c \in DOMAIN t : c > i}
    /\ Halves(t[i], t[t[i].left], t[t[i].right])
OneParent(t) ==
  \A i, j \in Links(t) : i # j => {t[i].left, t[i].right} \cap {t[j].left, t[j].right} = {}
LeavesFit(t) == \A i \in Leaves(t) : Size(t[i]) <= BlockSize
LeavesBeside(t) ==
  \A i \in Leaves(t) : \A j \in Nodes(t) :
    t[i].level = t[j].level => \A d, e \in NodesBelow(t, j) : i < d <=> i < e

LEMMA MergedLinks ==
  ASSUME NEW n \in Nat, Merged(n)
  PROVE  Links(hostTree[0]) \subseteq Nodes(hostTree[0]) /\ LinksCut(hostTree[0])
<1> DEFINE t == hostTree[0]
<1>s. MaxWorkSize \in Nat /\ MaxWorkSize >= 1 /\ InitialNodeSize = 4 * MaxWorkSize - 1
  BY Sizes
<1>d. DOMAIN t = 0 .. n - 1 /\ InitialNodeSize <= n
  BY DEF Merged
<1>1. ASSUME NEW i \in Links(t)
      PROVE  /\ i \in Nodes(t) /\ t[i].left \in DOMAIN t /\ t[i].right \in DOMAIN t
             /\ t[i].left > i /\ t[i].right > i
             /\ Halves(t[i], t[t[i].left], t[t[i].right])
  <2>1. CASE i \in 0 .. MaxWorkSize - 2
    <3>1. /\ t[i].left = 2 * i + 1 /\ t[i].right = 2 * i + 2
          /\ Halves(t[i], t[2 * i + 1], t[2 * i + 2])
      BY <2>1 DEF Merged, TopOf
    <3>2. /\ 2 * i + 1 \in 0 .. n - 1 /\ 2 * i + 2 \in 0 .. n - 1 /\ 2 * i + 1 > i /\ 2 * i + 2 > i
          /\ i \in 0 .. 2 * MaxWorkSize - 2
      BY <2>1, <1>s, <1>d
    <3>3. i \in Nodes(t)
      BY <3>2, TopIsNode
    <3> QED BY <3>1, <3>2, <3>3, <1>d
  <2>2. CASE \E q \in Workers : \E k \in 0 .. newNodeNum[q] :
               i = Addr(q, k) /\ SplitPlaced(q, k, hostTree[0][i], localTree[q][k])
    <3>1. PICK q \in Workers : \E k \in 0 .. newNodeNum[q] :
               i = Addr(q, k) /\ SplitPlaced(q, k, hostTree[0][i], localTree[q][k])
      BY <2>2
    <3>2. PICK k \in 0 .. newNodeNum[q] :
               i = Addr(q, k) /\ SplitPlaced(q, k, hostTree[0][i], localTree[q][k])
      BY <3>1
    <3>3. PICK l : l = localTree[q][k].left
      OBVIOUS
    <3>4. /\ l \in 0 .. newNodeNum[q] /\ l + 1 \in 0 .. newNodeNum[q]
          /\ t[i].left = Addr(q, l) /\ t[i].right = Addr(q, l + 1)
          /\ i < Addr(q, l) /\ i < Addr(q, l + 1)
          /\ Halves(t[i], t[Addr(q, l)], t[Addr(q, l + 1)])
      BY <3>2, <3>3, SplitChildren
    <3>5. Addr(q, l) \in 0 .. n - 1 /\ Addr(q, l + 1) \in 0 .. n - 1 /\ i \in 0 .. n - 1
      BY <3>2, <3>4, BlockRows
    <3>6. i \in Nodes(t)
      BY <3>2, BlockIsNode
    <3> HIDE DEF t
    <3> QED BY <3>4, <3>5, <3>6, <1>d
  <2> QED BY <2>1, <2>2, LinkIs
<1> HIDE DEF t
<1> QED BY <1>1 DEF LinksCut, t

LEMMA MergedOneParent ==
  ASSUME NEW n \in Nat, Merged(n)
  PROVE  OneParent(hostTree[0])
<1> DEFINE t == hostTree[0]
           kids(i) == {t[i].left, t[i].right}
<1>s. MaxWorkSize \in Nat /\ MaxWorkSize >= 1 /\ InitialNodeSize = 4 * MaxWorkSize - 1
  BY Sizes
\* Children of the top lie in the top, children of a block row in its block.
<1>1. ASSUME NEW i \in 0 .. MaxWorkSize - 2
      PROVE  kids(i) = {2 * i + 1, 2 * i + 2}
  BY DEF Merged, TopOf
<1>2. ASSUME NEW q \in Workers, NEW k \in 0 .. newNodeNum[q], NEW l, l = localTree[q][k].left,
             SplitPlaced(q, k, t[Addr(q, k)], localTree[q][k])
      PROVE  /\ kids(Addr(q, k)) = {Addr(q, l), Addr(q, l + 1)}
             /\ l \in 0 .. newNodeNum[q] /\ l + 1 \in 0 .. newNodeNum[q] /\ l \in Int
             /\ Addr(q, l) >= InitialNodeSize /\ Addr(q, l + 1) >= InitialNodeSize
             /\ l = localTree[q][k].left /\ IsSplit(localTree[q], k)
  <2>1. /\ l \in 0 .. newNodeNum[q] /\ l + 1 \in 0 .. newNodeNum[q] /\ l > 0 /\ l + 1 > 0
        /\ t[Addr(q, k)].left = Addr(q, l) /\ t[Addr(q, k)].right = Addr(q, l + 1)
    BY <1>2, SplitChildren
  <2>2. Addr(q, l) >= InitialNodeSize /\ Addr(q, l + 1) >= InitialNodeSize
    BY <2>1, BlockRows
  <2> QED BY <2>1, <2>2, <1>2 DEF IsSplit
<1> HIDE DEF kids
<1>3. ASSUME NEW i \in 0 .. MaxWorkSize - 2, NEW q \in Workers, NEW k \in 0 .. newNodeNum[q],
             SplitPlaced(q, k, t[Addr(q, k)], localTree[q][k])
      PROVE  kids(i) \cap kids(Addr(q, k)) = {}
  <2>1. PICK l : l = localTree[q][k].left
    OBVIOUS
  <2>2. /\ kids(Addr(q, k)) = {Addr(q, l), Addr(q, l + 1)}
        /\ Addr(q, l) >= InitialNodeSize /\ Addr(q, l + 1) >= InitialNodeSize
    BY <2>1, <1>2, <1>3
  <2>3. kids(i) = {2 * i + 1, 2 * i + 2} /\ 2 * i + 2 < InitialNodeSize /\ i \in Int
    BY <1>1, <1>s
  <2> QED BY <2>2, <2>3, <1>s
<1>4. ASSUME NEW p \in Workers, NEW j \in 0 .. newNodeNum[p],
             SplitPlaced(p, j, t[Addr(p, j)], localTree[p][j]),
             NEW q \in Workers, NEW k \in 0 .. newNodeNum[q],
             SplitPlaced(q, k, t[Addr(q, k)], localTree[q][k]),
             Addr(p, j) # Addr(q, k)
      PROVE  kids(Addr(p, j)) \cap kids(Addr(q, k)) = {}
  <2>1. PICK a, b : a = localTree[p][j].left /\ b = localTree[q][k].left
    OBVIOUS
  <2>2. /\ kids(Addr(p, j)) = {Addr(p, a), Addr(p, a + 1)} /\ a \in Int
        /\ a \in 0 .. newNodeNum[p] /\ a + 1 \in 0 .. newNodeNum[p] /\ IsSplit(localTree[p], j)
    BY <2>1, <1>2, <1>4
  <2>3. /\ kids(Addr(q, k)) = {Addr(q, b), Addr(q, b + 1)} /\ b \in Int
        /\ b \in 0 .. newNodeNum[q] /\ b + 1 \in 0 .. newNodeNum[q] /\ IsSplit(localTree[q], k)
    BY <2>1, <1>2, <1>4
  <2> SUFFICES ASSUME kids(Addr(p, j)) \cap kids(Addr(q, k)) # {}
               PROVE  FALSE
    OBVIOUS
  <2>4. PICK c, d : /\ c \in {a, a + 1} /\ d \in {b, b + 1} /\ Addr(p, c) = Addr(q, d)
    BY <2>2, <2>3
  <2>5. p = q /\ c = d
    <3>1. c \in 0 .. newNodeNum[p] /\ d \in 0 .. newNodeNum[q]
      BY <2>2, <2>3, <2>4
    <3> QED BY <2>4, <3>1, AddrUnique
  <2>6. j # k
    BY <1>4, <2>5
  <2>7. newNodeNum[p] \in Nat /\ Numbered(localTree[p], newNodeNum[p] + 1, newNodeNum[p] + 1)
    BY DEF Merged, BlockOf, Shape
  <2>8. (j < k => a + 2 <= b) /\ (k < j => b + 2 <= a)
    <3>1. j \in 0 .. (newNodeNum[p] + 1) - 1 /\ k \in 0 .. (newNodeNum[p] + 1) - 1
      BY <2>5, <2>7
    <3> QED BY <2>1, <2>2, <2>3, <2>5, <2>7, <3>1 DEF Numbered
  <2>9. j \in Int /\ k \in Int
    BY <2>7
  <2> QED BY <2>2, <2>3, <2>4, <2>5, <2>6, <2>8, <2>9
<1>5. ASSUME NEW i \in 0 .. MaxWorkSize - 2, NEW j \in 0 .. MaxWorkSize - 2, i # j
      PROVE  kids(i) \cap kids(j) = {}
  <2>1. kids(i) = {2 * i + 1, 2 * i + 2} /\ kids(j) = {2 * j + 1, 2 * j + 2} /\ i \in Int /\ j \in Int
    BY <1>1, <1>s
  <2> QED BY <1>5, <2>1
<1> SUFFICES ASSUME NEW i \in Links(t), NEW j \in Links(t), i # j
             PROVE  kids(i) \cap kids(j) = {}
  BY DEF OneParent, kids
<1> DEFINE InBlock(x) == \E q \in Workers : \E k \in 0 .. newNodeNum[q] :
                 x = Addr(q, k) /\ SplitPlaced(q, k, t[x], localTree[q][k])
<1>6. /\ i \in 0 .. MaxWorkSize - 2 \/ InBlock(i)
      /\ j \in 0 .. MaxWorkSize - 2 \/ InBlock(j)
  BY LinkIs
<1> HIDE DEF t
<1> QED BY <1>3, <1>4, <1>5, <1>6

\* A leaf is a row of a block that its rank did not split.
LEMMA LeafIs ==
  ASSUME NEW n \in Nat, Merged(n), NEW i \in Leaves(hostTree[0])
  PROVE  /\ Size(hostTree[0][i]) <= BlockSize
         /\ \E q \in Workers : \E k \in 1 .. newNodeNum[q] : i = Addr(q, k)
<1>1. i \in Nodes(hostTree[0]) /\ hostTree[0][i].left = 0
  BY DEF Leaves, IsLeaf
<1>2. i \notin Links(hostTree[0])
  BY <1>1 DEF Links, IsLeaf
<1>3. PICK q \in Workers : \E k \in 0 .. newNodeNum[q] : i = Addr(q, k)
  BY <1>1, <1>2, NodeIs, TopIsLink
<1>4. PICK k \in 0 .. newNodeNum[q] : i = Addr(q, k)
  BY <1>3
<1>5. RowPlaced(q, k, hostTree[0][i], localTree[q][k])
  BY <1>4, BlockRows
<1>6. ~ SplitPlaced(q, k, hostTree[0][i], localTree[q][k])
  BY <1>2, <1>4, SplitChildren
<1>7. LeafPlaced(k, hostTree[0][i], localTree[q][k])
  BY <1>5, <1>6 DEF RowPlaced
<1>8. k \in 1 .. newNodeNum[q]
  BY <1>7 DEF LeafPlaced
<1> QED BY <1>4, <1>7, <1>8 DEF LeafPlaced

\* The rows of a block under its start node: not empty, inside its range, below its level,
\* and numbered in the order of their levels.
LEMMA BlockLevels ==
  ASSUME BuildInv, NEW n \in Nat, Merged(n), NEW q \in Workers, NEW k \in 0 .. newNodeNum[q]
  PROVE  LET local == localTree[q]
             row == hostTree[0][Addr(q, k)]
         IN  /\ row.level = local[k].level /\ row.level \in Int
             /\ row.first \in Int /\ row.last \in Int
             /\ local[0].first <= row.first /\ row.last <= local[0].last
             /\ local[0].first \in Int /\ local[0].last \in Int
             /\ k > 0 => row.first < row.last /\ row.level > InitialLevel
             /\ k = 0 => row.level = InitialLevel
             /\ \A j \in 0 .. newNodeNum[q] : local[j].level < local[k].level => j < k
<1> DEFINE local == localTree[q]
           size == newNodeNum[q]
           row == hostTree[0][Addr(q, k)]
<1>s. N \in Nat /\ InitialNodeSize + N \in Nat /\ InitialLevel \in Nat
  BY Sizes
<1>1. SameRange(row, local[k]) /\ size \in Nat
  BY BlockRows DEF RowPlaced
<1>2. local[0].level = InitialLevel /\ Shape(local, size + 1, size + 1)
  BY DEF Merged, BlockOf
<1>3. /\ Levelled(local, size + 1, size + 1) /\ Ranged(local, size + 1)
      /\ Numbered(local, size + 1, size + 1)
  BY <1>2 DEF Shape
<1>4. local \in [0 .. N - 1 -> RowType(InitialNodeSize + N)]
  <2>1. q \in Ranks
    BY Sizes DEF Workers, Ranks
  <2> QED BY <2>1 DEF BuildInv, TypeOK
<1>5. Addr(q, k) \in 0 .. n - 1 /\ row \in HostRow
  BY BlockRows DEF Merged
<1>6. /\ row.level \in Int /\ row.first \in Int /\ row.last \in Int
  <2>1. InitialNodeSize + P * N \in Nat
    BY Sizes
  <2> HIDE DEF row
  <2> QED BY <1>5, <2>1, RowInts DEF HostRow
<1>7. local[0].first \in Int /\ local[0].last \in Int
  <2>1. 0 \in 0 .. N - 1
    BY BuildAssumption
  <2> HIDE DEF local
  <2> QED BY <1>4, <1>s, <2>1, RowInts
<1>8. k \in 0 .. (size + 1) - 1 /\ 0 \in 0 .. (size + 1) - 1
  BY <1>1
<1>9. /\ local[0].first <= local[k].first /\ local[k].last <= local[0].last
      /\ k > 0 => local[k].first < local[k].last
  BY <1>3, <1>8 DEF Ranged
<1>10. \A j \in 0 .. size : local[j].level < local[k].level => j < k
  <2> SUFFICES ASSUME NEW j \in 0 .. size, local[j].level < local[k].level, ~ (j < k) PROVE FALSE
    OBVIOUS
  <2>1. j \in 0 .. (size + 1) - 1 /\ k <= j
    BY <1>1
  <2>2. local[k].level <= local[j].level
    BY <2>1, <1>3, <1>8 DEF Levelled
  <2>3. local[j].level = hostTree[0][Addr(q, j)].level
    BY BlockRows DEF RowPlaced, SameRange
  <2>4. hostTree[0][Addr(q, j)].level \in Int
    <3>1. Addr(q, j) \in 0 .. n - 1
      BY BlockRows
    <3>2. hostTree[0][Addr(q, j)] \in HostRow
      BY <3>1 DEF Merged
    <3>3. InitialNodeSize + P * N \in Nat
      BY Sizes
    <3> QED BY <3>2, <3>3, RowInts DEF HostRow
  <2> QED BY <2>2, <2>3, <2>4, <1>1, <1>6 DEF SameRange
<1>11. k > 0 => row.level > InitialLevel
  <2> HAVE k > 0
  <2>1. k \in 1 .. size
    BY <1>1
  <2>2. PICK j \in 0 .. size :
           /\ SplitPlaced(q, j, hostTree[0][Addr(q, j)], local[j])
           /\ k = local[j].left \/ k = local[j].left + 1
    BY <2>1, BlockParent
  <2>3. Halves(local[j], local[local[j].left], local[local[j].left + 1])
    BY <2>2 DEF SplitPlaced
  <2>4. local[k].level = local[j].level + 1
    BY <2>2, <2>3 DEF Halves
  <2>5. local[0].level <= local[j].level
    <3>1. j \in 0 .. (size + 1) - 1 /\ 0 <= j
      BY <1>1
    <3> QED BY <3>1, <1>3, <1>8 DEF Levelled
  <2>6. local[j].level \in Int
    <3>1. hostTree[0][Addr(q, j)] \in HostRow /\ SameRange(hostTree[0][Addr(q, j)], local[j])
      BY BlockRows DEF RowPlaced, Merged
    <3>2. InitialNodeSize + P * N \in Nat
      BY Sizes
    <3>3. hostTree[0][Addr(q, j)].level \in Int
      BY <3>1, <3>2, RowInts DEF HostRow
    <3> QED BY <3>1, <3>3 DEF SameRange
  <2> QED BY <2>4, <2>5, <2>6, <1>1, <1>2, <1>s DEF SameRange
<1> QED BY <1>1, <1>2, <1>6, <1>7, <1>9, <1>10, <1>11 DEF SameRange

\* A node below the start nodes lies in a block.
LEMMA NodeRow ==
  ASSUME NEW n \in Nat, BuildInv, Merged(n), NEW c \in Nodes(hostTree[0])
  PROVE  /\ c \in 0 .. n - 1 /\ hostTree[0][c].level \in Int
         /\ hostTree[0][c].level > InitialLevel =>
              \E q \in Workers : \E k \in 1 .. newNodeNum[q] : c = Addr(q, k)
<1>s. MaxWorkSize \in Nat /\ MaxWorkSize >= 1 /\ InitialLevel \in Nat /\ InitialNodeSize + P * N \in Nat
  BY Sizes
<1>1. c \in 0 .. n - 1
  <2>1. CASE c \in 0 .. MaxWorkSize - 2
    BY <2>1, Sizes DEF Merged
  <2>2. CASE \E q \in Workers : \E k \in 0 .. newNodeNum[q] : c = Addr(q, k)
    BY <2>2, BlockRows
  <2> QED BY <2>1, <2>2, NodeIs
<1>2. hostTree[0][c] \in HostRow
  BY <1>1 DEF Merged
<1>3. hostTree[0][c].level \in Int
  BY <1>2, <1>s, RowInts DEF HostRow
<1>4. ASSUME hostTree[0][c].level > InitialLevel
      PROVE  \E q \in Workers : \E k \in 1 .. newNodeNum[q] : c = Addr(q, k)
  <2>1. ~ (c \in 0 .. MaxWorkSize - 2)
    <3> SUFFICES ASSUME c \in 0 .. MaxWorkSize - 2 PROVE FALSE
      OBVIOUS
    <3>1. hostTree[0][c].level < InitialLevel
      BY DEF Merged, TopOf
    <3> QED BY <1>3, <1>4, <3>1, <1>s
  <2>2. PICK q \in Workers : \E k \in 0 .. newNodeNum[q] : c = Addr(q, k)
    BY <2>1, NodeIs
  <2>3. PICK k \in 0 .. newNodeNum[q] : c = Addr(q, k)
    BY <2>2
  <2>4. k # 0
    <3>1. k = 0 => hostTree[0][c].level = InitialLevel
      BY <2>3, BlockLevels
    <3> QED BY <3>1, <1>4, <1>s
  <2>5. k \in 1 .. newNodeNum[q]
    BY <2>4
  <2> QED BY <2>3, <2>5
<1> QED BY <1>1, <1>3, <1>4

LEMMA MergedLeavesBeside ==
  ASSUME BuildInv, NEW n \in Nat, Merged(n)
  PROVE  LeavesBeside(hostTree[0])
<1> DEFINE t == hostTree[0]
<1>s. MaxWorkSize \in Nat /\ MaxWorkSize >= 1 /\ InitialLevel \in Nat
  BY Sizes
<1> SUFFICES ASSUME NEW i \in Leaves(t), NEW j \in Nodes(t), t[i].level = t[j].level,
                    NEW d \in NodesBelow(t, j), NEW e \in NodesBelow(t, j)
             PROVE  i < d <=> i < e
  BY DEF LeavesBeside
<1>1. PICK p \in Workers : \E a \in 1 .. newNodeNum[p] : i = Addr(p, a)
  BY LeafIs
<1>2. PICK a \in 1 .. newNodeNum[p] : i = Addr(p, a)
  BY <1>1
<1>3. a \in 0 .. newNodeNum[p] /\ a > 0
  OBVIOUS
<1>4. t[i].level > InitialLevel /\ t[i].level \in Int /\ t[i].level = localTree[p][a].level
  BY <1>2, <1>3, BlockLevels
<1>5. PICK q \in Workers : \E b \in 1 .. newNodeNum[q] : j = Addr(q, b)
  BY <1>4, NodeRow
<1>6. PICK b \in 1 .. newNodeNum[q] : j = Addr(q, b)
  BY <1>5
<1>7. /\ t[j].first \in Int /\ t[j].last \in Int
      /\ localTree[q][0].first <= t[j].first /\ t[j].last <= localTree[q][0].last
      /\ localTree[q][0].first \in Int /\ localTree[q][0].last \in Int
  <2>1. b \in 0 .. newNodeNum[q]
    OBVIOUS
  <2> QED BY <1>6, <2>1, BlockLevels
\* The nodes below a node lie in its block.
<1>8. ASSUME NEW c \in NodesBelow(t, j)
      PROVE  \E k \in 1 .. newNodeNum[q] : c = Addr(q, k) /\ localTree[q][k].level > t[j].level
  <2>1. c \in Nodes(t) /\ t[c].level > t[j].level /\ Positions(t[c]) \subseteq Positions(t[j])
    BY DEF NodesBelow
  <2>2. t[c].level \in Int /\ t[c].level > InitialLevel
    BY <2>1, <1>4, <1>s, NodeRow
  <2>3. PICK r \in Workers : \E k \in 1 .. newNodeNum[r] : c = Addr(r, k)
    BY <2>1, <2>2, NodeRow
  <2>4. PICK k \in 1 .. newNodeNum[r] : c = Addr(r, k)
    BY <2>3
  <2>5. k \in 0 .. newNodeNum[r] /\ k > 0
    OBVIOUS
  <2>6. /\ t[c].level = localTree[r][k].level /\ t[c].first \in Int /\ t[c].last \in Int
        /\ localTree[r][0].first <= t[c].first /\ t[c].last <= localTree[r][0].last
        /\ localTree[r][0].first \in Int /\ localTree[r][0].last \in Int
        /\ t[c].first < t[c].last
    BY <2>4, <2>5, BlockLevels
  <2>7. t[j].first <= t[c].first /\ t[c].first < t[j].last
    <3>1. t[c].first \in Positions(t[c])
      BY <2>6 DEF Positions
    <3>2. t[c].first \in Positions(t[j])
      BY <2>1, <3>1
    <3> HIDE DEF t
    <3> QED BY <3>2, <1>7 DEF Positions
  <2>8. r = q
    <3> SUFFICES ASSUME r # q PROVE FALSE
      OBVIOUS
    <3>1. Beside(localTree[r][0], localTree[q][0])
      BY DEF Merged
    <3> HIDE DEF t
    <3> QED BY <3>1, <1>7, <2>6, <2>7 DEF Beside
  <2> QED BY <2>1, <2>4, <2>6, <2>8
<1>9. ASSUME NEW k \in 1 .. newNodeNum[q], localTree[q][k].level > t[j].level
      PROVE  i < Addr(q, k) <=> p <= q
  <2>1. newNodeNum[p] \in Nat /\ newNodeNum[q] \in Nat /\ Base(p) \in Int /\ Base(q) \in Int
        /\ p \in Int /\ q \in Int
    BY <1>s DEF Merged, BlockOf, Workers
  <2>2. i = Base(p) + a - 1 /\ Addr(q, k) = Base(q) + k - 1
    BY <1>2 DEF Addr
  <2>3. CASE p = q
    <3>1. localTree[q][a].level < localTree[q][k].level
      <4>1. k \in 0 .. newNodeNum[q]
        OBVIOUS
      <4>2. localTree[q][k].level \in Int
        BY <4>1, BlockLevels
      <4> QED BY <4>2, <1>4, <1>9, <2>3
    <3>2. a < k
      <4>1. k \in 0 .. newNodeNum[q] /\ a \in 0 .. newNodeNum[q]
        BY <2>3
      <4> QED BY <3>1, <4>1, BlockLevels
    <3> QED BY <2>1, <2>2, <2>3, <3>2
  <2>4. CASE p < q
    <3>1. Base(p) + newNodeNum[p] <= Base(q)
      BY <2>4 DEF Merged
    <3> QED BY <2>1, <2>2, <2>4, <3>1
  <2>5. CASE q < p
    <3>1. Base(q) + newNodeNum[q] <= Base(p)
      BY <2>5 DEF Merged
    <3> QED BY <2>1, <2>2, <2>5, <3>1
  <2> QED BY <2>1, <2>3, <2>4, <2>5
<1>10. PICK k \in 1 .. newNodeNum[q] : d = Addr(q, k) /\ localTree[q][k].level > t[j].level
  BY <1>8
<1>11. PICK l \in 1 .. newNodeNum[q] : e = Addr(q, l) /\ localTree[q][l].level > t[j].level
  BY <1>8
<1> QED BY <1>9, <1>10, <1>11

LEMMA MergedWellFormed ==
  ASSUME AgreeInv, GrowInv, MergedInv, Finished, StartNodesSplit
  PROVE  LET t == hostTree[0]
         IN  /\ t[0].first = 0 /\ t[0].last = N /\ t[0].level = 0
             /\ Links(t) \subseteq Nodes(t) /\ LinksCut(t) /\ OneParent(t)
             /\ LeavesFit(t) /\ LeavesBeside(t)
<1>1. PICK n \in Nat : Merged(n)
  BY TreeMerged
<1>2. BuildInv
  BY DEF AgreeInv
<1>3. hostTree[0][0].first = 0 /\ hostTree[0][0].last = N /\ hostTree[0][0].level = 0
  BY <1>1 DEF Merged, TopOf
<1>4. LeavesFit(hostTree[0])
  BY <1>1, LeafIs DEF LeavesFit
<1> QED BY <1>1, <1>2, <1>3, <1>4, MergedLinks, MergedOneParent, MergedLeavesBeside

\* What holds of the whole history of Build, on which the trees and the boxes rest.
LEMMA HistoryInit ==
  ASSUME BoxesInit
  PROVE  AgreeInv /\ GrowInv /\ MergedInv
<1>0. Init
  BY DEF BoxesInit
<1>1. pc[0] = "initial" /\ 0 \in Ranks
  BY <1>0, Sizes DEF Ranks, Init
<1>2. MergedInv
  BY <1>1 DEF MergedInv, Phase
<1> QED BY <1>2, <1>0, AgreeInit, InitGrow

LEMMA HistoryNext ==
  ASSUME Layout = "left", AxesSeparate, AgreeInv, GrowInv, MergedInv, [BoxesNext]_allVars
  PROVE  AgreeInv' /\ GrowInv' /\ MergedInv'
<1>b. BuildInv
  BY DEF AgreeInv
<1>1. CASE UNCHANGED vars
  <2>1. AgreeInv'
    BY <1>1, UnchangedAgree
  <2>2. GrowInv'
    BY <1>1 DEF vars, GrowInv, TopBuilt, TopDone, LocalBuilt, LocalDone, LocalRows, Started, Phase
  <2>3. MergedInv'
    BY <1>1 DEF vars, MergedInv, TopKept, BlocksPlaced, BlocksOrdered, BlocksCover, RestEmpty,
      RoomLeft, Waiting, Base, Phase
  <2> QED BY <2>1, <2>2, <2>3
<1>2. CASE BuildNext
  <2>1. AgreeInv'
    BY <1>2, InitialSplitAgree, BcastInitialAgree, LocalSplitAgree, SumSizesAgree, MergeRankAgree
    DEF BuildNext
  <2>2. GrowInv'
    BY <1>2, <1>b, InitialSplitGrow, BcastInitialGrow, LocalSplitGrow, SumSizesGrow, MergeRankGrow
    DEF BuildNext
  <2>3. CASE SumSizes
    BY <1>b, <2>1, <2>2, <2>3, SumSizesMerged
  <2>4. CASE MergeRank
    BY <2>1, <2>2, <2>4, MergeRankMerged
  <2>5. CASE InitialSplit \/ BcastInitial \/ \E r \in Ranks : LocalSplit(r)
    <3>1. \E r \in Ranks : pc'[r] \notin {"merge", "done"}
      <4>1. 0 \in Ranks
        BY Sizes DEF Ranks
      <4>2. CASE InitialSplit
        BY <4>1, <4>2 DEF InitialSplit
      <4>3. CASE BcastInitial
        BY <4>1, <4>3 DEF BcastInitial
      <4>4. CASE \E r \in Ranks : LocalSplit(r)
        <5>1. PICK r \in Ranks : LocalSplit(r)
          BY <4>4
        <5>2. pc \in [Ranks -> {"initial", "local", "merge", "done", "fault"}] /\ pc[r] = "local"
          BY <1>b, <5>1 DEF BuildInv, TypeOK, LocalSplit
        <5>3. PICK b : pc' = [pc EXCEPT ![r] = IF b THEN "fault" ELSE @]
          BY <5>1 DEF LocalSplit
        <5>4. pc'[r] \in {"fault", "local"}
          BY <5>2, <5>3
        <5> QED BY <5>4
      <4> QED BY <2>5, <4>2, <4>3, <4>4
    <3>2. MergedInv'
      BY <3>1 DEF MergedInv, Phase
    <3> QED BY <2>1, <2>2, <3>2
  <2> QED BY <1>2, <2>3, <2>4, <2>5 DEF BuildNext
<1> QED BY <1>1, <1>2, BuildOrRest

\* If the axes tell particles apart, so that no more than a block of particles is in one
\* place, and the memory layout is "left", then the tree that Build leaves on every rank is
\* a tree over all particles, whatever the number of ranks, the axes and the order in which
\* the ranks take their turns: provided that every start node was reached by the initial
\* splits and is large enough to be split.
THEOREM TreesAreWellFormed ==
  ASSUME Layout = "left", AxesSeparate
  PROVE  BoxesSpec => []TreeWellFormed
<1> DEFINE Inv == AgreeInv /\ GrowInv /\ MergedInv
<1>1. BoxesInit => Inv
  BY HistoryInit
<1>2. Inv /\ [BoxesNext]_allVars => Inv'
  BY HistoryNext
<1>3. Inv => TreeWellFormed
  <2> SUFFICES ASSUME AgreeInv, GrowInv, MergedInv, Finished, StartNodesSplit, NEW r \in Ranks
               PROVE  LET t == hostTree[r]
      IN  /\ t[0].first = 0 /\ t[0].last = N /\ t[0].level = 0
          /\ Links(t) \subseteq Nodes(t)
          /\ \A i \in Links(t) :
               /\ {t[i].left, t[i].right} \subseteq {c \in DOMAIN t : c > i}
               /\ t[t[i].left].first = t[i].first
               /\ t[t[i].left].last = t[t[i].right].first
               /\ t[t[i].right].last = t[i].last
               /\ Size(t[t[i].left]) > 0 /\ Size(t[t[i].right]) > 0
               /\ t[t[i].left].level = t[i].level + 1
               /\ t[t[i].right].level = t[i].level + 1
          /\ \A i, j \in Links(t) : i # j =>
               {t[i].left, t[i].right} \cap {t[j].left, t[j].right} = {}
          /\ \A i \in Leaves(t) : Size(t[i]) <= BlockSize
          /\ \A i \in Leaves(t) : \A j \in Nodes(t) :
               t[i].level = t[j].level =>
                 \A d, e \in NodesBelow(t, j) : i < d <=> i < e
    BY DEF TreeWellFormed
  <2>1. hostTree[r] = hostTree[0]
    <3>1. Phase({"merge", "done"})
      BY DEF Finished, Phase
    <3> QED BY <3>1 DEF AgreeInv, TreesAgree
  <2> DEFINE t == hostTree[0]
  <2>2. /\ t[0].first = 0 /\ t[0].last = N /\ t[0].level = 0
        /\ Links(t) \subseteq Nodes(t) /\ LinksCut(t) /\ OneParent(t)
        /\ LeavesFit(t) /\ LeavesBeside(t)
    BY MergedWellFormed
  <2> HIDE DEF t
  <2> QED BY <2>1, <2>2 DEF LinksCut, OneParent, LeavesFit, LeavesBeside, Halves, t
<1> QED BY <1>1, <1>2, <1>3, PTL DEF BoxesSpec

-----------------------------------------------------------------------------
(* The maps stay permutations while the ranks reorder and exchange them *)

\* A map that puts each particle at one position leaves no particle out.
LEMMA OneToOneOnto ==
  ASSUME NEW m \in [Particles -> Particles], OneToOne(m), NEW p \in Particles
  PROVE  \E k \in Particles : m[k] = p
<1>1. IsFiniteSet(Particles)
  BY Sizes, FS_Interval DEF Particles
<1>2. m \in Injection(Particles, Particles)
  BY DEF OneToOne, Injection, IsInjective
<1>3. m \in Surjection(Particles, Particles)
  BY <1>1, <1>2, FS_Injection
<1> QED BY <1>3 DEF Surjection

\* Two such maps that agree outside a set have the same particles inside it.
LEMMA SameInside ==
  ASSUME NEW f \in [Particles -> Particles], NEW g \in [Particles -> Particles],
         OneToOne(f), OneToOne(g), NEW A, \A k \in Particles : k \notin A => f[k] = g[k],
         NEW k \in Particles, k \in A
  PROVE  \E j \in Particles : j \in A /\ g[j] = f[k]
<1>1. PICK j \in Particles : g[j] = f[k]
  BY OneToOneOnto
<1>2. j \in A
  BY <1>1 DEF OneToOne
<1> QED BY <1>1, <1>2

\* Every rank's map is a permutation, and that of the top wherever the rank has
\* no work of its own that is not yet broadcast.
Permuted(m) ==
  /\ m \in [Particles -> Particles] /\ OneToOne(m)
  /\ \A r \in Ranks :
       OneToOne(map[r]) /\ \A k \in Particles : k \notin Pending(r) => map[r][k] = m[k]
MapsPermuted == Started /\ StartNodesSplit => \E m : Permuted(m)

\* Rank 0 sends its own map to all.
LEMMA BcastInitialPermuted ==
  ASSUME BuildInv, GrowInv, BcastInitial
  PROVE  MapsPermuted'
<1>1. 0 \in Ranks /\ pc[0] = "initial"
  BY Sizes DEF Ranks, BcastInitial
<1>2. OneToOne(map[0]) /\ map[0] \in [Particles -> Particles]
  BY <1>1 DEF GrowInv, BuildInv, TypeOK
<1>3. \A r \in Ranks : map'[r] = map[0]
  BY DEF BcastInitial
<1>4. PICK m : m = map[0]
  OBVIOUS
<1>5. Permuted(m)'
  BY <1>2, <1>3, <1>4 DEF Permuted, OneToOne
<1> QED BY <1>5 DEF MapsPermuted

\* A rank reorders what the others still wait for.
LEMMA LocalSplitPermuted ==
  ASSUME AxesSeparate, AgreeInv, GrowInv, MapsPermuted, NEW r \in Ranks, LocalSplit(r)
  PROVE  MapsPermuted'
<1>1. BuildInv /\ Phase({"local", "fault"})
  BY LocalSplitVisit DEF AgreeInv
<1>2. Started /\ UNCHANGED <<initTree, merging>>
  BY <1>1 DEF Started, Phase, LocalSplit
<1>3. OneToOne(map'[r]) /\ \A s \in Ranks \ {r} : map'[s] = map[s]
  BY <1>1, LocalSplitShape
<1>4. SUFFICES ASSUME StartNodesSplit PROVE (\E m : Permuted(m))'
  BY <1>2 DEF MapsPermuted, StartNodesSplit
<1>5. PICK m : Permuted(m)
  BY <1>2, <1>4 DEF MapsPermuted
<1>6. ASSUME NEW s \in Ranks
      PROVE  OneToOne(map'[s]) /\ \A k \in Particles : k \notin Pending(s)' => map'[s][k] = m[k]
  <2>1. Pending(s)' = Pending(s)
    BY <1>2 DEF Pending
  <2>2. CASE s = r
    BY <2>1, <2>2, <1>3, <1>5, LocalSplitMoves DEF Permuted
  <2>3. CASE s # r
    BY <2>1, <2>3, <1>3, <1>5 DEF Permuted
  <2> QED BY <2>2, <2>3
<1>7. Permuted(m)'
  BY <1>5, <1>6 DEF Permuted, OneToOne
<1> QED BY <1>7

\* The sizes do not touch the maps.
LEMMA SumSizesPermuted ==
  ASSUME MapsPermuted, SumSizes
  PROVE  MapsPermuted'
<1>1. Started /\ UNCHANGED <<initTree, merging, map>>
  BY DEF Started, Phase, SumSizes
<1> QED BY <1>1 DEF MapsPermuted, StartNodesSplit, Permuted, Pending

\* The piece of the owner takes its place in the other maps: it holds the same
\* particles as what it replaces.
LEMMA MergeRankPermuted ==
  ASSUME AgreeInv, GrowInv, MapsPermuted, MergeRank, Layout = "left"
  PROVE  MapsPermuted'
<1> DEFINE w == merging
           piece == Positions(initTree[0][StartNode(w)])
<1>1. /\ map' = [r \in Ranks |-> MapPiece(r, w)]
      /\ merging' = w + 1 /\ initTree' = initTree /\ Phase({"merge"})
  BY MergeRankTrees
<1>2. 0 \in Ranks /\ Started /\ BuildInv
  BY <1>1, Sizes DEF Ranks, Started, Phase, AgreeInv
<1>3. w \in Ranks /\ w < MaxWorkSize /\ w \in Nat
  BY MergeRankCopies
<1> SUFFICES ASSUME StartNodesSplit PROVE (\E m : Permuted(m))'
  BY <1>1 DEF MapsPermuted, StartNodesSplit
<1>4. PICK m : Permuted(m)
  BY <1>2 DEF MapsPermuted
<1>5. PICK f : f = map[w]
  OBVIOUS
<1>6. /\ f \in [Particles -> Particles] /\ OneToOne(f)
      /\ \A r \in Ranks : map[r] \in [Particles -> Particles] /\ OneToOne(map[r])
  BY <1>2, <1>3, <1>4, <1>5 DEF BuildInv, TypeOK, Permuted
<1>7. \A r \in Ranks : \A k \in Particles : map'[r][k] = IF k \in piece THEN f[k] ELSE map[r][k]
  BY <1>1, <1>2, <1>5 DEF MapPiece, AgreeInv, TopsAgree
<1>8. Pending(w) = piece
  BY <1>3 DEF Pending
<1>9. \A r \in Ranks \ {w} : Pending(r)' = Pending(r) /\ Pending(r) \cap piece = {}
  <2> TAKE r \in Ranks \ {w}
  <2>1. r \in Nat /\ (w <= r <=> w + 1 <= r)
    BY <1>3 DEF Ranks
  <2>2. Pending(r)' = Pending(r)
    BY <1>1, <2>1 DEF Pending
  <2>3. CASE r < MaxWorkSize
    <3>1. TopComplete
      BY <1>2, TopShape DEF GrowInv
    <3>2. r \in 0 .. MaxWorkSize - 1 /\ w \in 0 .. MaxWorkSize - 1
      BY <1>3, <2>1, <2>3, Sizes
    <3>3. Beside(initTree[0][StartNode(r)], initTree[0][StartNode(w)])
      BY <3>1, <3>2 DEF TopComplete
    <3>4. StartNode(r) \in 0 .. InitialNodeSize - 1 /\ StartNode(w) \in 0 .. InitialNodeSize - 1
      BY <3>2, Sizes
    <3>5. /\ initTree[0][StartNode(r)] \in RowType(InitialNodeSize)
          /\ initTree[0][StartNode(w)] \in RowType(InitialNodeSize)
      <4>1. initTree[0] \in [0 .. InitialNodeSize - 1 -> RowType(InitialNodeSize)]
        BY <1>2 DEF BuildInv, TypeOK
      <4> QED BY <3>4, <4>1
    <3>6. Positions(initTree[0][StartNode(r)]) \cap piece = {}
      BY <3>3, <3>5, Sizes DEF Beside, Positions, RowType
    <3> QED BY <2>2, <3>6 DEF Pending
  <2>4. CASE ~ (r < MaxWorkSize)
    BY <2>2, <2>4 DEF Pending
  <2> QED BY <2>3, <2>4
<1>10. ASSUME NEW k \in Particles, k \notin piece PROVE f[k] = m[k]
  BY <1>3, <1>4, <1>5, <1>8, <1>10 DEF Permuted
<1>11. ASSUME NEW r \in Ranks, NEW k \in Particles, k \notin Pending(r)'
       PROVE  map'[r][k] = f[k]
  <2>1. CASE k \in piece
    BY <1>7, <2>1
  <2>2. CASE k \notin piece /\ r = w
    BY <1>5, <1>7, <2>2
  <2>3. CASE k \notin piece /\ r # w
    <3>1. k \notin Pending(r)
      BY <1>9, <1>11, <2>3
    <3> QED BY <1>4, <1>7, <1>10, <2>3, <3>1 DEF Permuted
  <2> QED BY <2>1, <2>2, <2>3
<1>12. ASSUME NEW r \in Ranks PROVE OneToOne(map'[r])
  <2>1. ASSUME NEW j \in Particles, NEW k \in Particles, j \notin piece, k \in piece
        PROVE  map[r][j] # f[k]
    <3>1. CASE j \notin Pending(r)
      <4>1. map[r][j] = f[j]
        BY <1>4, <1>10, <2>1, <3>1 DEF Permuted
      <4> QED BY <1>6, <2>1, <4>1 DEF OneToOne
    <3>2. CASE j \in Pending(r)
      <4>0. r # w
        BY <1>8, <2>1, <3>2
      <4>1. \A i \in Particles : i \notin Pending(r) => map[r][i] = m[i]
        BY <1>4 DEF Permuted
      <4>2. PICK i \in Particles : i \in Pending(r) /\ m[i] = map[r][j]
        <5>1. m \in [Particles -> Particles] /\ OneToOne(m) /\ OneToOne(map[r])
              /\ map[r] \in [Particles -> Particles]
          BY <1>4, <1>6 DEF Permuted
        <5>2. PICK g, A : g = map[r] /\ A = Pending(r)
          OBVIOUS
        <5>3. /\ g \in [Particles -> Particles] /\ OneToOne(g) /\ j \in A
              /\ \A i \in Particles : i \notin A => g[i] = m[i]
          BY <3>2, <4>1, <5>1, <5>2
        <5>4. \E i \in Particles : i \in A /\ m[i] = g[j]
          BY <5>1, <5>3, SameInside
        <5> QED BY <5>2, <5>4
      <4>3. i \notin piece
        BY <1>9, <4>0, <4>2
      <4>4. f[i] = map[r][j]
        BY <1>10, <4>2, <4>3
      <4> QED BY <1>6, <2>1, <4>3, <4>4 DEF OneToOne
    <3> QED BY <3>1, <3>2
  <2>2. ASSUME NEW j \in Particles, NEW k \in Particles, map'[r][j] = map'[r][k] PROVE j = k
    <3>1. /\ map'[r][j] = IF j \in piece THEN f[j] ELSE map[r][j]
          /\ map'[r][k] = IF k \in piece THEN f[k] ELSE map[r][k]
      BY <1>7
    <3>2. CASE j \in piece <=> k \in piece
      BY <1>6, <2>2, <3>1, <3>2 DEF OneToOne
    <3>3. CASE ~ (j \in piece <=> k \in piece)
      BY <2>1, <2>2, <3>1, <3>3
    <3> QED BY <3>2, <3>3
  <2> QED BY <2>2 DEF OneToOne
<1>13. Permuted(f)'
  BY <1>6, <1>11, <1>12 DEF Permuted, OneToOne
<1> QED BY <1>13

\* When Build is done, all ranks have one map, which has every particle once.
LEMMA MapsFinal ==
  ASSUME AgreeInv, MapsPermuted, Finished, StartNodesSplit
  PROVE  /\ \A r \in Ranks : map[r] = map[0]
         /\ map[0] \in [Particles -> Particles] /\ OneToOne(map[0])
<1>1. 0 \in Ranks /\ Started /\ pc[0] = "done" /\ Phase({"merge", "done"})
  BY Sizes DEF Ranks, Finished, Started, Phase
<1>2. merging = MaxWorkSize
  BY <1>1 DEF AgreeInv, BuildInv, PhaseInv, Phase
<1>3. \A r \in Ranks : Pending(r) = {}
  BY <1>2, Sizes DEF Pending, Ranks
<1>4. PICK m : Permuted(m)
  BY <1>1 DEF MapsPermuted
<1>5. \A r \in Ranks : map[r] \in [Particles -> Particles]
  BY DEF AgreeInv, BuildInv, TypeOK
<1>6. \A r \in Ranks : map[r] = m
  BY <1>3, <1>4, <1>5 DEF Permuted
<1> QED BY <1>1, <1>4, <1>6 DEF Permuted

-----------------------------------------------------------------------------
(* The leaves whose boxes a rank computes *)

\* The recursive function that collects the leaves under each row from k on.
Gathers(t, k, f) ==
  f = [i \in {j \in DOMAIN t : j >= k} |->
         IF IsLeaf(t[i]) THEN {i} ELSE f[t[i].left] \cup f[t[i].right]]

\* Every link leads to a later row of a tree of n rows.
LinksAhead(n, t) ==
  DOMAIN t = 0 .. n - 1 /\ \A i \in Links(t) : /\ t[i].left \in i + 1 .. n - 1
                                               /\ t[i].right \in i + 1 .. n - 1

\* The function that LeavesUnder chooses exists: by induction from the last row.
LEMMA GathersExists ==
  ASSUME NEW n \in Nat, NEW t, LinksAhead(n, t)
  PROVE  \E f : Gathers(t, 0, f)
<1> DEFINE A == {k \in 0 .. n : \E f : Gathers(t, k, f)}
<1>d. DOMAIN t = 0 .. n - 1
  BY DEF LinksAhead
<1>1. n \in A
  <2> DEFINE f == [i \in {} |-> {}]
  <2>1. {j \in DOMAIN t : j >= n} = {}
    BY <1>d
  <2>2. f = [i \in {} |-> IF IsLeaf(t[i]) THEN {i} ELSE f[t[i].left] \cup f[t[i].right]]
    OBVIOUS
  <2>3. Gathers(t, n, f)
    <3> HIDE DEF f
    <3> QED BY <2>1, <2>2 DEF Gathers
  <2> QED BY <2>3
<1>2. PICK k \in A : \A j \in A : k <= j
  <2> A \in SUBSET Nat
    OBVIOUS
  <2> HIDE DEF A
  <2> QED BY <1>1, LeastNumber
<1>3. CASE k # 0
  <2>1. k - 1 \in 0 .. n - 1 /\ k - 1 \in 0 .. n /\ k \in 0 .. n
    BY <1>2, <1>3
  <2>2. PICK g : Gathers(t, k, g)
    BY <1>2
  <2> DEFINE D == {j \in DOMAIN t : j >= k - 1}
             b == k - 1
             f == [i \in D |->
                     IF i # b THEN g[i]
                     ELSE IF IsLeaf(t[b]) THEN {b} ELSE g[t[b].left] \cup g[t[b].right]]
  <2>3. \A i \in D : i # b => i \in DOMAIN t /\ i >= k
    BY <1>d, <2>1
  <2>4. \A i \in DOMAIN t : i >= k =>
          g[i] = IF IsLeaf(t[i]) THEN {i} ELSE g[t[i].left] \cup g[t[i].right]
    BY <2>2 DEF Gathers
  <2>5. \A i \in D : ~ IsLeaf(t[i]) => /\ t[i].left \in D /\ t[i].left # b
                                       /\ t[i].right \in D /\ t[i].right # b
    <3> TAKE i \in D
    <3> HAVE ~ IsLeaf(t[i])
    <3>1. i \in Links(t) /\ i \in 0 .. n - 1 /\ i >= k - 1
      BY <1>d DEF Links
    <3>2. t[i].left \in i + 1 .. n - 1 /\ t[i].right \in i + 1 .. n - 1
      BY <3>1 DEF LinksAhead
    <3> QED BY <1>d, <2>1, <3>1, <3>2
  <2>6. \A i \in D : f[i] = IF IsLeaf(t[i]) THEN {i} ELSE f[t[i].left] \cup f[t[i].right]
    <3> TAKE i \in D
    <3> HIDE DEF D, b
    <3>1. ~ IsLeaf(t[i]) => f[t[i].left] = g[t[i].left] /\ f[t[i].right] = g[t[i].right]
      BY <2>5
    <3>2. f[i] = IF i # b THEN g[i]
                 ELSE IF IsLeaf(t[b]) THEN {b} ELSE g[t[b].left] \cup g[t[b].right]
      OBVIOUS
    <3> HIDE DEF f
    <3>3. i # b => g[i] = IF IsLeaf(t[i]) THEN {i} ELSE g[t[i].left] \cup g[t[i].right]
      BY <2>3, <2>4
    <3> QED BY <3>1, <3>2, <3>3
  <2>7. f = [i \in D |-> f[i]]
    OBVIOUS
  <2>8. Gathers(t, k - 1, f)
    <3> HIDE DEF f
    <3> QED BY <2>6, <2>7 DEF Gathers
  <2>9. k - 1 \in A
    BY <2>1, <2>8
  <2> QED BY <1>2, <2>1, <2>9
<1>4. CASE k = 0
  BY <1>2, <1>4
<1> QED BY <1>3, <1>4

\* Only leaves are collected.
LEMMA GatheredAreLeaves ==
  ASSUME NEW n \in Nat, NEW t, LinksAhead(n, t), NEW node \in 0 .. n - 1,
         NEW leaf \in LeavesUnder(t, node)
  PROVE  leaf \in DOMAIN t /\ IsLeaf(t[leaf])
<1> DEFINE under == CHOOSE f : Gathers(t, 0, f)
           L == {i \in DOMAIN t : IsLeaf(t[i])}
           A == {k \in 0 .. n - 1 : ~ (under[n - 1 - k] \subseteq L)}
<1>d. DOMAIN t = 0 .. n - 1 /\ {j \in DOMAIN t : j >= 0} = DOMAIN t
  BY DEF LinksAhead
<1>1. Gathers(t, 0, under)
  BY GathersExists
<1>2. LeavesUnder(t, node) = under[node]
  BY <1>d DEF LeavesUnder, Gathers
<1> HIDE DEF under
<1>3. \A i \in 0 .. n - 1 : under[i] = IF IsLeaf(t[i]) THEN {i}
                                       ELSE under[t[i].left] \cup under[t[i].right]
  BY <1>1, <1>d DEF Gathers
<1>4. A = {}
  <2> SUFFICES ASSUME A # {} PROVE FALSE
    OBVIOUS
  <2>1. PICK k \in A : \A j \in A : k <= j
    <3> A \in SUBSET Nat
      OBVIOUS
    <3> HIDE DEF A
    <3> QED BY LeastNumber
  <2>2. PICK i \in 0 .. n - 1 : i = n - 1 - k
    BY <2>1
  <2>3. \A j \in i + 1 .. n - 1 : under[j] \subseteq L
    <3> TAKE j \in i + 1 .. n - 1
    <3>1. n - 1 - j \in 0 .. n - 1 /\ n - 1 - j < k /\ n - 1 - (n - 1 - j) = j
      BY <2>1, <2>2
    <3> QED BY <2>1, <3>1
  <2>4. under[i] \subseteq L
    <3>1. CASE IsLeaf(t[i])
      <4>1. under[i] = {i}
        BY <1>3, <3>1
      <4>2. i \in L
        BY <1>d, <3>1
      <4> QED BY <4>1, <4>2
    <3>2. CASE ~ IsLeaf(t[i])
      <4>1. i \in Links(t)
        BY <1>d, <3>2 DEF Links
      <4>2. t[i].left \in i + 1 .. n - 1 /\ t[i].right \in i + 1 .. n - 1
        BY <4>1 DEF LinksAhead
      <4>3. under[t[i].left] \subseteq L /\ under[t[i].right] \subseteq L
        BY <2>3, <4>2
      <4>4. under[i] = under[t[i].left] \cup under[t[i].right]
        BY <1>3, <3>2
      <4> QED BY <4>3, <4>4
    <3> QED BY <3>1, <3>2
  <2> QED BY <2>1, <2>2, <2>4
<1>5. under[node] \subseteq L
  <2>1. n - 1 - node \in 0 .. n - 1 /\ n - 1 - (n - 1 - node) = node
    OBVIOUS
  <2> QED BY <1>4, <2>1
<1> QED BY <1>2, <1>5

-----------------------------------------------------------------------------
(* The boxes hold what they should *)

BoxOf(i) == ComputeAux(0, hostTree[0][i])

\* A box is that of the row's particles, or unset, and then its parent's is too.
Exact(r) == \A i \in DOMAIN hostTree[0] : aux[r][i] # Unset => aux[r][i] = BoxOf(i)
Closed(r) ==
  \A i \in Links(hostTree[0]) :
    aux[r][i] # Unset =>
      aux[r][hostTree[0][i].left] # Unset /\ aux[r][hostTree[0][i].right] # Unset

\* A loop that started at a row ends when that row has a box.
Climbing(r, root) ==
  IF auxStack[r] = <<>> THEN aux[r][root] # Unset ELSE auxStack[r][1] = root

\* What a rank has done once the check began.
Pcs == {"leaves", "subtree", "bcast", "top", "done"}
RankGrows(r) ==
  /\ Exact(r) /\ Closed(r)
  /\ auxPc[r] = "subtree" => Climbing(r, StartNode(r))
  /\ auxPc[r] = "bcast" /\ r < MaxWorkSize => aux[r][StartNode(r)] # Unset
  /\ auxPc[r] = "top" => Climbing(r, 0)
  /\ auxPc[r] = "done" => aux[r][0] # Unset
BoxesGrow ==
  StartNodesSplit /\ (\E r \in Ranks : auxPc[r] # "build") => \A r \in Ranks : RankGrows(r)

\* What is settled when the boxes are computed.
Settled(n) ==
  /\ Merged(n) /\ BoxesOver(n) /\ BuildInv
  /\ \A r \in Ranks : hostTree[r] = hostTree[0] /\ map[r] = map[0]
  /\ map[0] \in [Particles -> Particles] /\ OneToOne(map[0])

\* After Build the tree and the map are what the boxes rely on.
LEMMA TreeSettles ==
  ASSUME AgreeInv, GrowInv, MergedInv, MapsPermuted, Finished, StartNodesSplit,
         NEW n \in Nat, BoxesOver(n)
  PROVE  Settled(n)
<1>1. 0 \in Ranks /\ Phase({"merge", "done"})
  BY Sizes DEF Ranks, Finished, Phase
<1>2. \A r \in Ranks : hostTree[r] = hostTree[0]
  BY <1>1 DEF AgreeInv, TreesAgree
<1>3. PICK m \in Nat : Merged(m)
  BY TreeMerged
<1>4. m = n
  <2>1. 0 .. m - 1 = 0 .. n - 1
    BY <1>1, <1>3 DEF Merged, BoxesOver
  <2>2. m >= 1 /\ n >= 1
    BY <1>3, Sizes DEF Merged, BoxesOver
  <2>3. m - 1 \in 0 .. n - 1 /\ n - 1 \in 0 .. m - 1
    BY <2>1, <2>2
  <2> QED BY <2>2, <2>3
<1> QED BY <1>2, <1>3, <1>4, MapsFinal DEF Settled, AgreeInv

\* A link leads to two later rows, which halve its range.
LEMMA SettledLinks ==
  ASSUME NEW n \in Nat, Settled(n)
  PROVE  /\ LinksAhead(n, hostTree[0]) /\ InitialNodeSize <= n
         /\ \A i \in Links(hostTree[0]) :
              /\ hostTree[0][i].left \in 0 .. n - 1 /\ hostTree[0][i].right \in 0 .. n - 1
              /\ Halves(hostTree[0][i], hostTree[0][hostTree[0][i].left],
                        hostTree[0][hostTree[0][i].right])
<1> DEFINE t == hostTree[0]
<1>1. Merged(n) /\ DOMAIN t = 0 .. n - 1 /\ InitialNodeSize <= n
  BY DEF Settled, Merged
<1>2. LinksCut(t)
  BY <1>1, MergedLinks
<1> HIDE DEF t
<1>3. \A i \in Links(t) : /\ i \in 0 .. n - 1
                          /\ t[i].left \in 0 .. n - 1 /\ t[i].left > i
                          /\ t[i].right \in 0 .. n - 1 /\ t[i].right > i
                          /\ Halves(t[i], t[t[i].left], t[t[i].right])
  BY <1>1, <1>2 DEF LinksCut, Links
<1> QED BY <1>1, <1>3 DEF LinksAhead, t

\* A row's box is a set of particles, the same on every rank, and the union of its children's.
LEMMA BoxesOfRows ==
  ASSUME NEW n \in Nat, Settled(n), NEW i \in 0 .. n - 1
  PROVE  /\ BoxOf(i) # Unset
         /\ \A r \in Ranks : ComputeAux(r, hostTree[r][i]) = BoxOf(i)
         /\ i \in Links(hostTree[0]) =>
              BoxOf(i) = BoxOf(hostTree[0][i].left) \cup BoxOf(hostTree[0][i].right)
<1> DEFINE t == hostTree[0]
<1>0. 0 \in Ranks /\ N \in Nat /\ InitialNodeSize + P * N \in Nat
  <2>1. InitialNodeSize \in Nat /\ P \in Nat /\ N \in Nat /\ 0 \in Ranks
    BY Sizes DEF Ranks
  <2> QED BY <2>1
<1>1. t \in [0 .. n - 1 -> HostRow] /\ map[0] \in [Particles -> Particles]
  BY <1>0 DEF Settled, BoxesOver
<1>2. \A j \in 0 .. n - 1 : t[j].first \in 0 .. N /\ t[j].last \in 0 .. N
  BY <1>1, <1>0 DEF HostRow, RowType
<1>3. \A j \in 0 .. n - 1 : Positions(t[j]) \subseteq Particles
  BY <1>0, <1>2 DEF Positions, Particles
<1>4. BoxOf(i) # Unset
  <2>1. BoxOf(i) \subseteq Particles
    BY <1>1, <1>3 DEF BoxOf, ComputeAux
  <2>2. -1 \notin Particles
    BY DEF Particles
  <2> QED BY <2>1, <2>2 DEF Unset
<1>5. \A r \in Ranks : ComputeAux(r, hostTree[r][i]) = BoxOf(i)
  BY DEF Settled, BoxOf, ComputeAux
<1>6. ASSUME i \in Links(t)
      PROVE  BoxOf(i) = BoxOf(t[i].left) \cup BoxOf(t[i].right)
  <2>1. /\ t[i].left \in 0 .. n - 1 /\ t[i].right \in 0 .. n - 1
        /\ Halves(t[i], t[t[i].left], t[t[i].right])
    BY <1>6, SettledLinks
  <2> DEFINE l == t[i].left
             r == t[i].right
  <2>2. /\ t[l].first = t[i].first /\ t[l].last = t[r].first /\ t[r].last = t[i].last
        /\ t[l].last - t[l].first > 0 /\ t[r].last - t[r].first > 0
    BY <2>1 DEF Halves, Size
  <2> HIDE DEF l, r
  <2>3. l \in 0 .. n - 1 /\ r \in 0 .. n - 1
    BY <2>1 DEF l, r
  <2> HIDE DEF t
  <2>4. Positions(t[i]) = Positions(t[l]) \cup Positions(t[r])
    BY <1>2, <2>2, <2>3 DEF Positions
  <2> QED BY <2>4 DEF BoxOf, ComputeAux, t, l, r
<1> QED BY <1>4, <1>5, <1>6

\* Popping a stack keeps its first element, unless it was the only one.
LEMMA PopFirst ==
  ASSUME NEW A, NEW s \in Seq(A), s # <<>>
  PROVE  \/ Top(s) = s[1] /\ Pop(s) = <<>>
         \/ Pop(s) # <<>> /\ Pop(s)[1] = s[1]
<1>1. Len(s) \in Nat /\ Len(s) >= 1
  OBVIOUS
<1>2. PICK j \in Nat : j = Len(s) - 1
  BY <1>1
<1> DEFINE u == SubSeq(s, 1, j)
<1>3. Pop(s) = u
  BY <1>2 DEF Pop
<1>4. CASE j = 0
  BY <1>1, <1>2, <1>3, <1>4, PopType DEF Top
<1>5. CASE j > 0
  <2>1. Len(u) = j
    BY <1>1, <1>2, <1>5
  <2>2. u[1] = s[1]
    BY <1>1, <1>2, <1>5
  <2>3. u # <<>>
    BY <2>1, <1>5
  <2> QED BY <1>3, <2>2, <2>3
<1> QED BY <1>4, <1>5

\* Pushing on a stack keeps its first element.
LEMMA PushFirst ==
  ASSUME NEW A, NEW s \in Seq(A), s # <<>>, NEW u \in Seq(A)
  PROVE  s \o u # <<>> /\ (s \o u)[1] = s[1]
<1>1. Len(s) \in Nat /\ Len(s) >= 1 /\ Len(u) \in Nat
  OBVIOUS
<1>2. Len(s \o u) = Len(s) + Len(u) /\ 1 \in 1 .. Len(s)
  BY <1>1
<1>3. (s \o u)[1] = s[1]
  BY <1>1, <1>2
<1> QED BY <1>1, <1>2, <1>3

\* One turn of a loop that started at a row.
LEMMA ClimbGrows ==
  ASSUME NEW n \in Nat, Settled(n), UNCHANGED vars, NEW r \in Ranks, Exact(r), Closed(r),
         NEW root \in 0 .. n - 1, auxStack[r] # <<>>, Climbing(r, root),
         NEW leafBox, Climb(r, leafBox),
         leafBox # Unset => leafBox = BoxOf(Top(auxStack[r])),
         aux[r][Top(auxStack[r])] # Unset => leafBox # Unset,
         IsLeaf(hostTree[0][root]) => leafBox # Unset
  PROVE  /\ Exact(r)' /\ Closed(r)' /\ Climbing(r, root)'
         /\ \A s \in Ranks \ {r} : aux'[s] = aux[s] /\ auxStack'[s] = auxStack[s]
<1> DEFINE t == hostTree[0]
           node == Top(auxStack[r])
           row == t[node]
           l == row.left
           h == row.right
<1>0. /\ aux \in [Ranks -> [0 .. n - 1 -> Box]] /\ auxStack \in [Ranks -> Seq(0 .. n - 1)]
      /\ hostTree[r] = t /\ t \in [0 .. n - 1 -> HostRow]
  BY DEF Settled, BoxesOver
<1>1. node \in 0 .. n - 1 /\ auxStack[r] \in Seq(0 .. n - 1) /\ DOMAIN t = 0 .. n - 1
  BY <1>0, PopType
<1>2. \A i : BoxOf(i)' = BoxOf(i)
  BY DEF vars, BoxOf, ComputeAux
<1>3. hostTree' = hostTree
  BY DEF vars
<1>4. auxStack[r][1] = root
  BY DEF Climbing
<1>5. ASSUME NEW box, aux' = [aux EXCEPT ![r][node] = box],
             auxStack' = [auxStack EXCEPT ![r] = Pop(@)],
             box # Unset => box = BoxOf(node), aux[r][node] # Unset => box # Unset,
             node = root => box # Unset,
             node \in Links(t) => aux[r][l] # Unset /\ aux[r][h] # Unset
      PROVE  /\ Exact(r)' /\ Closed(r)' /\ Climbing(r, root)'
             /\ \A s \in Ranks \ {r} : aux'[s] = aux[s] /\ auxStack'[s] = auxStack[s]
  <2> HIDE DEF node, t
  <2>1. aux'[r][node] = box /\ \A i \in 0 .. n - 1 : i # node => aux'[r][i] = aux[r][i]
    BY <1>0, <1>1, <1>5
  <2>2. \A i \in 0 .. n - 1 : aux[r][i] # Unset => aux'[r][i] # Unset
    BY <1>5, <2>1
  <2>3. Exact(r)'
    BY <1>1, <1>2, <1>3, <1>5, <2>1 DEF Exact, t
  <2>4. Closed(r)'
    <3> SUFFICES ASSUME NEW i \in Links(t), aux'[r][i] # Unset
                 PROVE  aux'[r][t[i].left] # Unset /\ aux'[r][t[i].right] # Unset
      BY <1>3 DEF Closed, t
    <3>1. t[i].left \in 0 .. n - 1 /\ t[i].right \in 0 .. n - 1 /\ i \in 0 .. n - 1
      BY SettledLinks, <1>1 DEF t, Links
    <3>2. aux[r][t[i].left] # Unset /\ aux[r][t[i].right] # Unset
      BY <1>5, <2>1, <3>1 DEF Closed, t
    <3> QED BY <2>2, <3>1, <3>2
  <2>5. Climbing(r, root)'
    <3>1. auxStack'[r] = Pop(auxStack[r])
      BY <1>0, <1>5
    <3>2. \/ node = root /\ Pop(auxStack[r]) = <<>>
          \/ Pop(auxStack[r]) # <<>> /\ Pop(auxStack[r])[1] = root
      BY <1>1, <1>4, PopFirst DEF node
    <3> QED BY <1>5, <2>1, <3>1, <3>2 DEF Climbing
  <2>6. \A s \in Ranks \ {r} : aux'[s] = aux[s] /\ auxStack'[s] = auxStack[s]
    BY <1>0, <1>5
  <2> QED BY <2>3, <2>4, <2>5, <2>6
<1>6. CASE IsLeaf(row)
  <2>1. aux' = [aux EXCEPT ![r][node] = leafBox] /\ auxStack' = [auxStack EXCEPT ![r] = Pop(@)]
    BY <1>0, <1>6 DEF Climb
  <2>2. node \notin Links(t)
    BY <1>6 DEF Links
  <2> HIDE DEF node, t
  <2> QED BY <1>5, <1>6, <2>1, <2>2 DEF node, t
<1>7. CASE ~ IsLeaf(row) /\ Missing(r, row) # <<>>
  <2>1. aux' = aux /\ auxStack' = [auxStack EXCEPT ![r] = @ \o Missing(r, row)]
    BY <1>0, <1>7 DEF Climb
  <2>2. l \in 0 .. n - 1 /\ h \in 0 .. n - 1
    <3>1. node \in Links(t)
      BY <1>1, <1>7 DEF Links
    <3> QED BY <3>1, SettledLinks
  <2>3. auxStack'[r] # <<>> /\ auxStack'[r][1] = root
    <3> DEFINE A == 0 .. n - 1
    <3> HIDE DEF A
    <3>1. l \in A /\ h \in A /\ auxStack[r] \in Seq(A)
      BY <1>1, <2>2 DEF A
    <3> HIDE DEF row
    <3>2. IfMissing(r, l) \in Seq(A) /\ IfMissing(r, h) \in Seq(A)
      <4> HIDE DEF l, h
      <4> QED BY <3>1 DEF IfMissing
    <3>3. Missing(r, row) \in Seq(A)
      BY <3>2 DEF Missing
    <3>4. auxStack'[r] = auxStack[r] \o Missing(r, row)
      BY <1>0, <2>1
    <3> QED BY <1>4, <3>1, <3>3, <3>4, PushFirst
  <2>4. Climbing(r, root)'
    BY <2>3 DEF Climbing
  <2>5. Exact(r)' /\ Closed(r)'
    BY <1>2, <1>3, <2>1 DEF Exact, Closed
  <2> QED BY <1>0, <2>1, <2>4, <2>5
<1>8. CASE ~ IsLeaf(row) /\ Missing(r, row) = <<>>
  <2>1. /\ aux' = [aux EXCEPT ![r][node] = aux[r][l] \cup aux[r][h]]
        /\ auxStack' = [auxStack EXCEPT ![r] = Pop(@)]
    BY <1>0, <1>8 DEF Climb
  <2>2. node \in Links(t)
    BY <1>1, <1>8 DEF Links
  <2>3. aux[r][l] # Unset /\ aux[r][h] # Unset
    <3> HIDE DEF row
    <3>1. \A c : IfMissing(r, c) \in Seq({c})
      <4> TAKE c
      <4>1. <<c>> \in Seq({c}) /\ <<>> \in Seq({c})
        OBVIOUS
      <4> QED BY <4>1 DEF IfMissing
    <3>2. Len(IfMissing(r, l)) + Len(IfMissing(r, h)) = 0
      BY <1>8, <3>1 DEF Missing
    <3>3. Len(IfMissing(r, l)) = 0 /\ Len(IfMissing(r, h)) = 0
      BY <3>1, <3>2
    <3> QED BY <3>3 DEF IfMissing
  <2>4. l \in 0 .. n - 1 /\ h \in 0 .. n - 1
    BY <2>2, SettledLinks
  <2>5. aux[r][l] \cup aux[r][h] = BoxOf(node)
    <3>1. aux[r][l] = BoxOf(l) /\ aux[r][h] = BoxOf(h)
      BY <1>1, <2>3, <2>4 DEF Exact
    <3>2. BoxOf(node) = BoxOf(l) \cup BoxOf(h)
      BY <1>1, <2>2, BoxesOfRows
    <3> QED BY <3>1, <3>2
  <2>6. BoxOf(node) # Unset
    BY <1>1, BoxesOfRows
  <2> HIDE DEF node, t, l, h
  <2> QED BY <1>5, <2>1, <2>3, <2>5, <2>6
<1> QED BY <1>6, <1>7, <1>8

-----------------------------------------------------------------------------
(* The steps that compute and exchange boxes *)

\* A rank keeps what it has done when only others step.
LEMMA RankKept ==
  ASSUME UNCHANGED vars, NEW s \in Ranks, RankGrows(s),
         aux'[s] = aux[s], auxStack'[s] = auxStack[s], auxPc'[s] = auxPc[s]
  PROVE  RankGrows(s)'
<1>1. hostTree' = hostTree /\ \A i : BoxOf(i)' = BoxOf(i)
  BY DEF vars, BoxOf, ComputeAux
<1>2. Exact(s)' /\ Closed(s)'
  BY <1>1 DEF RankGrows, Exact, Closed
<1>3. \A root : Climbing(s, root)' = Climbing(s, root)
  BY DEF Climbing
<1> QED BY <1>2, <1>3 DEF RankGrows

\* The leaves get their boxes, and the climb starts at the start node.
LEMMA LocalLeavesGrows ==
  ASSUME NEW n \in Nat, Settled(n), \A s \in Ranks : RankGrows(s), auxPc \in [Ranks -> Pcs],
         NEW r \in Ranks, r < MaxWorkSize, LocalLeaves(r)
  PROVE  \A s \in Ranks : RankGrows(s)'
<1> DEFINE t == hostTree[0]
           leaves == LeavesUnder(t, StartNode(r))
<1>0. /\ aux \in [Ranks -> [0 .. n - 1 -> Box]] /\ auxStack \in [Ranks -> Seq(0 .. n - 1)]
      /\ hostTree[r] = t /\ t \in [0 .. n - 1 -> HostRow]
  BY DEF Settled, BoxesOver
<1>1. UNCHANGED vars /\ DOMAIN t = 0 .. n - 1
  BY <1>0 DEF LocalLeaves
<1>2. hostTree' = hostTree /\ \A i : BoxOf(i)' = BoxOf(i)
  BY <1>1 DEF vars, BoxOf, ComputeAux
<1>3. StartNode(r) \in 0 .. n - 1 /\ LinksAhead(n, t)
  <2>1. InitialNodeSize <= n /\ LinksAhead(n, t)
    BY SettledLinks
  <2>2. r \in Nat
    BY DEF Ranks
  <2> QED BY <2>1, <2>2, Sizes
<1>4. \A i \in leaves : IsLeaf(t[i])
  BY <1>3, GatheredAreLeaves
<1>5. /\ aux' = [aux EXCEPT ![r] =
           [i \in DOMAIN aux[r] |->
              IF i \in leaves THEN ComputeAux(r, hostTree[r][i]) ELSE aux[r][i]]]
      /\ auxStack' = [auxStack EXCEPT ![r] = <<StartNode(r)>>]
      /\ auxPc' = [auxPc EXCEPT ![r] = "subtree"]
  BY <1>0 DEF LocalLeaves
<1> HIDE DEF leaves, t
<1>6. \A i \in 0 .. n - 1 : aux'[r][i] = IF i \in leaves THEN BoxOf(i) ELSE aux[r][i]
  <2>1. \A i \in 0 .. n - 1 : ComputeAux(r, hostTree[r][i]) = BoxOf(i)
    BY BoxesOfRows
  <2> QED BY <1>0, <1>5, <2>1
<1>7. \A i \in 0 .. n - 1 : aux[r][i] # Unset => aux'[r][i] # Unset
  BY <1>6, BoxesOfRows
<1>8. Exact(r)'
  BY <1>1, <1>2, <1>6 DEF Exact, RankGrows, t
<1>9. Closed(r)'
  <2> SUFFICES ASSUME NEW i \in Links(t), aux'[r][i] # Unset
               PROVE  aux'[r][t[i].left] # Unset /\ aux'[r][t[i].right] # Unset
    BY <1>2 DEF Closed, t
  <2>1. t[i].left \in 0 .. n - 1 /\ t[i].right \in 0 .. n - 1 /\ i \in 0 .. n - 1
    BY SettledLinks, <1>1 DEF t, Links
  <2>2. i \notin leaves
    BY <1>4 DEF Links
  <2>3. aux[r][t[i].left] # Unset /\ aux[r][t[i].right] # Unset
    BY <1>6, <2>1, <2>2 DEF RankGrows, Closed, t
  <2> QED BY <1>7, <2>1, <2>3
<1>10. Climbing(r, StartNode(r))'
  <2>1. auxStack'[r] = <<StartNode(r)>>
    BY <1>0, <1>5
  <2> QED BY <2>1 DEF Climbing
<1>11. RankGrows(r)'
  <2>1. auxPc'[r] = "subtree"
    BY <1>5
  <2> QED BY <1>8, <1>9, <1>10, <2>1 DEF RankGrows
<1>12. \A s \in Ranks \ {r} : aux'[s] = aux[s] /\ auxStack'[s] = auxStack[s] /\ auxPc'[s] = auxPc[s]
  BY <1>0, <1>5
<1> QED BY <1>1, <1>11, <1>12, RankKept

\* A turn of the climb to the start node; a leaf on the stack keeps its box.
LEMMA ClimbSubtreeGrows ==
  ASSUME NEW n \in Nat, Settled(n), \A s \in Ranks : RankGrows(s), auxPc \in [Ranks -> Pcs],
         NEW r \in Ranks, r < MaxWorkSize, ClimbSubtree(r)
  PROVE  \A s \in Ranks : RankGrows(s)'
<1> DEFINE leafBox == aux[r][Top(auxStack[r])]
<1>1. /\ auxPc[r] = "subtree" /\ auxStack[r] # <<>> /\ Climb(r, leafBox)
      /\ UNCHANGED vars /\ auxPc' = auxPc
  BY DEF ClimbSubtree
<1>2. Exact(r) /\ Closed(r) /\ Climbing(r, StartNode(r))
  BY <1>1 DEF RankGrows
<1>3. Top(auxStack[r]) \in 0 .. n - 1 /\ DOMAIN hostTree[0] = 0 .. n - 1
  <2>1. auxStack[r] \in Seq(0 .. n - 1) /\ DOMAIN hostTree[0] = 0 .. n - 1
    BY DEF Settled, BoxesOver, Merged
  <2> QED BY <1>1, <2>1, PopType
<1>4. StartNode(r) \in 0 .. n - 1 /\ ~ IsLeaf(hostTree[0][StartNode(r)])
  <2>1. r \in Workers
    BY Sizes DEF Ranks, Workers
  <2>2. Addr(r, 0) \in Links(hostTree[0])
    BY <2>1, StartIsLink DEF Settled
  <2> QED BY <1>3, <2>2 DEF Addr, Links
<1>5. leafBox # Unset => leafBox = BoxOf(Top(auxStack[r]))
  BY <1>2, <1>3 DEF Exact
<1> HIDE DEF leafBox
<1>6. /\ Exact(r)' /\ Closed(r)' /\ Climbing(r, StartNode(r))'
      /\ \A s \in Ranks \ {r} : aux'[s] = aux[s] /\ auxStack'[s] = auxStack[s]
  BY <1>1, <1>2, <1>4, <1>5, ClimbGrows DEF leafBox
<1>7. RankGrows(r)'
  BY <1>1, <1>6 DEF RankGrows
<1> QED BY <1>1, <1>6, <1>7, RankKept

\* A turn of the climb to the root; a leaf on the stack is computed.
LEMMA ClimbTopGrows ==
  ASSUME NEW n \in Nat, Settled(n), \A s \in Ranks : RankGrows(s), auxPc \in [Ranks -> Pcs],
         NEW r \in Ranks, ClimbTop(r)
  PROVE  \A s \in Ranks : RankGrows(s)'
<1> DEFINE leafBox == ComputeAux(r, hostTree[r][Top(auxStack[r])])
<1>1. /\ auxPc[r] = "top" /\ auxStack[r] # <<>> /\ Climb(r, leafBox)
      /\ UNCHANGED vars /\ auxPc' = auxPc
  BY DEF ClimbTop
<1>2. Exact(r) /\ Closed(r) /\ Climbing(r, 0)
  BY <1>1 DEF RankGrows
<1>3. Top(auxStack[r]) \in 0 .. n - 1
  <2>1. auxStack[r] \in Seq(0 .. n - 1)
    BY DEF Settled, BoxesOver
  <2> QED BY <1>1, <2>1, PopType
<1>4. leafBox = BoxOf(Top(auxStack[r])) /\ leafBox # Unset
  BY <1>3, BoxesOfRows
<1>5. 0 \in 0 .. n - 1
  BY Sizes DEF Settled, Merged
<1> HIDE DEF leafBox
<1>6. /\ Exact(r)' /\ Closed(r)' /\ Climbing(r, 0)'
      /\ \A s \in Ranks \ {r} : aux'[s] = aux[s] /\ auxStack'[s] = auxStack[s]
  BY <1>1, <1>2, <1>4, <1>5, ClimbGrows
<1>7. RankGrows(r)'
  BY <1>1, <1>6 DEF RankGrows
<1> QED BY <1>1, <1>6, <1>7, RankKept

\* A rank leaves a loop with the box it climbed to.
LEMMA LeaveGrows ==
  ASSUME \A s \in Ranks : RankGrows(s), auxPc \in [Ranks -> Pcs],
         NEW r \in Ranks, LeaveSubtree(r) \/ LeaveTop(r)
  PROVE  \A s \in Ranks : RankGrows(s)'
<1>1. UNCHANGED <<vars, aux, auxStack>>
  BY DEF LeaveSubtree, LeaveTop
<1>2. \A s \in Ranks \ {r} : auxPc'[s] = auxPc[s]
  BY DEF LeaveSubtree, LeaveTop
<1>3. \/ auxPc'[r] = "bcast" /\ aux[r][StartNode(r)] # Unset
      \/ auxPc'[r] = "done" /\ aux[r][0] # Unset
  <2>1. CASE LeaveSubtree(r)
    <3>1. auxPc[r] = "subtree" /\ auxStack[r] = <<>> /\ auxPc' = [auxPc EXCEPT ![r] = "bcast"]
      BY <2>1 DEF LeaveSubtree
    <3> QED BY <3>1 DEF RankGrows, Climbing
  <2>2. CASE LeaveTop(r)
    <3>1. auxPc[r] = "top" /\ auxStack[r] = <<>> /\ auxPc' = [auxPc EXCEPT ![r] = "done"]
      BY <2>2 DEF LeaveTop
    <3> QED BY <3>1 DEF RankGrows, Climbing
  <2> QED BY <2>1, <2>2
<1>4. RankGrows(r)'
  <2>1. hostTree' = hostTree /\ \A i : BoxOf(i)' = BoxOf(i)
    BY <1>1 DEF vars, BoxOf, ComputeAux
  <2>2. Exact(r)' /\ Closed(r)'
    BY <1>1, <2>1 DEF RankGrows, Exact, Closed
  <2> QED BY <1>1, <1>3, <2>2 DEF RankGrows
<1> QED BY <1>1, <1>2, <1>4, RankKept

\* A rank that has a box for its start node has one for every row under it.
LEMMA SenderComplete ==
  ASSUME NEW n \in Nat, Settled(n), NEW q \in Workers, Closed(q), aux[q][StartNode(q)] # Unset,
         NEW k \in 0 .. newNodeNum[q]
  PROVE  aux[q][Addr(q, k)] # Unset
<1> DEFINE A == {j \in 0 .. newNodeNum[q] : aux[q][Addr(q, j)] = Unset}
<1>0. Merged(n)
  BY DEF Settled
<1>1. SUFFICES ASSUME k \in A PROVE FALSE
  OBVIOUS
<1>2. PICK j \in A : \A i \in A : j <= i
  <2> A \in SUBSET Nat /\ A # {}
    BY <1>1
  <2> HIDE DEF A
  <2> QED BY LeastNumber
<1>3. CASE j = 0
  BY <1>2, <1>3 DEF Addr
<1>4. CASE j # 0
  <2>1. j \in 1 .. newNodeNum[q] /\ newNodeNum[q] \in Nat
    BY <1>0, <1>2, <1>4 DEF Merged, BlockOf
  <2>2. PICK p \in 0 .. newNodeNum[q] :
           /\ SplitPlaced(q, p, hostTree[0][Addr(q, p)], localTree[q][p])
           /\ j = localTree[q][p].left \/ j = localTree[q][p].left + 1
    BY <1>0, <2>1, BlockParent
  <2>3. PICK l : l = localTree[q][p].left
    OBVIOUS
  <2>4. /\ l \in p + 1 .. newNodeNum[q] - 1
        /\ Addr(q, p) \in Links(hostTree[0])
        /\ hostTree[0][Addr(q, p)].left = Addr(q, l) /\ hostTree[0][Addr(q, p)].right = Addr(q, l + 1)
    BY <1>0, <2>2, <2>3, SplitChildren
  <2>5. p \notin A
    BY <1>2, <2>1, <2>2, <2>3, <2>4
  <2>6. aux[q][Addr(q, p)] # Unset
    BY <2>5
  <2>7. aux[q][Addr(q, l)] # Unset /\ aux[q][Addr(q, l + 1)] # Unset
    BY <2>4, <2>6 DEF Closed
  <2>8. aux[q][Addr(q, j)] = Unset /\ (j = l \/ j = l + 1)
    BY <1>2, <2>2, <2>3
  <2> QED BY <2>7, <2>8
<1> QED BY <1>3, <1>4

\* The rows a rank sends hold the rows under its start node, and neither a row
\* under another's nor one of the top.
LEMMA SentRowsAre ==
  ASSUME NEW n \in Nat, Settled(n), sender \in Workers, NEW r \in Ranks
  PROVE  /\ \A k \in 1 .. newNodeNum[sender] : Addr(sender, k) \in SentRows(r)
         /\ \A p \in Workers \ {sender} : \A k \in 0 .. newNodeNum[p] : Addr(p, k) \notin SentRows(r)
         /\ \A i \in 0 .. 2 * MaxWorkSize - 2 : i \notin SentRows(r)
<1> DEFINE q == sender
           last == IF q = MaxWorkSize - 1 THEN n ELSE Base(q + 1)
<1>s. /\ InitialNodeSize = 4 * MaxWorkSize - 1 /\ MaxWorkSize \in Nat
      /\ MaxWorkSize >= 1 /\ \A p : StartNode(p) = MaxWorkSize - 1 + p
  BY Sizes
<1>0. Merged(n) /\ hostTree[r] = hostTree[0] /\ q \in Workers /\ q \in Nat
  BY <1>s DEF Settled, Workers
<1>1. SentRows(r) = Base(q) .. last - 1
  <2>1. Cardinality(DOMAIN hostTree[0]) = n
    <3>1. DOMAIN hostTree[0] = 0 .. n - 1
      BY <1>0 DEF Merged
    <3>2. 0 \in Int /\ n - 1 \in Int /\ n >= 1
      BY <1>0, <1>s DEF Merged
    <3>3. Cardinality(0 .. n - 1) = (n - 1) - 0 + 1
      BY <3>2, FS_Interval
    <3> QED BY <3>1, <3>2, <3>3
  <2>2. StartNode(sender) + 1 = StartNode(q + 1)
    BY <1>0, <1>s
  <2> QED BY <1>0, <2>1, <2>2 DEF SentRows, Base
<1>2. \A p \in Workers : /\ newNodeNum[p] \in Nat /\ newNodeNum[p] >= 2
                         /\ Base(p) \in Nat /\ Base(p) >= InitialNodeSize
                         /\ Base(p) + newNodeNum[p] <= n
  BY <1>0 DEF Merged, BlockOf
<1>3. \A p, s \in Workers : p < s => Base(p) + newNodeNum[p] <= Base(s)
  BY <1>0 DEF Merged
<1>4. q # MaxWorkSize - 1 => q + 1 \in Workers
  BY <1>0, <1>s DEF Workers
<1>5. last \in Nat /\ Base(q) + newNodeNum[q] <= last
  BY <1>0, <1>2, <1>3, <1>4
<1> HIDE DEF last, q
<1>6. \A k \in 1 .. newNodeNum[q] : Addr(q, k) \in SentRows(r)
  <2> TAKE k \in 1 .. newNodeNum[q]
  <2>1. Addr(q, k) = Base(q) + k - 1
    BY DEF Addr
  <2> QED BY <1>0, <1>1, <1>2, <1>5, <2>1
<1>7. \A i \in 0 .. 2 * MaxWorkSize - 2 : i \notin SentRows(r)
  BY <1>0, <1>1, <1>2, <1>5, <1>s
<1>8. ASSUME NEW p \in Workers, p # q, NEW k \in 0 .. newNodeNum[p]
      PROVE  Addr(p, k) \notin SentRows(r)
  <2>0. newNodeNum[p] \in Nat /\ p \in Nat
    BY <1>2, <1>s DEF Workers
  <2>1. CASE k = 0
    <3>1. Addr(p, k) \in 0 .. 2 * MaxWorkSize - 2
      BY <2>1, <1>s DEF Addr, Workers
    <3> QED BY <3>1, <1>7
  <2>2. CASE k # 0 /\ p < q
    <3>1. Addr(p, k) < Base(q) /\ Addr(p, k) \in Int
      BY <2>0, <2>2, <1>0, <1>2, <1>3 DEF Addr
    <3> QED BY <3>1, <1>0, <1>1, <1>2, <1>5
  <2>3. CASE k # 0 /\ q < p
    <3>1. q # MaxWorkSize - 1 /\ q + 1 <= p
      BY <2>0, <2>3, <1>0, <1>s DEF Workers
    <3>2. last = Base(q + 1) /\ q + 1 \in Workers
      BY <3>1, <1>4 DEF last
    <3>3. last <= Base(p)
      <4>1. CASE q + 1 = p
        BY <3>2, <4>1, <1>2
      <4>2. CASE q + 1 < p
        BY <3>2, <4>2, <1>2, <1>3
      <4> QED BY <4>1, <4>2, <3>1, <2>0, <1>0
    <3>4. Addr(p, k) >= Base(p) /\ Addr(p, k) \in Int
      BY <2>0, <2>3, <1>2 DEF Addr
    <3> QED BY <3>3, <3>4, <1>0, <1>1, <1>2, <1>5
  <2> QED BY <2>0, <2>1, <2>2, <2>3, <1>8, <1>0
<1> QED BY <1>6, <1>7, <1>8 DEF q

\* A broadcast gives every rank the sender's boxes of the sender's rows, all of them set.
LEMMA BcastGrows ==
  ASSUME NEW n \in Nat, Settled(n), \A s \in Ranks : RankGrows(s), auxPc \in [Ranks -> Pcs],
         sender \in Workers, BcastBoxes
  PROVE  \A s \in Ranks : RankGrows(s)'
<1> DEFINE q == sender
           t == hostTree[0]
<1>s. MaxWorkSize \in Nat /\ MaxWorkSize >= 1 /\ \A p : StartNode(p) = MaxWorkSize - 1 + p
  BY Sizes
<1>0. Merged(n) /\ q \in Workers /\ q \in Ranks /\ DOMAIN t = 0 .. n - 1
  BY Sizes DEF Settled, Merged, Workers, Ranks
<1>1. /\ \A s \in Ranks : auxPc[s] = "bcast"
      /\ \/ auxPc' = auxPc
         \/ auxPc' = [r \in Ranks |-> "top"] /\ auxStack' = [r \in Ranks |-> <<0>>]
      /\ UNCHANGED vars
  BY DEF BcastBoxes
<1>2. \A r \in Ranks : \A i \in 0 .. n - 1 :
        aux'[r][i] = IF i \in SentRows(r) THEN aux[q][i] ELSE aux[r][i]
  <2>1. \A r \in Ranks : DOMAIN aux[r] = 0 .. n - 1
    BY DEF Settled, BoxesOver
  <2>2. aux' = [r \in Ranks |->
          [i \in DOMAIN aux[r] |-> IF i \in SentRows(r) THEN aux[q][i] ELSE aux[r][i]]]
    BY DEF BcastBoxes
  <2> QED BY <2>1, <2>2
<1>3. hostTree' = hostTree /\ \A i : BoxOf(i)' = BoxOf(i)
  BY <1>1 DEF vars, BoxOf, ComputeAux
<1>4. Exact(q) /\ Closed(q) /\ aux[q][StartNode(q)] # Unset
  <2>1. q < MaxWorkSize /\ auxPc[q] = "bcast" /\ RankGrows(q)
    BY <1>0, <1>1, <1>s DEF Workers
  <2> QED BY <2>1 DEF RankGrows
<1>5. \A k \in 0 .. newNodeNum[q] : aux[q][Addr(q, k)] # Unset
  BY <1>0, <1>4, SenderComplete
<1> TAKE r \in Ranks
<1>6. Exact(r) /\ Closed(r) /\ (r < MaxWorkSize => aux[r][StartNode(r)] # Unset)
  BY <1>1 DEF RankGrows
<1>7. /\ \A k \in 1 .. newNodeNum[q] : Addr(q, k) \in SentRows(r)
      /\ \A p \in Workers \ {q} : \A k \in 0 .. newNodeNum[p] : Addr(p, k) \notin SentRows(r)
      /\ \A i \in 0 .. 2 * MaxWorkSize - 2 : i \notin SentRows(r)
  BY SentRowsAre
<1> HIDE DEF q
<1>8. Exact(r)'
  <2> HIDE DEF t
  <2> QED BY <1>0, <1>2, <1>3, <1>4, <1>6 DEF Exact, t
<1>9. Closed(r)'
  <2> SUFFICES ASSUME NEW i \in Links(t), aux'[r][i] # Unset
               PROVE  aux'[r][t[i].left] # Unset /\ aux'[r][t[i].right] # Unset
    BY <1>3 DEF Closed
  <2>1. t[i].left \in 0 .. n - 1 /\ t[i].right \in 0 .. n - 1 /\ i \in 0 .. n - 1
    BY SettledLinks, <1>0 DEF Links
  <2>2. ASSUME i \notin SentRows(r), t[i].left \notin SentRows(r), t[i].right \notin SentRows(r)
        PROVE  aux'[r][t[i].left] # Unset /\ aux'[r][t[i].right] # Unset
    BY <1>2, <1>6, <2>1, <2>2 DEF Closed
  <2>3. CASE i \in 0 .. MaxWorkSize - 2
    <3>1. t[i].left = 2 * i + 1 /\ t[i].right = 2 * i + 2
      BY <1>0, <2>3 DEF Merged, TopOf
    <3>2. /\ i \in 0 .. 2 * MaxWorkSize - 2 /\ t[i].left \in 0 .. 2 * MaxWorkSize - 2
          /\ t[i].right \in 0 .. 2 * MaxWorkSize - 2
      BY <2>3, <3>1, <1>s
    <3> QED BY <1>7, <2>2, <3>2
  <2>4. CASE \E p \in Workers : \E k \in 0 .. newNodeNum[p] :
               i = Addr(p, k) /\ SplitPlaced(p, k, hostTree[0][i], localTree[p][k])
    <3>1. PICK p \in Workers : \E k \in 0 .. newNodeNum[p] :
               i = Addr(p, k) /\ SplitPlaced(p, k, hostTree[0][i], localTree[p][k])
      BY <2>4
    <3>2. PICK k \in 0 .. newNodeNum[p] :
               i = Addr(p, k) /\ SplitPlaced(p, k, hostTree[0][i], localTree[p][k])
      BY <3>1
    <3>3. PICK l : l = localTree[p][k].left
      OBVIOUS
    <3>4. /\ l \in 0 .. newNodeNum[p] /\ l + 1 \in 0 .. newNodeNum[p] /\ l > 0 /\ l + 1 > 0
          /\ t[i].left = Addr(p, l) /\ t[i].right = Addr(p, l + 1)
      BY <1>0, <3>2, <3>3, SplitChildren
    <3>5. CASE p # q
      BY <1>7, <2>2, <3>2, <3>4, <3>5
    <3>6. CASE p = q
      <4>1. l \in 1 .. newNodeNum[q] /\ l + 1 \in 1 .. newNodeNum[q]
        BY <3>4, <3>6
      <4>2. t[i].left \in SentRows(r) /\ t[i].right \in SentRows(r)
        BY <1>7, <3>4, <3>6, <4>1
      <4> QED BY <1>2, <1>5, <2>1, <3>4, <3>6, <4>2
    <3> QED BY <3>5, <3>6
  <2> QED BY <1>0, <2>3, <2>4, LinkIs
<1>10. CASE auxPc' = auxPc
  <2>1. r < MaxWorkSize => aux'[r][StartNode(r)] # Unset
    <3> HAVE r < MaxWorkSize
    <3>1. StartNode(r) \in 0 .. 2 * MaxWorkSize - 2 /\ StartNode(r) \in 0 .. n - 1
      BY <1>0, <1>s, Sizes DEF Ranks, Merged
    <3> QED BY <1>2, <1>6, <1>7, <3>1
  <2> QED BY <1>1, <1>8, <1>9, <1>10, <2>1 DEF RankGrows
<1>11. CASE auxPc' = [s \in Ranks |-> "top"] /\ auxStack' = [s \in Ranks |-> <<0>>]
  <2>1. Climbing(r, 0)'
    <3>1. auxStack'[r] = <<0>>
      BY <1>11
    <3> QED BY <3>1 DEF Climbing
  <2> QED BY <1>8, <1>9, <1>11, <2>1 DEF RankGrows
<1> QED BY <1>1, <1>10, <1>11

\* No rank has a box when the check begins, and the working ranks begin with leaves.
LEMMA EnterCheckGrows ==
  ASSUME BuildInv, EnterCheck
  PROVE  \A r \in Ranks : RankGrows(r)'
<1> TAKE r \in Ranks
<1>1. /\ UNCHANGED vars
      /\ aux' = [s \in Ranks |-> [i \in DOMAIN hostTree[s] |-> Unset]]
      /\ auxPc' = [s \in Ranks |-> IF s < MaxWorkSize THEN "leaves" ELSE "bcast"]
  BY DEF EnterCheck
<1>2. PICK n \in Nat : \A s \in Ranks : DOMAIN hostTree[s] = 0 .. n - 1
  <2>1. Phase({"merge", "done"})
    BY DEF EnterCheck, Finished, Phase
  <2> QED BY <2>1 DEF BuildInv, HostInv
<1>3. \A i \in 0 .. n - 1 : aux'[r][i] = Unset
  BY <1>1, <1>2
<1>4. hostTree' = hostTree /\ DOMAIN hostTree[0] = 0 .. n - 1
  <2>1. 0 \in Ranks
    BY Sizes DEF Ranks
  <2> QED BY <1>1, <1>2, <2>1 DEF vars
<1>5. Exact(r)' /\ Closed(r)'
  BY <1>3, <1>4 DEF Exact, Closed, Links
<1> QED BY <1>1, <1>5 DEF RankGrows

\* Every step keeps what the climbs have done.
LEMMA BoxesGrowNext ==
  ASSUME AgreeInv, GrowInv, MergedInv, MapsPermuted, AuxInv, BoxesGrow, [BoxesNext]_allVars
  PROVE  BoxesGrow'
<1> SUFFICES ASSUME StartNodesSplit', \E r \in Ranks : auxPc'[r] # "build"
             PROVE  \A r \in Ranks : RankGrows(r)'
  BY DEF BoxesGrow
<1>b. BuildInv /\ 0 \in Ranks
  BY Sizes DEF AgreeInv, Ranks
<1>1. CASE EnterCheck
  BY <1>b, <1>1, EnterCheckGrows
<1>2. CASE ~ EnterCheck /\ auxPc = [r \in Ranks |-> "build"]
  <2>1. auxPc' = auxPc
    BY <1>b, <1>2 DEF BoxesNext, BuildStep, boxVars, allVars, LocalLeaves, ClimbSubtree, LeaveSubtree,
      BcastBoxes, ClimbTop, LeaveTop, BoxesStop
  <2> QED BY <1>2, <2>1
<1>3. CASE ~ EnterCheck /\ auxPc # [r \in Ranks |-> "build"]
  <2>1. /\ Finished
        /\ auxPc \in [Ranks -> Pcs]
        /\ \A r \in Ranks : auxPc[r] \in {"leaves", "subtree"} => r < MaxWorkSize
        /\ sender \in 0 .. MaxWorkSize
        /\ (\E r \in Ranks : auxPc[r] \in {"leaves", "subtree", "bcast"}) => sender < MaxWorkSize
    BY <1>3 DEF AuxInv, Pcs
  <2>2. PICK n \in Nat : BoxesOver(n)
    BY <1>3 DEF AuxInv
  <2>3. ~ BuildNext
    BY <1>b, <2>1 DEF BuildNext, Finished, InitialSplit, BcastInitial, LocalSplit, SumSizes, MergeRank
  <2>4. UNCHANGED vars
    BY <2>3, BuildOrRest
  <2>5. StartNodesSplit
    BY <2>4 DEF vars, StartNodesSplit
  <2>6. Settled(n)
    BY <2>1, <2>2, <2>5, TreeSettles
  <2>7. \A r \in Ranks : RankGrows(r)
    <3>1. auxPc[0] # "build"
      BY <1>b, <2>1 DEF Pcs
    <3> QED BY <1>b, <2>5, <3>1 DEF BoxesGrow
  <2>8. CASE UNCHANGED allVars
    BY <2>4, <2>7, <2>8, RankKept DEF allVars, boxVars
  <2>9. ASSUME NEW r \in Ranks, LocalLeaves(r) PROVE \A s \in Ranks : RankGrows(s)'
    <3>1. r < MaxWorkSize
      BY <2>1, <2>9 DEF LocalLeaves
    <3> QED BY <2>1, <2>6, <2>7, <2>9, <3>1, LocalLeavesGrows
  <2>10. ASSUME NEW r \in Ranks, ClimbSubtree(r) PROVE \A s \in Ranks : RankGrows(s)'
    <3>1. r < MaxWorkSize
      BY <2>1, <2>10 DEF ClimbSubtree
    <3> QED BY <2>1, <2>6, <2>7, <2>10, <3>1, ClimbSubtreeGrows
  <2>11. ASSUME NEW r \in Ranks, ClimbTop(r) PROVE \A s \in Ranks : RankGrows(s)'
    BY <2>1, <2>6, <2>7, <2>11, ClimbTopGrows
  <2>12. ASSUME NEW r \in Ranks, LeaveSubtree(r) \/ LeaveTop(r) PROVE \A s \in Ranks : RankGrows(s)'
    BY <2>1, <2>7, <2>12, LeaveGrows
  <2>13. CASE BcastBoxes
    <3>1. sender < MaxWorkSize
      BY <1>b, <2>1, <2>13 DEF BcastBoxes
    <3>2. sender \in Workers
      BY <2>1, <3>1, Sizes DEF Workers
    <3> QED BY <2>1, <2>6, <2>7, <2>13, <3>2, BcastGrows
  <2> QED BY <1>3, <2>3, <2>8, <2>9, <2>10, <2>11, <2>12, <2>13 DEF BoxesNext, BuildStep, BoxesStop
<1> QED BY <1>1, <1>2, <1>3

\* A rank that has left the last loop has the boxes of all nodes.
LEMMA AllBoxes ==
  ASSUME NEW n \in Nat, Settled(n), NEW r \in Ranks, RankGrows(r), auxPc[r] = "done",
         NEW node \in Nodes(hostTree[0])
  PROVE  aux[r][node] = BoxOf(node)
<1> DEFINE t == hostTree[0]
           A == {i \in Nodes(t) : aux[r][i] = Unset}
<1>0. Merged(n) /\ Exact(r) /\ Closed(r) /\ aux[r][0] # Unset /\ DOMAIN t = 0 .. n - 1
  BY DEF Settled, Merged, RankGrows
<1>1. Links(t) \subseteq Nodes(t) /\ LinksCut(t)
  BY <1>0, MergedLinks
<1>2. \A i \in Nodes(t) : i \in 0 .. n - 1
  <2> TAKE i \in Nodes(t)
  <2>1. CASE i = 0
    BY <2>1, <1>0, Sizes DEF Merged
  <2>2. CASE i # 0
    <3>1. PICK j \in Links(t) : i \in {t[j].left, t[j].right}
      BY <2>2 DEF Nodes, Children
    <3> QED BY <3>1, <1>0, <1>1 DEF LinksCut
  <2> QED BY <2>1, <2>2
<1>3. A = {}
  <2> SUFFICES ASSUME A # {} PROVE FALSE
    OBVIOUS
  <2>1. PICK i \in A : \A j \in A : i <= j
    <3> A \in SUBSET Nat
      BY <1>2
    <3> HIDE DEF A
    <3> QED BY LeastNumber
  <2>2. i # 0 /\ i \in Nodes(t) /\ aux[r][i] = Unset
    BY <1>0, <2>1
  <2>3. PICK j \in Links(t) : i \in {t[j].left, t[j].right}
    BY <2>2 DEF Nodes, Children
  <2>4. j \in Nodes(t) /\ j \in 0 .. n - 1 /\ i > j /\ i \in 0 .. n - 1
    BY <1>1, <1>2, <2>2, <2>3 DEF LinksCut
  <2>5. aux[r][j] # Unset
    <3>1. ~ (i <= j)
      BY <2>4
    <3> QED BY <2>1, <2>4, <3>1
  <2> QED BY <1>0, <2>2, <2>3, <2>5 DEF Closed
<1>4. aux[r][node] # Unset
  BY <1>3
<1> QED BY <1>0, <1>2, <1>4 DEF Exact

\* The root's box is that of all particles.
LEMMA RootBox ==
  ASSUME NEW n \in Nat, Settled(n)
  PROVE  BoxOf(0) = Particles
<1>1. hostTree[0][0].first = 0 /\ hostTree[0][0].last = N
  BY DEF Settled, Merged, TopOf
<1>2. Positions(hostTree[0][0]) = Particles
  BY <1>1 DEF Positions, Particles
<1>3. PICK m : m = map[0]
  OBVIOUS
<1>4. m \in [Particles -> Particles] /\ OneToOne(m)
  BY <1>3 DEF Settled
<1>5. \A p \in Particles : \E k \in Particles : m[k] = p
  BY <1>4, OneToOneOnto
<1>6. {m[k] : k \in Particles} = Particles
  BY <1>4, <1>5
<1> QED BY <1>2, <1>3, <1>6 DEF BoxOf, ComputeAux

\* Every step keeps the maps permutations.
LEMMA PermutedNext ==
  ASSUME Layout = "left", AxesSeparate, AgreeInv, GrowInv, MapsPermuted, [BoxesNext]_allVars
  PROVE  MapsPermuted'
<1>1. CASE UNCHANGED vars
  BY <1>1 DEF vars, MapsPermuted, Started, Phase, StartNodesSplit, Permuted, Pending
<1>2. CASE InitialSplit
  <2>1. 0 \in Ranks /\ pc'[0] = "initial"
    BY <1>2, Sizes DEF Ranks, InitialSplit
  <2> QED BY <2>1 DEF MapsPermuted, Started, Phase
<1>3. CASE BcastInitial
  BY <1>3, BcastInitialPermuted DEF AgreeInv
<1>4. ASSUME NEW r \in Ranks, LocalSplit(r) PROVE MapsPermuted'
  BY <1>4, LocalSplitPermuted
<1>5. CASE SumSizes
  BY <1>5, SumSizesPermuted
<1>6. CASE MergeRank
  BY <1>6, MergeRankPermuted
<1> QED BY <1>1, <1>2, <1>3, <1>4, <1>5, <1>6, BuildOrRest DEF BuildNext

\* If the axes tell particles apart and the memory layout is "left", then once the boxes
\* are computed every rank has, for every node of the tree, the box of exactly the
\* particles the node owns, and the root's is that of all particles, whatever the number
\* of ranks and the order in which they climb: the rows a rank sends are those of its own
\* subtree, and no other rank's boxes are overwritten by them.
THEOREM NodesAreBounded ==
  ASSUME Layout = "left", AxesSeparate
  PROVE  BoxesSpec => []BoxesBound
<1> DEFINE Inv == AgreeInv /\ GrowInv /\ MergedInv /\ MapsPermuted /\ AuxInv /\ BoxesGrow
<1>1. BoxesInit => Inv
  <2> SUFFICES ASSUME BoxesInit
               PROVE  AgreeInv /\ GrowInv /\ MergedInv /\ MapsPermuted /\ AuxInv /\ BoxesGrow
    OBVIOUS
  <2>1. 0 \in Ranks /\ pc[0] = "initial"
    BY Sizes DEF Ranks, BoxesInit, Init
  <2>2. MapsPermuted
    BY <2>1 DEF MapsPermuted, Started, Phase
  <2>3. AuxInv
    BY BoxesInitInv DEF BoxInv
  <2>4. BoxesGrow
    BY DEF BoxesInit, BoxesGrow
  <2> QED BY <2>2, <2>3, <2>4, HistoryInit
<1>2. Inv /\ [BoxesNext]_allVars => Inv'
  <2> SUFFICES ASSUME AgreeInv, GrowInv, MergedInv, MapsPermuted, AuxInv, BoxesGrow,
                      [BoxesNext]_allVars
               PROVE  AgreeInv' /\ GrowInv' /\ MergedInv' /\ MapsPermuted' /\ AuxInv' /\ BoxesGrow'
    OBVIOUS
  <2>1. AuxInv'
    BY BoxesNextInv DEF BoxInv, AgreeInv
  <2> QED BY <2>1, HistoryNext, PermutedNext, BoxesGrowNext
<1>3. Inv => BoxesBound
  <2> SUFFICES ASSUME AgreeInv, GrowInv, MergedInv, MapsPermuted, AuxInv, BoxesGrow,
                      BoxesDone, StartNodesSplit, NEW r \in Ranks
               PROVE  /\ aux[r][0] = Particles
                      /\ \A i \in Nodes(hostTree[r]) :
                           aux[r][i] = {map[r][k] : k \in Positions(hostTree[r][i])}
    BY DEF BoxesBound
  <2>1. auxPc[r] = "done"
    BY DEF BoxesDone
  <2>2. auxPc # [s \in Ranks |-> "build"]
    BY <2>1
  <2>3. Finished /\ \E n \in Nat : BoxesOver(n)
    BY <2>2 DEF AuxInv
  <2>4. PICK n \in Nat : Settled(n)
    BY <2>3, TreeSettles
  <2>5. RankGrows(r)
    BY <2>1 DEF BoxesGrow
  <2>6. hostTree[r] = hostTree[0] /\ map[r] = map[0]
    BY <2>4 DEF Settled
  <2>7. \A i \in Nodes(hostTree[0]) : aux[r][i] = BoxOf(i)
    BY <2>1, <2>4, <2>5, AllBoxes
  <2>8. aux[r][0] = Particles
    <3>1. 0 \in Nodes(hostTree[0])
      BY DEF Nodes
    <3> QED BY <2>4, <2>7, <3>1, RootBox
  <2> QED BY <2>6, <2>7, <2>8 DEF BoxOf, ComputeAux
<1> QED BY <1>1, <1>2, <1>3, PTL DEF BoxesSpec
=============================================================================
