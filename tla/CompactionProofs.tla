-------------------------- MODULE CompactionProofs --------------------------
(***************************************************************************)
(* The move of the flagged slots to the front (Compaction) loses no slot,  *)
(* doubles none and keeps their order, for any number of slots.            *)
(***************************************************************************)
EXTENDS Compaction, FiniteSetTheorems, WellFoundedInduction, TLAPS

\* Every non-empty set of naturals has a least element.
LEMMA LeastNatural ==
  ASSUME NEW S \in SUBSET Nat, S # {}
  PROVE  \E m \in S : \A x \in S : m <= x
<1>1. PICK m \in S : \A x \in S : ~ (<<x, m>> \in OpToRel(<, Nat))
  BY WFMin, NatLessThanWellFounded
<1>2. \A x \in S : ~ (x < m)
  BY <1>1 DEF OpToRel
<1> QED BY <1>2

\* The numbers from 1 to n are n.
LEMMA IntervalCount ==
  ASSUME NEW n \in Nat
  PROVE  IsFiniteSet(1 .. n) /\ Cardinality(1 .. n) = n
<1>1. 1 \in Int /\ n \in Int /\ (IF 1 > n THEN 0 ELSE n - 1 + 1) = n
  OBVIOUS
<1> QED BY <1>1, FS_Interval, Zenon

\* Slots are numbers.
LEMMA SlotType ==
  ASSUME NEW n \in Nat, NEW kept, \A j \in kept : j \in 1 .. n
  PROVE  \A j \in kept : j \in Nat /\ 1 <= j /\ j <= n
<1>1. \A j \in kept : j \in 1 .. n
  OBVIOUS
<1> QED BY <1>1

\* The flagged slots are a finite set, and so are those up to a slot.
LEMMA UpToType ==
  ASSUME NEW n \in Nat, NEW kept, \A j \in kept : j \in 1 .. n, NEW i \in Nat
  PROVE  /\ IsFiniteSet(kept) /\ IsFiniteSet({j \in kept : j <= i})
         /\ UpTo(kept, i) \in Nat /\ Cardinality(kept) \in Nat
<1>1. IsFiniteSet(1 .. n)
  BY IntervalCount
<1>2. IsFiniteSet(kept)
  BY <1>1, FS_Subset
<1>3. IsFiniteSet({j \in kept : j <= i})
  BY <1>2, FS_Subset
<1> QED BY <1>2, <1>3, FS_CardinalityType DEF UpTo

\* The count of the flagged slots grows by one at each of them.
LEMMA UpToNext ==
  ASSUME NEW n \in Nat, NEW kept, \A j \in kept : j \in 1 .. n, NEW i \in Nat
  PROVE  UpTo(kept, i + 1) =
           IF i + 1 \in kept THEN UpTo(kept, i) + 1 ELSE UpTo(kept, i)
<1>0. \A j \in kept : j \in Nat /\ 1 <= j /\ j <= n
  BY SlotType
<1> DEFINE low == {j \in kept : j <= i}
<1>1. IsFiniteSet(low)
  BY UpToType
<1>2. CASE i + 1 \in kept
  <2>1. {j \in kept : j <= i + 1} = low \cup {i + 1} /\ i + 1 \notin low
    BY <1>2, <1>0
  <2>2. Cardinality(low \cup {i + 1}) = Cardinality(low) + 1
    BY <1>1, <2>1, FS_AddElement
  <2> QED BY <2>1, <2>2, <1>2 DEF UpTo
<1>3. CASE i + 1 \notin kept
  <2>1. {j \in kept : j <= i + 1} = low
    BY <1>3, <1>0
  <2> QED BY <2>1, <1>3 DEF UpTo
<1> QED BY <1>2, <1>3

LEMMA UpToMonotone ==
  ASSUME NEW n \in Nat, NEW kept, \A j \in kept : j \in 1 .. n,
         NEW i \in Nat, NEW j \in Nat, i <= j
  PROVE  UpTo(kept, i) <= UpTo(kept, j)
<1>0. \A m \in kept : m \in Nat /\ 1 <= m /\ m <= n
  BY SlotType
<1>1. {l \in kept : l <= i} \in SUBSET {l \in kept : l <= j}
  BY <1>0
<1>2. IsFiniteSet({l \in kept : l <= j})
  BY UpToType
<1> QED BY <1>1, <1>2, FS_Subset DEF UpTo

LEMMA UpToEnds ==
  ASSUME NEW n \in Nat, NEW kept, \A j \in kept : j \in 1 .. n
  PROVE  UpTo(kept, 0) = 0 /\ UpTo(kept, n) = Cardinality(kept)
<1>0. \A j \in kept : j \in Nat /\ 1 <= j /\ j <= n
  BY SlotType
<1>1. {j \in kept : j <= 0} = {}
  BY <1>0
<1>2. {j \in kept : j <= n} = kept
  BY <1>0
<1> QED BY <1>1, <1>2, FS_EmptySet DEF UpTo

\* Different flagged slots have different counts, in their order.
LEMMA UpToStrict ==
  ASSUME NEW n \in Nat, NEW kept, \A j \in kept : j \in 1 .. n,
         NEW i \in kept, NEW j \in kept, i < j
  PROVE  UpTo(kept, i) < UpTo(kept, j)
<1>1. /\ i \in Nat /\ j - 1 \in Nat /\ j \in Nat /\ i <= j - 1 /\ (j - 1) + 1 = j
  BY SlotType
<1>2. UpTo(kept, i) <= UpTo(kept, j - 1)
  BY <1>1, UpToMonotone
<1>3. UpTo(kept, j) = UpTo(kept, j - 1) + 1
  <2> DEFINE l == j - 1
  <2>1. l \in Nat /\ l + 1 = j
    BY <1>1
  <2> HIDE DEF l
  <2>2. UpTo(kept, j) = UpTo(kept, l) + 1
    BY <2>1, UpToNext
  <2> QED BY <2>2 DEF l
<1>4. UpTo(kept, i) \in Nat /\ UpTo(kept, j - 1) \in Nat
  BY <1>1, UpToType
<1> QED BY <1>2, <1>3, <1>4

\* Each slot after the move has the flagged slot it comes from: the loop that
\* counts the flags down always finds one.
THEOREM SourceFound ==
  ASSUME NEW n \in Nat, NEW kept, \A j \in kept : j \in 1 .. n,
         NEW k \in 1 .. Cardinality(kept)
  PROVE  Source(kept, k) \in kept /\ UpTo(kept, Source(kept, k)) = k
<1> DEFINE S == {i \in Nat : k <= UpTo(kept, i)}
<1>1. Cardinality(kept) \in Nat /\ k \in Nat /\ 1 <= k /\ k <= Cardinality(kept)
  <2>1. Cardinality(kept) \in Nat
    BY UpToType
  <2> QED BY <2>1
<1>2. n \in S
  BY <1>1, UpToEnds
<1>3. PICK m \in S : \A x \in S : m <= x
  BY <1>2, LeastNatural
<1>4. m \in Nat /\ k <= UpTo(kept, m)
  BY <1>3
<1>5. m # 0
  BY <1>4, <1>1, UpToEnds
<1>6. m - 1 \in Nat /\ (m - 1) + 1 = m
  BY <1>4, <1>5
<1>7. ~ (k <= UpTo(kept, m - 1))
  <2>1. m - 1 \notin S
    BY <1>3, <1>4, <1>6
  <2> QED BY <2>1, <1>6
<1>8. UpTo(kept, m - 1) \in Nat
  BY <1>6, UpToType
<1>9. UpTo(kept, m) = IF m \in kept THEN UpTo(kept, m - 1) + 1 ELSE UpTo(kept, m - 1)
  <2> DEFINE l == m - 1
  <2>1. l \in Nat /\ l + 1 = m
    BY <1>6
  <2> HIDE DEF l
  <2>2. UpTo(kept, m) = IF m \in kept THEN UpTo(kept, l) + 1 ELSE UpTo(kept, l)
    BY <2>1, UpToNext
  <2> QED BY <2>2 DEF l
<1>10. m \in kept /\ UpTo(kept, m) = k
  BY <1>1, <1>4, <1>7, <1>8, <1>9
<1> QED BY <1>10 DEF Source

\* The move keeps the order of the slots, so no slot is doubled.
THEOREM SourceOrdered ==
  ASSUME NEW n \in Nat, NEW kept, \A j \in kept : j \in 1 .. n,
         NEW k \in 1 .. Cardinality(kept), NEW l \in 1 .. Cardinality(kept),
         k < l
  PROVE  Source(kept, k) < Source(kept, l)
<1>0. \A j \in kept : j \in Nat /\ 1 <= j /\ j <= n
  BY SlotType
<1> DEFINE a == Source(kept, k)
           b == Source(kept, l)
<1>1. /\ a \in kept /\ UpTo(kept, a) = k
      /\ b \in kept /\ UpTo(kept, b) = l
  BY SourceFound
<1>2. k \in Int /\ l \in Int /\ a \in Int /\ b \in Int
  <2>1. Cardinality(kept) \in Nat
    BY UpToType
  <2>2. a \in Int /\ b \in Int
    BY <1>1, <1>0
  <2> QED BY <2>1, <2>2
<1> HIDE DEF a, b
<1>3. ~ (b < a)
  <2> SUFFICES ASSUME b < a PROVE FALSE
    OBVIOUS
  <2>1. UpTo(kept, b) < UpTo(kept, a)
    BY <1>1, UpToStrict
  <2> QED BY <2>1, <1>1, <1>2
<1>4. a # b
  BY <1>1, <1>2
<1>5. a < b
  BY <1>2, <1>3, <1>4
<1> QED BY <1>5 DEF a, b

\* No flagged slot is lost by the move.
THEOREM SourceOnto ==
  ASSUME NEW n \in Nat, NEW kept, \A j \in kept : j \in 1 .. n, NEW i \in kept
  PROVE  \E k \in 1 .. Cardinality(kept) : Source(kept, k) = i
<1>0. \A j \in kept : j \in Nat /\ 1 <= j /\ j <= n
  BY SlotType
<1> DEFINE k == UpTo(kept, i)
<1>1. i \in Nat /\ i - 1 \in Nat /\ (i - 1) + 1 = i /\ i <= n
  BY SlotType
<1>2. k \in Nat /\ Cardinality(kept) \in Nat /\ UpTo(kept, i - 1) \in Nat
  BY <1>1, UpToType
<1>3. k = UpTo(kept, i - 1) + 1
  <2> DEFINE l == i - 1
  <2>1. l \in Nat /\ l + 1 = i
    BY <1>1
  <2> HIDE DEF l
  <2>2. UpTo(kept, i) = UpTo(kept, l) + 1
    BY <2>1, UpToNext
  <2> QED BY <2>2 DEF l
<1>4. k <= Cardinality(kept)
  BY <1>1, UpToMonotone, UpToEnds
<1>5. k \in 1 .. Cardinality(kept)
  BY <1>2, <1>3, <1>4
<1> HIDE DEF k
<1>6. Source(kept, k) \in kept /\ UpTo(kept, Source(kept, k)) = k
  BY <1>5, SourceFound
<1>7. Source(kept, k) = i
  <2> DEFINE s == Source(kept, k)
  <2>1. s \in kept /\ s \in Int /\ i \in Int /\ UpTo(kept, s) = k /\ UpTo(kept, i) = k
    BY <1>6, <1>0 DEF k
  <2> HIDE DEF s
  <2>2. ~ (s < i)
    <3> SUFFICES ASSUME s < i PROVE FALSE
      OBVIOUS
    <3>1. UpTo(kept, s) < UpTo(kept, i)
      BY <2>1, UpToStrict
    <3> QED BY <3>1, <2>1, <1>2
  <2>4. ~ (i < s)
    <3> SUFFICES ASSUME i < s PROVE FALSE
      OBVIOUS
    <3>1. UpTo(kept, i) < UpTo(kept, s)
      BY <2>1, UpToStrict
    <3> QED BY <3>1, <2>1, <1>2
  <2>3. s = i
    BY <2>1, <2>2, <2>4
  <2> QED BY <2>3 DEF s
<1> QED BY <1>5, <1>7
=============================================================================
