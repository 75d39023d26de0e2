--------------------------- MODULE DenseDotProofs ---------------------------
(***************************************************************************)
(* Theorems of DenseDot, for any number of ranks and leaves: no slot ever  *)
(* works on another's leaf, no block is added twice, and if the pool has   *)
(* room for one pair of leaves every block is added.                       *)
(*                                                                         *)
(* A slot only visits leaves MaxWorkSize apart.  The invariant says so of  *)
(* the slots of a batch, whatever the compaction did to their order: no    *)
(* slot's leaf is on the way of another slot (Chains), the leaves ahead of *)
(* a slot are untouched (Fresh), and a leaf that is not done is ahead of   *)
(* some slot (Covered).                                                    *)
(***************************************************************************)
EXTENDS PostCheckDot, CompactionProofs

-----------------------------------------------------------------------------
(* The way of a slot *)

\* Leaf j is on the way of a slot that works on leaf i and takes every w-th.
Reaches(w, i, j) == \E q \in Nat : j = i + q * w

LEMMA ReachesItself ==
  ASSUME NEW w \in Nat, NEW i \in Nat
  PROVE  Reaches(w, i, i)
<1>1. 0 \in Nat /\ i = i + 0 * w
  OBVIOUS
<1> QED BY <1>1 DEF Reaches

LEMMA ReachesLater ==
  ASSUME NEW w \in Nat, NEW i \in Nat, NEW j \in Nat, Reaches(w, i + w, j)
  PROVE  Reaches(w, i, j)
<1>1. PICK q \in Nat : j = (i + w) + q * w
  BY DEF Reaches
<1>2. q * w \in Nat /\ (q + 1) * w = q * w + w
  OBVIOUS
<1>3. j = i + (q + 1) * w /\ q + 1 \in Nat
  BY <1>1, <1>2
<1> QED BY <1>3 DEF Reaches

LEMMA ReachesOn ==
  ASSUME NEW w \in Nat, NEW i \in Nat, NEW j \in Nat, Reaches(w, i, j), i # j
  PROVE  Reaches(w, i + w, j)
<1>1. PICK q \in Nat : j = i + q * w
  BY DEF Reaches
<1>2. q # 0
  BY <1>1
<1>3. q - 1 \in Nat /\ (q - 1) * w \in Nat /\ q * w = (q - 1) * w + w
  BY <1>2
<1>4. j = (i + w) + (q - 1) * w
  BY <1>1, <1>3
<1> QED BY <1>3, <1>4 DEF Reaches

LEMMA ReachesBack ==
  ASSUME NEW w \in Nat, NEW i \in Nat, NEW j \in Nat, Reaches(w, i, j + w),
         i # j + w
  PROVE  Reaches(w, i, j)
<1>1. PICK q \in Nat : j + w = i + q * w
  BY DEF Reaches
<1>2. q # 0
  BY <1>1
<1>3. q - 1 \in Nat /\ (q - 1) * w \in Nat /\ q * w = (q - 1) * w + w
  BY <1>2
<1>4. j = i + (q - 1) * w
  BY <1>1, <1>3
<1> QED BY <1>3, <1>4 DEF Reaches

LEMMA ReachesAbove ==
  ASSUME NEW w \in Nat, NEW i \in Nat, NEW j \in Nat, Reaches(w, i, j)
  PROVE  i <= j
<1>1. PICK q \in Nat : j = i + q * w
  BY DEF Reaches
<1>2. q * w \in Nat
  OBVIOUS
<1> QED BY <1>1, <1>2

\* The first w leaves are on different ways, and together they reach all.
LEMMA FirstApart ==
  ASSUME NEW w \in Nat, NEW i \in Nat, NEW j \in Nat, i < w, j < w, i # j
  PROVE  ~ Reaches(w, i, j)
<1> SUFFICES ASSUME Reaches(w, i, j) PROVE FALSE
  OBVIOUS
<1>1. Reaches(w, i + w, j)
  BY ReachesOn
<1>2. i + w <= j
  BY <1>1, ReachesAbove
<1> QED BY <1>2

LEMMA FirstReach ==
  ASSUME NEW w \in Nat \ {0}, NEW j \in Nat
  PROVE  \E i \in 0 .. w - 1 : Reaches(w, i, j)
<1>1. /\ j % w \in 0 .. w - 1 /\ j \div w \in Nat
      /\ j = w * (j \div w) + (j % w)
  OBVIOUS
<1>2. j = (j % w) + (j \div w) * w
  BY <1>1
<1> QED BY <1>1, <1>2 DEF Reaches

-----------------------------------------------------------------------------
(* The partition of the leaves *)

LEMMA ShareType ==
  /\ Share \in Nat /\ Rest \in 0 .. MPISize - 1
  /\ LeafCount = MPISize * Share + Rest
BY DenseAssumption DEF Share, Rest

\* The leaves of a rank end where those of the next begin.
LEMMA StartOfNext ==
  ASSUME NEW r \in Nat
  PROVE  /\ LeafNodeStart(r) \in Nat /\ LeafNodeSize(r) \in Nat
         /\ LeafNodeStart(r + 1) = LeafNodeStart(r) + LeafNodeSize(r)
<1>1. Share \in Nat /\ Rest \in Nat
  BY ShareType, DenseAssumption
<1>2. r * Share \in Nat /\ (r + 1) * Share = r * Share + Share
  BY <1>1
<1>3. /\ Smaller(r, Rest) \in Nat
      /\ Smaller(r + 1, Rest) = Smaller(r, Rest) + (IF r < Rest THEN 1 ELSE 0)
  BY <1>1 DEF Smaller
<1> QED BY <1>1, <1>2, <1>3 DEF LeafNodeStart, LeafNodeSize

LEMMA StartMonotone ==
  ASSUME NEW r \in Nat, NEW s \in Nat, r <= s
  PROVE  LeafNodeStart(r) <= LeafNodeStart(s)
<1>1. Share \in Nat /\ Rest \in Nat
  BY ShareType, DenseAssumption
<1>2. PICK d \in Nat : s = r + d
  <2>1. s - r \in Nat /\ s = r + (s - r)
    OBVIOUS
  <2> QED BY <2>1
<1>3. s * Share = r * Share + d * Share
  BY <1>1, <1>2
<1>4. r * Share \in Nat /\ d * Share \in Nat
  BY <1>1
<1>5. Smaller(r, Rest) <= Smaller(s, Rest) /\ Smaller(r, Rest) \in Nat /\ Smaller(s, Rest) \in Nat
  BY <1>1 DEF Smaller
<1> QED BY <1>3, <1>4, <1>5 DEF LeafNodeStart

LEMMA StartEnds == LeafNodeStart(0) = 0 /\ LeafNodeStart(MPISize) = LeafCount
<1>1. Share \in Nat /\ Rest \in Nat /\ Rest < MPISize /\ MPISize \in Nat
  BY ShareType, DenseAssumption
<1>2. Smaller(0, Rest) = 0 /\ Smaller(MPISize, Rest) = Rest
  BY <1>1 DEF Smaller
<1>3. 0 * Share = 0
  BY <1>1
<1> QED BY <1>1, <1>2, <1>3, ShareType DEF LeafNodeStart

LEMMA RankType ==
  ASSUME NEW r \in Ranks
  PROVE  /\ r \in Nat
         /\ LeafNodeStart(r) \in Nat /\ LeafNodeSize(r) \in Nat
         /\ LeafNodeStart(r) + LeafNodeSize(r) <= LeafCount
         /\ MaxWorkSize(r) \in Nat /\ MaxWorkSize(r) <= LeafNodeSize(r)
<1>1. r \in Nat /\ r + 1 \in Nat /\ r + 1 <= MPISize /\ MPISize \in Nat
  BY DenseAssumption DEF Ranks
<1>2. LeafNodeStart(r + 1) <= LeafCount
  BY <1>1, StartMonotone, StartEnds
<1>3. /\ LeafNodeStart(r) \in Nat /\ LeafNodeSize(r) \in Nat
      /\ LeafNodeStart(r + 1) = LeafNodeStart(r) + LeafNodeSize(r)
  BY <1>1, StartOfNext
<1>4. PoolLeaves \in Nat
  <2>1. BlockSize * BlockSize \in Nat \ {0}
    BY DenseAssumption
  <2> QED BY <2>1, DenseAssumption DEF PoolLeaves
<1>5. MaxWorkSize(r) \in Nat /\ MaxWorkSize(r) <= LeafNodeSize(r)
  BY <1>3, <1>4 DEF MaxWorkSize, Smaller
<1> QED BY <1>1, <1>2, <1>3, <1>5

\* The leaves of different ranks are different ...
LEMMA RanksApart ==
  ASSUME NEW r \in Ranks, NEW s \in Ranks, r # s,
         NEW i \in Nat, i < LeafNodeSize(r), NEW j \in Nat, j < LeafNodeSize(s)
  PROVE  LeafNodeStart(r) + i # LeafNodeStart(s) + j
<1>1. /\ r \in Nat /\ s \in Nat /\ r + 1 \in Nat /\ s + 1 \in Nat
      /\ LeafNodeStart(r) \in Nat /\ LeafNodeStart(s) \in Nat
      /\ LeafNodeSize(r) \in Nat /\ LeafNodeSize(s) \in Nat
  BY RankType
<1>2. CASE r < s
  <2>1. LeafNodeStart(r + 1) <= LeafNodeStart(s)
    BY <1>1, <1>2, StartMonotone
  <2>2. LeafNodeStart(r + 1) = LeafNodeStart(r) + LeafNodeSize(r)
    BY <1>1, StartOfNext
  <2> QED BY <2>1, <2>2, <1>1
<1>3. CASE s < r
  <2>1. LeafNodeStart(s + 1) <= LeafNodeStart(r)
    BY <1>1, <1>3, StartMonotone
  <2>2. LeafNodeStart(s + 1) = LeafNodeStart(s) + LeafNodeSize(s)
    BY <1>1, StartOfNext
  <2> QED BY <2>1, <2>2, <1>1
<1> QED BY <1>1, <1>2, <1>3

\* ... and every leaf is some rank's.
LEMMA OwnerFound ==
  ASSUME NEW leaf \in Leaves
  PROVE  \E r \in Ranks : \E i \in Nat :
           i < LeafNodeSize(r) /\ leaf = LeafNodeStart(r) + i
<1> DEFINE S == {r \in Nat : leaf < LeafNodeStart(r + 1)}
<1>1. leaf \in Nat /\ leaf < LeafCount
  BY DenseAssumption DEF Leaves
<1>2. MPISize - 1 \in Nat /\ (MPISize - 1) + 1 = MPISize
  BY DenseAssumption
<1>3. MPISize - 1 \in S
  BY <1>1, <1>2, StartEnds
<1>4. PICK r \in S : \A x \in S : r <= x
  BY <1>3, LeastNatural
<1>5. r \in Nat /\ r <= MPISize - 1 /\ leaf < LeafNodeStart(r + 1)
  BY <1>3, <1>4
<1>6. r \in Ranks
  BY <1>5, DenseAssumption DEF Ranks
<1>7. LeafNodeStart(r) <= leaf
  <2>1. CASE r = 0
    BY <2>1, StartEnds, <1>1
  <2>2. CASE r # 0
    <3>1. r - 1 \in Nat /\ (r - 1) + 1 = r /\ ~ (r <= r - 1)
      BY <1>5, <2>2
    <3>2. r - 1 \notin S
      BY <1>4, <3>1
    <3>3. ~ (leaf < LeafNodeStart(r))
      BY <3>1, <3>2
    <3>4. LeafNodeStart(r) \in Nat
      BY <1>6, RankType
    <3> QED BY <3>3, <3>4, <1>1
  <2> QED BY <2>1, <2>2
<1>8. /\ LeafNodeStart(r) \in Nat /\ LeafNodeSize(r) \in Nat
      /\ LeafNodeStart(r + 1) = LeafNodeStart(r) + LeafNodeSize(r)
  BY <1>5, StartOfNext
<1>9. /\ leaf - LeafNodeStart(r) \in Nat
      /\ leaf - LeafNodeStart(r) < LeafNodeSize(r)
      /\ leaf = LeafNodeStart(r) + (leaf - LeafNodeStart(r))
  BY <1>1, <1>5, <1>7, <1>8
<1> QED BY <1>6, <1>9

-----------------------------------------------------------------------------
(* The inductive invariant *)

\* No slot's leaf is on the way of another slot.
Chains ==
  \A r \in Ranks : \A a, b \in Slots(r) :
    a # b => ~ Reaches(MaxWorkSize(r), workingNode[r][a], workingNode[r][b])

\* The leaves ahead of a slot were not worked on.
Fresh ==
  \A r \in Ranks : \A a \in Slots(r) : \A i \in Leaves :
    Reaches(MaxWorkSize(r), workingNode[r][a] + MaxWorkSize(r), i)
      => nodeOffset[r][i] = 0

\* A leaf whose row is not done has a slot that works on it or will.
Covered ==
  \A r \in Ranks : MaxWorkSize(r) > 0 =>
    \A i \in Leaves : i < LeafNodeSize(r) =>
      \/ nodeOffset[r][i] = LeafCount
      \/ \E a \in Slots(r) : Reaches(MaxWorkSize(r), workingNode[r][a], i)

\* The blocks before a leaf's column were added once, the others not at all.
Counts ==
  \A r \in Ranks : \A i \in Leaves : i < LeafNodeSize(r) =>
    \A j \in Leaves :
      added[<<LeafNodeStart(r) + i, j>>] = IF j < nodeOffset[r][i] THEN 1 ELSE 0

\* A rank that waits for the reduction has no slot left.
NoSlotsLeft ==
  \A r \in Ranks : stage[r] \in {"reduce", "done"} => Slots(r) = {}

IInv == TypeOK /\ Chains /\ Fresh /\ Covered /\ Counts /\ NoSlotsLeft

\* What the type invariant says of a rank's slots.
LEMMA SlotFacts ==
  ASSUME TypeOK, NEW r \in Ranks
  PROVE  /\ Slots(r) = 1 .. Len(workingNode[r]) /\ Len(workingNode[r]) \in Nat
         /\ Len(workingNode[r]) <= MaxWorkSize(r)
         /\ \A k \in Slots(r) : /\ workingNode[r][k] \in Leaves
                                /\ workingNode[r][k] \in Nat
                                /\ workingNode[r][k] < LeafNodeSize(r)
                                /\ nodeOffset[r][workingNode[r][k]] \in Nat
                                /\ nodeOffset[r][workingNode[r][k]] < LeafCount
                                /\ MaxWorkSize(r) > 0
<1>1. workingNode[r] \in Seq(Leaves) /\ nodeOffset[r] \in [Leaves -> 0 .. LeafCount]
  BY DEF TypeOK
<1>2. /\ Slots(r) = 1 .. Len(workingNode[r]) /\ Len(workingNode[r]) \in Nat
      /\ \A k \in Slots(r) : workingNode[r][k] \in Leaves
  BY <1>1 DEF Slots
<1>3. MaxWorkSize(r) \in Nat /\ Len(workingNode[r]) <= MaxWorkSize(r)
  BY RankType DEF TypeOK
<1> SUFFICES ASSUME NEW k \in Slots(r)
             PROVE  /\ workingNode[r][k] \in Leaves
                    /\ workingNode[r][k] \in Nat
                    /\ workingNode[r][k] < LeafNodeSize(r)
                    /\ nodeOffset[r][workingNode[r][k]] \in Nat
                    /\ nodeOffset[r][workingNode[r][k]] < LeafCount
                    /\ MaxWorkSize(r) > 0
  BY <1>2, <1>3
<1>4. workingNode[r][k] \in Leaves
  BY <1>2
<1>5. nodeOffset[r][workingNode[r][k]] \in 0 .. LeafCount
  BY <1>1, <1>4
<1>6. MaxWorkSize(r) > 0
  BY <1>2, <1>3
<1>7. /\ workingNode[r][k] < LeafNodeSize(r)
      /\ nodeOffset[r][workingNode[r][k]] < LeafCount
  BY DEF TypeOK
<1> QED BY <1>4, <1>5, <1>6, <1>7, DenseAssumption DEF Leaves

LEMMA LeafType == \A i \in Leaves : i \in Nat /\ i < LeafCount
BY DenseAssumption DEF Leaves

\* The first leaves are in the slots, in order.
LEMMA InitSlots ==
  ASSUME Init, NEW r \in Ranks
  PROVE  /\ Slots(r) = 1 .. MaxWorkSize(r)
         /\ workingNode[r] \in Seq(Leaves)
         /\ Len(workingNode[r]) = MaxWorkSize(r)
         /\ \A k \in Slots(r) : /\ workingNode[r][k] = k - 1 /\ k - 1 \in Leaves
                                /\ k - 1 \in Nat /\ k \in Int
                                /\ k - 1 < MaxWorkSize(r)
<1>1. workingNode[r] = [k \in 1 .. MaxWorkSize(r) |-> k - 1]
  BY DEF Init
<1>2. /\ MaxWorkSize(r) \in Nat /\ LeafNodeSize(r) \in Nat
      /\ MaxWorkSize(r) <= LeafNodeSize(r) /\ LeafNodeSize(r) <= LeafCount
  BY RankType, DenseAssumption
<1>3. Slots(r) = 1 .. MaxWorkSize(r)
  BY <1>1 DEF Slots
<1>4. \A k \in 1 .. MaxWorkSize(r) :
        k - 1 \in Leaves /\ k - 1 \in Nat /\ k \in Int /\ k - 1 < MaxWorkSize(r)
  BY <1>2, DenseAssumption DEF Leaves
<1>5. workingNode[r] \in Seq(Leaves) /\ Len(workingNode[r]) = MaxWorkSize(r)
  BY <1>1, <1>2, <1>4
<1> QED BY <1>1, <1>3, <1>4, <1>5

LEMMA InitOffset ==
  ASSUME Init, NEW r \in Ranks, NEW i \in Leaves
  PROVE  nodeOffset[r][i] = 0
BY DEF Init

LEMMA InitInv == Init => IInv
<1> SUFFICES ASSUME Init PROVE IInv
  OBVIOUS
<1>2. TypeOK
  <2>1. workingNode \in [Ranks -> Seq(Leaves)]
    <3>1. \A r \in Ranks : workingNode[r] \in Seq(Leaves)
      BY InitSlots
    <3> QED BY <3>1 DEF Init
  <2>2. ASSUME NEW r \in Ranks PROVE Len(workingNode[r]) <= MaxWorkSize(r)
    BY InitSlots, RankType
  <2>3. ASSUME NEW r \in Ranks, NEW k \in Slots(r)
        PROVE  /\ workingNode[r][k] < LeafNodeSize(r)
               /\ nodeOffset[r][workingNode[r][k]] < LeafCount
    <3>1. /\ workingNode[r][k] = k - 1 /\ k - 1 \in Leaves /\ k - 1 \in Nat
          /\ k - 1 < MaxWorkSize(r)
      BY InitSlots
    <3>2. nodeOffset[r][k - 1] = 0
      BY <3>1, InitOffset
    <3>3. MaxWorkSize(r) \in Nat /\ LeafNodeSize(r) \in Nat /\ MaxWorkSize(r) <= LeafNodeSize(r)
      BY RankType
    <3>4. k - 1 < LeafCount
      BY <3>1, LeafType
    <3> QED BY <3>1, <3>2, <3>3, <3>4, DenseAssumption
  <2>4. nodeOffset \in [Ranks -> [Leaves -> 0 .. LeafCount]]
    BY DenseAssumption DEF Init
  <2>5. added \in [Blocks -> 0 .. CountBound]
    BY DEF Init, CountBound
  <2>6. stage \in [Ranks -> {"dot", "reduce", "done", "crashed"}] /\ leafSize \in LeafSizes
    BY DEF Init
  <2> QED BY <2>1, <2>2, <2>3, <2>4, <2>5, <2>6 DEF TypeOK
<1>3. Chains
  <2> SUFFICES ASSUME NEW r \in Ranks, NEW a \in Slots(r), NEW b \in Slots(r), a # b
               PROVE  ~ Reaches(MaxWorkSize(r), workingNode[r][a], workingNode[r][b])
    BY DEF Chains
  <2>1. /\ workingNode[r][a] = a - 1 /\ a - 1 \in Nat /\ a \in Int
        /\ a - 1 < MaxWorkSize(r) /\ MaxWorkSize(r) \in Nat
    BY InitSlots, RankType
  <2>2. /\ workingNode[r][b] = b - 1 /\ b - 1 \in Nat /\ b \in Int
        /\ b - 1 < MaxWorkSize(r)
    BY InitSlots
  <2>3. a - 1 # b - 1
    BY <2>1, <2>2
  <2>4. ~ Reaches(MaxWorkSize(r), a - 1, b - 1)
    BY <2>1, <2>2, <2>3, FirstApart
  <2> QED BY <2>1, <2>2, <2>4
<1>4. Fresh
  BY InitOffset DEF Fresh
<1>5. Covered
  <2> SUFFICES ASSUME NEW r \in Ranks, MaxWorkSize(r) > 0, NEW i \in Leaves
               PROVE  \E a \in Slots(r) : Reaches(MaxWorkSize(r), workingNode[r][a], i)
    BY DEF Covered
  <2>1. MaxWorkSize(r) \in Nat \ {0}
    BY RankType
  <2>2. PICK k \in 0 .. MaxWorkSize(r) - 1 : Reaches(MaxWorkSize(r), k, i)
    BY <2>1, FirstReach, LeafType
  <2>3. k + 1 \in 1 .. MaxWorkSize(r) /\ (k + 1) - 1 = k
    BY <2>1
  <2>4. k + 1 \in Slots(r)
    BY <2>3, InitSlots
  <2>5. workingNode[r][k + 1] = k
    BY <2>3, <2>4, InitSlots
  <2> QED BY <2>2, <2>4, <2>5
<1>6. Counts
  <2> SUFFICES ASSUME NEW r \in Ranks, NEW i \in Leaves, i < LeafNodeSize(r), NEW j \in Leaves
               PROVE  added[<<LeafNodeStart(r) + i, j>>]
                        = IF j < nodeOffset[r][i] THEN 1 ELSE 0
    BY DEF Counts
  <2>1. LeafNodeStart(r) + i \in Leaves
    BY RankType, DenseAssumption DEF Leaves
  <2>2. added[<<LeafNodeStart(r) + i, j>>] = 0
    BY <2>1 DEF Init, Blocks
  <2>3. nodeOffset[r][i] = 0 /\ j \in Nat
    BY InitOffset, LeafType
  <2> QED BY <2>2, <2>3
<1>7. NoSlotsLeft
  BY DEF NoSlotsLeft, Init
<1> QED BY <1>2, <1>3, <1>4, <1>5, <1>6, <1>7 DEF IInv

-----------------------------------------------------------------------------
(* One batch *)

\* A slot after the batch comes from a slot before it, another one for each,
\* and works on its leaf or on the next on its way.
LEMMA MovedSlot ==
  ASSUME TypeOK, NEW r \in Ranks, Batch(r)
  PROVE  /\ Slots(r)' = 1 .. Cardinality(Kept(r))
         /\ Cardinality(Kept(r)) \in Nat
         /\ Cardinality(Kept(r)) <= Len(workingNode[r])
         /\ \A k \in Slots(r)' :
              /\ Source(Kept(r), k) \in Kept(r)
              /\ workingNode'[r][k] = AdvancedNode(r, Source(Kept(r), k))
         /\ \A k, l \in Slots(r)' : k # l => Source(Kept(r), k) # Source(Kept(r), l)
         /\ \A a \in Kept(r) : \E k \in Slots(r)' : workingNode'[r][k] = AdvancedNode(r, a)
<1> DEFINE N == Kept(r)
           n == Len(workingNode[r])
           moved == [k \in Slots(r) |-> AdvancedNode(r, k)]
<1>1. n \in Nat /\ Slots(r) = 1 .. n
  BY SlotFacts
<1>2. \A j \in N : j \in 1 .. n
  BY <1>1 DEF Kept
<1>3. /\ N \subseteq 1 .. n /\ IsFiniteSet(1 .. n) /\ Cardinality(1 .. n) = n
  BY <1>1, <1>2, IntervalCount
<1>4. Cardinality(N) \in Nat /\ Cardinality(N) <= n
  BY <1>1, <1>3, FS_Subset, FS_CardinalityType
<1>5. workingNode'[r] = [k \in 1 .. Cardinality(N) |-> moved[Source(N, k)]]
  BY DEF Batch, Compacted, TypeOK
<1>6. Slots(r)' = 1 .. Cardinality(N)
  BY <1>5 DEF Slots
<1> HIDE DEF N, n
<1>7. \A k \in 1 .. Cardinality(N) : Source(N, k) \in N
  BY <1>1, <1>2, SourceFound
<1>8. \A k \in 1 .. Cardinality(N) : workingNode'[r][k] = AdvancedNode(r, Source(N, k))
  BY <1>1, <1>2, <1>5, <1>7
<1>9. ASSUME NEW k \in 1 .. Cardinality(N), NEW l \in 1 .. Cardinality(N), k # l
      PROVE  Source(N, k) # Source(N, l)
  <2>1. k \in Int /\ l \in Int /\ Source(N, k) \in Int /\ Source(N, l) \in Int
    BY <1>1, <1>2, <1>4, <1>7
  <2>2. CASE k < l
    BY <2>1, <2>2, <1>1, <1>2, SourceOrdered
  <2>3. CASE l < k
    BY <2>1, <2>3, <1>1, <1>2, SourceOrdered
  <2> QED BY <1>9, <2>1, <2>2, <2>3
<1>10. \A a \in N : \E k \in 1 .. Cardinality(N) : Source(N, k) = a
  BY <1>1, <1>2, SourceOnto
<1> QED BY <1>4, <1>6, <1>7, <1>8, <1>9, <1>10 DEF N, n

\* The slots of the other ranks stay as they are.
LEMMA OtherRank ==
  ASSUME TypeOK, NEW r \in Ranks, Batch(r), NEW s \in Ranks, s # r
  PROVE  /\ workingNode'[s] = workingNode[s] /\ nodeOffset'[s] = nodeOffset[s]
         /\ Slots(s)' = Slots(s)
<1>1. workingNode'[s] = workingNode[s] /\ nodeOffset'[s] = nodeOffset[s]
  BY DEF Batch, TypeOK
<1> QED BY <1>1 DEF Slots

\* The columns of the rank's leaves after the batch.
LEMMA MovedOffset ==
  ASSUME TypeOK, NEW r \in Ranks, Batch(r), NEW i \in Leaves
  PROVE  /\ nodeOffset[r][i] \in 0 .. LeafCount
         /\ (\E k \in Slots(r) : workingNode[r][k] = i)
              => nodeOffset'[r][i] = nodeOffset[r][i] + 1
         /\ (\A k \in Slots(r) : workingNode[r][k] # i)
              => nodeOffset'[r][i] = nodeOffset[r][i]
<1>1. nodeOffset'[r] = AdvancedOffset(r) /\ nodeOffset[r][i] \in 0 .. LeafCount
  BY DEF Batch, TypeOK
<1> QED BY <1>1 DEF AdvancedOffset

\* Where a slot goes: on with its leaf, or to the next leaf on its way.
LEMMA NextNode ==
  ASSUME TypeOK, NEW r \in Ranks, NEW a \in Slots(r)
  PROVE  /\ AdvancedNode(r, a) \in Nat
         /\ \/ /\ AdvancedNode(r, a) = workingNode[r][a]
               /\ nodeOffset[r][workingNode[r][a]] + 1 < LeafCount
            \/ /\ AdvancedNode(r, a) = workingNode[r][a] + MaxWorkSize(r)
               /\ nodeOffset[r][workingNode[r][a]] + 1 = LeafCount
<1>1. /\ workingNode[r][a] \in Nat /\ MaxWorkSize(r) \in Nat /\ LeafCount \in Nat
      /\ nodeOffset[r][workingNode[r][a]] \in Nat
      /\ nodeOffset[r][workingNode[r][a]] < LeafCount
  BY SlotFacts, RankType, DenseAssumption
<1> QED BY <1>1 DEF AdvancedNode

\* The leaves ahead of a slot are no slot's leaf.
LEMMA AheadIsFree ==
  ASSUME TypeOK, Chains, NEW r \in Ranks, NEW a \in Slots(r), NEW i \in Leaves,
         Reaches(MaxWorkSize(r), workingNode[r][a] + MaxWorkSize(r), i)
  PROVE  \A b \in Slots(r) : workingNode[r][b] # i
<1> SUFFICES ASSUME NEW b \in Slots(r), workingNode[r][b] = i PROVE FALSE
  OBVIOUS
<1>1. /\ workingNode[r][a] \in Nat /\ MaxWorkSize(r) \in Nat /\ i \in Nat
      /\ MaxWorkSize(r) > 0
  BY SlotFacts, RankType, LeafType
<1>2. Reaches(MaxWorkSize(r), workingNode[r][a], i)
  BY <1>1, ReachesLater
<1>3. CASE a # b
  BY <1>2, <1>3 DEF Chains
<1>4. CASE a = b
  <2>1. workingNode[r][a] + MaxWorkSize(r) \in Nat
    BY <1>1
  <2>2. workingNode[r][a] + MaxWorkSize(r) <= i
    BY <1>1, <2>1, ReachesAbove
  <2> QED BY <1>1, <1>4, <2>2
<1> QED BY <1>3, <1>4

LEMMA BatchChains ==
  ASSUME TypeOK, Chains, NEW r \in Ranks, Batch(r)
  PROVE  Chains'
<1> SUFFICES ASSUME NEW s \in Ranks, NEW k \in Slots(s)', NEW l \in Slots(s)', k # l,
                    Reaches(MaxWorkSize(s), workingNode'[s][k], workingNode'[s][l])
             PROVE  FALSE
  BY DEF Chains
<1>1. CASE s # r
  BY <1>1, OtherRank DEF Chains
<1>2. CASE s = r
  <2> DEFINE W == MaxWorkSize(r)
             a == Source(Kept(r), k)
             b == Source(Kept(r), l)
             x == workingNode[r][a]
             y == workingNode[r][b]
  <2>1. /\ a \in Kept(r) /\ workingNode'[r][k] = AdvancedNode(r, a)
        /\ b \in Kept(r) /\ workingNode'[r][l] = AdvancedNode(r, b) /\ a # b
    BY <1>2, MovedSlot
  <2>2. a \in Slots(r) /\ b \in Slots(r)
    BY <2>1 DEF Kept
  <2>3. x \in Nat /\ y \in Nat /\ W \in Nat
    BY <2>2, SlotFacts, RankType
  <2>4. ~ Reaches(W, x, y) /\ ~ Reaches(W, y, x)
    BY <2>1, <2>2 DEF Chains
  <2>5. Reaches(W, AdvancedNode(r, a), AdvancedNode(r, b))
    BY <1>2, <2>1
  <2>6. /\ AdvancedNode(r, a) = x \/ AdvancedNode(r, a) = x + W
        /\ AdvancedNode(r, b) = y \/ AdvancedNode(r, b) = y + W
    BY <2>2, NextNode
  <2>7. AdvancedNode(r, b) \in Nat
    BY <2>2, NextNode
  <2> HIDE DEF W, a, b, x, y
  <2>8. Reaches(W, x, AdvancedNode(r, b))
    BY <2>3, <2>5, <2>6, <2>7, ReachesLater
  <2>9. AdvancedNode(r, b) = y + W
    BY <2>4, <2>6, <2>8
  <2>10. x = y + W
    BY <2>3, <2>4, <2>8, <2>9, ReachesBack
  <2>11. Reaches(W, y + W, x)
    BY <2>3, <2>10, ReachesItself
  <2> QED BY <2>3, <2>4, <2>11, ReachesLater
<1> QED BY <1>1, <1>2

LEMMA BatchFresh ==
  ASSUME TypeOK, Chains, Fresh, NEW r \in Ranks, Batch(r)
  PROVE  Fresh'
<1> SUFFICES ASSUME NEW s \in Ranks, NEW k \in Slots(s)', NEW i \in Leaves,
                    Reaches(MaxWorkSize(s), workingNode'[s][k] + MaxWorkSize(s), i)
             PROVE  nodeOffset'[s][i] = 0
  BY DEF Fresh
<1>1. CASE s # r
  BY <1>1, OtherRank DEF Fresh
<1>2. CASE s = r
  <2> DEFINE W == MaxWorkSize(r)
             a == Source(Kept(r), k)
             x == workingNode[r][a]
  <2>1. a \in Kept(r) /\ workingNode'[r][k] = AdvancedNode(r, a)
    BY <1>2, MovedSlot
  <2>2. a \in Slots(r)
    BY <2>1 DEF Kept
  <2>3. x \in Nat /\ W \in Nat /\ i \in Nat
    BY <2>2, SlotFacts, RankType, LeafType
  <2>4. AdvancedNode(r, a) = x \/ AdvancedNode(r, a) = x + W
    BY <2>2, NextNode
  <2>5. Reaches(W, AdvancedNode(r, a) + W, i)
    BY <1>2, <2>1
  <2>6. Reaches(W, x + W, i)
    <3>1. CASE AdvancedNode(r, a) = x
      BY <3>1, <2>5
    <3>2. CASE AdvancedNode(r, a) = x + W
      <4>1. x + W \in Nat /\ Reaches(W, (x + W) + W, i)
        BY <2>3, <2>5, <3>2
      <4> HIDE DEF W, x
      <4> QED BY <2>3, <4>1, ReachesLater
    <3> QED BY <3>1, <3>2, <2>4
  <2>7. nodeOffset[r][i] = 0
    BY <2>2, <2>6 DEF Fresh
  <2>8. \A b \in Slots(r) : workingNode[r][b] # i
    BY <2>2, <2>6, AheadIsFree
  <2> QED BY <1>2, <2>7, <2>8, MovedOffset
<1> QED BY <1>1, <1>2

LEMMA BatchCovered ==
  ASSUME TypeOK, Covered, NEW r \in Ranks, Batch(r)
  PROVE  Covered'
<1> SUFFICES ASSUME NEW s \in Ranks, MaxWorkSize(s) > 0,
                    NEW i \in Leaves, i < LeafNodeSize(s)
             PROVE  \/ nodeOffset'[s][i] = LeafCount
                    \/ \E k \in Slots(s)' : Reaches(MaxWorkSize(s), workingNode'[s][k], i)
  BY DEF Covered
<1>1. CASE s # r
  BY <1>1, OtherRank DEF Covered
<1>2. CASE s = r /\ nodeOffset[r][i] = LeafCount
  <2>1. \A k \in Slots(r) : workingNode[r][k] # i
    <3> SUFFICES ASSUME NEW k \in Slots(r), workingNode[r][k] = i PROVE FALSE
      OBVIOUS
    <3>1. nodeOffset[r][i] < LeafCount
      BY SlotFacts
    <3> QED BY <3>1, <1>2, DenseAssumption
  <2> QED BY <2>1, <1>2, MovedOffset
<1>3. CASE s = r /\ nodeOffset[r][i] # LeafCount
  <2>1. PICK a \in Slots(r) : Reaches(MaxWorkSize(r), workingNode[r][a], i)
    BY <1>3 DEF Covered
  <2> DEFINE W == MaxWorkSize(r)
             x == workingNode[r][a]
  <2>2. /\ x \in Nat /\ W \in Nat /\ i \in Nat /\ x \in Leaves
        /\ x < LeafNodeSize(r) /\ LeafNodeSize(r) \in Nat
    BY SlotFacts, RankType, LeafType
  <2>3. ASSUME AdvancedNode(r, a) < LeafNodeSize(r)
        PROVE  \E k \in Slots(r)' : workingNode'[r][k] = AdvancedNode(r, a)
    <3>1. a \in Kept(r)
      BY <2>3 DEF Kept
    <3> QED BY <3>1, MovedSlot
  <2>4. CASE AdvancedNode(r, a) = x
    BY <2>1, <2>2, <2>3, <2>4, <1>3
  <2>5. CASE AdvancedNode(r, a) = x + W /\ nodeOffset[r][x] + 1 = LeafCount
    <3>1. CASE x = i
      <4>1. nodeOffset'[r][i] = nodeOffset[r][i] + 1
        BY <3>1, MovedOffset
      <4> QED BY <4>1, <3>1, <2>5, <1>3
    <3>2. CASE x # i
      <4>1. x + W \in Nat
        BY <2>2
      <4>2. Reaches(W, x + W, i)
        <5> HIDE DEF W, x
        <5>1. Reaches(W, x, i)
          BY <2>1 DEF W, x
        <5> QED BY <5>1, <2>2, <3>2, ReachesOn
      <4>3. x + W <= i
        BY <4>1, <4>2, <2>2, ReachesAbove
      <4>4. AdvancedNode(r, a) < LeafNodeSize(r)
        BY <4>1, <4>3, <2>2, <2>5, <1>3
      <4> QED BY <4>2, <4>4, <2>3, <2>5, <1>3
    <3> QED BY <3>1, <3>2
  <2> QED BY <2>4, <2>5, NextNode
<1> QED BY <1>1, <1>2, <1>3

\* A block of the rank's n-th leaf is multiplied by the slot that works on the
\* leaf, when its column is reached, and by no other slot of any rank.
LEMMA BlockOfSlot ==
  ASSUME TypeOK, NEW r \in Ranks, NEW k \in Slots(r),
         NEW s \in Ranks, NEW i \in Leaves, i < LeafNodeSize(s), NEW j \in Leaves
  PROVE  Block(r, k) = <<LeafNodeStart(s) + i, j>> <=>
           r = s /\ workingNode[r][k] = i /\ nodeOffset[r][i] = j
<1>1. /\ workingNode[r][k] \in Nat /\ workingNode[r][k] < LeafNodeSize(r)
      /\ LeafNodeStart(r) \in Nat /\ LeafNodeStart(s) \in Nat /\ i \in Nat
  BY SlotFacts, RankType, LeafType
<1>2. CASE r # s
  <2>1. LeafNodeStart(r) + workingNode[r][k] # LeafNodeStart(s) + i
    BY <1>1, <1>2, RanksApart
  <2> QED BY <1>2, <2>1 DEF Block
<1>3. CASE r = s
  BY <1>1, <1>3 DEF Block
<1> QED BY <1>2, <1>3

\* How often the batch adds a block: once, if a slot works on it.
LEMMA AddedByBatch ==
  ASSUME TypeOK, Chains, NEW r \in Ranks, Batch(r), NEW b \in Blocks
  PROVE  /\ (\E k \in Slots(r) : Block(r, k) = b) => added'[b] = Smaller(CountBound, added[b] + 1)
         /\ (\A k \in Slots(r) : Block(r, k) # b) => added'[b] = added[b]
<1> DEFINE S == {k \in Slots(r) : Block(r, k) = b}
<1>1. added'[b] = Smaller(CountBound, added[b] + Cardinality(S)) /\ added[b] \in 0 .. CountBound
  BY DEF Batch, TypeOK
<1>2. ASSUME NEW k \in Slots(r), Block(r, k) = b PROVE Cardinality(S) = 1
  <2>1. ASSUME NEW l \in Slots(r), Block(r, l) = b PROVE l = k
    <3>1. /\ workingNode[r][k] \in Nat /\ workingNode[r][l] \in Nat
          /\ LeafNodeStart(r) \in Nat /\ MaxWorkSize(r) \in Nat
      BY SlotFacts, RankType
    <3>2. workingNode[r][k] = workingNode[r][l]
      BY <1>2, <2>1, <3>1 DEF Block
    <3>3. Reaches(MaxWorkSize(r), workingNode[r][k], workingNode[r][l])
      BY <3>1, <3>2, ReachesItself
    <3> QED BY <3>3 DEF Chains
  <2>2. S = {k}
    BY <1>2, <2>1
  <2> QED BY <2>2, FS_Singleton
<1>3. ASSUME \A k \in Slots(r) : Block(r, k) # b PROVE Cardinality(S) = 0
  <2>1. S = {}
    BY <1>3
  <2> QED BY <2>1, FS_EmptySet
<1>4. ASSUME \A k \in Slots(r) : Block(r, k) # b PROVE added'[b] = added[b]
  BY <1>1, <1>3, <1>4 DEF Smaller, CountBound
<1> HIDE DEF S
<1> QED BY <1>1, <1>2, <1>4

LEMMA BatchCounts ==
  ASSUME TypeOK, Chains, Counts, NEW r \in Ranks, Batch(r)
  PROVE  Counts'
<1> SUFFICES ASSUME NEW s \in Ranks, NEW i \in Leaves, i < LeafNodeSize(s), NEW j \in Leaves
             PROVE  added'[<<LeafNodeStart(s) + i, j>>]
                      = IF j < nodeOffset'[s][i] THEN 1 ELSE 0
  BY DEF Counts
<1> DEFINE b == <<LeafNodeStart(s) + i, j>>
<1>1. b \in Blocks
  <2>1. LeafNodeStart(s) + i \in Leaves
    BY RankType, LeafType, DenseAssumption DEF Leaves
  <2> QED BY <2>1 DEF Blocks
<1>2. /\ added[b] = IF j < nodeOffset[s][i] THEN 1 ELSE 0
      /\ j \in Nat /\ nodeOffset[s][i] \in Nat
  BY LeafType DEF Counts, TypeOK
<1>3. CASE s # r
  <2>1. \A k \in Slots(r) : Block(r, k) # b
    BY <1>3, BlockOfSlot
  <2> HIDE DEF b
  <2>2. added'[b] = added[b] /\ nodeOffset'[s] = nodeOffset[s]
    BY <1>1, <1>3, <2>1, AddedByBatch, OtherRank
  <2> QED BY <2>2, <1>2 DEF b
<1>4. CASE s = r /\ \E k \in Slots(r) : workingNode[r][k] = i
  <2>1. nodeOffset'[r][i] = nodeOffset[r][i] + 1
    BY <1>4, MovedOffset
  <2>2. CASE nodeOffset[r][i] = j
    <3>1. \E k \in Slots(r) : Block(r, k) = b
      BY <1>4, <2>2, BlockOfSlot
    <3> HIDE DEF b
    <3>2. added'[b] = Smaller(CountBound, added[b] + 1)
      BY <1>1, <3>1, AddedByBatch
    <3>3. added[b] = 0
      BY <1>2, <1>4, <2>2
    <3>4. added'[b] = 1
      BY <3>2, <3>3 DEF Smaller, CountBound
    <3> QED BY <3>4, <2>1, <2>2, <1>2, <1>4 DEF b
  <2>3. CASE nodeOffset[r][i] # j
    <3>1. \A k \in Slots(r) : Block(r, k) # b
      BY <1>4, <2>3, BlockOfSlot
    <3> HIDE DEF b
    <3>2. added'[b] = added[b]
      BY <1>1, <3>1, AddedByBatch
    <3> QED BY <3>2, <2>1, <2>3, <1>2, <1>4 DEF b
  <2> QED BY <2>2, <2>3
<1>5. CASE s = r /\ \A k \in Slots(r) : workingNode[r][k] # i
  <2>1. nodeOffset'[r][i] = nodeOffset[r][i]
    BY <1>5, MovedOffset
  <2>2. \A k \in Slots(r) : Block(r, k) # b
    BY <1>5, BlockOfSlot
  <2> HIDE DEF b
  <2>3. added'[b] = added[b]
    BY <1>1, <2>2, AddedByBatch
  <2> QED BY <2>1, <2>3, <1>2, <1>5 DEF b
<1> QED BY <1>3, <1>4, <1>5

LEMMA BatchType ==
  ASSUME TypeOK, Chains, Fresh, NEW r \in Ranks, Batch(r)
  PROVE  TypeOK'
<1>1. /\ stage' = stage /\ leafSize' = leafSize
      /\ workingNode' \in [Ranks -> {workingNode'[s] : s \in Ranks}]
      /\ nodeOffset' \in [Ranks -> {nodeOffset'[s] : s \in Ranks}]
  BY DEF Batch, TypeOK
<1>2. ASSUME NEW k \in Slots(r)'
      PROVE  /\ workingNode'[r][k] \in Leaves
             /\ workingNode'[r][k] < LeafNodeSize(r)
             /\ nodeOffset'[r][workingNode'[r][k]] < LeafCount
  <2> DEFINE a == Source(Kept(r), k)
             x == workingNode[r][a]
             W == MaxWorkSize(r)
             v == AdvancedNode(r, a)
  <2>1. a \in Kept(r) /\ workingNode'[r][k] = v
    BY MovedSlot
  <2>2. a \in Slots(r) /\ v < LeafNodeSize(r)
    BY <2>1 DEF Kept
  <2>3. /\ v \in Nat /\ x \in Leaves /\ x \in Nat /\ W \in Nat
        /\ LeafNodeSize(r) \in Nat /\ LeafNodeSize(r) <= LeafCount /\ LeafCount \in Nat
        /\ nodeOffset[r][x] \in Nat
    BY <2>2, NextNode, SlotFacts, RankType, DenseAssumption
  <2>4. v \in Leaves
    BY <2>2, <2>3 DEF Leaves
  <2>5. nodeOffset'[r][v] < LeafCount
    <3>1. CASE v = x /\ nodeOffset[r][x] + 1 < LeafCount
      <4>1. nodeOffset'[r][x] = nodeOffset[r][x] + 1
        BY <2>2, <2>3, MovedOffset
      <4> QED BY <3>1, <4>1
    <3>2. CASE v = x + W
      <4>1. Reaches(W, x + W, v)
        BY <3>2, <2>3, ReachesItself
      <4>2. nodeOffset[r][v] = 0
        BY <4>1, <2>2, <2>4 DEF Fresh
      <4>3. \A c \in Slots(r) : workingNode[r][c] # v
        BY <4>1, <2>2, <2>4, AheadIsFree
      <4>4. nodeOffset'[r][v] = 0
        BY <2>4, <4>2, <4>3, MovedOffset
      <4>5. LeafCount > 0
        BY <2>2, <2>3
      <4> QED BY <4>4, <4>5
    <3> QED BY <2>2, <3>1, <3>2, NextNode
  <2> QED BY <2>1, <2>2, <2>4, <2>5
<1>3. workingNode'[r] \in Seq(Leaves) /\ Len(workingNode'[r]) <= MaxWorkSize(r)
  <2> DEFINE c == Cardinality(Kept(r))
             moved == [k \in Slots(r) |-> AdvancedNode(r, k)]
  <2>1. /\ c \in Nat /\ c <= Len(workingNode[r]) /\ Slots(r)' = 1 .. c
        /\ Len(workingNode[r]) \in Nat /\ Len(workingNode[r]) <= MaxWorkSize(r)
        /\ MaxWorkSize(r) \in Nat
    BY MovedSlot, SlotFacts, RankType
  <2>2. workingNode'[r] = [k \in 1 .. c |-> moved[Source(Kept(r), k)]]
    BY DEF Batch, Compacted, TypeOK
  <2>3. \A k \in 1 .. c : workingNode'[r][k] \in Leaves
    BY <1>2, <2>1
  <2> HIDE DEF c, moved
  <2>4. workingNode'[r] = [k \in 1 .. c |-> workingNode'[r][k]]
    BY <2>2
  <2>5. workingNode'[r] \in [1 .. c -> Leaves]
    BY <2>3, <2>4
  <2>6. workingNode'[r] \in Seq(Leaves) /\ Len(workingNode'[r]) = c
    BY <2>1, <2>5
  <2> QED BY <2>1, <2>6
<1>4. ASSUME NEW i \in Leaves PROVE AdvancedOffset(r)[i] \in 0 .. LeafCount
  <2>1. nodeOffset[r][i] \in 0 .. LeafCount /\ LeafCount \in Nat
    BY DenseAssumption DEF TypeOK
  <2>2. CASE \E k \in Slots(r) : workingNode[r][k] = i
    <3>1. nodeOffset[r][i] \in Nat /\ nodeOffset[r][i] < LeafCount
      BY <2>2, SlotFacts
    <3> QED BY <2>1, <2>2, <3>1 DEF AdvancedOffset
  <2>3. CASE ~ \E k \in Slots(r) : workingNode[r][k] = i
    BY <2>1, <2>3 DEF AdvancedOffset
  <2> QED BY <2>2, <2>3
<1>5. nodeOffset' \in [Ranks -> [Leaves -> 0 .. LeafCount]]
  <2>1. AdvancedOffset(r) \in [Leaves -> 0 .. LeafCount]
    BY <1>4 DEF AdvancedOffset
  <2> QED BY <2>1 DEF Batch, TypeOK
<1>6. workingNode' \in [Ranks -> Seq(Leaves)]
  <2>1. ASSUME NEW s \in Ranks PROVE workingNode'[s] \in Seq(Leaves)
    <3>1. CASE s = r
      BY <3>1, <1>3
    <3>2. CASE s # r
      BY <3>2, OtherRank DEF TypeOK
    <3> QED BY <3>1, <3>2
  <2> QED BY <2>1, <1>1
<1>7. ASSUME NEW s \in Ranks
      PROVE  /\ Len(workingNode'[s]) <= MaxWorkSize(s)
             /\ \A k \in Slots(s)' : /\ workingNode'[s][k] < LeafNodeSize(s)
                                     /\ nodeOffset'[s][workingNode'[s][k]] < LeafCount
  <2>1. CASE s = r
    BY <2>1, <1>2, <1>3
  <2>2. CASE s # r
    BY <2>2, OtherRank DEF TypeOK
  <2> QED BY <2>1, <2>2
<1>8. added' \in [Blocks -> 0 .. CountBound]
  <2>1. ASSUME NEW b \in Blocks
        PROVE  Smaller(CountBound, added[b] + Cardinality({k \in Slots(r) : Block(r, k) = b}))
                 \in 0 .. CountBound
    <3>1. IsFiniteSet(Slots(r))
      BY SlotFacts, IntervalCount
    <3>2. Cardinality({k \in Slots(r) : Block(r, k) = b}) \in Nat
      BY <3>1, FS_Subset, FS_CardinalityType
    <3>3. added[b] \in 0 .. 2
      BY DEF TypeOK, CountBound
    <3> QED BY <3>2, <3>3 DEF Smaller, CountBound
  <2> QED BY <2>1 DEF Batch
<1> QED BY <1>1, <1>5, <1>6, <1>7, <1>8 DEF TypeOK

LEMMA BatchInv ==
  ASSUME IInv, NEW r \in Ranks, Batch(r)
  PROVE  IInv'
<1>1. TypeOK /\ Chains /\ Fresh /\ Covered /\ Counts /\ NoSlotsLeft
  BY DEF IInv
<1>2. NoSlotsLeft'
  <2> SUFFICES ASSUME NEW s \in Ranks, stage'[s] \in {"reduce", "done"}
               PROVE  Slots(s)' = {}
    BY DEF NoSlotsLeft
  <2>1. stage' = stage /\ stage[r] = "dot"
    BY DEF Batch
  <2>2. s # r
    BY <2>1
  <2> QED BY <1>1, <2>1, <2>2, OtherRank DEF NoSlotsLeft
<1> QED BY <1>1, <1>2, BatchType, BatchChains, BatchFresh, BatchCovered, BatchCounts DEF IInv

\* The steps that leave the slots alone.
LEMMA StageInv ==
  ASSUME IInv, UNCHANGED <<workingNode, nodeOffset, leafSize, added>>,
         stage' \in [Ranks -> {"dot", "reduce", "done", "crashed"}],
         \A r \in Ranks : stage'[r] \in {"reduce", "done"} => Slots(r) = {}
  PROVE  IInv'
<1>1. \A r \in Ranks : Slots(r)' = Slots(r)
  BY DEF Slots
<1>2. TypeOK'
  BY <1>1 DEF IInv, TypeOK
<1>3. Chains' /\ Fresh' /\ Covered' /\ Counts'
  BY <1>1 DEF IInv, Chains, Fresh, Covered, Counts
<1>4. NoSlotsLeft'
  BY <1>1 DEF NoSlotsLeft
<1> QED BY <1>2, <1>3, <1>4 DEF IInv

LEMMA NextInv == IInv /\ [Next]_vars => IInv'
<1> SUFFICES ASSUME IInv, [Next]_vars PROVE IInv'
  OBVIOUS
<1>0. /\ TypeOK /\ NoSlotsLeft
      /\ stage \in [Ranks -> {"dot", "reduce", "done", "crashed"}]
  BY DEF IInv, TypeOK
<1>1. ASSUME NEW r \in Ranks, Batch(r) PROVE IInv'
  BY <1>1, BatchInv
<1>2. ASSUME NEW r \in Ranks, Crash(r) PROVE IInv'
  BY <1>2, StageInv DEF Crash
<1>3. ASSUME NEW r \in Ranks, Return(r) PROVE IInv'
  <2>1. /\ UNCHANGED <<workingNode, nodeOffset, leafSize, added>>
        /\ stage' = [stage EXCEPT ![r] = "reduce"] /\ Slots(r) = {}
    BY <1>3 DEF Return
  <2>2. \A s \in Ranks : stage'[s] \in {"reduce", "done"} => Slots(s) = {}
    BY <1>0, <2>1 DEF NoSlotsLeft
  <2>3. stage' \in [Ranks -> {"dot", "reduce", "done", "crashed"}]
    BY <1>0, <2>1
  <2> QED BY <2>1, <2>2, <2>3, StageInv
<1>4. ASSUME Reduce PROVE IInv'
  <2>1. /\ UNCHANGED <<workingNode, nodeOffset, leafSize, added>>
        /\ stage' = [r \in Ranks |-> "done"]
        /\ \A r \in Ranks : stage[r] = "reduce"
    BY <1>4 DEF Reduce
  <2>2. \A r \in Ranks : Slots(r) = {}
    BY <1>0, <2>1 DEF NoSlotsLeft
  <2> QED BY <2>1, <2>2, StageInv
<1>5. ASSUME UNCHANGED vars PROVE IInv'
  <2>1. UNCHANGED <<workingNode, nodeOffset, leafSize, added>> /\ stage' = stage
    BY <1>5 DEF vars
  <2> QED BY <2>1, <1>0, StageInv DEF NoSlotsLeft
<1> QED BY <1>1, <1>2, <1>3, <1>4, <1>5 DEF Next, RankStep, Stop

\* The invariant holds in every state of DenseDot.
THEOREM Invariance == Spec => []IInv
<1> QED BY InitInv, NextInv, PTL DEF Spec

-----------------------------------------------------------------------------
(* What DenseDot guarantees *)

\* The slots of a rank only ever work on its own leaves and on columns that
\* exist, however they are moved.
THEOREM TypeCorrect == Spec => []TypeOK
<1>1. IInv => TypeOK
  BY DEF IInv
<1> QED BY <1>1, Invariance, PTL

\* In the invariant, each block was added once or not at all.
LEMMA AddedAtMostOnce ==
  ASSUME IInv, NEW b \in Blocks
  PROVE  added[b] \in {0, 1}
<1>1. PICK leaf \in Leaves, j \in Leaves : b = <<leaf, j>>
  BY DEF Blocks
<1>2. PICK r \in Ranks, i \in Nat : i < LeafNodeSize(r) /\ leaf = LeafNodeStart(r) + i
  BY OwnerFound
<1>3. i \in Leaves
  BY <1>2, RankType, DenseAssumption DEF Leaves
<1>4. Counts
  BY DEF IInv
<1>5. added[b] = IF j < nodeOffset[r][i] THEN 1 ELSE 0
  BY <1>1, <1>2, <1>3, <1>4 DEF Counts
<1> QED BY <1>5

\* No block of the matrix is added twice, by whatever ranks and slots.
THEOREM BlocksAddedOnce == Spec => []NoBlockTwice
<1>1. IInv => NoBlockTwice
  BY AddedAtMostOnce DEF NoBlockTwice
<1> QED BY <1>1, Invariance, PTL

\* When the ranks have the sum, every block is in it once.
LEMMA AllAdded ==
  ASSUME IInv, PoolLeaves > 0, \A r \in Ranks : stage[r] = "done"
  PROVE  \A b \in Blocks : added[b] = 1
<1> SUFFICES ASSUME NEW b \in Blocks PROVE added[b] = 1
  OBVIOUS
<1>1. PICK leaf \in Leaves, j \in Leaves : b = <<leaf, j>>
  BY DEF Blocks
<1>2. PICK r \in Ranks, i \in Nat : i < LeafNodeSize(r) /\ leaf = LeafNodeStart(r) + i
  BY OwnerFound
<1>3. i \in Leaves /\ LeafNodeSize(r) > 0 /\ LeafNodeSize(r) \in Nat
  BY <1>2, RankType, DenseAssumption DEF Leaves
<1>4. MaxWorkSize(r) > 0
  BY <1>3 DEF MaxWorkSize, Smaller
<1>5. Slots(r) = {}
  BY DEF IInv, NoSlotsLeft
<1>6. nodeOffset[r][i] = LeafCount
  BY <1>2, <1>3, <1>4, <1>5 DEF IInv, Covered
<1>7. j < nodeOffset[r][i]
  BY <1>6, LeafType
<1>8. Counts
  BY DEF IInv
<1>9. added[<<LeafNodeStart(r) + i, j>>] = IF j < nodeOffset[r][i] THEN 1 ELSE 0
  BY <1>2, <1>3, <1>8 DEF Counts
<1> QED BY <1>1, <1>2, <1>7, <1>9

\* If the pool has room for one pair of leaves, all blocks were added when
\* DenseDot returns: no leaf is passed over by the stride of the slots.
THEOREM AllBlocksAdded ==
  ASSUME PoolLeaves > 0
  PROVE  Spec => []AllProcessed
<1>1. IInv => AllProcessed
  BY AllAdded DEF AllProcessed
<1> QED BY <1>1, Invariance, PTL

\* DenseDot implements ExactlyOnce: a batch adds blocks that were not added
\* before, and nothing else adds any.
THEOREM DenseDotImplements == Spec => Implements
<1>1. Init => Promise!Init
  BY DEF Init, Promise!Init
<1>2. IInv /\ IInv' /\ [Next]_vars => [Promise!Next]_added
  <2> SUFFICES ASSUME IInv, IInv', [Next]_vars PROVE [Promise!Next]_added
    OBVIOUS
  <2>1. ASSUME NEW r \in Ranks, Batch(r) PROVE Promise!Next
    <3>1. ASSUME NEW b \in Blocks
          PROVE  added[b] \in {0, 1} /\ added'[b] \in {0, 1} /\ added[b] <= added'[b]
      <4>1. added[b] \in {0, 1}
        BY AddedAtMostOnce
      <4>2. added'[b] \in {0, 1}
        <5>1. PICK leaf \in Leaves, j \in Leaves : b = <<leaf, j>>
          BY DEF Blocks
        <5>2. PICK s \in Ranks, i \in Nat : i < LeafNodeSize(s) /\ leaf = LeafNodeStart(s) + i
          BY OwnerFound
        <5>3. i \in Leaves
          BY <5>2, RankType, DenseAssumption DEF Leaves
        <5>4. Counts'
          BY DEF IInv
        <5>5. added'[b] = IF j < nodeOffset'[s][i] THEN 1 ELSE 0
          BY <5>1, <5>2, <5>3, <5>4 DEF Counts
        <5> QED BY <5>5
      <4>3. TypeOK /\ Chains
        BY DEF IInv
      <4>4. \/ added'[b] = Smaller(CountBound, added[b] + 1)
            \/ added'[b] = added[b]
        BY <2>1, <4>3, AddedByBatch
      <4> QED BY <4>1, <4>2, <4>4 DEF Smaller, CountBound
    <3>2. added' \in [Blocks -> {0, 1}]
      <4>1. added' = [b \in Blocks |-> added'[b]]
        BY <2>1 DEF Batch
      <4> QED BY <4>1, <3>1
    <3>3. Promise!AddBatch
      BY <3>1, <3>2 DEF Promise!AddBatch
    <3> QED BY <3>3 DEF Promise!Next
  <2>2. ASSUME UNCHANGED added PROVE [Promise!Next]_added
    BY <2>2
  <2> QED BY <2>1, <2>2 DEF Next, RankStep, Crash, Return, Reduce, Stop, vars
<1> QED BY <1>1, <1>2, Invariance, PTL DEF Spec, Promise!Spec, Implements

-----------------------------------------------------------------------------
(* The pool of a batch *)

LEMMA ProductBelow ==
  ASSUME NEW a \in Nat, NEW b \in Nat, a <= b, NEW c \in Nat
  PROVE  a * c <= b * c
<1>1. PICK d \in Nat : b = a + d
  <2>1. b - a \in Nat /\ b = a + (b - a)
    OBVIOUS
  <2> QED BY <2>1
<1>2. b * c = a * c + d * c /\ a * c \in Nat /\ d * c \in Nat
  BY <1>1
<1> QED BY <1>2

\* With no leaf larger than a block, the pairs of a batch fill at most a
\* square of blocks for each slot.
LEMMA CoordsFit ==
  ASSUME TypeOK, \A i \in Leaves : leafSize[i] <= BlockSize, NEW r \in Ranks
  PROVE  Cardinality(Coords(r)) \in Nat /\ Cardinality(Coords(r)) <= PoolSize(r)
<1> DEFINE n == Len(workingNode[r])
           Square == (1 .. BlockSize) \X (1 .. BlockSize)
<1>1. /\ n \in Nat /\ Slots(r) = 1 .. n /\ n <= MaxWorkSize(r)
      /\ MaxWorkSize(r) \in Nat
      /\ BlockSize \in Nat /\ BlockSize * BlockSize \in Nat
  BY SlotFacts, RankType, DenseAssumption
<1>2. /\ IsFiniteSet(1 .. BlockSize) /\ Cardinality(1 .. BlockSize) = BlockSize
      /\ IsFiniteSet(1 .. n) /\ Cardinality(1 .. n) = n
  BY <1>1, IntervalCount
<1>3. IsFiniteSet(Square) /\ Cardinality(Square) = BlockSize * BlockSize
  BY <1>2, FS_Product
<1>4. /\ IsFiniteSet((1 .. n) \X Square)
      /\ Cardinality((1 .. n) \X Square) = n * (BlockSize * BlockSize)
  <2>1. IsFiniteSet(Square) /\ IsFiniteSet(1 .. n)
    BY <1>2, <1>3
  <2> HIDE DEF Square, n
  <2>2. /\ IsFiniteSet((1 .. n) \X Square)
        /\ Cardinality((1 .. n) \X Square) = Cardinality(1 .. n) * Cardinality(Square)
    BY <2>1, FS_Product
  <2> QED BY <2>2, <1>2, <1>3
<1>5. Coords(r) \subseteq (1 .. n) \X Square
  <2>1. ASSUME NEW i \in Leaves PROVE 1 .. leafSize[i] \subseteq 1 .. BlockSize
    <3>1. leafSize[i] \in Nat /\ leafSize[i] <= BlockSize
      BY DenseAssumption DEF TypeOK
    <3> QED BY <3>1, <1>1
  <2>2. ASSUME NEW k \in Slots(r)
        PROVE  Block(r, k)[1] \in Leaves /\ Block(r, k)[2] \in Leaves
    <3>1. /\ workingNode[r][k] \in Nat /\ workingNode[r][k] < LeafNodeSize(r)
          /\ nodeOffset[r][workingNode[r][k]] \in Nat
          /\ nodeOffset[r][workingNode[r][k]] < LeafCount
      BY <2>2, SlotFacts
    <3>2. LeafNodeStart(r) \in Nat /\ LeafNodeSize(r) \in Nat
          /\ LeafNodeStart(r) + LeafNodeSize(r) <= LeafCount /\ LeafCount \in Nat
      BY RankType, DenseAssumption
    <3> QED BY <3>1, <3>2 DEF Block, Leaves
  <2>3. ASSUME NEW k \in Slots(r)
        PROVE  {k} \X ((1 .. leafSize[Block(r, k)[1]]) \X (1 .. leafSize[Block(r, k)[2]]))
                 \subseteq (1 .. n) \X Square
    <3>1. /\ 1 .. leafSize[Block(r, k)[1]] \subseteq 1 .. BlockSize
          /\ 1 .. leafSize[Block(r, k)[2]] \subseteq 1 .. BlockSize
          /\ k \in 1 .. n
      BY <2>1, <2>2, <2>3, <1>1
    <3> HIDE DEF n
    <3> QED BY <3>1
  <2> HIDE DEF n, Square
  <2> QED BY <2>3 DEF Coords
<1>6. Cardinality(Coords(r)) <= n * (BlockSize * BlockSize)
  BY <1>4, <1>5, FS_Subset
<1>7. n * (BlockSize * BlockSize) <= MaxWorkSize(r) * (BlockSize * BlockSize)
  BY <1>1, ProductBelow
<1>8. PoolSize(r) = MaxWorkSize(r) * (BlockSize * BlockSize)
  BY <1>1 DEF PoolSize
<1>9. Cardinality(Coords(r)) \in Nat
  BY <1>4, <1>5, FS_Subset, FS_CardinalityType
<1>10. n * (BlockSize * BlockSize) \in Nat /\ MaxWorkSize(r) * (BlockSize * BlockSize) \in Nat
  <2> DEFINE area == BlockSize * BlockSize
  <2>1. area \in Nat /\ n \in Nat /\ MaxWorkSize(r) \in Nat
    BY <1>1
  <2> HIDE DEF area, n
  <2>2. n * area \in Nat /\ MaxWorkSize(r) * area \in Nat
    BY <2>1
  <2> QED BY <2>2 DEF area
<1> HIDE DEF n
<1> QED BY <1>6, <1>7, <1>8, <1>9, <1>10

\* With no leaf larger than a block the pool of relative coordinates has room
\* for every batch of every rank, whatever the memory it was given.
THEOREM PoolNeverOverrun == Spec => []PoolSuffices
<1>1. IInv => PoolSuffices
  <2> SUFFICES ASSUME IInv, \A i \in Leaves : leafSize[i] <= BlockSize, NEW r \in Ranks
               PROVE  ~ Overruns(r)
    BY DEF PoolSuffices
  <2>1. Cardinality(Coords(r)) \in Nat /\ Cardinality(Coords(r)) <= PoolSize(r)
    BY CoordsFit DEF IInv
  <2>2. PoolSize(r) \in Nat
    BY RankType, DenseAssumption DEF PoolSize
  <2> QED BY <2>1, <2>2 DEF Overruns
<1> QED BY <1>1, Invariance, PTL

-----------------------------------------------------------------------------
(* The comparison with the dense product: PostCheckDot *)

\* The ranks leave the reduction together.
Together == \A r, s \in Ranks : stage[r] = "done" => stage[s] = "done"

\* What a rank has reported, it found when all were done.
Reported ==
  /\ report \in [Ranks -> {"none", "undefined", "zero", "positive"}]
  /\ inU \in [Blocks -> Nat]
  /\ \A r \in Ranks : report[r] # "none" => stage[r] = "done"

PostInv == IInv /\ Together /\ Reported

LEMMA PostInitInv == PostInit => PostInv
BY InitInv, PostAssumption DEF PostInit, PostInv, Together, Reported, Init

\* What PostCheckDot does with the slots, DenseDot does.
LEMMA PostSimulates ==
  ASSUME [PostNext]_postVars
  PROVE  [Next]_vars
<1>1. ASSUME NEW r \in Ranks, PostBatch(r) PROVE Batch(r)
  BY <1>1 DEF PostBatch, PostMultiply, PostMoveOn, Batch
<1>2. ASSUME NEW r \in Ranks, PostRankStep(r) PROVE [Next]_vars
  BY <1>1, <1>2 DEF PostRankStep, PostLeave, Compare, Next, RankStep
<1>3. ASSUME PostReduce PROVE [Next]_vars
  BY <1>3 DEF PostReduce, Next
<1>4. ASSUME PostStop \/ UNCHANGED postVars PROVE UNCHANGED vars
  BY <1>4 DEF PostStop, postVars
<1> QED BY <1>2, <1>3, <1>4 DEF PostNext

LEMMA PostNextInv == PostInv /\ [PostNext]_postVars => PostInv'
<1> SUFFICES ASSUME PostInv, [PostNext]_postVars PROVE PostInv'
  OBVIOUS
<1>0. /\ IInv /\ Together /\ Reported
      /\ stage \in [Ranks -> {"dot", "reduce", "done", "crashed"}]
  BY DEF PostInv, IInv, TypeOK
<1>1. IInv'
  BY <1>0, PostSimulates, NextInv
<1>2. ASSUME UNCHANGED <<stage, inU, report>> PROVE PostInv'
  BY <1>0, <1>1, <1>2 DEF PostInv, Together, Reported
<1>3. ASSUME NEW r \in Ranks, Crash(r), UNCHANGED <<inU, report>> PROVE PostInv'
  <2>1. stage[r] = "dot" /\ stage' = [s \in Ranks |-> "crashed"]
    BY <1>3 DEF Crash
  <2>2. \A s \in Ranks : report[s] = "none"
    BY <1>0, <2>1 DEF Together, Reported
  <2> QED BY <1>0, <1>1, <1>3, <2>1, <2>2 DEF PostInv, Together, Reported
<1>4. ASSUME NEW r \in Ranks, Return(r), UNCHANGED <<inU, report>> PROVE PostInv'
  <2>1. stage[r] = "dot" /\ stage' = [stage EXCEPT ![r] = "reduce"]
    BY <1>4 DEF Return
  <2>2. \A s \in Ranks : stage[s] # "done"
    BY <1>0, <2>1 DEF Together
  <2>3. \A s \in Ranks : stage'[s] # "done"
    BY <1>0, <2>1, <2>2
  <2> QED BY <1>0, <1>1, <1>4, <2>2, <2>3 DEF PostInv, Together, Reported
<1>5. ASSUME PostReduce PROVE PostInv'
  BY <1>0, <1>1, <1>5 DEF PostInv, Together, Reported, PostReduce, Reduce
<1>6. ASSUME NEW r \in Ranks, Compare(r) PROVE PostInv'
  BY <1>0, <1>1, <1>6 DEF PostInv, Together, Reported, Compare, IsReduced, vars
<1>7. ASSUME NEW r \in Ranks, PostBatch(r) PROVE PostInv'
  BY <1>2, <1>7 DEF PostBatch
<1>8. ASSUME PostStop \/ UNCHANGED postVars PROVE PostInv'
  BY <1>2, <1>8 DEF PostStop, postVars, vars
<1> QED BY <1>3, <1>4, <1>5, <1>6, <1>7, <1>8 DEF PostNext, PostRankStep, PostLeave

\* In every state of PostCheckDot the slots are as in DenseDot, and a rank
\* has only reported when all of them had the sum.
THEOREM PostInvariance == PostSpec => []PostInv
<1> QED BY PostInitInv, PostNextInv, PTL DEF PostSpec

\* The number rank 0 prints can be trusted, and every rank finds the same: a
\* rank compares with the whole dense product, never with a part of it.
THEOREM ReportTrusted == PostSpec => []ReportTruthful
<1>1. PostInit => ReportTruthful
  BY DEF PostInit, ReportTruthful
<1>2. PostInv /\ ReportTruthful /\ [PostNext]_postVars => ReportTruthful'
  <2> SUFFICES ASSUME PostInv, ReportTruthful, [PostNext]_postVars,
                      PoolLeaves > 0, LeafCount > 0,
                      NEW r \in Ranks, report'[r] # "none"
               PROVE  report'[r] = IF \A b \in Blocks : inU'[b] = 1 THEN "zero" ELSE "positive"
    BY DEF ReportTruthful
  <2>0. /\ IInv /\ Together
        /\ report \in [Ranks -> {"none", "undefined", "zero", "positive"}]
        /\ inU \in [Blocks -> Nat]
    BY DEF PostInv, Reported
  <2>1. ASSUME inU' = inU, report'[r] = report[r]
        PROVE  report'[r] = IF \A b \in Blocks : inU'[b] = 1 THEN "zero" ELSE "positive"
    BY <2>1 DEF ReportTruthful
  <2>2. ASSUME Compare(r)
        PROVE  report'[r] = IF \A b \in Blocks : inU'[b] = 1 THEN "zero" ELSE "positive"
    <3>1. /\ stage[r] = "done" /\ inU' = inU
          /\ report'[r] = IF NormIsZero THEN "undefined"
                          ELSE IF DifferenceIsZero THEN "zero" ELSE "positive"
      BY <2>0, <2>2 DEF Compare, IsReduced
    <3>2. \A s \in Ranks : stage[s] = "done"
      BY <2>0, <3>1 DEF Together
    <3>3. \A b \in Blocks : added[b] = 1
      BY <2>0, <3>2, AllAdded
    <3>4. <<0, 0>> \in Blocks
      BY DenseAssumption DEF Blocks, Leaves
    <3>5. ~ NormIsZero
      <4>1. added[<<0, 0>>] # 0
        BY <3>3, <3>4
      <4> QED BY <3>4, <4>1 DEF NormIsZero
    <3>6. DifferenceIsZero <=> \A b \in Blocks : inU[b] = 1
      BY <3>3 DEF DifferenceIsZero
    <3> QED BY <3>1, <3>5, <3>6
  <2>3. ASSUME NEW s \in Ranks, Compare(s), s # r
        PROVE  inU' = inU /\ report'[r] = report[r]
    BY <2>0, <2>3 DEF Compare
  <2>4. ASSUME NEW s \in Ranks, PostBatch(s) \/ PostLeave(s)
        PROVE  inU' = inU /\ report'[r] = report[r]
    BY <2>4 DEF PostBatch, PostLeave
  <2>5. ASSUME PostReduce \/ PostStop \/ UNCHANGED postVars
        PROVE  inU' = inU /\ report'[r] = report[r]
    BY <2>5 DEF PostReduce, PostStop, postVars
  <2> QED BY <2>1, <2>2, <2>3, <2>4, <2>5 DEF PostNext, PostRankStep
<1> QED BY <1>1, <1>2, PostInvariance, PostInitInv, PTL DEF PostSpec
=============================================================================
