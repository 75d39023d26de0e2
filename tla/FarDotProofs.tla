---------------------------- MODULE FarDotProofs ----------------------------
(***************************************************************************)
(* FarDot for any list of pairs, any batch and pool: it adds each pair     *)
(* once, its one counter speaks for all slots, no pivot is used twice, its *)
(* batches are as long as they can be, and in pools that are large enough  *)
(* every cross stays its own pair's while the slots move.                  *)
(***************************************************************************)
EXTENDS FarDot, CompactionProofs, TLAPS

\* The pairs a batch may take, and the pairs installed before this batch.
Limit == Smaller(PairCount - finished, MaxWorkSize)
Before == installed - workSize

\* The slots hold installed pairs in the order of the list; there are none
\* between two batches, and a slot is stopped only until its product is done.
SlotsInv ==
  /\ \A k \in Slots : node[k] <= installed
  /\ \A k, l \in Slots : k < l => node[k] < node[l]
  /\ stage \in {"install", "fit", "done"} => node = <<>>
  /\ stage # "dot" => stopped = {}

\* A slot that goes on has a row and a column left, and an iteration.
Left(k) ==
  /\ iteration[k] < MaxIter
  /\ iteration[k] < RowSize(node[k]) /\ iteration[k] < ColSize(node[k])

IterInv ==
  /\ \A k \in Slots : /\ iteration[k] <= MaxIter
                      /\ iteration[k] <= RowSize(node[k])
                      /\ iteration[k] <= ColSize(node[k])
                      /\ k \notin stopped /\ stage # "crashed" => Left(k)
  /\ stage \in {"install", "fit"} => innerNumIter = 0
  /\ stage = "column" => innerNumIter < MaxIter

\* The bisection: lower fits, upper does not or was not tried yet.
SearchInv ==
  stage = "fit" =>
    /\ lower <= workSize /\ workSize <= upper /\ upper <= Limit
    /\ Fits(lower)
    /\ \/ ~Fits(upper)
       \/ upper = Limit /\ workSize = upper /\ lower \in {0, upper}

\* The pivots of a slot differ and are rows and columns of its block, but for
\* a column chosen after the last one.
PivotInv ==
  \A k \in Slots :
    /\ Len(mu[k]) = iteration[k]
    /\ \A l \in 1 .. iteration[k] : mu[k][l] = node[k]
    /\ iteration[k] <= Len(rows[k]) /\ iteration[k] < Len(cols[k])
    /\ stage # "crashed" =>
         /\ Len(rows[k]) = IF stage \in {"row", "test"} THEN iteration[k] + 1 ELSE iteration[k]
         /\ Len(cols[k]) = IF stage = "test" THEN iteration[k] + 2 ELSE iteration[k] + 1
    /\ \A l \in 1 .. Len(rows[k]) : rows[k][l] \in 0 .. RowSize(node[k]) - 1
    /\ \A l, m \in 1 .. Len(rows[k]) : l # m => rows[k][l] # rows[k][m]
    /\ \A l \in 1 .. Len(cols[k]) :
         l <= ColSize(node[k]) => cols[k][l] \in 0 .. ColSize(node[k]) - 1
    /\ \A l, m \in 1 .. Len(cols[k]) : l # m => cols[k][l] # cols[k][m]

\* The l-th area of pair n in a pool for a batch that begins after pair b, if t
\* are the running totals of the sizes.
Area(t, b, n, l) ==
  (t[n - 1] - t[b]) * MaxIter + (t[n] - t[n - 1]) * l
    .. (t[n - 1] - t[b]) * MaxIter + (t[n] - t[n - 1]) * l + (t[n] - t[n - 1]) - 1

\* The batch fits in the coordinates, and its offsets are those of its pairs.
AreaInv ==
  stage \notin {"install", "fit", "done"} =>
    /\ Before \in 0 .. installed
    /\ shape.rows[installed] - shape.rows[Before] <= MaxRelativeCoord
    /\ shape.cols[installed] - shape.cols[Before] <= MaxRelativeCoord
    /\ \A k \in Slots :
         /\ Before < node[k]
         /\ \A l \in 0 .. MaxIter - 1 :
              /\ CArea(k, l) = Area(shape.rows, Before, node[k], l)
              /\ QArea(k, l) = Area(shape.cols, Before, node[k], l)

\* The crosses each slot has in the pools.
CCount(k) == IF stage \in {"row", "test"} THEN iteration[k] + 1 ELSE iteration[k]
QCount(k) == IF stage = "test" THEN iteration[k] + 1 ELSE iteration[k]
ContentInv ==
  factor >= MaxIter =>
    \A k \in Slots :
      /\ \A l \in 0 .. CCount(k) - 1 : \A x \in CArea(k, l) :
           cPool[x] = Entry(node[k], cols[k][l + 1], l)
      /\ \A l \in 0 .. QCount(k) - 1 : \A x \in QArea(k, l) :
           qPool[x] = Entry(node[k], rows[k][l + 1], l)

IInv == /\ TypeOK /\ CountersAgree /\ SlotsInv /\ IterInv /\ SearchInv /\ PivotInv
        /\ AreaInv /\ ContentInv

-----------------------------------------------------------------------------
(* Running totals and areas *)

\* A running total is a sequence of numbers that increases.
LEMMA TotalIncreases ==
  ASSUME NEW t, RunningTotal(t), NEW m \in 0 .. PairCount, NEW n \in 0 .. PairCount, m <= n
  PROVE  t[m] \in Nat /\ t[n] \in Nat /\ t[m] <= t[n] /\ t[n] - t[m] \in Nat
<1>1. t[m] \in Nat /\ t[n] \in Nat
  BY DEF RunningTotal
<1>2. CASE m = n
  BY <1>1, <1>2
<1>3. CASE m # n
  <2>1. m < n
    BY <1>3, FarDotAssumption
  <2>2. t[m] < t[n]
    BY <2>1 DEF RunningTotal
  <2> QED BY <1>1, <2>2
<1> QED BY <1>2, <1>3

\* Both lists of sizes are running totals.
LEMMA ShapeTotals ==
  ASSUME TypeOK
  PROVE  RunningTotal(shape.rows) /\ RunningTotal(shape.cols)
BY FarDotAssumption DEF TypeOK

\* The pairs of the list have rows and columns.
LEMMA SizeType ==
  ASSUME TypeOK, NEW p \in Pairs
  PROVE  /\ RowSize(p) \in Nat \ {0} /\ ColSize(p) \in Nat \ {0}
         /\ p \in Nat /\ p - 1 \in 0 .. PairCount /\ p \in 0 .. PairCount
<1>1. p \in Nat /\ p - 1 \in 0 .. PairCount /\ p \in 0 .. PairCount /\ p - 1 < p
  BY FarDotAssumption DEF Pairs
<1>2. /\ shape.rows[p - 1] \in Nat /\ shape.rows[p] \in Nat
      /\ shape.cols[p - 1] \in Nat /\ shape.cols[p] \in Nat
      /\ shape.rows[p - 1] < shape.rows[p] /\ shape.cols[p - 1] < shape.cols[p]
  BY <1>1, ShapeTotals DEF RunningTotal
<1> QED BY <1>1, <1>2 DEF RowSize, ColSize

\* Products of natural numbers increase.
LEMMA ProductIncreases ==
  ASSUME NEW a \in Nat, NEW b \in Nat, NEW c \in Nat, a <= b
  PROVE  a * c \in Nat /\ b * c \in Nat /\ a * c <= b * c
<1>1. b - a \in Nat /\ (b - a) * c \in Nat /\ b * c = a * c + (b - a) * c
  OBVIOUS
<1>2. a * c \in Nat
  OBVIOUS
<1> QED BY <1>1, <1>2

\* The areas of a pair lie behind those of the pairs before it.
LEMMA AreaBounds ==
  ASSUME NEW t, RunningTotal(t), NEW b \in 0 .. PairCount, NEW n \in Pairs, b < n,
         NEW l \in 0 .. MaxIter - 1
  PROVE  /\ Area(t, b, n, l) \subseteq (t[n - 1] - t[b]) * MaxIter .. (t[n] - t[b]) * MaxIter - 1
         /\ (t[n - 1] - t[b]) * MaxIter \in Nat /\ (t[n] - t[b]) * MaxIter \in Nat
         /\ (t[n] - t[n - 1]) * l \in Nat
<1> DEFINE d == t[n - 1] - t[b]
           s == t[n] - t[n - 1]
<1>1. n - 1 \in 0 .. PairCount /\ n \in 0 .. PairCount /\ b <= n - 1 /\ n - 1 <= n
  BY FarDotAssumption DEF Pairs
<1>2. d \in Nat /\ s \in Nat /\ t[n] - t[b] = d + s
  <2>1. t[b] \in Nat /\ t[n - 1] \in Nat /\ t[n - 1] - t[b] \in Nat
    BY <1>1, TotalIncreases
  <2>2. t[n] \in Nat /\ t[n] - t[n - 1] \in Nat
    BY <1>1, TotalIncreases
  <2> QED BY <2>1, <2>2
<1>3. l \in Nat /\ l + 1 \in Nat /\ l + 1 <= MaxIter /\ MaxIter \in Nat
  BY FarDotAssumption
<1>4. s * l \in Nat /\ s * l + s = s * (l + 1) /\ d * MaxIter \in Nat
  BY <1>2, <1>3
<1>5. s * (l + 1) <= s * MaxIter /\ s * MaxIter \in Nat
  <2>1. (l + 1) * s <= MaxIter * s /\ MaxIter * s \in Nat
    BY <1>2, <1>3, ProductIncreases
  <2>2. (l + 1) * s = s * (l + 1) /\ MaxIter * s = s * MaxIter
    BY <1>2, <1>3
  <2> QED BY <2>1, <2>2
<1>6. (d + s) * MaxIter = d * MaxIter + s * MaxIter
  BY <1>2, <1>3
<1> HIDE DEF d, s
<1>7. d * MaxIter + s * l .. d * MaxIter + s * l + s - 1 \subseteq d * MaxIter .. (d + s) * MaxIter - 1
  BY <1>2, <1>4, <1>5, <1>6
<1>8. (d + s) * MaxIter \in Nat
  BY <1>4, <1>5, <1>6
<1> QED BY <1>2, <1>4, <1>7, <1>8 DEF Area, d, s

\* No two areas of a batch share a row of the pool.
LEMMA AreasApart ==
  ASSUME NEW t, RunningTotal(t), NEW b \in 0 .. PairCount,
         NEW m \in Pairs, b < m, NEW n \in Pairs, b < n,
         NEW k \in 0 .. MaxIter - 1, NEW l \in 0 .. MaxIter - 1,
         m < n \/ (m = n /\ k < l)
  PROVE  Area(t, b, m, k) \cap Area(t, b, n, l) = {}
<1>1. CASE m < n
  <2>1. m \in 0 .. PairCount /\ n - 1 \in 0 .. PairCount /\ m <= n - 1 /\ b <= m
    BY <1>1, FarDotAssumption DEF Pairs
  <2>2. /\ t[m] \in Nat /\ t[n - 1] \in Nat /\ t[b] \in Nat /\ t[m] <= t[n - 1]
        /\ t[m] - t[b] \in Nat
    BY <2>1, TotalIncreases
  <2>3. t[n - 1] - t[b] \in Nat /\ t[m] - t[b] <= t[n - 1] - t[b]
    BY <2>2
  <2>4. (t[m] - t[b]) * MaxIter <= (t[n - 1] - t[b]) * MaxIter
    BY <2>2, <2>3, ProductIncreases, FarDotAssumption
  <2>5. /\ Area(t, b, m, k) \subseteq (t[m - 1] - t[b]) * MaxIter .. (t[m] - t[b]) * MaxIter - 1
        /\ Area(t, b, n, l) \subseteq (t[n - 1] - t[b]) * MaxIter .. (t[n] - t[b]) * MaxIter - 1
        /\ (t[m] - t[b]) * MaxIter \in Nat /\ (t[n - 1] - t[b]) * MaxIter \in Nat
    BY AreaBounds
  <2> QED BY <2>4, <2>5
<1>2. CASE m = n /\ k < l
  <2> DEFINE d == (t[n - 1] - t[b]) * MaxIter
             s == t[n] - t[n - 1]
  <2>1. s \in Nat
    <3>1. n - 1 \in 0 .. PairCount /\ n \in 0 .. PairCount /\ n - 1 <= n
      BY FarDotAssumption DEF Pairs
    <3> QED BY <3>1, TotalIncreases
  <2>2. d \in Nat
    BY AreaBounds
  <2>3. k \in Nat /\ l \in Nat /\ k + 1 <= l /\ k + 1 \in Nat
    BY <1>2
  <2>4. s * k \in Nat /\ s * l \in Nat /\ s * k + s = (k + 1) * s /\ l * s = s * l
    BY <2>1, <2>3
  <2>5. (k + 1) * s <= l * s
    BY <2>1, <2>3, ProductIncreases
  <2> HIDE DEF d, s
  <2>6. (d + s * k .. d + s * k + s - 1) \cap (d + s * l .. d + s * l + s - 1) = {}
    BY <2>1, <2>2, <2>4, <2>5
  <2> QED BY <2>6, <1>2 DEF Area, d, s
<1> QED BY <1>1, <1>2

\* A pool with MaxIter rows for each coordinate holds all areas.
LEMMA AreaInPool ==
  ASSUME NEW t, RunningTotal(t), NEW i \in 0 .. PairCount, NEW b \in 0 .. PairCount,
         NEW n \in Pairs, b < n, n <= i, NEW l \in 0 .. MaxIter - 1,
         t[i] - t[b] <= MaxRelativeCoord, factor \in Nat, factor >= MaxIter
  PROVE  Area(t, b, n, l) \subseteq PoolRows
<1>1. n \in 0 .. PairCount /\ b <= n
  BY FarDotAssumption DEF Pairs
<1>2. /\ t[b] \in Nat /\ t[n] \in Nat /\ t[i] \in Nat /\ t[n] <= t[i]
      /\ t[n] - t[b] \in Nat
  BY <1>1, TotalIncreases
<1>3. t[n] - t[b] <= MaxRelativeCoord /\ MaxRelativeCoord \in Nat /\ MaxIter \in Nat
  BY <1>2, FarDotAssumption
<1>4. (t[n] - t[b]) * MaxIter <= MaxRelativeCoord * MaxIter
  BY <1>2, <1>3, ProductIncreases
<1>5. MaxIter * MaxRelativeCoord <= factor * MaxRelativeCoord
  BY <1>3, ProductIncreases
<1>6. /\ MaxIter * MaxRelativeCoord = MaxRelativeCoord * MaxIter
      /\ factor * MaxRelativeCoord = MaxRelativeCoord * factor
      /\ MaxRelativeCoord * factor \in Nat /\ MaxRelativeCoord * MaxIter \in Nat
  BY <1>3
<1>7. /\ Area(t, b, n, l) \subseteq (t[n - 1] - t[b]) * MaxIter .. (t[n] - t[b]) * MaxIter - 1
      /\ (t[n - 1] - t[b]) * MaxIter \in Nat /\ (t[n] - t[b]) * MaxIter \in Nat
  BY AreaBounds
<1> QED BY <1>4, <1>5, <1>6, <1>7 DEF PoolRows

-----------------------------------------------------------------------------
(* Slots and batches *)

\* The slots are numbered from 1, and hold pairs of the list.
LEMMA SlotFacts ==
  ASSUME TypeOK
  PROVE  /\ Slots = 1 .. Len(node) /\ Len(node) \in Nat /\ IsFiniteSet(Slots)
         /\ Cardinality(Slots) = Len(node)
         /\ \A k \in Slots : k \in Nat /\ node[k] \in Pairs
<1>1. node \in Seq(Pairs)
  BY DEF TypeOK
<1>2. Slots = 1 .. Len(node) /\ Len(node) \in Nat
  BY <1>1 DEF Slots
<1>3. IsFiniteSet(Slots) /\ Cardinality(Slots) = Len(node)
  BY <1>2, IntervalCount
<1>4. \A k \in Slots : k \in Nat /\ node[k] \in Pairs
  BY <1>1, <1>2
<1> QED BY <1>2, <1>3, <1>4

\* Between two batches all installed pairs are finished.
LEMMA NoSlots ==
  ASSUME TypeOK, CountersAgree, SlotsInv, stage \in {"install", "fit", "done"}
  PROVE  node = <<>> /\ Slots = {} /\ finished = installed
BY DEF TypeOK, CountersAgree, AddedOnLeaving, SlotsInv, Slots

\* The list has room for a batch.
LEMMA LimitBounds ==
  ASSUME TypeOK
  PROVE  /\ Limit \in Nat /\ Limit <= MaxWorkSize /\ finished + Limit <= PairCount
         /\ Limit = MaxWorkSize \/ finished + Limit = PairCount
BY FarDotAssumption DEF TypeOK, Limit, Smaller

\* The rows, and columns, of the next pairs.
LEMMA AheadType ==
  ASSUME TypeOK, NEW n \in Nat, installed + n <= PairCount
  PROVE  /\ Ahead(shape.rows, n) \in Nat /\ Ahead(shape.cols, n) \in Nat
         /\ Fits(n) <=> /\ Ahead(shape.rows, n) <= MaxRelativeCoord
                        /\ Ahead(shape.cols, n) <= MaxRelativeCoord
<1>1. installed \in 0 .. PairCount /\ installed + n \in 0 .. PairCount /\ installed <= installed + n
  BY FarDotAssumption DEF TypeOK
<1>2. /\ shape.rows[installed + n] - shape.rows[installed] \in Nat
      /\ shape.cols[installed + n] - shape.cols[installed] \in Nat
  BY <1>1, ShapeTotals, TotalIncreases
<1> QED BY <1>2, FarDotAssumption DEF Ahead, Fits, Estimated, Larger

-----------------------------------------------------------------------------
(* The initial state, and the bisection *)

LEMMA InitInv == ASSUME Init PROVE IInv
<1>1. node = <<>> /\ Slots = {}
  BY DEF Init, Slots
<1>2. TypeOK
  <2>1. node \in Seq(Pairs) /\ Len(node) = 0
    BY <1>1
  <2> QED BY <1>1, <2>1, FarDotAssumption DEF Init, TypeOK
<1>3. CountersAgree
  <2>1. Lockstep
    BY <1>1 DEF Lockstep
  <2>2. \A p \in Pairs : added[p] = 0 /\ ~(p <= installed)
    BY FarDotAssumption DEF Init, Pairs
  <2>3. Len(node) = 0 /\ finished = 0 /\ installed = 0
    BY <1>1 DEF Init
  <2>4. AddedOnLeaving
    BY <2>2, <2>3 DEF AddedOnLeaving
  <2> QED BY <2>1, <2>4 DEF CountersAgree
<1>4. SlotsInv /\ IterInv /\ SearchInv /\ PivotInv /\ AreaInv /\ ContentInv
  BY <1>1 DEF Init, SlotsInv, IterInv, SearchInv, PivotInv, AreaInv, ContentInv
<1> QED BY <1>2, <1>3, <1>4 DEF IInv

\* What is left alone while the batch is being chosen.
Searching ==
  /\ stage \in {"install", "fit"} /\ stage' = "fit"
  /\ UNCHANGED <<inputVars, installed, finished, innerNumIter, stopped, slotVars,
                 poolVars, added>>

LEMMA SearchingInv ==
  ASSUME IInv, Searching,
         workSize' \in 0 .. PairCount, lower' \in 0 .. PairCount, upper' \in 0 .. PairCount
  PROVE  /\ TypeOK' /\ CountersAgree' /\ SlotsInv' /\ IterInv' /\ PivotInv' /\ AreaInv'
         /\ ContentInv' /\ Limit' = Limit /\ \A n : Fits(n)' <=> Fits(n)
<1>1. TypeOK /\ CountersAgree /\ SlotsInv /\ IterInv
  BY DEF IInv
<1>2. node = <<>> /\ Slots = {} /\ Slots' = {} /\ node' = <<>>
  BY <1>1, NoSlots DEF Searching, slotVars, Slots
<1>3. TypeOK'
  BY <1>1, <1>2 DEF TypeOK, Searching, inputVars, slotVars, poolVars, Slots
<1>4. CountersAgree'
  <2>1. Lockstep'
    BY <1>2 DEF Lockstep
  <2>2. AddedOnLeaving'
    BY <1>1, <1>2 DEF CountersAgree, AddedOnLeaving, Searching, slotVars
  <2> QED BY <2>1, <2>2 DEF CountersAgree
<1>5. SlotsInv' /\ IterInv'
  BY <1>1, <1>2 DEF SlotsInv, IterInv, Searching
<1>6. PivotInv' /\ AreaInv' /\ ContentInv'
  BY <1>2 DEF PivotInv, AreaInv, ContentInv, Searching
<1>7. Limit' = Limit /\ \A n : Fits(n)' <=> Fits(n)
  BY DEF Searching, Limit, Fits, Estimated, Ahead, inputVars
<1> QED BY <1>3, <1>4, <1>5, <1>6, <1>7

LEMMA StartBatchInv == ASSUME IInv, StartBatch PROVE IInv'
<1>1. TypeOK /\ CountersAgree /\ SlotsInv
  BY DEF IInv
<1>2. /\ Limit \in Nat /\ Limit \in 0 .. PairCount
      /\ workSize' = Limit /\ lower' = 0 /\ upper' = Limit
  <2>1. Limit \in Nat /\ Limit \in 0 .. PairCount
    <3>1. finished \in 0 .. PairCount /\ PairCount \in Nat
      BY <1>1, FarDotAssumption DEF TypeOK
    <3> QED BY <1>1, <3>1, LimitBounds
  <2>2. workSize' = Limit /\ lower' = 0 /\ upper' = Limit
    BY DEF StartBatch, Limit
  <2> QED BY <2>1, <2>2
<1>3. Searching
  BY DEF Searching, StartBatch
<1>4. /\ TypeOK' /\ CountersAgree' /\ SlotsInv' /\ IterInv' /\ PivotInv' /\ AreaInv'
      /\ ContentInv' /\ Limit' = Limit /\ \A n : Fits(n)' <=> Fits(n)
  BY <1>2, <1>3, SearchingInv, FarDotAssumption
<1>5. Fits(0)
  <2>1. installed + 0 = installed /\ installed \in 0 .. PairCount
    BY <1>1, FarDotAssumption DEF TypeOK
  <2>2. shape.rows[installed] \in Nat /\ shape.cols[installed] \in Nat
    BY <1>1, <2>1, ShapeTotals, TotalIncreases
  <2>3. Ahead(shape.rows, 0) = 0 /\ Ahead(shape.cols, 0) = 0
    BY <2>1, <2>2 DEF Ahead
  <2> QED BY <2>3, FarDotAssumption DEF Fits, Estimated, Larger
<1>6. SearchInv'
  BY <1>2, <1>4, <1>5 DEF SearchInv
<1> QED BY <1>4, <1>6 DEF IInv

LEMMA ShrinkInv == ASSUME IInv, Shrink PROVE IInv'
<1>1. TypeOK /\ SearchInv /\ stage = "fit" /\ ~Fits(workSize)
  BY DEF IInv, Shrink
<1>2. /\ Limit \in Nat /\ lower \in Nat /\ workSize \in Nat /\ upper \in Nat
      /\ lower <= workSize /\ workSize <= upper /\ upper <= Limit /\ Fits(lower)
      /\ upper \in 0 .. PairCount /\ workSize \in 0 .. PairCount
  BY <1>1, LimitBounds DEF TypeOK, SearchInv
<1>3. /\ lower' = lower /\ upper' = workSize /\ workSize' = (workSize + lower) \div 2
  BY DEF Shrink
<1>4. lower <= workSize' /\ workSize' <= workSize /\ workSize' \in 0 .. PairCount
  BY <1>2, <1>3, FarDotAssumption
<1>5. Searching
  BY <1>1 DEF Searching, Shrink
<1>6. /\ TypeOK' /\ CountersAgree' /\ SlotsInv' /\ IterInv' /\ PivotInv' /\ AreaInv'
      /\ ContentInv' /\ Limit' = Limit /\ \A n : Fits(n)' <=> Fits(n)
  <2>1. workSize' \in 0 .. PairCount /\ lower' \in 0 .. PairCount /\ upper' \in 0 .. PairCount
    BY <1>1, <1>2, <1>3, <1>4 DEF TypeOK
  <2> QED BY <2>1, <1>5, SearchingInv
<1>7. SearchInv'
  BY <1>1, <1>2, <1>3, <1>4, <1>6 DEF SearchInv
<1> QED BY <1>6, <1>7 DEF IInv

LEMMA GrowInv == ASSUME IInv, Grow PROVE IInv'
<1>1. TypeOK /\ SearchInv /\ stage = "fit" /\ Fits(workSize)
  BY DEF IInv, Grow
<1>2. /\ Limit \in Nat /\ lower \in Nat /\ workSize \in Nat /\ upper \in Nat
      /\ lower <= workSize /\ workSize <= upper /\ upper <= Limit
      /\ ~Fits(upper) \/ (upper = Limit /\ workSize = upper)
      /\ upper \in 0 .. PairCount /\ workSize \in 0 .. PairCount
  BY <1>1, LimitBounds DEF TypeOK, SearchInv
<1>3. /\ lower' = workSize /\ upper' = upper /\ workSize' = (upper + workSize) \div 2
  BY DEF Grow
<1>4. workSize <= workSize' /\ workSize' <= upper /\ workSize' \in 0 .. PairCount
  BY <1>2, <1>3, FarDotAssumption
<1>5. Searching
  BY <1>1 DEF Searching, Grow
<1>6. /\ TypeOK' /\ CountersAgree' /\ SlotsInv' /\ IterInv' /\ PivotInv' /\ AreaInv'
      /\ ContentInv' /\ Limit' = Limit /\ \A n : Fits(n)' <=> Fits(n)
  <2>1. workSize' \in 0 .. PairCount /\ lower' \in 0 .. PairCount /\ upper' \in 0 .. PairCount
    BY <1>1, <1>2, <1>3, <1>4 DEF TypeOK
  <2> QED BY <2>1, <1>5, SearchingInv
<1>7. ~Fits(upper') \/ (upper' = Limit /\ workSize' = upper' /\ lower' \in {0, upper'})
  BY <1>2, <1>3, <1>4
<1>8. SearchInv'
  BY <1>1, <1>2, <1>3, <1>4, <1>6, <1>7 DEF SearchInv
<1> QED BY <1>6, <1>8 DEF IInv

\* The offsets of a slot of a new batch.
LEMMA OffsetsOfBatch ==
  ASSUME NEW t, RunningTotal(t), installed \in 0 .. PairCount,
         NEW k \in Nat \ {0}, installed + k <= PairCount
  PROVE  /\ Offsets(t, k) \in [0 .. MaxIter - 1 -> Nat]
         /\ \A l \in 0 .. MaxIter - 1 :
              Area(t, installed, installed + k, l) =
                Offsets(t, k)[l] .. Offsets(t, k)[l] + (t[installed + k] - t[(installed + k) - 1]) - 1
<1>1. /\ installed + k \in Pairs /\ installed < installed + k
      /\ installed + (k - 1) = (installed + k) - 1 /\ installed + k - 1 = (installed + k) - 1
  BY FarDotAssumption DEF Pairs
<1>2. SUFFICES ASSUME NEW l \in 0 .. MaxIter - 1
      PROVE  /\ Offsets(t, k)[l] \in Nat
             /\ Area(t, installed, installed + k, l) =
                  Offsets(t, k)[l] .. Offsets(t, k)[l] + (t[installed + k] - t[(installed + k) - 1]) - 1
  BY DEF Offsets
<1>3. Offsets(t, k)[l] = (t[(installed + k) - 1] - t[installed]) * MaxIter
                           + (t[installed + k] - t[(installed + k) - 1]) * l
  BY <1>1 DEF Offsets, Ahead
<1>4. /\ (t[(installed + k) - 1] - t[installed]) * MaxIter \in Nat
      /\ (t[installed + k] - t[(installed + k) - 1]) * l \in Nat
  BY <1>1, AreaBounds
<1> QED BY <1>3, <1>4 DEF Area

LEMMA InstallInv == ASSUME IInv, Install PROVE IInv'
<1>1. /\ TypeOK /\ CountersAgree /\ SlotsInv /\ IterInv /\ SearchInv
      /\ stage = "fit" /\ Fits(workSize)
  BY DEF IInv, Install
<1>2. /\ installed \in 0 .. PairCount /\ installed \in Nat /\ PairCount \in Nat
      /\ workSize \in Nat /\ installed + workSize <= PairCount /\ workSize <= MaxWorkSize
      /\ MaxWorkSize \in Nat
  <2>1. finished = installed
    BY <1>1, NoSlots
  <2>2. workSize <= Limit /\ workSize \in Nat
    BY <1>1, LimitBounds DEF SearchInv, TypeOK
  <2> QED BY <1>1, <2>1, <2>2, LimitBounds, FarDotAssumption DEF TypeOK
<1>3. /\ node' = [k \in 1 .. workSize |-> installed + k]
      /\ Slots' = 1 .. workSize /\ node' \in Seq(Pairs) /\ Len(node') = workSize
  <2>1. node' = [k \in 1 .. workSize |-> installed + k]
    BY DEF Install
  <2>2. \A k \in 1 .. workSize : installed + k \in Pairs
    BY <1>2 DEF Pairs
  <2> QED BY <1>2, <2>1, <2>2 DEF Slots
<1>4. /\ installed' = installed + workSize /\ stage' = "column" /\ workSize' = workSize
      /\ shape' = shape /\ factor' = factor /\ finished' = finished /\ stopped' = stopped
      /\ innerNumIter' = innerNumIter /\ added' = added /\ cPool' = cPool /\ qPool' = qPool
      /\ lower' = lower /\ upper' = upper
  BY DEF Install, inputVars, searchVars, poolVars
<1>5. \A k \in Slots' :
        /\ k \in Nat \ {0} /\ node'[k] = installed + k /\ installed + k \in Pairs
        /\ installed + k <= PairCount
        /\ iteration'[k] = 0 /\ rows'[k] = <<>> /\ mu'[k] = <<>>
        /\ cols'[k] = <<ColSize(installed + k) \div 2>>
        /\ cOffset'[k] = Offsets(shape.rows, k) /\ qOffset'[k] = Offsets(shape.cols, k)
  BY <1>2, <1>3 DEF Install, Pairs
<1>6. \A k \in Slots' : /\ RowSize(node'[k]) \in Nat \ {0} /\ ColSize(node'[k]) \in Nat \ {0}
                        /\ ColSize(node'[k]) \div 2 \in 0 .. ColSize(node'[k]) - 1
  <2> SUFFICES ASSUME NEW k \in Slots'
               PROVE  /\ RowSize(installed + k) \in Nat \ {0}
                      /\ ColSize(installed + k) \in Nat \ {0}
                      /\ ColSize(installed + k) \div 2 \in 0 .. ColSize(installed + k) - 1
    BY <1>5
  <2>1. RowSize(installed + k) \in Nat \ {0} /\ ColSize(installed + k) \in Nat \ {0}
    BY <1>1, <1>5, SizeType
  <2> QED BY <2>1
<1>7. \A k \in Slots' : RowSize(node[k])' = RowSize(node'[k]) /\ ColSize(node[k])' = ColSize(node'[k])
  BY <1>4 DEF RowSize, ColSize
<1>8. TypeOK'
  <2>1. stage' \in {"column"} /\ innerNumIter' \in 0 .. MaxIter /\ stopped' = {}
    BY <1>1, <1>4 DEF TypeOK, SlotsInv
  <2>2. iteration' \in [Slots' -> 0 .. MaxIter]
    BY <1>3, FarDotAssumption DEF Install
  <2>3. /\ cOffset' \in [Slots' -> [0 .. MaxIter - 1 -> Nat]]
        /\ qOffset' \in [Slots' -> [0 .. MaxIter - 1 -> Nat]]
    <3>1. /\ cOffset' = [k \in Slots' |-> Offsets(shape.rows, k)]
          /\ qOffset' = [k \in Slots' |-> Offsets(shape.cols, k)]
      BY <1>3 DEF Install
    <3>2. \A k \in Slots' : /\ Offsets(shape.rows, k) \in [0 .. MaxIter - 1 -> Nat]
                            /\ Offsets(shape.cols, k) \in [0 .. MaxIter - 1 -> Nat]
      BY <1>1, <1>2, <1>5, ShapeTotals, OffsetsOfBatch
    <3> QED BY <3>1, <3>2
  <2>4. cols' \in [Slots' -> Seq(Nat \cup {None})]
    <3>1. cols' = [k \in Slots' |-> <<ColSize(node'[k]) \div 2>>]
      BY <1>3, <1>5 DEF Install
    <3>2. \A k \in Slots' : <<ColSize(node'[k]) \div 2>> \in Seq(Nat \cup {None})
      BY <1>6
    <3> QED BY <3>1, <3>2
  <2>5. rows' \in [Slots' -> Seq(Nat)] /\ mu' \in [Slots' -> Seq(Pairs)]
    <3>1. rows' = [k \in Slots' |-> <<>>] /\ mu' = [k \in Slots' |-> <<>>]
      BY <1>3 DEF Install
    <3> QED BY <3>1
  <2>6. /\ shape' \in Shapes /\ factor' \in Factors /\ added' \in [Pairs -> 0 .. 1]
        /\ installed' \in 0 .. PairCount /\ finished' \in 0 .. PairCount
        /\ workSize' \in 0 .. PairCount /\ lower' \in 0 .. PairCount
        /\ upper' \in 0 .. PairCount
    BY <1>1, <1>2, <1>4 DEF TypeOK
  <2> QED BY <1>2, <1>3, <2>1, <2>2, <2>3, <2>4, <2>5, <2>6 DEF TypeOK
<1>9. CountersAgree'
  <2>1. Lockstep'
    BY <1>1, <1>4, <1>5 DEF Lockstep, IterInv
  <2>2. \A p \in Pairs :
          added'[p] = IF p <= installed' /\ \A k \in Slots' : node'[k] # p THEN 1 ELSE 0
    <3> SUFFICES ASSUME NEW p \in Pairs
                 PROVE  added[p] = IF p <= installed' /\ \A k \in Slots' : node'[k] # p
                                   THEN 1 ELSE 0
      BY <1>4
    <3>1. added[p] = IF p <= installed THEN 1 ELSE 0
      BY <1>1, NoSlots DEF CountersAgree, AddedOnLeaving
    <3>2. p \in Nat
      BY DEF Pairs
    <3>3. CASE p <= installed
      BY <1>2, <1>4, <1>5, <3>1, <3>2, <3>3
    <3>4. CASE installed < p /\ p <= installed + workSize
      <4>1. p - installed \in Slots' /\ node'[p - installed] = p
        BY <1>2, <1>3, <3>2, <3>4
      <4> QED BY <4>1, <3>1, <3>2, <3>4, <1>2
    <3>5. CASE installed + workSize < p
      BY <1>2, <1>4, <3>1, <3>2, <3>5
    <3> QED BY <1>2, <3>2, <3>3, <3>4, <3>5
  <2>3. finished' = installed' - Len(node')
    BY <1>1, <1>2, <1>3, <1>4, NoSlots
  <2> QED BY <2>1, <2>2, <2>3 DEF CountersAgree, AddedOnLeaving
<1>10. SlotsInv'
  BY <1>1, <1>2, <1>3, <1>4, <1>5 DEF SlotsInv
<1>11. IterInv'
  <2>1. \A k \in Slots' : /\ iteration'[k] <= MaxIter
                          /\ iteration'[k] <= RowSize(node[k])'
                          /\ iteration'[k] <= ColSize(node[k])'
                          /\ Left(k)'
    BY <1>5, <1>6, <1>7, FarDotAssumption DEF Left
  <2> QED BY <1>1, <1>4, <2>1, FarDotAssumption DEF IterInv
<1>12. SearchInv'
  BY <1>4 DEF SearchInv
<1>13. PivotInv'
  <2>1. ASSUME NEW k \in Slots'
        PROVE  /\ Len(mu'[k]) = 0 /\ Len(rows'[k]) = 0 /\ Len(cols'[k]) = 1
               /\ cols'[k][1] = ColSize(node'[k]) \div 2
    <3>1. rows'[k] = <<>> /\ mu'[k] = <<>> /\ cols'[k] = <<ColSize(node'[k]) \div 2>>
      BY <1>5
    <3> HIDE DEF ColSize
    <3> QED BY <3>1
  <2>2. ASSUME NEW k \in Slots'
        PROVE  /\ 1 .. iteration'[k] = {} /\ 1 .. Len(rows'[k]) = {} /\ 1 .. Len(cols'[k]) = {1}
               /\ iteration'[k] = 0
               /\ cols'[k][1] \in 0 .. ColSize(node[k])' - 1
    <3>1. iteration'[k] = 0
      BY <1>5
    <3>2. cols'[k][1] \in 0 .. ColSize(node'[k]) - 1
      BY <1>6, <2>1
    <3>3. ColSize(node[k])' = ColSize(node'[k])
      BY <1>7
    <3>4. cols'[k][1] \in 0 .. ColSize(node[k])' - 1
      BY <3>2, <3>3
    <3>5. 1 .. 0 = {} /\ 1 .. 1 = {1}
      OBVIOUS
    <3> QED BY <3>1, <3>4, <3>5, <2>1
  <2>3. ASSUME NEW k \in Slots'
        PROVE  /\ Len(mu'[k]) = iteration'[k]
               /\ \A l \in 1 .. iteration'[k] : mu'[k][l] = node'[k]
               /\ iteration'[k] <= Len(rows'[k]) /\ iteration'[k] < Len(cols'[k])
               /\ Len(rows'[k]) = iteration'[k] /\ Len(cols'[k]) = iteration'[k] + 1
               /\ \A l \in 1 .. Len(rows'[k]) : rows'[k][l] \in 0 .. RowSize(node[k])' - 1
               /\ \A l, m \in 1 .. Len(rows'[k]) : l # m => rows'[k][l] # rows'[k][m]
               /\ \A l \in 1 .. Len(cols'[k]) :
                    l <= ColSize(node[k])' => cols'[k][l] \in 0 .. ColSize(node[k])' - 1
               /\ \A l, m \in 1 .. Len(cols'[k]) : l # m => cols'[k][l] # cols'[k][m]
    <3>1. /\ Len(mu'[k]) = iteration'[k]
          /\ iteration'[k] <= Len(rows'[k]) /\ iteration'[k] < Len(cols'[k])
          /\ Len(rows'[k]) = iteration'[k] /\ Len(cols'[k]) = iteration'[k] + 1
      <4>1. Len(mu'[k]) = 0 /\ Len(rows'[k]) = 0 /\ Len(cols'[k]) = 1
        BY <2>1
      <4>2. iteration'[k] = 0
        BY <2>2
      <4> QED BY <4>1, <4>2
    <3>2. /\ \A l \in 1 .. iteration'[k] : mu'[k][l] = node'[k]
          /\ \A l \in 1 .. Len(rows'[k]) : rows'[k][l] \in 0 .. RowSize(node[k])' - 1
          /\ \A l, m \in 1 .. Len(rows'[k]) : l # m => rows'[k][l] # rows'[k][m]
      BY <2>2
    <3>3. \A l \in 1 .. Len(cols'[k]) : l = 1
      BY <2>2
    <3> QED BY <2>2, <3>1, <3>2, <3>3
  <2> QED BY <1>4, <2>3 DEF PivotInv
<1>14. AreaInv'
  <2>1. Before' = installed
    BY <1>2, <1>4 DEF Before
  <2>2. /\ shape.rows[installed + workSize] - shape.rows[installed] <= MaxRelativeCoord
        /\ shape.cols[installed + workSize] - shape.cols[installed] <= MaxRelativeCoord
    BY <1>1, <1>2, AheadType DEF Ahead
  <2>3. ASSUME NEW k \in Slots', NEW l \in 0 .. MaxIter - 1
        PROVE  /\ CArea(k, l)' = Area(shape.rows, installed, node'[k], l)
               /\ QArea(k, l)' = Area(shape.cols, installed, node'[k], l)
    <3>1. /\ CArea(k, l)' = Offsets(shape.rows, k)[l] .. Offsets(shape.rows, k)[l] + RowSize(node'[k]) - 1
          /\ QArea(k, l)' = Offsets(shape.cols, k)[l] .. Offsets(shape.cols, k)[l] + ColSize(node'[k]) - 1
      BY <1>5, <1>7 DEF CArea, QArea
    <3>2. RunningTotal(shape.rows) /\ RunningTotal(shape.cols)
      BY <1>1, ShapeTotals
    <3>3. Area(shape.rows, installed, installed + k, l) =
            Offsets(shape.rows, k)[l] .. Offsets(shape.rows, k)[l] + RowSize(installed + k) - 1
      BY <1>2, <1>5, <3>2, OffsetsOfBatch DEF RowSize
    <3>4. Area(shape.cols, installed, installed + k, l) =
            Offsets(shape.cols, k)[l] .. Offsets(shape.cols, k)[l] + ColSize(installed + k) - 1
      BY <1>2, <1>5, <3>2, OffsetsOfBatch DEF ColSize
    <3> QED BY <1>5, <3>1, <3>3, <3>4
  <2>4. \A k \in Slots' : installed < node'[k]
    BY <1>2, <1>5
  <2> QED BY <1>2, <1>4, <2>1, <2>2, <2>3, <2>4 DEF AreaInv
<1>15. ContentInv'
  <2>1. \A k \in Slots' : CCount(k)' = 0 /\ QCount(k)' = 0
    BY <1>4, <1>5 DEF CCount, QCount
  <2> QED BY <2>1 DEF ContentInv
<1> QED BY <1>8, <1>9, <1>10, <1>11, <1>12, <1>13, <1>14, <1>15 DEF IInv

-----------------------------------------------------------------------------
(* Pivots and pools *)

LEMMA AppendFacts ==
  ASSUME NEW S, NEW s \in Seq(S), NEW e \in S
  PROVE  /\ Append(s, e) \in Seq(S) /\ Len(Append(s, e)) = Len(s) + 1 /\ Len(s) \in Nat
         /\ \A l \in 1 .. Len(s) : Append(s, e)[l] = s[l]
         /\ Append(s, e)[Len(s) + 1] = e
OBVIOUS

\* A pivot that was not chosen before keeps the pivots apart.
LEMMA DistinctAppend ==
  ASSUME NEW S, NEW s \in Seq(S), NEW e \in S, NEW n \in Nat, Len(s) = n,
         \A l, m \in 1 .. n : l # m => s[l] # s[m],
         \A l \in 1 .. n : s[l] # e
  PROVE  \A l, m \in 1 .. n + 1 : l # m => Append(s, e)[l] # Append(s, e)[m]
<1> DEFINE a == Append(s, e)
<1>1. (\A l \in 1 .. n : a[l] = s[l]) /\ a[n + 1] = e
  BY AppendFacts
<1> HIDE DEF a
<1> SUFFICES ASSUME NEW l \in 1 .. n + 1, NEW m \in 1 .. n + 1, l # m
             PROVE  a[l] # a[m]
  BY DEF a
<1>2. CASE l \in 1 .. n /\ m \in 1 .. n
  BY <1>1, <1>2
<1>3. CASE l = n + 1 /\ m \in 1 .. n
  BY <1>1, <1>3
<1>4. CASE l \in 1 .. n /\ m = n + 1
  BY <1>1, <1>4
<1> QED BY <1>2, <1>3, <1>4

\* A sequence of n equal pairs.
LEMMA AllEqual ==
  ASSUME NEW n \in Nat, NEW s \in Seq(Pairs), Len(s) = n, NEW e, \A l \in 1 .. n : s[l] = e
  PROVE  s = [l \in 1 .. n |-> e]
<1>1. s = [l \in 1 .. n |-> s[l]]
  OBVIOUS
<1> QED BY <1>1

\* A function into a smaller set takes a value twice.
LEMMA TakenTwice ==
  ASSUME NEW size \in Nat, NEW n \in Nat, n < size, NEW f \in [0 .. size - 1 -> 1 .. n]
  PROVE  \E x, y \in 0 .. size - 1 : x # y /\ f[x] = f[y]
<1> DEFINE S == 0 .. size - 1
           T == 1 .. n
<1>1. /\ IsFiniteSet(S) /\ Cardinality(S) = size
      /\ IsFiniteSet(T) /\ Cardinality(T) = n /\ f \in [S -> T]
  <2>1. /\ size - 1 \in Int /\ 0 \in Int
        /\ (IF 0 > size - 1 THEN 0 ELSE (size - 1) - 0 + 1) = size
    OBVIOUS
  <2>2. IsFiniteSet(0 .. size - 1) /\ Cardinality(0 .. size - 1) = size
    BY <2>1, FS_Interval, Zenon
  <2>3. IsFiniteSet(1 .. n) /\ Cardinality(1 .. n) = n
    BY IntervalCount
  <2> QED BY <2>2, <2>3
<1>2. Cardinality(T) < Cardinality(S)
  BY <1>1
<1> HIDE DEF S, T
<1>3. \E x, y \in S : x # y /\ f[x] = f[y]
  BY <1>1, <1>2, FS_PigeonHole
<1> QED BY <1>3 DEF S

\* Fewer choices than places leave a place free.
LEMMA PlaceIsFree ==
  ASSUME NEW size \in Nat, NEW n \in Nat, n < size
  PROVE  \A chosen : \E i \in 0 .. size - 1 : \A l \in 1 .. n : chosen[l] # i
<1> SUFFICES ASSUME NEW chosen, \A i \in 0 .. size - 1 : \E l \in 1 .. n : chosen[l] = i
             PROVE FALSE
  OBVIOUS
<1> DEFINE at == [i \in 0 .. size - 1 |-> CHOOSE l \in 1 .. n : chosen[l] = i]
<1>1. \A i \in 0 .. size - 1 : at[i] \in 1 .. n /\ chosen[at[i]] = i
  OBVIOUS
<1>2. at \in [0 .. size - 1 -> 1 .. n]
  BY <1>1
<1> HIDE DEF at
<1>3. \E x, y \in 0 .. size - 1 : x # y /\ at[x] = at[y]
  BY <1>2, TakenTwice
<1> QED BY <1>1, <1>3

\* A slot that goes on has an iteration, and a row and a column left.
LEMMA LeftFacts ==
  ASSUME TypeOK, NEW k \in Slots
  PROVE  /\ iteration[k] \in Nat /\ iteration[k] \in 0 .. MaxIter /\ MaxIter \in Nat
         /\ RowSize(node[k]) \in Nat \ {0} /\ ColSize(node[k]) \in Nat \ {0}
         /\ node[k] \in Pairs
<1>1. iteration \in [Slots -> 0 .. MaxIter] /\ MaxIter \in Nat
  BY FarDotAssumption DEF TypeOK
<1>2. iteration[k] \in 0 .. MaxIter
  BY <1>1
<1>3. node[k] \in Pairs
  BY SlotFacts
<1> QED BY <1>1, <1>2, <1>3, SizeType

\* The next row of a slot that goes on is one of its block that it has not
\* chosen before.
LEMMA RowIsFree ==
  ASSUME TypeOK, NEW k \in Slots, Left(k), NEW i \in FreeRows(k)
  PROVE  /\ i \in 0 .. RowSize(node[k]) - 1 /\ i \in Nat
         /\ \A l \in 1 .. iteration[k] : rows[k][l] # i
<1>1. RowSize(node[k]) \in Nat /\ iteration[k] \in Nat /\ iteration[k] < RowSize(node[k])
  BY LeftFacts DEF Left
<1>2. \A c : \E j \in 0 .. RowSize(node[k]) - 1 : \A l \in 1 .. iteration[k] : c[l] # j
  BY <1>1, PlaceIsFree
<1>3. \E j \in 0 .. RowSize(node[k]) - 1 : \A l \in 1 .. iteration[k] : rows[k][l] # j
  BY <1>2
<1> QED BY <1>1, <1>3 DEF FreeRows, OrNone

\* The next column too, unless this is the last one.
LEMMA ColIsFree ==
  ASSUME TypeOK, NEW k \in Slots, Left(k), NEW j \in FreeCols(k)
  PROVE  \/ /\ j \in 0 .. ColSize(node[k]) - 1 /\ j \in Nat
            /\ \A l \in 1 .. iteration[k] + 1 : cols[k][l] # j
         \/ j = None /\ iteration[k] + 1 = ColSize(node[k])
<1>1. ColSize(node[k]) \in Nat /\ iteration[k] \in Nat /\ iteration[k] < ColSize(node[k])
  BY LeftFacts DEF Left
<1>2. CASE iteration[k] + 1 < ColSize(node[k])
  <2>1. \A c : \E i \in 0 .. ColSize(node[k]) - 1 : \A l \in 1 .. iteration[k] + 1 : c[l] # i
    <3>1. iteration[k] + 1 \in Nat
      BY <1>1
    <3> QED BY <1>1, <1>2, <3>1, PlaceIsFree
  <2>2. \E i \in 0 .. ColSize(node[k]) - 1 : \A l \in 1 .. iteration[k] + 1 : cols[k][l] # i
    BY <2>1
  <2> QED BY <1>1, <2>2 DEF FreeCols, OrNone
<1>3. CASE iteration[k] + 1 = ColSize(node[k])
  BY <1>1, <1>3 DEF FreeCols, OrNone
<1> QED BY <1>1, <1>2, <1>3

\* Writing to areas that are apart.
LEMMA WrittenFacts ==
  ASSUME NEW pool, NEW area, NEW entry, NEW x \in PoolRows,
         \A k, m \in Slots : k # m => area[k] \cap area[m] = {}
  PROVE  /\ \A k \in Slots : x \in area[k] => Written(pool, area, entry)[x] = entry[k]
         /\ (\A k \in Slots : x \notin area[k]) => Written(pool, area, entry)[x] = pool[x]
<1>1. ASSUME NEW k \in Slots, x \in area[k]
      PROVE  Written(pool, area, entry)[x] = entry[k]
  <2>1. (CHOOSE m \in Slots : x \in area[m]) = k
    BY <1>1
  <2> QED BY <1>1, <2>1 DEF Written
<1>2. ASSUME \A k \in Slots : x \notin area[k]
      PROVE  Written(pool, area, entry)[x] = pool[x]
  BY <1>2 DEF Written
<1> QED BY <1>1, <1>2

\* In pools that are large enough the areas of the slots are rows of the pool,
\* and no two of them meet.
LEMMA AreasFit ==
  ASSUME TypeOK, SlotsInv, AreaInv, factor >= MaxIter,
         stage \notin {"install", "fit", "done"},
         NEW k \in Slots, NEW l \in 0 .. MaxIter - 1
  PROVE  /\ CArea(k, l) \subseteq PoolRows /\ QArea(k, l) \subseteq PoolRows
         /\ \A m \in Slots, n \in 0 .. MaxIter - 1 :
              k # m \/ l # n =>
                CArea(k, l) \cap CArea(m, n) = {} /\ QArea(k, l) \cap QArea(m, n) = {}
<1>1. /\ Before \in 0 .. PairCount /\ installed \in 0 .. PairCount
      /\ RunningTotal(shape.rows) /\ RunningTotal(shape.cols) /\ factor \in Nat
  BY ShapeTotals, FarDotAssumption DEF AreaInv, TypeOK
<1>2. \A m \in Slots : /\ node[m] \in Pairs /\ Before < node[m] /\ node[m] <= installed
                       /\ node[m] \in Nat /\ m \in Nat
  BY SlotFacts, SizeType DEF AreaInv, SlotsInv
<1>3. \A m \in Slots, n \in 0 .. MaxIter - 1 :
        /\ CArea(m, n) = Area(shape.rows, Before, node[m], n)
        /\ QArea(m, n) = Area(shape.cols, Before, node[m], n)
  BY DEF AreaInv
<1>4. CArea(k, l) \subseteq PoolRows /\ QArea(k, l) \subseteq PoolRows
  BY <1>1, <1>2, <1>3, AreaInPool DEF AreaInv
<1>5. ASSUME NEW m \in Slots, NEW n \in 0 .. MaxIter - 1, k # m \/ l # n
      PROVE  CArea(k, l) \cap CArea(m, n) = {} /\ QArea(k, l) \cap QArea(m, n) = {}
  <2>1. k < m => node[k] < node[m]
    BY DEF SlotsInv
  <2>2. m < k => node[m] < node[k]
    BY DEF SlotsInv
  <2>3. \/ node[k] < node[m] \/ node[m] < node[k]
        \/ node[k] = node[m] /\ (l < n \/ n < l)
    BY <1>2, <1>5, <2>1, <2>2
  <2>4. CASE node[k] < node[m] \/ (node[k] = node[m] /\ l < n)
    BY <1>1, <1>2, <1>3, <2>4, AreasApart
  <2>5. CASE node[m] < node[k] \/ (node[k] = node[m] /\ n < l)
    <3>1. /\ Area(shape.rows, Before, node[m], n) \cap Area(shape.rows, Before, node[k], l) = {}
          /\ Area(shape.cols, Before, node[m], n) \cap Area(shape.cols, Before, node[k], l) = {}
      BY <1>1, <1>2, <2>5, AreasApart
    <3> QED BY <1>3, <3>1
  <2> QED BY <2>3, <2>4, <2>5
<1> QED BY <1>4, <1>5

-----------------------------------------------------------------------------
(* The passes: the slots stay where they are *)

LEMMA UnmovedFacts ==
  ASSUME UNCHANGED <<inputVars, installed, finished, searchVars, node, cOffset, qOffset, added>>
  PROVE  /\ Slots' = Slots /\ Before' = Before
         /\ \A p : RowSize(p)' = RowSize(p) /\ ColSize(p)' = ColSize(p)
         /\ \A k, l : CArea(k, l)' = CArea(k, l) /\ QArea(k, l)' = QArea(k, l)
         /\ AddedOnLeaving => AddedOnLeaving'
         /\ stage \notin {"install", "fit", "done"} /\ AreaInv => AreaInv'
<1>1. /\ shape' = shape /\ installed' = installed /\ finished' = finished
      /\ workSize' = workSize /\ node' = node /\ added' = added
      /\ cOffset' = cOffset /\ qOffset' = qOffset
  BY DEF inputVars, searchVars
<1>2. Slots' = Slots /\ Before' = Before
  BY <1>1 DEF Slots, Before
<1>3. \A p : RowSize(p)' = RowSize(p) /\ ColSize(p)' = ColSize(p)
  BY <1>1 DEF RowSize, ColSize
<1>4. \A k, l : CArea(k, l)' = CArea(k, l) /\ QArea(k, l)' = QArea(k, l)
  BY <1>1, <1>3 DEF CArea, QArea
<1>5. AddedOnLeaving => AddedOnLeaving'
  BY <1>1, <1>2 DEF AddedOnLeaving
<1>6. stage \notin {"install", "fit", "done"} /\ AreaInv => AreaInv'
  BY <1>1, <1>2, <1>4 DEF AreaInv
<1> QED BY <1>2, <1>3, <1>4, <1>5, <1>6

\* What the slots of a pass have at the start of one of its steps.
LEMMA PassFacts ==
  ASSUME IInv, stage \in {"column", "row", "test"}
  PROVE  /\ stopped = {}
         /\ \A k \in Slots :
              /\ Left(k) /\ iteration[k] \in Nat /\ iteration[k] \in 0 .. MaxIter - 1
              /\ iteration[k] < RowSize(node[k]) /\ iteration[k] < ColSize(node[k])
              /\ RowSize(node[k]) \in Nat /\ ColSize(node[k]) \in Nat
              /\ innerNumIter = IF stage = "column" THEN iteration[k] ELSE iteration[k] + 1
              /\ innerNumIter \in Nat
              /\ rows[k] \in Seq(Nat) /\ cols[k] \in Seq(Nat \cup {None})
              /\ Len(rows[k]) = IF stage = "column" THEN iteration[k] ELSE iteration[k] + 1
              /\ Len(cols[k]) = IF stage = "test" THEN iteration[k] + 2 ELSE iteration[k] + 1
<1>1. TypeOK /\ Lockstep /\ SlotsInv /\ IterInv /\ PivotInv
  BY DEF IInv, CountersAgree
<1>2. stopped = {}
  BY <1>1 DEF SlotsInv
<1>3. innerNumIter \in Nat
  BY <1>1, FarDotAssumption DEF TypeOK
<1> SUFFICES ASSUME NEW k \in Slots
    PROVE /\ Left(k) /\ iteration[k] \in Nat /\ iteration[k] \in 0 .. MaxIter - 1
          /\ iteration[k] < RowSize(node[k]) /\ iteration[k] < ColSize(node[k])
          /\ RowSize(node[k]) \in Nat /\ ColSize(node[k]) \in Nat
          /\ innerNumIter = IF stage = "column" THEN iteration[k] ELSE iteration[k] + 1
          /\ rows[k] \in Seq(Nat) /\ cols[k] \in Seq(Nat \cup {None})
          /\ Len(rows[k]) = IF stage = "column" THEN iteration[k] ELSE iteration[k] + 1
          /\ Len(cols[k]) = IF stage = "test" THEN iteration[k] + 2 ELSE iteration[k] + 1
  BY <1>2, <1>3
<1>4. Left(k)
  BY <1>1, <1>2 DEF IterInv
<1>5. /\ iteration[k] \in Nat /\ iteration[k] \in 0 .. MaxIter - 1
      /\ RowSize(node[k]) \in Nat /\ ColSize(node[k]) \in Nat
      /\ iteration[k] < RowSize(node[k]) /\ iteration[k] < ColSize(node[k])
  BY <1>1, <1>4, LeftFacts DEF Left
<1>6. innerNumIter = IF stage = "column" THEN iteration[k] ELSE iteration[k] + 1
  BY <1>1, <1>3, <1>5 DEF Lockstep
<1>7. rows[k] \in Seq(Nat) /\ cols[k] \in Seq(Nat \cup {None})
  BY <1>1 DEF TypeOK
<1>8. /\ Len(rows[k]) = IF stage = "column" THEN iteration[k] ELSE iteration[k] + 1
      /\ Len(cols[k]) = IF stage = "test" THEN iteration[k] + 2 ELSE iteration[k] + 1
  BY <1>1 DEF PivotInv
<1> QED BY <1>4, <1>5, <1>6, <1>7, <1>8

LEMMA QueryColumnInv == ASSUME IInv, QueryColumn PROVE IInv'
<1>1. /\ TypeOK /\ CountersAgree /\ SlotsInv /\ IterInv /\ PivotInv /\ AreaInv /\ ContentInv
      /\ stage = "column" /\ stage' = "row" /\ stopped = {}
  BY PassFacts DEF IInv, QueryColumn
<1>2. /\ UNCHANGED <<inputVars, installed, finished, searchVars, stopped, node, iteration,
                     cOffset, qOffset, cols, mu, qPool, added>>
      /\ shape' = shape /\ factor' = factor /\ workSize' = workSize /\ lower' = lower
      /\ upper' = upper
      /\ innerNumIter' = innerNumIter + 1
  BY DEF QueryColumn, inputVars, searchVars
<1>3. PICK pivot \in Chosen([k \in Slots |-> FreeRows(k)]) :
        rows' = [k \in Slots |-> Append(rows[k], pivot[k])]
  BY DEF QueryColumn
<1>4. /\ Slots' = Slots /\ \A p : RowSize(p)' = RowSize(p) /\ ColSize(p)' = ColSize(p)
      /\ \A k, l : CArea(k, l)' = CArea(k, l) /\ QArea(k, l)' = QArea(k, l)
      /\ AddedOnLeaving' /\ AreaInv'
  BY <1>1, <1>2, UnmovedFacts DEF CountersAgree
<1>5. ASSUME NEW k \in Slots
      PROVE  /\ pivot[k] \in 0 .. RowSize(node[k]) - 1 /\ pivot[k] \in Nat
             /\ \A l \in 1 .. iteration[k] : rows[k][l] # pivot[k]
             /\ rows'[k] \in Seq(Nat) /\ Len(rows'[k]) = iteration[k] + 1
             /\ \A l \in 1 .. iteration[k] : rows'[k][l] = rows[k][l]
             /\ rows'[k][iteration[k] + 1] = pivot[k]
  <2>1. pivot[k] \in FreeRows(k)
    BY <1>3 DEF Chosen
  <2>2. /\ pivot[k] \in 0 .. RowSize(node[k]) - 1 /\ pivot[k] \in Nat
        /\ \A l \in 1 .. iteration[k] : rows[k][l] # pivot[k]
    BY <1>1, <2>1, PassFacts, RowIsFree
  <2>3. rows[k] \in Seq(Nat) /\ Len(rows[k]) = iteration[k]
    BY <1>1, PassFacts
  <2>4. rows'[k] = Append(rows[k], pivot[k])
    BY <1>3
  <2> QED BY <2>2, <2>3, <2>4, AppendFacts
<1>6. TypeOK'
  <2>1. rows' \in [Slots -> Seq(Nat)]
    BY <1>3, <1>5
  <2>2. innerNumIter' \in 0 .. MaxIter
    BY <1>1, <1>2, FarDotAssumption DEF TypeOK, IterInv
  <2> QED BY <1>1, <1>2, <1>4, <2>1, <2>2 DEF TypeOK
<1>7. CountersAgree'
  <2>1. Lockstep'
    BY <1>1, <1>2, <1>4, PassFacts DEF Lockstep
  <2> QED BY <1>4, <2>1 DEF CountersAgree
<1>8. SlotsInv'
  BY <1>1, <1>2, <1>4 DEF SlotsInv
<1>9. IterInv'
  BY <1>1, <1>2, <1>4 DEF IterInv, Left
<1>10. SearchInv'
  BY <1>1 DEF SearchInv
<1>11. PivotInv'
  <2> SUFFICES ASSUME NEW k \in Slots
      PROVE  /\ Len(mu[k]) = iteration[k]
             /\ \A l \in 1 .. iteration[k] : mu[k][l] = node[k]
             /\ iteration[k] <= Len(rows'[k]) /\ iteration[k] < Len(cols[k])
             /\ Len(rows'[k]) = iteration[k] + 1 /\ Len(cols[k]) = iteration[k] + 1
             /\ \A l \in 1 .. Len(rows'[k]) : rows'[k][l] \in 0 .. RowSize(node[k]) - 1
             /\ \A l, m \in 1 .. Len(rows'[k]) : l # m => rows'[k][l] # rows'[k][m]
             /\ \A l \in 1 .. Len(cols[k]) :
                  l <= ColSize(node[k]) => cols[k][l] \in 0 .. ColSize(node[k]) - 1
             /\ \A l, m \in 1 .. Len(cols[k]) : l # m => cols[k][l] # cols[k][m]
    BY <1>1, <1>2, <1>4 DEF PivotInv
  <2>1. /\ iteration[k] \in Nat /\ Len(rows[k]) = iteration[k] /\ Len(cols[k]) = iteration[k] + 1
    BY <1>1, PassFacts
  <2>2. \A l \in 1 .. Len(rows'[k]) : l \in 1 .. iteration[k] \/ l = iteration[k] + 1
    BY <1>5, <2>1
  <2>3. \A l \in 1 .. Len(rows'[k]) : rows'[k][l] \in 0 .. RowSize(node[k]) - 1
    BY <1>1, <1>5, <2>1, <2>2 DEF PivotInv
  <2>4. \A l, m \in 1 .. Len(rows'[k]) : l # m => rows'[k][l] # rows'[k][m]
    <3>1. \A l, m \in 1 .. iteration[k] : l # m => rows[k][l] # rows[k][m]
      BY <1>1, <2>1 DEF PivotInv
    <3>2. /\ rows[k] \in Seq(Nat) /\ pivot[k] \in Nat /\ rows'[k] = Append(rows[k], pivot[k])
          /\ \A l \in 1 .. iteration[k] : rows[k][l] # pivot[k]
      BY <1>1, <1>3, <1>5, PassFacts
    <3>3. \A l, m \in 1 .. iteration[k] + 1 :
            l # m => Append(rows[k], pivot[k])[l] # Append(rows[k], pivot[k])[m]
      BY <2>1, <3>1, <3>2, DistinctAppend
    <3>4. Len(rows'[k]) = iteration[k] + 1
      BY <1>5
    <3> QED BY <3>2, <3>3, <3>4
  <2> QED BY <1>1, <1>5, <2>1, <2>3, <2>4 DEF PivotInv
<1>12. ContentInv'
  <2> SUFFICES ASSUME factor >= MaxIter, NEW k \in Slots
      PROVE  /\ \A l \in 0 .. iteration[k] : \A x \in CArea(k, l) :
                  cPool'[x] = Entry(node[k], cols[k][l + 1], l)
             /\ \A l \in 0 .. iteration[k] - 1 : \A x \in QArea(k, l) :
                  qPool[x] = Entry(node[k], rows'[k][l + 1], l)
    <3>1. \A k \in Slots : /\ CCount(k)' = iteration[k] + 1 /\ QCount(k)' = iteration[k]
                           /\ CCount(k)' - 1 = iteration[k]
      BY <1>1, <1>2, PassFacts DEF CCount, QCount
    <3> QED BY <1>2, <1>4, <3>1 DEF ContentInv
  <2> DEFINE area == [m \in Slots |-> CArea(m, iteration[m])]
             entry == [m \in Slots |-> Entry(node[m], cols[m][iteration[m] + 1], innerNumIter)]
  <2>1. cPool' = Written(cPool, area, entry)
    BY DEF QueryColumn
  <2>2. \A m \in Slots : /\ iteration[m] \in 0 .. MaxIter - 1 /\ iteration[m] \in Nat
                         /\ innerNumIter = iteration[m]
    BY <1>1, PassFacts
  <2>3. \A m, n \in Slots : m # n => area[m] \cap area[n] = {}
    BY <1>1, <2>2, AreasFit
  <2>4. ASSUME NEW l \in 0 .. iteration[k], NEW x \in CArea(k, l)
        PROVE  cPool'[x] = Entry(node[k], cols[k][l + 1], l)
    <3>1. l \in 0 .. MaxIter - 1 /\ l \in Nat
      <4>1. iteration[k] \in 0 .. MaxIter - 1 /\ MaxIter \in Nat
        BY <2>2, FarDotAssumption
      <4> QED BY <4>1
    <3>2. x \in PoolRows
      BY <1>1, <3>1, AreasFit
    <3>3. CASE l = iteration[k]
      <4>1. x \in area[k]
        BY <3>3
      <4>2. cPool'[x] = entry[k]
        <5> HIDE DEF area, entry
        <5> QED BY <2>1, <2>3, <3>2, <4>1, WrittenFacts
      <4> QED BY <2>2, <3>3, <4>2
    <3>4. CASE l # iteration[k]
      <4>1. \A m \in Slots : x \notin area[m]
        <5> SUFFICES ASSUME NEW m \in Slots PROVE x \notin CArea(m, iteration[m])
          OBVIOUS
        <5>1. k # m \/ l # iteration[m]
          BY <3>4
        <5>2. CArea(k, l) \cap CArea(m, iteration[m]) = {}
          BY <1>1, <2>2, <3>1, <5>1, AreasFit
        <5> QED BY <5>2
      <4>2. cPool'[x] = cPool[x]
        <5> HIDE DEF area, entry
        <5> QED BY <2>1, <2>3, <3>2, <4>1, WrittenFacts
      <4>3. l \in 0 .. CCount(k) - 1
        BY <1>1, <2>2, <3>1, <3>4 DEF CCount
      <4> QED BY <1>1, <4>2, <4>3 DEF ContentInv
    <3> QED BY <3>3, <3>4
  <2>5. ASSUME NEW l \in 0 .. iteration[k] - 1, NEW x \in QArea(k, l)
        PROVE  qPool[x] = Entry(node[k], rows'[k][l + 1], l)
    <3>1. l \in 0 .. QCount(k) - 1 /\ l + 1 \in 1 .. iteration[k]
      BY <1>1, <2>2 DEF QCount
    <3>2. rows'[k][l + 1] = rows[k][l + 1]
      BY <1>5, <3>1
    <3> QED BY <1>1, <3>1, <3>2 DEF ContentInv
  <2> QED BY <2>4, <2>5
<1> QED BY <1>4, <1>6, <1>7, <1>8, <1>9, <1>10, <1>11, <1>12 DEF IInv

LEMMA QueryRowInv == ASSUME IInv, QueryRow PROVE IInv'
<1>1. /\ TypeOK /\ CountersAgree /\ SlotsInv /\ IterInv /\ PivotInv /\ AreaInv /\ ContentInv
      /\ stage = "row" /\ stage' = "test" /\ stopped = {}
  BY PassFacts DEF IInv, QueryRow
<1>2. /\ UNCHANGED <<inputVars, installed, finished, searchVars, innerNumIter, stopped, node,
                     iteration, cOffset, qOffset, rows, mu, cPool, added>>
      /\ shape' = shape /\ factor' = factor /\ workSize' = workSize /\ lower' = lower
      /\ upper' = upper
  BY DEF QueryRow, inputVars, searchVars
<1>3. PICK pivot \in Chosen([k \in Slots |-> FreeCols(k)]) :
        cols' = [k \in Slots |-> Append(cols[k], pivot[k])]
  BY DEF QueryRow
<1>4. /\ Slots' = Slots /\ \A p : RowSize(p)' = RowSize(p) /\ ColSize(p)' = ColSize(p)
      /\ \A k, l : CArea(k, l)' = CArea(k, l) /\ QArea(k, l)' = QArea(k, l)
      /\ AddedOnLeaving' /\ AreaInv'
  BY <1>1, <1>2, UnmovedFacts DEF CountersAgree
<1>5. ASSUME NEW k \in Slots
      PROVE  /\ \/ pivot[k] \in 0 .. ColSize(node[k]) - 1
                \/ pivot[k] = None /\ iteration[k] + 1 = ColSize(node[k])
             /\ pivot[k] \in Nat \cup {None}
             /\ \A l \in 1 .. iteration[k] + 1 : cols[k][l] # pivot[k]
             /\ cols'[k] \in Seq(Nat \cup {None}) /\ Len(cols'[k]) = iteration[k] + 2
             /\ \A l \in 1 .. iteration[k] + 1 : cols'[k][l] = cols[k][l]
             /\ cols'[k][iteration[k] + 2] = pivot[k]
             /\ cols'[k] = Append(cols[k], pivot[k])
  <2>1. pivot[k] \in FreeCols(k)
    BY <1>3 DEF Chosen
  <2>2. \/ /\ pivot[k] \in 0 .. ColSize(node[k]) - 1 /\ pivot[k] \in Nat
           /\ \A l \in 1 .. iteration[k] + 1 : cols[k][l] # pivot[k]
        \/ pivot[k] = None /\ iteration[k] + 1 = ColSize(node[k])
    BY <1>1, <2>1, PassFacts, ColIsFree
  <2>3. /\ cols[k] \in Seq(Nat \cup {None}) /\ Len(cols[k]) = iteration[k] + 1
        /\ iteration[k] \in Nat
    BY <1>1, PassFacts
  <2>4. ASSUME pivot[k] = None, iteration[k] + 1 = ColSize(node[k])
        PROVE  \A l \in 1 .. iteration[k] + 1 : cols[k][l] # pivot[k]
    <3>1. \A l \in 1 .. iteration[k] + 1 : cols[k][l] \in 0 .. ColSize(node[k]) - 1
      BY <1>1, <2>3, <2>4 DEF PivotInv
    <3> QED BY <2>4, <3>1 DEF None
  <2>5. cols'[k] = Append(cols[k], pivot[k])
    BY <1>3
  <2>6. \A l \in 1 .. iteration[k] + 1 : cols[k][l] # pivot[k]
    BY <2>2, <2>4
  <2>7. pivot[k] \in Nat \cup {None}
    BY <2>2
  <2>8. /\ cols'[k] \in Seq(Nat \cup {None}) /\ Len(cols'[k]) = (iteration[k] + 1) + 1
        /\ \A l \in 1 .. iteration[k] + 1 : cols'[k][l] = cols[k][l]
        /\ cols'[k][(iteration[k] + 1) + 1] = pivot[k]
    BY <2>3, <2>5, <2>7, AppendFacts
  <2>9. (iteration[k] + 1) + 1 = iteration[k] + 2
    BY <2>3
  <2> QED BY <2>2, <2>5, <2>6, <2>7, <2>8, <2>9
<1>6. TypeOK'
  <2>1. cols' \in [Slots -> Seq(Nat \cup {None})]
    BY <1>3, <1>5
  <2> QED BY <1>1, <1>2, <1>4, <2>1 DEF TypeOK
<1>7. CountersAgree'
  <2>1. Lockstep'
    BY <1>1, <1>2, <1>4 DEF Lockstep, CountersAgree
  <2> QED BY <1>4, <2>1 DEF CountersAgree
<1>8. SlotsInv'
  BY <1>1, <1>2, <1>4 DEF SlotsInv
<1>9. IterInv'
  BY <1>1, <1>2, <1>4 DEF IterInv, Left
<1>10. SearchInv'
  BY <1>1 DEF SearchInv
<1>11. PivotInv'
  <2> SUFFICES ASSUME NEW k \in Slots
      PROVE  /\ Len(mu[k]) = iteration[k]
             /\ \A l \in 1 .. iteration[k] : mu[k][l] = node[k]
             /\ iteration[k] <= Len(rows[k]) /\ iteration[k] < Len(cols'[k])
             /\ Len(rows[k]) = iteration[k] + 1 /\ Len(cols'[k]) = iteration[k] + 2
             /\ \A l \in 1 .. Len(rows[k]) : rows[k][l] \in 0 .. RowSize(node[k]) - 1
             /\ \A l, m \in 1 .. Len(rows[k]) : l # m => rows[k][l] # rows[k][m]
             /\ \A l \in 1 .. Len(cols'[k]) :
                  l <= ColSize(node[k]) => cols'[k][l] \in 0 .. ColSize(node[k]) - 1
             /\ \A l, m \in 1 .. Len(cols'[k]) : l # m => cols'[k][l] # cols'[k][m]
    BY <1>1, <1>2, <1>4 DEF PivotInv
  <2>1. /\ iteration[k] \in Nat /\ Len(rows[k]) = iteration[k] + 1
        /\ Len(cols[k]) = iteration[k] + 1 /\ ColSize(node[k]) \in Nat
        /\ Len(cols'[k]) = iteration[k] + 2
    BY <1>1, <1>5, PassFacts
  <2>2. \A l \in 1 .. Len(cols'[k]) : l \in 1 .. iteration[k] + 1 \/ l = iteration[k] + 2
    BY <2>1
  <2>3. \A l \in 1 .. Len(cols'[k]) :
          l <= ColSize(node[k]) => cols'[k][l] \in 0 .. ColSize(node[k]) - 1
    <3>1. \A l \in 1 .. iteration[k] + 1 :
            l <= ColSize(node[k]) => cols[k][l] \in 0 .. ColSize(node[k]) - 1
      BY <1>1, <2>1 DEF PivotInv
    <3>2. \A l \in 1 .. iteration[k] + 1 : cols'[k][l] = cols[k][l]
      BY <1>5
    <3>3. /\ cols'[k][iteration[k] + 2] = pivot[k]
          /\ iteration[k] + 2 <= ColSize(node[k]) => pivot[k] \in 0 .. ColSize(node[k]) - 1
      BY <1>5, <2>1
    <3> QED BY <2>2, <3>1, <3>2, <3>3
  <2>4. \A l, m \in 1 .. Len(cols'[k]) : l # m => cols'[k][l] # cols'[k][m]
    <3>1. \A l, m \in 1 .. iteration[k] + 1 : l # m => cols[k][l] # cols[k][m]
      <4>1. \A l, m \in 1 .. Len(cols[k]) : l # m => cols[k][l] # cols[k][m]
        BY <1>1 DEF PivotInv
      <4>2. 1 .. Len(cols[k]) = 1 .. iteration[k] + 1
        BY <2>1
      <4> QED BY <4>1, <4>2
    <3>2. cols[k] \in Seq(Nat \cup {None})
      BY <1>1, PassFacts
    <3>3. iteration[k] + 1 \in Nat /\ (iteration[k] + 1) + 1 = iteration[k] + 2
      BY <2>1
    <3>4. \A l \in 1 .. iteration[k] + 1 : cols[k][l] # pivot[k]
      BY <1>5
    <3>5. pivot[k] \in Nat \cup {None} /\ cols'[k] = Append(cols[k], pivot[k])
      BY <1>5
    <3>6. \A l, m \in 1 .. (iteration[k] + 1) + 1 :
            l # m => Append(cols[k], pivot[k])[l] # Append(cols[k], pivot[k])[m]
      <4> DEFINE S == Nat \cup {None}
      <4>1. cols[k] \in Seq(S) /\ pivot[k] \in S
        BY <3>2, <3>5
      <4> HIDE DEF S
      <4> QED BY <2>1, <3>1, <3>3, <3>4, <4>1, DistinctAppend
    <3> QED BY <2>1, <3>3, <3>5, <3>6
  <2>5. iteration[k] < Len(cols'[k]) /\ iteration[k] <= Len(rows[k])
    BY <2>1
  <2> QED BY <1>1, <2>1, <2>3, <2>4, <2>5 DEF PivotInv
<1>12. ContentInv'
  <2> SUFFICES ASSUME factor >= MaxIter, NEW k \in Slots
      PROVE  /\ \A l \in 0 .. iteration[k] : \A x \in CArea(k, l) :
                  cPool[x] = Entry(node[k], cols'[k][l + 1], l)
             /\ \A l \in 0 .. iteration[k] : \A x \in QArea(k, l) :
                  qPool'[x] = Entry(node[k], rows[k][l + 1], l)
    <3>1. \A m \in Slots : /\ CCount(m)' - 1 = iteration[m] /\ QCount(m)' - 1 = iteration[m]
      BY <1>1, <1>2, PassFacts DEF CCount, QCount
    <3> QED BY <1>2, <1>4, <3>1 DEF ContentInv
  <2> DEFINE area == [m \in Slots |-> QArea(m, iteration[m])]
             entry == [m \in Slots |-> Entry(node[m], rows[m][iteration[m] + 1], innerNumIter - 1)]
  <2>1. qPool' = Written(qPool, area, entry)
    BY DEF QueryRow
  <2>2. \A m \in Slots : /\ iteration[m] \in 0 .. MaxIter - 1 /\ iteration[m] \in Nat
                         /\ innerNumIter - 1 = iteration[m]
    BY <1>1, PassFacts
  <2>3. \A m, n \in Slots : m # n => area[m] \cap area[n] = {}
    BY <1>1, <2>2, AreasFit
  <2>4. ASSUME NEW l \in 0 .. iteration[k]
        PROVE  l \in 0 .. MaxIter - 1 /\ l \in Nat /\ l + 1 \in 1 .. iteration[k] + 1
    <3>1. iteration[k] \in 0 .. MaxIter - 1 /\ MaxIter \in Nat
      BY <2>2, FarDotAssumption
    <3> QED BY <3>1
  <2>5. ASSUME NEW l \in 0 .. iteration[k], NEW x \in QArea(k, l)
        PROVE  qPool'[x] = Entry(node[k], rows[k][l + 1], l)
    <3>1. x \in PoolRows
      BY <1>1, <2>4, AreasFit
    <3>2. CASE l = iteration[k]
      <4>1. x \in area[k]
        BY <3>2
      <4>2. qPool'[x] = entry[k]
        <5> HIDE DEF area, entry
        <5> QED BY <2>1, <2>3, <3>1, <4>1, WrittenFacts
      <4> QED BY <2>2, <3>2, <4>2
    <3>3. CASE l # iteration[k]
      <4>1. \A m \in Slots : x \notin area[m]
        <5> SUFFICES ASSUME NEW m \in Slots PROVE x \notin QArea(m, iteration[m])
          OBVIOUS
        <5>1. k # m \/ l # iteration[m]
          BY <3>3
        <5>2. QArea(k, l) \cap QArea(m, iteration[m]) = {}
          BY <1>1, <2>2, <2>4, <5>1, AreasFit
        <5> QED BY <5>2
      <4>2. qPool'[x] = qPool[x]
        <5> HIDE DEF area, entry
        <5> QED BY <2>1, <2>3, <3>1, <4>1, WrittenFacts
      <4>3. l \in 0 .. QCount(k) - 1
        BY <1>1, <2>2, <2>4, <3>3 DEF QCount
      <4> QED BY <1>1, <4>2, <4>3 DEF ContentInv
    <3> QED BY <3>2, <3>3
  <2>6. ASSUME NEW l \in 0 .. iteration[k], NEW x \in CArea(k, l)
        PROVE  cPool[x] = Entry(node[k], cols'[k][l + 1], l)
    <3>1. l \in 0 .. CCount(k) - 1
      BY <1>1, <2>2, <2>4 DEF CCount
    <3>2. cols'[k][l + 1] = cols[k][l + 1]
      BY <1>5, <2>4
    <3> QED BY <1>1, <3>1, <3>2 DEF ContentInv
  <2> QED BY <2>5, <2>6
<1> QED BY <1>4, <1>6, <1>7, <1>8, <1>9, <1>10, <1>11, <1>12 DEF IInv

LEMMA TestInv == ASSUME IInv, Test PROVE IInv'
<1>1. /\ TypeOK /\ CountersAgree /\ SlotsInv /\ IterInv /\ PivotInv /\ AreaInv /\ ContentInv
      /\ stage = "test" /\ stage' = "dot" /\ stopped = {}
  BY PassFacts DEF IInv, Test
<1>2. /\ UNCHANGED <<inputVars, installed, finished, searchVars, innerNumIter, node, cOffset,
                     qOffset, cols, rows, poolVars, added>>
      /\ shape' = shape /\ factor' = factor /\ workSize' = workSize /\ lower' = lower
      /\ upper' = upper /\ cPool' = cPool /\ qPool' = qPool
  BY DEF Test, inputVars, searchVars, poolVars
<1>3. /\ mu' = [k \in Slots |-> Append(mu[k], node[k])]
      /\ iteration' = [k \in Slots |-> iteration[k] + 1]
      /\ stopped' \subseteq Slots /\ Exhausted \subseteq stopped'
  BY DEF Test, Exhausted
<1>4. /\ Slots' = Slots /\ \A p : RowSize(p)' = RowSize(p) /\ ColSize(p)' = ColSize(p)
      /\ \A k, l : CArea(k, l)' = CArea(k, l) /\ QArea(k, l)' = QArea(k, l)
      /\ AddedOnLeaving' /\ AreaInv'
  BY <1>1, <1>2, UnmovedFacts DEF CountersAgree
<1>5. ASSUME NEW k \in Slots
      PROVE  /\ iteration'[k] = iteration[k] + 1 /\ iteration[k] \in Nat
             /\ iteration'[k] \in 0 .. MaxIter /\ iteration'[k] \in Nat
             /\ iteration'[k] <= RowSize(node[k]) /\ iteration'[k] <= ColSize(node[k])
             /\ iteration'[k] <= MaxIter /\ innerNumIter = iteration'[k]
  <2>1. iteration'[k] = iteration[k] + 1
    BY <1>3
  <2>2. /\ iteration[k] \in Nat /\ iteration[k] \in 0 .. MaxIter - 1
        /\ iteration[k] < RowSize(node[k]) /\ iteration[k] < ColSize(node[k])
        /\ RowSize(node[k]) \in Nat /\ ColSize(node[k]) \in Nat
        /\ innerNumIter = iteration[k] + 1
    BY <1>1, PassFacts
  <2> QED BY <2>1, <2>2, FarDotAssumption
<1>6. ASSUME NEW k \in Slots
      PROVE  /\ mu'[k] \in Seq(Pairs) /\ Len(mu'[k]) = iteration'[k]
             /\ \A l \in 1 .. iteration'[k] : mu'[k][l] = node[k]
  <2>1. mu[k] \in Seq(Pairs) /\ node[k] \in Pairs /\ mu'[k] = Append(mu[k], node[k])
    BY <1>1, <1>3, SlotFacts DEF TypeOK
  <2>2. Len(mu[k]) = iteration[k] /\ \A l \in 1 .. iteration[k] : mu[k][l] = node[k]
    BY <1>1 DEF PivotInv
  <2>3. /\ mu'[k] \in Seq(Pairs) /\ Len(mu'[k]) = iteration[k] + 1
        /\ \A l \in 1 .. iteration[k] : mu'[k][l] = mu[k][l]
        /\ mu'[k][iteration[k] + 1] = node[k]
    BY <2>1, <2>2, AppendFacts
  <2>4. \A l \in 1 .. iteration[k] + 1 : l \in 1 .. iteration[k] \/ l = iteration[k] + 1
    BY <1>5
  <2> QED BY <1>5, <2>2, <2>3, <2>4
<1>7. TypeOK'
  <2>1. iteration' \in [Slots -> 0 .. MaxIter] /\ mu' \in [Slots -> Seq(Pairs)]
    BY <1>3, <1>5, <1>6
  <2> QED BY <1>1, <1>2, <1>3, <1>4, <2>1 DEF TypeOK
<1>8. CountersAgree'
  <2>1. Lockstep'
    BY <1>1, <1>2, <1>4, <1>5 DEF Lockstep
  <2> QED BY <1>4, <2>1 DEF CountersAgree
<1>9. SlotsInv'
  BY <1>1, <1>2, <1>4 DEF SlotsInv
<1>10. IterInv'
  <2>1. ASSUME NEW k \in Slots, k \notin stopped'
        PROVE  /\ iteration'[k] < MaxIter
               /\ iteration'[k] < RowSize(node[k]) /\ iteration'[k] < ColSize(node[k])
    <3>1. k \notin Exhausted
      BY <1>3, <2>1
    <3>2. /\ iteration[k] + 1 \in Nat /\ MaxIter \in Nat
          /\ RowSize(node[k]) \in Nat /\ ColSize(node[k]) \in Nat
      BY <1>1, <1>5, LeftFacts
    <3> QED BY <1>5, <3>1, <3>2 DEF Exhausted, Smaller
  <2> QED BY <1>1, <1>2, <1>4, <1>5, <2>1 DEF IterInv, Left
<1>11. SearchInv'
  BY <1>1 DEF SearchInv
<1>12. PivotInv'
  <2> SUFFICES ASSUME NEW k \in Slots
      PROVE  /\ Len(mu'[k]) = iteration'[k]
             /\ \A l \in 1 .. iteration'[k] : mu'[k][l] = node[k]
             /\ iteration'[k] <= Len(rows[k]) /\ iteration'[k] < Len(cols[k])
             /\ Len(rows[k]) = iteration'[k] /\ Len(cols[k]) = iteration'[k] + 1
             /\ \A l \in 1 .. Len(rows[k]) : rows[k][l] \in 0 .. RowSize(node[k]) - 1
             /\ \A l, m \in 1 .. Len(rows[k]) : l # m => rows[k][l] # rows[k][m]
             /\ \A l \in 1 .. Len(cols[k]) :
                  l <= ColSize(node[k]) => cols[k][l] \in 0 .. ColSize(node[k]) - 1
             /\ \A l, m \in 1 .. Len(cols[k]) : l # m => cols[k][l] # cols[k][m]
    BY <1>1, <1>2, <1>4 DEF PivotInv
  <2>1. Len(rows[k]) = iteration'[k] /\ Len(cols[k]) = iteration'[k] + 1
    <3>1. Len(rows[k]) = iteration[k] + 1 /\ Len(cols[k]) = iteration[k] + 2
      BY <1>1, PassFacts
    <3> QED BY <1>5, <3>1
  <2>2. iteration'[k] <= Len(rows[k]) /\ iteration'[k] < Len(cols[k])
    BY <1>5, <2>1
  <2> QED BY <1>1, <1>6, <2>1, <2>2 DEF PivotInv
<1>13. ContentInv'
  <2>1. \A k \in Slots : CCount(k)' = CCount(k) /\ QCount(k)' = QCount(k)
    BY <1>1, <1>5 DEF CCount, QCount
  <2> QED BY <1>1, <1>2, <1>4, <2>1 DEF ContentInv
<1> QED BY <1>4, <1>7, <1>8, <1>9, <1>10, <1>11, <1>12, <1>13 DEF IInv

LEMMA CrashInv == ASSUME IInv, Crash PROVE IInv'
<1>1. /\ TypeOK /\ CountersAgree /\ SlotsInv /\ IterInv /\ PivotInv /\ AreaInv /\ ContentInv
      /\ stage \in {"column", "row"} /\ stage' = "crashed" /\ stopped = {}
  BY PassFacts DEF IInv, Crash, Overruns
<1>2. /\ UNCHANGED <<inputVars, installed, finished, searchVars, innerNumIter, stopped,
                     slotVars, poolVars, added>>
      /\ shape' = shape /\ factor' = factor /\ workSize' = workSize /\ lower' = lower
      /\ upper' = upper /\ cPool' = cPool /\ qPool' = qPool /\ node' = node
      /\ iteration' = iteration /\ cOffset' = cOffset /\ qOffset' = qOffset
      /\ cols' = cols /\ rows' = rows /\ mu' = mu /\ stopped' = stopped
  BY DEF Crash, inputVars, searchVars, slotVars, poolVars
<1>3. /\ Slots' = Slots /\ \A p : RowSize(p)' = RowSize(p) /\ ColSize(p)' = ColSize(p)
      /\ \A k, l : CArea(k, l)' = CArea(k, l) /\ QArea(k, l)' = QArea(k, l)
      /\ AddedOnLeaving' /\ AreaInv'
  BY <1>1, <1>2, UnmovedFacts DEF CountersAgree
<1>4. TypeOK'
  BY <1>1, <1>2, <1>3 DEF TypeOK
<1>5. CountersAgree' /\ SlotsInv' /\ IterInv' /\ SearchInv' /\ PivotInv'
  BY <1>1, <1>2, <1>3
  DEF CountersAgree, Lockstep, SlotsInv, IterInv, SearchInv, PivotInv
<1>6. ContentInv'
  <2>1. \A k \in Slots : /\ CCount(k)' = iteration[k] /\ QCount(k)' = iteration[k]
                         /\ 0 .. iteration[k] - 1 \subseteq 0 .. CCount(k) - 1
                         /\ 0 .. iteration[k] - 1 \subseteq 0 .. QCount(k) - 1
    <3>1. \A k \in Slots : iteration[k] \in Nat
      BY <1>1, PassFacts
    <3> QED BY <1>1, <1>2, <3>1 DEF CCount, QCount
  <2> QED BY <1>1, <1>2, <1>3, <2>1 DEF ContentInv
<1> QED BY <1>3, <1>4, <1>5, <1>6 DEF IInv

-----------------------------------------------------------------------------
(* The end of a pass: the slots that go on move up *)

\* The slots that go on are slots, each once and in their order.
LEMMA KeptFacts ==
  ASSUME IInv, stage = "dot"
  PROVE  /\ \A j \in Kept : j \in 1 .. Len(node)
         /\ Cardinality(Kept) \in Nat /\ Cardinality(stopped) \in Nat
         /\ Cardinality(Kept) = Len(node) - Cardinality(stopped)
         /\ Cardinality(Kept) <= Len(node)
         /\ Cardinality(Kept) = 0 <=> Kept = {}
         /\ \A k \in 1 .. Cardinality(Kept) :
              /\ Source(Kept, k) \in Slots /\ Source(Kept, k) \notin stopped
              /\ Left(Source(Kept, k))
         /\ \A k, l \in 1 .. Cardinality(Kept) : k < l => Source(Kept, k) < Source(Kept, l)
<1>1. /\ TypeOK /\ IterInv /\ Slots = 1 .. Len(node) /\ Len(node) \in Nat /\ IsFiniteSet(Slots)
      /\ Cardinality(Slots) = Len(node) /\ stopped \subseteq Slots
  BY SlotFacts DEF IInv, TypeOK
<1>2. \A j \in Kept : j \in 1 .. Len(node) /\ j \in Slots /\ j \notin stopped
  BY <1>1 DEF Kept
<1>3. /\ IsFiniteSet(stopped) /\ IsFiniteSet(Kept)
      /\ Cardinality(Kept) = Cardinality(Slots) - Cardinality(Slots \cap stopped)
  BY <1>1, FS_Subset, FS_Difference DEF Kept
<1>4. Slots \cap stopped = stopped
  BY <1>1
<1>5. Cardinality(Kept) \in Nat /\ Cardinality(stopped) \in Nat
  BY <1>3, FS_CardinalityType
<1>6. Cardinality(Kept) = 0 <=> Kept = {}
  BY <1>3, FS_EmptySet
<1>7. \A k \in 1 .. Cardinality(Kept) : Source(Kept, k) \in Kept
  BY <1>1, <1>2, SourceFound
<1>8. \A k, l \in 1 .. Cardinality(Kept) : k < l => Source(Kept, k) < Source(Kept, l)
  BY <1>1, <1>2, SourceOrdered
<1>9. \A j \in Kept : Left(j)
  BY <1>1, <1>2 DEF IterInv
<1>10. /\ Cardinality(Kept) = Len(node) - Cardinality(stopped)
       /\ Cardinality(Kept) <= Len(node)
  <2>1. Cardinality(Kept) = Len(node) - Cardinality(stopped)
    BY <1>1, <1>3, <1>4
  <2> QED BY <1>1, <1>5, <2>1
<1>11. \A k \in 1 .. Cardinality(Kept) :
         /\ Source(Kept, k) \in Slots /\ Source(Kept, k) \notin stopped
         /\ Left(Source(Kept, k))
  BY <1>2, <1>7, <1>9
<1> QED BY <1>2, <1>5, <1>6, <1>8, <1>10, <1>11

\* After the move a slot has what its source had.
LEMMA MovedFacts ==
  ASSUME IInv, Retire
  PROVE  /\ Slots' = 1 .. Cardinality(Kept) /\ Before' = Before
         /\ \A k \in Slots' :
              /\ node'[k] = node[Source(Kept, k)]
              /\ iteration'[k] = iteration[Source(Kept, k)]
              /\ cOffset'[k] = cOffset[Source(Kept, k)]
              /\ qOffset'[k] = qOffset[Source(Kept, k)]
              /\ cols'[k] = cols[Source(Kept, k)]
              /\ rows'[k] = rows[Source(Kept, k)]
              /\ mu'[k] = mu[Source(Kept, k)]
              /\ RowSize(node[k])' = RowSize(node[Source(Kept, k)])
              /\ ColSize(node[k])' = ColSize(node[Source(Kept, k)])
              /\ \A l : /\ CArea(k, l)' = CArea(Source(Kept, k), l)
                        /\ QArea(k, l)' = QArea(Source(Kept, k), l)
<1>1. Slots' = 1 .. Cardinality(Kept)
  BY DEF Retire, Compacted, Slots
<1>2. shape' = shape /\ installed' = installed /\ workSize' = workSize
  BY DEF Retire, inputVars, searchVars
<1>3. Before' = Before
  BY <1>2 DEF Before
<1> SUFFICES ASSUME NEW k \in Slots'
    PROVE  /\ node'[k] = node[Source(Kept, k)]
           /\ iteration'[k] = iteration[Source(Kept, k)]
           /\ cOffset'[k] = cOffset[Source(Kept, k)]
           /\ qOffset'[k] = qOffset[Source(Kept, k)]
           /\ cols'[k] = cols[Source(Kept, k)]
           /\ rows'[k] = rows[Source(Kept, k)]
           /\ mu'[k] = mu[Source(Kept, k)]
           /\ RowSize(node[k])' = RowSize(node[Source(Kept, k)])
           /\ ColSize(node[k])' = ColSize(node[Source(Kept, k)])
           /\ \A l : /\ CArea(k, l)' = CArea(Source(Kept, k), l)
                     /\ QArea(k, l)' = QArea(Source(Kept, k), l)
  BY <1>1, <1>3
<1>4. /\ node'[k] = node[Source(Kept, k)] /\ iteration'[k] = iteration[Source(Kept, k)]
      /\ cOffset'[k] = cOffset[Source(Kept, k)] /\ qOffset'[k] = qOffset[Source(Kept, k)]
      /\ cols'[k] = cols[Source(Kept, k)] /\ rows'[k] = rows[Source(Kept, k)]
      /\ mu'[k] = mu[Source(Kept, k)]
  BY <1>1 DEF Retire, Compacted, MovedCols
<1>5. /\ RowSize(node[k])' = RowSize(node[Source(Kept, k)])
      /\ ColSize(node[k])' = ColSize(node[Source(Kept, k)])
  BY <1>2, <1>4 DEF RowSize, ColSize
<1>6. ASSUME NEW l
      PROVE  /\ CArea(k, l)' = CArea(Source(Kept, k), l)
             /\ QArea(k, l)' = QArea(Source(Kept, k), l)
  BY <1>4, <1>5 DEF CArea, QArea
<1> QED BY <1>4, <1>5, <1>6

\* The pairs that leave were not added before, and are added now.
LEMMA RetireAdds ==
  ASSUME IInv, Retire
  PROVE  /\ AddedOnLeaving'
         /\ added' \in [Pairs -> 0 .. 1] /\ \A p \in Pairs : added[p] <= added'[p]
<1>1. /\ TypeOK /\ AddedOnLeaving /\ SlotsInv /\ stage = "dot" /\ stopped \subseteq Slots
      /\ installed' = installed /\ finished' = finished + Cardinality(stopped)
      /\ added' = [p \in Pairs |-> IF p \in Dotted THEN added[p] + 1 ELSE added[p]]
  BY DEF IInv, CountersAgree, TypeOK, Retire, FinishedAfter
<1>2. Slots = 1 .. Len(node) /\ Len(node) \in Nat /\ \A k \in Slots : k \in Nat /\ node[k] \in Pairs
  BY <1>1, SlotFacts
<1>3. \A k, l \in Slots : node[k] = node[l] => k = l
  <2> SUFFICES ASSUME NEW k \in Slots, NEW l \in Slots, k # l PROVE node[k] # node[l]
    OBVIOUS
  <2>1. k < l \/ l < k
    BY <1>2
  <2>2. node[k] < node[l] \/ node[l] < node[k]
    BY <1>1, <2>1 DEF SlotsInv
  <2>3. node[k] \in Nat /\ node[l] \in Nat
    BY <1>1, <1>2, SizeType
  <2> QED BY <2>2, <2>3
<1>4. ASSUME NEW p \in Pairs
      PROVE  /\ added'[p] = IF p <= installed /\ \A k \in Slots' : node'[k] # p THEN 1 ELSE 0
             /\ added[p] <= added'[p]
  <2>1. /\ added[p] = IF p <= installed /\ \A k \in Slots : node[k] # p THEN 1 ELSE 0
        /\ added'[p] = IF p \in Dotted THEN added[p] + 1 ELSE added[p]
    BY <1>1 DEF AddedOnLeaving
  <2>2. CASE p \in Dotted
    <3>1. PICK i \in stopped : node[i] = p
      BY <2>2 DEF Dotted
    <3>2. i \in Slots /\ p <= installed
      BY <1>1, <3>1 DEF SlotsInv
    <3>3. \A k \in Slots' : node'[k] # p
      BY <1>1, <1>3, <3>1, <3>2, KeptFacts, MovedFacts
    <3> QED BY <2>1, <2>2, <3>1, <3>2, <3>3
  <2>3. CASE p \notin Dotted
    <3>1. (\A k \in Slots : node[k] # p) <=> (\A k \in Slots' : node'[k] # p)
      <4>1. ASSUME NEW k \in Slots', node'[k] = p PROVE \E i \in Slots : node[i] = p
        BY <1>1, <4>1, KeptFacts, MovedFacts
      <4>2. ASSUME NEW i \in Slots, node[i] = p PROVE \E k \in Slots' : node'[k] = p
        <5>1. i \in Kept
          BY <2>3, <4>2 DEF Kept, Dotted
        <5>2. PICK k \in 1 .. Cardinality(Kept) : Source(Kept, k) = i
          BY <1>1, <1>2, <5>1, KeptFacts, SourceOnto
        <5> QED BY <4>2, <5>2, MovedFacts
      <4> QED BY <4>1, <4>2
    <3> QED BY <2>1, <2>3, <3>1
  <2> QED BY <2>2, <2>3
<1>5. finished' = installed' - Len(node')
  <2>1. Len(node') = Cardinality(Kept)
    <3>1. DOMAIN node' = 1 .. Cardinality(Kept) /\ Cardinality(Kept) \in Nat
      BY <1>1, KeptFacts, MovedFacts DEF Slots
    <3> QED BY <3>1
  <2>2. finished = installed - Len(node) /\ installed \in Nat
    BY <1>1, FarDotAssumption DEF AddedOnLeaving, TypeOK
  <2> QED BY <1>1, <1>2, <2>1, <2>2, KeptFacts
<1>6. added' \in [Pairs -> 0 .. 1]
  BY <1>1, <1>4
<1>7. AddedOnLeaving'
  <2>1. \A p \in Pairs :
          added'[p] = IF p <= installed' /\ \A k \in Slots' : node'[k] # p THEN 1 ELSE 0
    BY <1>1, <1>4
  <2> QED BY <1>5, <2>1 DEF AddedOnLeaving
<1> QED BY <1>4, <1>6, <1>7

LEMMA RetireInv == ASSUME IInv, Retire PROVE IInv'
<1>1. /\ TypeOK /\ Lockstep /\ AddedOnLeaving /\ SlotsInv /\ IterInv /\ PivotInv /\ AreaInv
      /\ ContentInv /\ stage = "dot"
  BY DEF IInv, CountersAgree, Retire
<1>2. /\ shape' = shape /\ factor' = factor /\ installed' = installed
      /\ workSize' = workSize /\ lower' = lower /\ upper' = upper
      /\ cPool' = cPool /\ qPool' = qPool /\ stopped' = {}
      /\ finished' = finished + Cardinality(stopped)
      /\ innerNumIter' = IF Kept = {} THEN 0 ELSE innerNumIter
      /\ stage' = IF finished' = PairCount THEN "done"
                  ELSE IF Kept = {} THEN "install" ELSE "column"
  BY DEF Retire, inputVars, searchVars, poolVars, FinishedAfter, InnerNumIterAfter
<1>3. /\ AddedOnLeaving' /\ added' \in [Pairs -> 0 .. 1]
      /\ Slots' = 1 .. Cardinality(Kept) /\ Before' = Before
  BY RetireAdds, MovedFacts
<1>4. /\ Cardinality(Kept) \in Nat /\ Cardinality(Kept) <= Len(node) /\ Len(node) \in Nat
      /\ (Cardinality(Kept) = 0 <=> Kept = {})
      /\ Slots = 1 .. Len(node) /\ \A k \in Slots : k \in Nat /\ node[k] \in Pairs
  BY <1>1, KeptFacts, SlotFacts
<1>5. \A k \in Slots' : Source(Kept, k) \in Slots /\ Left(Source(Kept, k))
  BY <1>1, <1>3, KeptFacts
<1>6. /\ node' \in Seq(Pairs) /\ Len(node') = Cardinality(Kept)
      /\ finished' \in 0 .. PairCount
  <2>1. DOMAIN node' = 1 .. Cardinality(Kept) /\ Len(node') = Cardinality(Kept)
    <3>1. DOMAIN node' = 1 .. Cardinality(Kept)
      BY <1>3 DEF Slots
    <3> QED BY <1>4, <3>1
  <2>2. node' = [k \in 1 .. Cardinality(Kept) |-> node[Source(Kept, k)]]
    BY DEF Retire, Compacted
  <2>3. \A k \in 1 .. Cardinality(Kept) : node[Source(Kept, k)] \in Pairs
    BY <1>3, <1>4, <1>5
  <2>4. finished' = installed - Cardinality(Kept)
    BY <1>2, <1>3, <2>1 DEF AddedOnLeaving
  <2>5. finished = installed - Len(node) /\ finished \in 0 .. PairCount
    BY <1>1 DEF AddedOnLeaving, TypeOK
  <2>6. installed \in 0 .. PairCount /\ PairCount \in Nat
    BY <1>1, FarDotAssumption DEF TypeOK
  <2> QED BY <1>4, <2>1, <2>2, <2>3, <2>4, <2>5, <2>6
<1>7. /\ Kept = {} \/ (Kept # {} /\ innerNumIter' = innerNumIter /\ innerNumIter < MaxIter)
      /\ Kept = {} => Slots' = {} /\ node' = <<>>
      /\ finished' = PairCount => Kept = {}
  <2>1. ASSUME Kept # {} PROVE innerNumIter' = innerNumIter /\ innerNumIter < MaxIter
    <3>1. 1 \in Slots'
      BY <1>3, <1>4, <2>1
    <3>2. Left(Source(Kept, 1)) /\ innerNumIter = iteration[Source(Kept, 1)]
      BY <1>1, <1>5, <3>1 DEF Lockstep
    <3> QED BY <1>2, <2>1, <3>2 DEF Left
  <2>2. Kept = {} => Slots' = {} /\ node' = <<>>
    BY <1>3, <1>4, <1>6
  <2>3. ASSUME finished' = PairCount PROVE Kept = {}
    <3>1. PairCount = installed - Cardinality(Kept)
      BY <1>2, <1>3, <1>6, <2>3 DEF AddedOnLeaving
    <3>2. installed \in 0 .. PairCount /\ PairCount \in Nat
      BY <1>1, FarDotAssumption DEF TypeOK
    <3> QED BY <1>4, <3>1, <3>2
  <2> QED BY <2>1, <2>2, <2>3
<1>8. TypeOK'
  <2>1. /\ iteration' \in [Slots' -> 0 .. MaxIter]
        /\ cOffset' \in [Slots' -> [0 .. MaxIter - 1 -> Nat]]
        /\ qOffset' \in [Slots' -> [0 .. MaxIter - 1 -> Nat]]
        /\ cols' \in [Slots' -> Seq(Nat \cup {None})]
        /\ rows' \in [Slots' -> Seq(Nat)] /\ mu' \in [Slots' -> Seq(Pairs)]
    <3>1. /\ iteration \in [Slots -> 0 .. MaxIter]
          /\ cOffset \in [Slots -> [0 .. MaxIter - 1 -> Nat]]
          /\ qOffset \in [Slots -> [0 .. MaxIter - 1 -> Nat]]
          /\ cols \in [Slots -> Seq(Nat \cup {None})]
          /\ rows \in [Slots -> Seq(Nat)] /\ mu \in [Slots -> Seq(Pairs)]
      BY <1>1 DEF TypeOK
    <3>2. /\ iteration' = [k \in Slots' |-> iteration[Source(Kept, k)]]
          /\ cOffset' = [k \in Slots' |-> cOffset[Source(Kept, k)]]
          /\ qOffset' = [k \in Slots' |-> qOffset[Source(Kept, k)]]
          /\ cols' = [k \in Slots' |-> cols[Source(Kept, k)]]
          /\ rows' = [k \in Slots' |-> rows[Source(Kept, k)]]
          /\ mu' = [k \in Slots' |-> mu[Source(Kept, k)]]
      BY <1>3 DEF Retire, Compacted, MovedCols
    <3> QED BY <1>5, <3>1, <3>2
  <2>2. innerNumIter' \in 0 .. MaxIter
    BY <1>1, <1>2, FarDotAssumption DEF TypeOK
  <2>3. Len(node') <= MaxWorkSize
    BY <1>1, <1>4, <1>6, FarDotAssumption DEF TypeOK
  <2>4. /\ stage' \in {"install", "fit", "column", "row", "test", "dot", "done", "crashed"}
        /\ stopped' \subseteq Slots'
    BY <1>2
  <2>5. /\ shape' \in Shapes /\ factor' \in Factors /\ installed' \in 0 .. PairCount
        /\ workSize' \in 0 .. PairCount /\ lower' \in 0 .. PairCount
        /\ upper' \in 0 .. PairCount
    BY <1>1, <1>2 DEF TypeOK
  <2> QED BY <1>3, <1>6, <2>1, <2>2, <2>3, <2>4, <2>5 DEF TypeOK
<1>9. \/ stage' \in {"done", "install"} /\ Kept = {}
      \/ stage' = "column" /\ Kept # {}
  BY <1>2, <1>7
<1>10. CountersAgree'
  <2>1. Lockstep'
    <3> SUFFICES ASSUME NEW k \in Slots' PROVE iteration'[k] = innerNumIter'
      BY <1>9 DEF Lockstep
    <3>1. iteration'[k] = innerNumIter
      BY <1>1, <1>5, MovedFacts DEF Lockstep
    <3> QED BY <1>7, <3>1
  <2> QED BY <1>3, <2>1 DEF CountersAgree
<1>11. SlotsInv'
  <2>1. \A k \in Slots' : node'[k] <= installed
    BY <1>1, <1>5, MovedFacts DEF SlotsInv
  <2>2. \A k, l \in Slots' : k < l => node'[k] < node'[l]
    BY <1>1, <1>3, <1>5, KeptFacts, MovedFacts DEF SlotsInv
  <2> QED BY <1>2, <1>7, <1>9, <2>1, <2>2 DEF SlotsInv
<1>12. IterInv'
  <2> SUFFICES ASSUME NEW k \in Slots'
      PROVE  /\ iteration'[k] <= MaxIter /\ iteration'[k] <= RowSize(node[k])'
             /\ iteration'[k] <= ColSize(node[k])' /\ Left(k)'
    BY <1>2, <1>7, <1>9 DEF IterInv
  <2> DEFINE i == Source(Kept, k)
  <2>1. /\ iteration[i] <= MaxIter /\ iteration[i] <= RowSize(node[i])
        /\ iteration[i] <= ColSize(node[i]) /\ Left(i)
    BY <1>1, <1>5 DEF IterInv
  <2>2. /\ iteration'[k] = iteration[i] /\ RowSize(node[k])' = RowSize(node[i])
        /\ ColSize(node[k])' = ColSize(node[i])
    BY MovedFacts
  <2> HIDE DEF i
  <2> QED BY <2>1, <2>2 DEF Left
<1>13. SearchInv'
  BY <1>9 DEF SearchInv
<1>14. PivotInv'
  <2> SUFFICES ASSUME NEW k \in Slots'
      PROVE  /\ Len(mu'[k]) = iteration'[k]
             /\ \A l \in 1 .. iteration'[k] : mu'[k][l] = node'[k]
             /\ iteration'[k] <= Len(rows'[k]) /\ iteration'[k] < Len(cols'[k])
             /\ Len(rows'[k]) = iteration'[k] /\ Len(cols'[k]) = iteration'[k] + 1
             /\ \A l \in 1 .. Len(rows'[k]) : rows'[k][l] \in 0 .. RowSize(node[k])' - 1
             /\ \A l, m \in 1 .. Len(rows'[k]) : l # m => rows'[k][l] # rows'[k][m]
             /\ \A l \in 1 .. Len(cols'[k]) :
                  l <= ColSize(node[k])' => cols'[k][l] \in 0 .. ColSize(node[k])' - 1
             /\ \A l, m \in 1 .. Len(cols'[k]) : l # m => cols'[k][l] # cols'[k][m]
    BY <1>9 DEF PivotInv
  <2> DEFINE i == Source(Kept, k)
  <2>1. i \in Slots
    BY <1>5
  <2>2. /\ node'[k] = node[i] /\ iteration'[k] = iteration[i] /\ cols'[k] = cols[i]
        /\ rows'[k] = rows[i] /\ mu'[k] = mu[i]
        /\ RowSize(node[k])' = RowSize(node[i]) /\ ColSize(node[k])' = ColSize(node[i])
    BY MovedFacts
  <2> HIDE DEF i
  <2>3. Len(rows[i]) = iteration[i] /\ Len(cols[i]) = iteration[i] + 1
    BY <1>1, <2>1 DEF PivotInv
  <2> QED BY <1>1, <2>1, <2>2, <2>3 DEF PivotInv
<1>15. AreaInv'
  <2> SUFFICES ASSUME stage' = "column"
      PROVE  /\ Before \in 0 .. installed
             /\ shape.rows[installed] - shape.rows[Before] <= MaxRelativeCoord
             /\ shape.cols[installed] - shape.cols[Before] <= MaxRelativeCoord
             /\ \A k \in Slots' :
                  /\ Before < node'[k]
                  /\ \A l \in 0 .. MaxIter - 1 :
                       /\ CArea(k, l)' = Area(shape.rows, Before, node'[k], l)
                       /\ QArea(k, l)' = Area(shape.cols, Before, node'[k], l)
    BY <1>2, <1>3, <1>9 DEF AreaInv, Area
  <2>1. ASSUME NEW k \in Slots'
        PROVE  /\ Before < node'[k]
               /\ \A l \in 0 .. MaxIter - 1 :
                    /\ CArea(k, l)' = Area(shape.rows, Before, node'[k], l)
                    /\ QArea(k, l)' = Area(shape.cols, Before, node'[k], l)
    <3> DEFINE i == Source(Kept, k)
    <3>1. i \in Slots
      BY <1>5
    <3>2. /\ node'[k] = node[i]
          /\ \A l : CArea(k, l)' = CArea(i, l) /\ QArea(k, l)' = QArea(i, l)
      BY MovedFacts
    <3> HIDE DEF i
    <3> QED BY <1>1, <3>1, <3>2 DEF AreaInv
  <2> QED BY <1>1, <2>1 DEF AreaInv
<1>16. ContentInv'
  <2> SUFFICES ASSUME factor >= MaxIter, NEW k \in Slots'
      PROVE  \A l \in 0 .. iteration'[k] - 1 :
               /\ \A x \in CArea(k, l)' : cPool[x] = Entry(node'[k], cols'[k][l + 1], l)
               /\ \A x \in QArea(k, l)' : qPool[x] = Entry(node'[k], rows'[k][l + 1], l)
    <3>1. \A k \in Slots' : CCount(k)' = iteration'[k] /\ QCount(k)' = iteration'[k]
      BY <1>9 DEF CCount, QCount
    <3> QED BY <1>2, <3>1 DEF ContentInv
  <2> DEFINE i == Source(Kept, k)
  <2>1. i \in Slots /\ CCount(i) = iteration[i] /\ QCount(i) = iteration[i]
    BY <1>1, <1>5 DEF CCount, QCount
  <2>2. /\ node'[k] = node[i] /\ iteration'[k] = iteration[i] /\ cols'[k] = cols[i]
        /\ rows'[k] = rows[i]
        /\ \A l : CArea(k, l)' = CArea(i, l) /\ QArea(k, l)' = QArea(i, l)
    BY MovedFacts
  <2> HIDE DEF i
  <2> QED BY <1>1, <2>1, <2>2 DEF ContentInv
<1> QED BY <1>8, <1>10, <1>11, <1>12, <1>13, <1>14, <1>15, <1>16 DEF IInv

-----------------------------------------------------------------------------
(* The theorems *)

LEMMA StutterInv == ASSUME IInv, UNCHANGED vars PROVE IInv'
<1>1. /\ shape' = shape /\ factor' = factor /\ stage' = stage /\ installed' = installed
      /\ finished' = finished /\ workSize' = workSize /\ lower' = lower /\ upper' = upper
      /\ innerNumIter' = innerNumIter /\ stopped' = stopped /\ node' = node
      /\ iteration' = iteration /\ cOffset' = cOffset /\ qOffset' = qOffset
      /\ cols' = cols /\ rows' = rows /\ mu' = mu /\ cPool' = cPool /\ qPool' = qPool
      /\ added' = added
  BY DEF vars, inputVars, searchVars, slotVars, poolVars
<1>2. TypeOK' /\ CountersAgree'
  BY <1>1 DEF IInv, TypeOK, CountersAgree, Lockstep, AddedOnLeaving, Slots
<1>3. SlotsInv' /\ IterInv'
  BY <1>1 DEF IInv, SlotsInv, IterInv, Left, Slots, RowSize, ColSize
<1>4. SearchInv'
  BY <1>1 DEF IInv, SearchInv, Limit, Fits, Estimated, Ahead
<1>5. PivotInv'
  <2>1. /\ Slots' = Slots
        /\ \A k : RowSize(node[k])' = RowSize(node[k]) /\ ColSize(node[k])' = ColSize(node[k])
    BY <1>1 DEF Slots, RowSize, ColSize
  <2> QED BY <1>1, <2>1 DEF IInv, PivotInv
<1>6. AreaInv' /\ ContentInv'
  BY <1>1
  DEF IInv, AreaInv, ContentInv, CCount, QCount, CArea, QArea, Before, Slots, RowSize, ColSize
<1> QED BY <1>2, <1>3, <1>4, <1>5, <1>6 DEF IInv

LEMMA NextInv == ASSUME IInv, [Next]_vars PROVE IInv'
<1>1. CASE StartBatch BY <1>1, StartBatchInv
<1>2. CASE Shrink BY <1>2, ShrinkInv
<1>3. CASE Grow BY <1>3, GrowInv
<1>4. CASE Install BY <1>4, InstallInv
<1>5. CASE QueryColumn BY <1>5, QueryColumnInv
<1>6. CASE QueryRow BY <1>6, QueryRowInv
<1>7. CASE Crash BY <1>7, CrashInv
<1>8. CASE Test BY <1>8, TestInv
<1>9. CASE Retire BY <1>9, RetireInv
<1>10. CASE UNCHANGED vars BY <1>10, StutterInv
<1> QED
  BY <1>1, <1>2, <1>3, <1>4, <1>5, <1>6, <1>7, <1>8, <1>9, <1>10 DEF Next, Step, Stop

\* The invariant holds in all states of FarDot.
LEMMA Invariance == Spec => []IInv
<1>1. Init => IInv
  BY InitInv
<1>2. IInv /\ [Next]_vars => IInv'
  BY NextInv
<1> QED BY <1>1, <1>2, PTL DEF Spec

\* The slots hold pairs of the list, and the arrays have as many entries as
\* there are slots, however the batch has shrunk.
THEOREM TypeCorrect == Spec => []TypeOK
<1>1. IInv => TypeOK
  BY DEF IInv
<1> QED BY <1>1, Invariance, PTL

\* innerNumIter counts the crosses of every slot, and the installed and the
\* finished pairs are those of the slots and those that were added.
THEOREM CountersCorrect == Spec => []CountersAgree
<1>1. IInv => CountersAgree
  BY DEF IInv
<1> QED BY <1>1, Invariance, PTL

\* No row or column of a block is the pivot of two crosses, and mu2 of a slot
\* sums the crosses of its own pair.
THEOREM PivotsAreDifferent == Spec => []PivotsDiffer
<1>1. IInv => PivotsDiffer
  <2> SUFFICES ASSUME IInv, NEW k \in Slots
               PROVE  /\ \A l, m \in 1 .. iteration[k] :
                           l # m => rows[k][l] # rows[k][m] /\ cols[k][l] # cols[k][m]
                      /\ \A l \in 1 .. iteration[k] : cols[k][l] # None
                      /\ mu[k] = [l \in 1 .. iteration[k] |-> node[k]]
    BY DEF PivotsDiffer
  <2>1. TypeOK /\ PivotInv /\ IterInv
    BY DEF IInv
  <2>2. /\ iteration[k] \in Nat /\ ColSize(node[k]) \in Nat
        /\ iteration[k] <= ColSize(node[k])
        /\ iteration[k] <= Len(rows[k]) /\ iteration[k] < Len(cols[k])
        /\ rows[k] \in Seq(Nat) /\ cols[k] \in Seq(Nat \cup {None}) /\ mu[k] \in Seq(Pairs)
    BY <2>1, LeftFacts DEF PivotInv, IterInv, TypeOK
  <2>3. /\ 1 .. iteration[k] \subseteq 1 .. Len(rows[k])
        /\ 1 .. iteration[k] \subseteq 1 .. Len(cols[k])
    <3>1. Len(rows[k]) \in Nat /\ Len(cols[k]) \in Nat
      BY <2>2
    <3> QED BY <2>2, <3>1
  <2>4. \A l, m \in 1 .. iteration[k] :
          l # m => rows[k][l] # rows[k][m] /\ cols[k][l] # cols[k][m]
    BY <2>1, <2>3 DEF PivotInv
  <2>5. \A l \in 1 .. iteration[k] : cols[k][l] # None
    <3>1. \A l \in 1 .. iteration[k] : cols[k][l] \in 0 .. ColSize(node[k]) - 1
      <4>1. \A l \in 1 .. Len(cols[k]) :
              l <= ColSize(node[k]) => cols[k][l] \in 0 .. ColSize(node[k]) - 1
        BY <2>1 DEF PivotInv
      <4>2. \A l \in 1 .. iteration[k] : l \in 1 .. Len(cols[k]) /\ l <= ColSize(node[k])
        BY <2>2, <2>3
      <4> QED BY <4>1, <4>2
    <3> QED BY <3>1 DEF None
  <2>6. mu[k] = [l \in 1 .. iteration[k] |-> node[k]]
    <3>1. Len(mu[k]) = iteration[k] /\ \A l \in 1 .. iteration[k] : mu[k][l] = node[k]
      BY <2>1 DEF PivotInv
    <3>2. mu[k] \in Seq(Pairs) /\ iteration[k] \in Nat
      BY <2>2
    <3> QED BY <3>1, <3>2, AllEqual
  <2> QED BY <2>4, <2>5, <2>6
<1> QED BY <1>1, Invariance, PTL

\* In pools with MaxIter rows for each coordinate, every cross of every slot
\* is whole and the slot's own when it is read.
THEOREM CrossesStayOwn == Spec => []CrossesOwn
<1>1. IInv => CrossesOwn
  <2> SUFFICES ASSUME IInv, factor >= MaxIter, NEW k \in Slots, NEW l \in 0 .. iteration[k] - 1
               PROVE  /\ \A x \in CArea(k, l) :
                           x \in PoolRows /\ cPool[x] = Entry(node[k], cols[k][l + 1], l)
                      /\ \A x \in QArea(k, l) :
                           x \in PoolRows /\ qPool[x] = Entry(node[k], rows[k][l + 1], l)
    BY DEF CrossesOwn
  <2>1. TypeOK /\ SlotsInv /\ AreaInv /\ ContentInv
    BY DEF IInv
  <2>2. iteration[k] \in 0 .. MaxIter /\ MaxIter \in Nat
    BY <2>1, LeftFacts
  <2>3. l \in 0 .. MaxIter - 1
    BY <2>2
  <2>4. stage \notin {"install", "fit", "done"}
    BY <2>1 DEF SlotsInv, Slots
  <2>5. CArea(k, l) \subseteq PoolRows /\ QArea(k, l) \subseteq PoolRows
    BY <2>1, <2>3, <2>4, AreasFit
  <2>6. l \in 0 .. CCount(k) - 1 /\ l \in 0 .. QCount(k) - 1
    BY <2>2 DEF CCount, QCount
  <2> QED BY <2>1, <2>5, <2>6 DEF ContentInv
<1> QED BY <1>1, Invariance, PTL

\* The bisection ends at the longest batch that fits.
THEOREM BatchesAreLongest == Spec => []BatchIsLongest
<1>1. IInv => BatchIsLongest
  <2> SUFFICES ASSUME IInv, stage = "fit", Fits(workSize), upper - lower <= 1
               PROVE  \/ finished + workSize = PairCount
                      \/ workSize = MaxWorkSize
                      \/ ~Fits(workSize + 1)
    BY DEF BatchIsLongest, Met
  <2>1. TypeOK /\ SearchInv
    BY DEF IInv
  <2>2. /\ lower <= workSize /\ workSize <= upper /\ upper <= Limit
        /\ ~Fits(upper) \/ (upper = Limit /\ workSize = upper)
    BY <2>1 DEF SearchInv
  <2>3. lower \in Nat /\ workSize \in Nat /\ upper \in Nat
    BY <2>1, FarDotAssumption DEF TypeOK
  <2>4. CASE ~Fits(upper)
    <3>1. workSize # upper
      BY <2>4
    <3>2. upper = workSize + 1
      BY <2>2, <2>3, <3>1
    <3> QED BY <2>4, <3>2
  <2>5. CASE upper = Limit /\ workSize = upper
    BY <2>1, <2>5, LimitBounds
  <2> QED BY <2>2, <2>4, <2>5
<1> QED BY <1>1, Invariance, PTL

\* The rows, or columns, of different pairs are different running totals.
LEMMA QueriedFit ==
  ASSUME TypeOK, SlotsInv, NEW t, RunningTotal(t), NEW b \in 0 .. PairCount,
         b <= installed, \A k \in Slots : b < node[k],
         t[installed] - t[b] <= MaxRelativeCoord
  PROVE  Cardinality(Queried(t)) <= MaxRelativeCoord
<1> DEFINE Place(c) == t[node[c[1]] - 1] - t[b] + c[2]
           f == [c \in Queried(t) |-> Place(c)]
           room == t[installed] - t[b]
<1>1. installed \in 0 .. PairCount /\ room \in Nat
  <2>1. installed \in 0 .. PairCount
    BY DEF TypeOK
  <2> QED BY <2>1, TotalIncreases
<1>2. ASSUME NEW c \in Queried(t)
      PROVE  /\ c[1] \in Slots /\ c = <<c[1], c[2]>>
             /\ c[2] \in 1 .. t[node[c[1]]] - t[node[c[1]] - 1]
  <2>1. PICK k \in Slots : c \in {k} \X (1 .. t[node[k]] - t[node[k] - 1])
    BY DEF Queried
  <2> QED BY <2>1
<1>3. ASSUME NEW k \in Slots
      PROVE  /\ t[b] \in Nat /\ t[node[k] - 1] \in Nat /\ t[node[k]] \in Nat
             /\ t[b] <= t[node[k] - 1] /\ t[node[k]] <= t[installed] /\ t[installed] \in Nat
  <2>1. /\ node[k] \in Pairs /\ node[k] <= installed /\ b < node[k]
    BY <1>3, SlotFacts DEF SlotsInv
  <2>2. /\ node[k] \in 0 .. PairCount /\ node[k] - 1 \in 0 .. PairCount
        /\ b <= node[k] - 1
    BY <2>1, FarDotAssumption DEF Pairs
  <2>3. t[b] \in Nat /\ t[node[k] - 1] \in Nat /\ t[b] <= t[node[k] - 1]
    BY <2>2, TotalIncreases
  <2>4. t[node[k]] \in Nat /\ t[installed] \in Nat /\ t[node[k]] <= t[installed]
    BY <1>1, <2>1, <2>2, TotalIncreases
  <2> QED BY <2>3, <2>4
<1>4. ASSUME NEW k \in Slots, NEW l \in Slots, k < l
      PROVE  t[node[k]] <= t[node[l] - 1]
  <2>1. /\ node[k] \in Pairs /\ node[l] \in Pairs /\ node[k] < node[l]
    BY <1>4, SlotFacts DEF SlotsInv
  <2>2. /\ node[k] \in 0 .. PairCount /\ node[l] - 1 \in 0 .. PairCount
        /\ node[k] <= node[l] - 1
    BY <2>1, FarDotAssumption DEF Pairs
  <2> QED BY <2>2, TotalIncreases
<1>5. ASSUME NEW c \in Queried(t) PROVE f[c] \in 1 .. room
  <2>1. /\ c[1] \in Slots /\ c[2] \in 1 .. t[node[c[1]]] - t[node[c[1]] - 1]
    BY <1>2, <1>5
  <2>2. /\ t[b] \in Nat /\ t[node[c[1]] - 1] \in Nat /\ t[node[c[1]]] \in Nat
        /\ t[b] <= t[node[c[1]] - 1] /\ t[node[c[1]]] <= t[installed] /\ t[installed] \in Nat
    BY <1>3, <2>1
  <2>3. f[c] = t[node[c[1]] - 1] - t[b] + c[2]
    BY <1>5
  <2> HIDE DEF f
  <2> QED BY <2>1, <2>2, <2>3
<1>6. ASSUME NEW c \in Queried(t), NEW d \in Queried(t), c[1] < d[1] PROVE f[c] < f[d]
  <2>1. /\ c[1] \in Slots /\ c[2] \in 1 .. t[node[c[1]]] - t[node[c[1]] - 1]
        /\ d[1] \in Slots /\ d[2] \in 1 .. t[node[d[1]]] - t[node[d[1]] - 1]
    BY <1>2, <1>6
  <2>2. /\ t[b] \in Nat /\ t[node[c[1]] - 1] \in Nat /\ t[node[c[1]]] \in Nat
        /\ t[node[d[1]] - 1] \in Nat /\ t[node[d[1]]] \in Nat
    BY <1>3, <2>1
  <2>3. t[node[c[1]]] <= t[node[d[1]] - 1]
    BY <1>4, <1>6, <2>1
  <2>4. /\ f[c] = t[node[c[1]] - 1] - t[b] + c[2]
        /\ f[d] = t[node[d[1]] - 1] - t[b] + d[2]
    BY <1>6
  <2> HIDE DEF f
  <2> QED BY <2>1, <2>2, <2>3, <2>4
<1>7. ASSUME NEW c \in Queried(t), NEW d \in Queried(t), f[c] = f[d] PROVE c = d
  <2>1. /\ c[1] \in Nat /\ c = <<c[1], c[2]>> /\ c[2] \in Int /\ c[1] \in Slots
        /\ d[1] \in Nat /\ d = <<d[1], d[2]>> /\ d[2] \in Int
    BY <1>2, <1>7, SlotFacts
  <2>2. f[c] \in Int /\ f[d] \in Int
    BY <1>1, <1>5, <1>7
  <2>3. ~ (c[1] < d[1]) /\ ~ (d[1] < c[1])
    <3> HIDE DEF f
    <3> QED BY <1>6, <1>7, <2>2
  <2>4. c[1] = d[1]
    BY <2>1, <2>3
  <2>5. /\ f[c] = t[node[c[1]] - 1] - t[b] + c[2]
        /\ f[d] = t[node[d[1]] - 1] - t[b] + d[2]
    BY <1>7
  <2>6. t[b] \in Nat /\ t[node[c[1]] - 1] \in Nat
    BY <1>3, <2>1
  <2> HIDE DEF f
  <2>7. c[2] = d[2]
    <3> DEFINE low == t[node[c[1]] - 1] - t[b]
               x == c[2]
               y == d[2]
    <3>1. low \in Int /\ x \in Int /\ y \in Int
      BY <2>1, <2>6
    <3>2. low + x = low + y
      BY <1>7, <2>4, <2>5
    <3> HIDE DEF low, x, y
    <3>3. x = y
      BY <3>1, <3>2
    <3> QED BY <3>3 DEF x, y
  <2> QED BY <2>1, <2>4, <2>7
<1>8. f \in Injection(Queried(t), 1 .. room)
  <2>1. DOMAIN f = Queried(t) /\ f \in [Queried(t) -> 1 .. room]
    BY <1>5
  <2> HIDE DEF f
  <2> QED BY <2>1, <1>7 DEF Injection, IsInjective
<1>9. IsFiniteSet(1 .. room) /\ Cardinality(1 .. room) = room
  BY <1>1, IntervalCount
<1>10. IsFiniteSet(Queried(t)) /\ Cardinality(Queried(t)) <= room
  <2> HIDE DEF f, room
  <2> QED BY <1>8, <1>9, FS_Injection
<1>11. Cardinality(Queried(t)) \in Nat
  BY <1>10, FS_CardinalityType
<1> QED BY <1>1, <1>10, <1>11, FarDotAssumption

\* A batch is as long as it can be, and no longer: the coordinates of no pass
\* are more than the pool of relative coordinates holds.
THEOREM BatchesAreSized == Spec => []BatchSized
<1>1. IInv => CoordsFit
  <2> SUFFICES ASSUME IInv PROVE CoordsFit
    OBVIOUS
  <2>1. TypeOK /\ SlotsInv /\ AreaInv /\ CountersAgree
    BY DEF IInv
  <2>2. RunningTotal(shape.rows) /\ RunningTotal(shape.cols)
    BY <2>1, ShapeTotals
  <2>3. CASE stage \in {"install", "fit", "done"}
    <3>1. Slots = {}
      BY <2>1, <2>3, NoSlots
    <3>2. Queried(shape.rows) = {} /\ Queried(shape.cols) = {}
      BY <3>1 DEF Queried
    <3> QED BY <3>2, FS_EmptySet, FarDotAssumption DEF CoordsFit
  <2>4. CASE stage \notin {"install", "fit", "done"}
    <3>1. /\ Before \in 0 .. PairCount /\ Before <= installed
          /\ \A k \in Slots : Before < node[k]
          /\ shape.rows[installed] - shape.rows[Before] <= MaxRelativeCoord
          /\ shape.cols[installed] - shape.cols[Before] <= MaxRelativeCoord
      BY <2>1, <2>4, FarDotAssumption DEF AreaInv, TypeOK
    <3> QED BY <2>1, <2>2, <3>1, QueriedFit DEF CoordsFit
  <2> QED BY <2>3, <2>4
<1>2. []CoordsFit /\ []BatchIsLongest => []BatchSized
  <2>1. CoordsFit /\ BatchIsLongest => BatchSized
    BY DEF BatchSized
  <2> QED BY <2>1, PTL
<1> QED BY <1>1, <1>2, Invariance, BatchesAreLongest, PTL

\* FarDot implements ExactlyOnce: the pairs that leave the batch are added for
\* the first time, and nothing else is added.
THEOREM FarDotImplements == Spec => Implements
<1>1. Init => Promise!Init
  BY DEF Init, Promise!Init
<1>2. IInv /\ [Next]_vars => [Promise!Next]_added
  <2> SUFFICES ASSUME IInv, [Next]_vars PROVE [Promise!Next]_added
    OBVIOUS
  <2>1. ASSUME Retire PROVE Promise!Next
    <3>1. /\ added' \in [Pairs -> 0 .. 1] /\ \A p \in Pairs : added[p] <= added'[p]
      BY <2>1, RetireAdds
    <3>2. 0 .. 1 = {0, 1}
      OBVIOUS
    <3> QED BY <3>1, <3>2 DEF Promise!Next, Promise!AddBatch
  <2>2. ASSUME ~Retire PROVE UNCHANGED added
    BY <2>2
    DEF Next, Step, Stop, vars, StartBatch, Shrink, Grow, Install, QueryColumn, QueryRow,
        Crash, Test
  <2> QED BY <2>1, <2>2
<1> QED BY <1>1, <1>2, Invariance, PTL DEF Spec, Promise!Spec, Implements
=============================================================================
