------------------------------- MODULE FarDot -------------------------------
(***************************************************************************)
(* HignnModel::FarDot on one rank: each far pair of nodes is a block of    *)
(* the mobility matrix that is approximated by crosses (adaptive cross     *)
(* approximation) and multiplied with the forces.                          *)
(*                                                                         *)
(* Pairs are worked on in batches.  A pair of the batch has a slot in      *)
(* parallel arrays, and two runs of areas in the pools, one per iteration. *)
(* In each pass of the loop every slot gets one more cross: a column of    *)
(* the block into the C pool, a row into the Q pool, each less the crosses *)
(* found before.  Pairs that have converged are multiplied and leave the   *)
(* batch, and the slots of the others move up in all arrays.  The next     *)
(* batch starts when the last pair has left.                               *)
(*                                                                         *)
(* The numbers are left out: any row or column that was not a pivot can be *)
(* the next one, and a pair may converge at any test.  The product of a    *)
(* pair stands for that of its mirror image too (mUseSymmetry).  Sums of   *)
(* node sizes are taken to fit in an int, and determinants to be numbers.  *)
(***************************************************************************)
EXTENDS Compaction, Sequences

CONSTANTS
  PairCount,         \* farNodeSize
  Shapes,            \* the lists of far pairs, as running totals of the rows
                     \* and of the columns of their blocks
  MaxWorkSize,       \* maxWorkNodeSize (mMaxFarDotWorkNodeSize)
  MaxRelativeCoord,  \* mMaxRelativeCoord
  MaxIter,           \* mMaxIter
  Factors            \* the values of mMatPoolSizeFactor

Pairs == 1 .. PairCount

\* Nodes are not empty, so a block has a row and a column.
RunningTotal(t) ==
  /\ t \in [0 .. PairCount -> Nat]
  /\ \A j, k \in 0 .. PairCount : j < k => t[j] < t[k]

ASSUME FarDotAssumption ==
  /\ PairCount \in Nat /\ MaxWorkSize \in Nat \ {0}
  /\ MaxRelativeCoord \in Nat /\ MaxIter \in Nat \ {0}
  /\ Factors \subseteq Nat
  /\ \A s \in Shapes : RunningTotal(s.rows) /\ RunningTotal(s.cols)

VARIABLES
  shape,         \* shape.rows[k], shape.cols[k]: rows, columns of k pairs
  factor,        \* mMatPoolSizeFactor, as set before the call
  stage,         \* what the loop does next: "install", "fit", "column",
                 \* "row", "test", "dot"; or "done", or "crashed"
  installed,     \* installedNode
  finished,      \* finishedNodeSize
  workSize,      \* workNodeSize while the batch is being chosen
  lower, upper,  \* lowerWorkNodeSize, upperWorkNodeSize
  innerNumIter,  \* innerNumIter
  stopped,       \* the slots with stopNode = -1
  node,          \* node[k]: workingNode, the pair in slot k
  iteration,     \* iteration[k]: workingNodeIteration
  cOffset,       \* cOffset[k][l]: workingNodeCMatOffset
  qOffset,       \* qOffset[k][l]: workingNodeQMatOffset
  cols,          \* cols[k][l + 1]: workingNodeSelectedColIdx(k, l)
  rows,          \* rows[k][l + 1]: workingNodeSelectedRowIdx(k, l)
  mu,            \* mu[k]: the pairs whose nu2 was added to mu2(k)
  cPool, qPool,  \* the crosses in the rows of cMatPool and qMatPool
  added          \* added[p]: how often pair p was added to u

inputVars == <<shape, factor>>
searchVars == <<workSize, lower, upper>>
slotVars == <<node, iteration, cOffset, qOffset, cols, rows, mu>>
poolVars == <<cPool, qPool>>
vars == <<inputVars, stage, installed, finished, searchVars, innerNumIter,
          stopped, slotVars, poolVars, added>>

Smaller(a, b) == IF a < b THEN a ELSE b
Larger(a, b) == IF a > b THEN a ELSE b

Slots == DOMAIN node
RowSize(p) == shape.rows[p] - shape.rows[p - 1]
ColSize(p) == shape.cols[p] - shape.cols[p - 1]

\* matPoolSize: the rows of a pool.
PoolRows == 0 .. MaxRelativeCoord * factor - 1

\* What a row of a pool holds: the part of a cross of a pair with this pivot,
\* less the parts of so many crosses; Blank at first.
Entry(p, pivot, less) == [pair |-> p, pivot |-> pivot, less |-> less]
Blank == Entry(0, 0, 0)

Init ==
  /\ shape \in Shapes /\ factor \in Factors
  /\ stage = "install" /\ installed = 0 /\ finished = 0
  /\ workSize = 0 /\ lower = 0 /\ upper = 0
  /\ innerNumIter = 0 /\ stopped = {}
  /\ node = <<>> /\ iteration = <<>> /\ cOffset = <<>> /\ qOffset = <<>>
  /\ cols = <<>> /\ rows = <<>> /\ mu = <<>>
  /\ cPool = [x \in PoolRows |-> Blank] /\ qPool = [x \in PoolRows |-> Blank]
  /\ added = [p \in Pairs |-> 0]

-----------------------------------------------------------------------------
(* A new batch: as many of the next pairs as the coordinates have room for *)

\* The rows, or columns, of the next n pairs.
Ahead(total, n) == total[installed + n] - total[installed]
EstimatedRows(n) == Ahead(shape.rows, n)
Estimated(n) == Larger(Ahead(shape.rows, n), Ahead(shape.cols, n))
Fits(n) == Estimated(n) <= MaxRelativeCoord

StartBatch ==
  /\ stage = "install"
  /\ workSize' = Smaller(PairCount - finished, MaxWorkSize)
  /\ lower' = 0 /\ upper' = workSize'
  /\ stage' = "fit"
  /\ UNCHANGED <<inputVars, installed, finished, innerNumIter, stopped, slotVars,
                 poolVars, added>>

MetExactly == upper = lower
Met == upper - lower <= 1

Shrink ==
  /\ stage = "fit" /\ ~Fits(workSize)
  /\ upper' = workSize
  /\ workSize' = (workSize + lower) \div 2
  /\ UNCHANGED <<inputVars, stage, installed, finished, lower, innerNumIter,
                 stopped, slotVars, poolVars, added>>

Grow ==
  /\ stage = "fit" /\ Fits(workSize) /\ ~Met
  /\ lower' = workSize
  /\ workSize' = (upper + workSize) \div 2
  /\ UNCHANGED <<inputVars, stage, installed, finished, upper, innerNumIter,
                 stopped, slotVars, poolVars, added>>

\* The areas of slot k: MaxIter of the size of its node, after those of the
\* slots before it.
OffsetsPacked(total, k) ==
  [l \in 0 .. MaxIter - 1 |->
     Ahead(total, k - 1) + (total[installed + k] - total[installed + k - 1]) * l]
Offsets(total, k) ==
  [l \in 0 .. MaxIter - 1 |->
     Ahead(total, k - 1) * MaxIter
       + (total[installed + k] - total[installed + k - 1]) * l]

\* The bisection keeps the length it has tried last, which may be zero.
Install ==
  /\ stage = "fit" /\ Fits(workSize) /\ Met
  /\ LET batch == 1 .. workSize IN
       /\ node' = [k \in batch |-> installed + k]
       /\ iteration' = [k \in batch |-> 0]
       /\ cols' = [k \in batch |-> <<ColSize(installed + k) \div 2>>]
       /\ rows' = [k \in batch |-> <<>>]
       /\ mu' = [k \in batch |-> <<>>]
       /\ cOffset' = [k \in batch |-> Offsets(shape.rows, k)]
       /\ qOffset' = [k \in batch |-> Offsets(shape.cols, k)]
  /\ installed' = installed + workSize
  /\ stage' = "column"
  /\ UNCHANGED <<inputVars, finished, searchVars, innerNumIter, stopped, poolVars,
                 added>>

-----------------------------------------------------------------------------
(* One more cross for every slot *)

\* The rows of a pool that a column, or a row, of the block is written to.
CArea(k, l) == cOffset[k][l] .. cOffset[k][l] + RowSize(node[k]) - 1
QArea(k, l) == qOffset[k][l] .. qOffset[k][l] + ColSize(node[k]) - 1

\* The pool after every slot has written its entry to its area; what would be
\* past the end of the pool is not in it.
Written(pool, area, entry) ==
  [x \in PoolRows |->
     IF \E k \in Slots : x \in area[k]
     THEN entry[CHOOSE k \in Slots : x \in area[k]] ELSE pool[x]]

\* The pivots a slot can choose: rows and columns it has not chosen yet.  None
\* is what the search returns if there is no candidate, as for the column after
\* the last cross of a block.
None == -1
OrNone(free) == IF free = {} THEN {None} ELSE free
FreeRows(k) ==
  OrNone({i \in 0 .. RowSize(node[k]) - 1 :
            \A l \in 1 .. iteration[k] : rows[k][l] # i})
FreeCols(k) ==
  OrNone({j \in 0 .. ColSize(node[k]) - 1 :
            \A l \in 1 .. iteration[k] + 1 : cols[k][l] # j})

Chosen(free) ==
  {pivot \in [Slots -> UNION {free[k] : k \in Slots}] :
     \A k \in Slots : pivot[k] \in free[k]}

\* The columns of the pivots, less the crosses before, and the next row.  The
\* crosses are counted by innerNumIter, the areas by the slot's iteration.
QueryColumn ==
  /\ stage = "column"
  /\ innerNumIter' = innerNumIter + 1
  /\ cPool' = Written(cPool, [k \in Slots |-> CArea(k, iteration[k])],
                [k \in Slots |-> Entry(node[k], cols[k][iteration[k] + 1],
                                       innerNumIter)])
  /\ \E pivot \in Chosen([k \in Slots |-> FreeRows(k)]) :
       rows' = [k \in Slots |-> Append(rows[k], pivot[k])]
  /\ stage' = "row"
  /\ UNCHANGED <<inputVars, installed, finished, searchVars, stopped, node,
                 iteration, cOffset, qOffset, cols, mu, qPool, added>>

\* The rows of the pivots, less the crosses before, and the next column.  The
\* column of the last possible iteration is stored past the end of its array
\* (FarDot.cpp:877), where nothing reads it.
QueryRow ==
  /\ stage = "row"
  /\ qPool' = Written(qPool, [k \in Slots |-> QArea(k, iteration[k])],
                [k \in Slots |-> Entry(node[k], rows[k][iteration[k] + 1],
                                       innerNumIter - 1)])
  /\ \E pivot \in Chosen([k \in Slots |-> FreeCols(k)]) :
       cols' = [k \in Slots |-> Append(cols[k], pivot[k])]
  /\ stage' = "test"
  /\ UNCHANGED <<inputVars, installed, finished, searchVars, innerNumIter, stopped,
                 node, iteration, cOffset, qOffset, rows, mu, cPool, added>>

\* Writing past the end of a pool is undefined: the rank may go on or stop.
Overruns ==
  \E k \in Slots :
    \/ stage = "column" /\ ~(CArea(k, iteration[k]) \subseteq PoolRows)
    \/ stage = "row" /\ ~(QArea(k, iteration[k]) \subseteq PoolRows)

Crash ==
  /\ Overruns
  /\ stage' = "crashed"
  /\ UNCHANGED <<inputVars, installed, finished, searchVars, innerNumIter, stopped,
                 slotVars, poolVars, added>>

-----------------------------------------------------------------------------
(* The end of a pass: converged pairs are multiplied and leave the batch *)

\* The slots that have to stop after this cross.
ExhaustedByIter == {k \in Slots : iteration[k] + 1 >= MaxIter}
Exhausted ==
  {k \in Slots : \/ iteration[k] + 1 >= MaxIter
                 \/ iteration[k] + 1 >= Smaller(RowSize(node[k]), ColSize(node[k]))}

Test ==
  /\ stage = "test"
  /\ mu' = [k \in Slots |-> Append(mu[k], node[k])]
  /\ iteration' = [k \in Slots |-> iteration[k] + 1]
  /\ \E converged \in SUBSET Slots : stopped' = converged \cup Exhausted
  /\ stage' = "dot"
  /\ UNCHANGED <<inputVars, installed, finished, searchVars, innerNumIter, node,
                 cOffset, qOffset, cols, rows, poolVars, added>>

\* The pairs that are multiplied with the forces: those of the stopped slots.
DottedAll == {node[k] : k \in Slots}
Dotted == {node[k] : k \in stopped}

\* The slots that stay, and the column pivots after they have moved up.
KeptLazy ==
  IF 2 * Cardinality(Slots \ stopped) > Cardinality(Slots)
  THEN Slots ELSE Slots \ stopped
Kept == Slots \ stopped
MovedColsShort ==
  [k \in 1 .. Cardinality(Kept) |->
     Append(SubSeq(cols[Source(Kept, k)], 1, innerNumIter), cols[k][innerNumIter + 1])]
MovedCols == Compacted(cols, Kept)

\* finishedNodeSize and innerNumIter after the pass.
FinishedAfter == finished + Cardinality(stopped)
InnerNumIterAfter == IF Kept = {} THEN 0 ELSE innerNumIter

Retire ==
  /\ stage = "dot"
  /\ added' = [p \in Pairs |-> IF p \in Dotted THEN added[p] + 1 ELSE added[p]]
  /\ node' = Compacted(node, Kept)
  /\ iteration' = Compacted(iteration, Kept)
  /\ cOffset' = Compacted(cOffset, Kept)
  /\ qOffset' = Compacted(qOffset, Kept)
  /\ cols' = MovedCols
  /\ rows' = Compacted(rows, Kept)
  /\ mu' = Compacted(mu, Kept)
  /\ finished' = FinishedAfter
  /\ innerNumIter' = InnerNumIterAfter
  /\ stopped' = {}
  /\ stage' = IF finished' = PairCount THEN "done"
              ELSE IF Kept = {} THEN "install" ELSE "column"
  /\ UNCHANGED <<inputVars, installed, searchVars, poolVars>>

Stop == stage \in {"done", "crashed"} /\ UNCHANGED vars

Step ==
  \/ StartBatch \/ Shrink \/ Grow \/ Install
  \/ QueryColumn \/ QueryRow \/ Crash \/ Test \/ Retire
Next == Step \/ Stop

\* Sequential code: while it has a step to take, it takes it.
Spec == Init /\ [][Next]_vars /\ WF_vars(Step)

-----------------------------------------------------------------------------
\* The variables have their types: the slots are pairs of the list, and the
\* arrays have as many entries as there are slots.
TypeOK ==
  /\ shape \in Shapes /\ factor \in Factors
  /\ stage \in {"install", "fit", "column", "row", "test", "dot", "done",
                "crashed"}
  /\ installed \in 0 .. PairCount /\ finished \in 0 .. PairCount
  /\ workSize \in 0 .. PairCount /\ lower \in 0 .. PairCount
  /\ upper \in 0 .. PairCount
  /\ innerNumIter \in 0 .. MaxIter
  /\ node \in Seq(Pairs) /\ Len(node) <= MaxWorkSize
  /\ stopped \subseteq Slots
  /\ iteration \in [Slots -> 0 .. MaxIter]
  /\ cOffset \in [Slots -> [0 .. MaxIter - 1 -> Nat]]
  /\ qOffset \in [Slots -> [0 .. MaxIter - 1 -> Nat]]
  /\ cols \in [Slots -> Seq(Nat \cup {None})]
  /\ rows \in [Slots -> Seq(Nat)]
  /\ mu \in [Slots -> Seq(Pairs)]
  /\ added \in [Pairs -> 0 .. 1]

\* A pair is added to the velocities when it leaves the batch and only then,
\* and finishedNodeSize counts these pairs, however the slots have moved.
AddedOnLeaving ==
  /\ \A p \in Pairs :
       added[p] = IF p <= installed /\ \A k \in Slots : node[k] # p THEN 1 ELSE 0
  /\ finished = installed - Len(node)

\* All slots of a batch are at the same iteration: FarDot counts the crosses
\* of every slot with the one counter innerNumIter.
Lockstep ==
  stage # "crashed" => \A k \in Slots :
    iteration[k] = IF stage \in {"row", "test"} THEN innerNumIter - 1 ELSE innerNumIter

\* The counters of the whole batch speak for each of its slots: innerNumIter
\* for their crosses, installedNode and finishedNodeSize for their pairs.
CountersAgree == Lockstep /\ AddedOnLeaving

\* Every cross of a slot is there, whole and its own, when FarDot reads it for
\* the next cross or the product: the column of the pivot, the row of the
\* pivot, each less the crosses before it, if the pools are large enough.
CrossesOwn ==
  factor >= MaxIter =>
    \A k \in Slots : \A l \in 0 .. iteration[k] - 1 :
      /\ \A x \in CArea(k, l) :
           x \in PoolRows /\ cPool[x] = Entry(node[k], cols[k][l + 1], l)
      /\ \A x \in QArea(k, l) :
           x \in PoolRows /\ qPool[x] = Entry(node[k], rows[k][l + 1], l)

\* No row and no column of a block is the pivot of two of its crosses, and
\* mu2 of a slot is the sum over the crosses of its own pair.
PivotsDiffer ==
  \A k \in Slots :
    /\ \A l, m \in 1 .. iteration[k] :
         l # m => rows[k][l] # rows[k][m] /\ cols[k][l] # cols[k][m]
    /\ \A l \in 1 .. iteration[k] : cols[k][l] # None
    /\ mu[k] = [l \in 1 .. iteration[k] |-> node[k]]

\* The coordinates a pass asks the model about, one for each row, or column, of
\* the blocks in the batch (relativeCoordSize).
Queried(total) ==
  UNION {{k} \X (1 .. total[node[k]] - total[node[k] - 1]) : k \in Slots}

\* They fit in the pool of relative coordinates, for rows and for columns,
\* although the batch was measured before its pairs were queried.
CoordsFit ==
  /\ Cardinality(Queried(shape.rows)) <= MaxRelativeCoord
  /\ Cardinality(Queried(shape.cols)) <= MaxRelativeCoord

\* The bisection of FarDot wastes nothing: a batch is the rest of the list, or
\* of MaxWorkSize pairs, or one pair more would not fit.
BatchIsLongest ==
  stage = "fit" /\ Fits(workSize) /\ Met =>
    \/ finished + workSize = PairCount
    \/ workSize = MaxWorkSize
    \/ ~Fits(workSize + 1)

\* A batch is as long as it can be, and no longer.
BatchSized == CoordsFit /\ BatchIsLongest

\* FarDot adds each far pair once, in batches, as ExactlyOnce says.
Promise == INSTANCE ExactlyOnce WITH Blocks <- Pairs
Implements == Promise!Spec

\* FarDot returns with all pairs added, unless it wrote past a pool, if each
\* pair has room in the relative coordinates on its own (CloseFarCheck makes
\* them so); for a pair that has not, FarDot installs empty batches for ever.
PairFits(p) == RowSize(p) <= MaxRelativeCoord /\ ColSize(p) <= MaxRelativeCoord
Completes ==
  (\A p \in Pairs : PairFits(p)) => Promise!Complete \/ <>(stage = "crashed")

\* "Offset in cMatPool for each working node and each iteration" and the same
\* for qMatPool (src/FarDot.cpp:104-109): the offsets are in the pools.
OffsetsInPool ==
  \A k \in Slots : \A l \in 0 .. MaxIter - 1 :
    cOffset[k][l] \in PoolRows /\ qOffset[k][l] \in PoolRows
=============================================================================
