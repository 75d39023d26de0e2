------------------------------ MODULE DenseDot ------------------------------
(***************************************************************************)
(* HignnModel::DenseDot: the mobility matrix as a whole, leaf by leaf, as  *)
(* the reference for the compressed product.  The leaves are split over    *)
(* the ranks.  A rank keeps an array of slots; each slot works on one leaf *)
(* and multiplies its row of blocks, one column per batch.  A slot that    *)
(* has done its row takes the leaf MaxWorkSize further on, and slots that  *)
(* find no leaf are removed.  In the end the velocities of all ranks are   *)
(* summed.                                                                 *)
(***************************************************************************)
EXTENDS Compaction, Sequences

CONSTANTS
  MPISize,           \* mMPISize
  LeafCount,         \* mLeafNodeList.size()
  BlockSize,         \* mBlockSize
  MaxRelativeCoord,  \* mMaxRelativeCoord
  LeafSizes          \* the sizes of the leaves: a set of [Leaves -> Nat \ {0}]

Ranks == 0 .. MPISize - 1
Leaves == 0 .. LeafCount - 1
Blocks == Leaves \X Leaves

ASSUME DenseAssumption ==
  /\ MPISize \in Nat \ {0} /\ LeafCount \in Nat
  /\ BlockSize \in Nat \ {0} /\ MaxRelativeCoord \in Nat
  /\ LeafSizes \subseteq [Leaves -> Nat \ {0}]

Smaller(a, b) == IF a < b THEN a ELSE b

\* The leaves LeafNodeStart(r) .. LeafNodeStart(r) + LeafNodeSize(r) - 1 are
\* rank r's: an even share, and one more for the first ranks.  The start is
\* the sum of the shares of the ranks before.
Share == LeafCount \div MPISize
Rest == LeafCount % MPISize
LeafNodeSize(r) == Share + (IF r < Rest THEN 1 ELSE 0)
LeafNodeStartUneven(r) == r * Share
LeafNodeStart(r) == r * Share + Smaller(r, Rest)

\* The slots of a rank, and what the pool of its batches has room for.
PoolLeaves == MaxRelativeCoord \div (BlockSize * BlockSize)
MaxWorkSize(r) == Smaller(LeafNodeSize(r), PoolLeaves)
PoolSizeOfRow(r) == MaxWorkSize(r) * BlockSize
PoolSize(r) == MaxWorkSize(r) * BlockSize * BlockSize

VARIABLES
  stage,        \* stage[r]: "dot", "reduce", "done", or "crashed"
  workingNode,  \* workingNode[r]: the leaf of each slot, counted from the
                \* rank's first leaf; its length is workSize
  nodeOffset,   \* nodeOffset[r][n]: the column the n-th leaf of r is at
  leafSize,     \* leafSize[i]: the particles of leaf i
  added         \* added[i, j]: how often block (i, j) was added to the u of
                \* the ranks, counted up to CountBound

\* More than once is wrong however often: the count stops there.
CountBound == 2

vars == <<stage, workingNode, nodeOffset, leafSize, added>>

Slots(r) == DOMAIN workingNode[r]

Init ==
  /\ stage = [r \in Ranks |-> "dot"]
  /\ workingNode = [r \in Ranks |-> [k \in 1 .. MaxWorkSize(r) |-> k - 1]]
  /\ nodeOffset = [r \in Ranks |-> [n \in Leaves |-> 0]]
  /\ leafSize \in LeafSizes
  /\ added = [b \in Blocks |-> 0]

\* The block a slot multiplies.
Block(r, k) ==
  <<LeafNodeStart(r) + workingNode[r][k], nodeOffset[r][workingNode[r][k]]>>

\* The relative coordinates of a batch, one for each pair of particles of each
\* slot's block, and whether they are more than the pool has room for.
Coords(r) ==
  UNION {{k} \X ((1 .. leafSize[Block(r, k)[1]]) \X (1 .. leafSize[Block(r, k)[2]])) :
           k \in Slots(r)}
Overruns(r) == Cardinality(Coords(r)) > PoolSize(r)

\* The columns of the rank's leaves after the batch, and the leaves of the
\* slots: one that has done its row goes on to another leaf.
AdvancedOffsetStuck(r) == nodeOffset[r]

AdvancedOffset(r) ==
  [n \in Leaves |->
     IF \E k \in Slots(r) : workingNode[r][k] = n
     THEN nodeOffset[r][n] + 1 ELSE nodeOffset[r][n]]

AdvancedNode(r, k) ==
  IF nodeOffset[r][workingNode[r][k]] + 1 = LeafCount
  THEN workingNode[r][k] + MaxWorkSize(r) ELSE workingNode[r][k]

\* The slots that still have a leaf of the rank.
KeptUnfinished(r) ==
  {k \in Slots(r) : nodeOffset[r][workingNode[r][k]] + 1 # LeafCount}
KeptOneTooMany(r) == {k \in Slots(r) : AdvancedNode(r, k) <= LeafNodeSize(r)}
Kept(r) == {k \in Slots(r) : AdvancedNode(r, k) < LeafNodeSize(r)}

\* One batch: every slot multiplies its block, moves on to the next column or
\* the next leaf, and slots without a leaf are removed.
Batch(r) ==
  /\ stage[r] = "dot" /\ Slots(r) # {}
  /\ added' = [b \in Blocks |->
       Smaller(CountBound,
               added[b] + Cardinality({k \in Slots(r) : Block(r, k) = b}))]
  /\ nodeOffset' = [nodeOffset EXCEPT ![r] = AdvancedOffset(r)]
  /\ workingNode' = [workingNode EXCEPT ![r] =
       Compacted([k \in Slots(r) |-> AdvancedNode(r, k)], Kept(r))]
  /\ UNCHANGED <<stage, leafSize>>

\* Filling the pool past its end is undefined: the ranks may go on or stop.
Crash(r) ==
  /\ stage[r] = "dot" /\ Slots(r) # {} /\ Overruns(r)
  /\ stage' = [s \in Ranks |-> "crashed"]
  /\ UNCHANGED <<workingNode, nodeOffset, leafSize, added>>

\* No slot is left: the rank is done and waits for the others.
Return(r) ==
  /\ stage[r] = "dot" /\ Slots(r) = {}
  /\ stage' = [stage EXCEPT ![r] = "reduce"]
  /\ UNCHANGED <<workingNode, nodeOffset, leafSize, added>>

\* MPI_Allreduce sums the velocities when every rank has its own.
Reduce ==
  /\ \A r \in Ranks : stage[r] = "reduce"
  /\ stage' = [r \in Ranks |-> "done"]
  /\ UNCHANGED <<workingNode, nodeOffset, leafSize, added>>

Stop == (\A r \in Ranks : stage[r] \in {"done", "crashed"}) /\ UNCHANGED vars

RankStep(r) == Batch(r) \/ Crash(r) \/ Return(r)
Next == (\E r \in Ranks : RankStep(r)) \/ Reduce \/ Stop

\* A rank runs until it waits in the reduction, which completes when all of
\* them have entered it.
Fairness == (\A r \in Ranks : WF_vars(RankStep(r))) /\ WF_vars(Reduce)
Spec == Init /\ [][Next]_vars /\ Fairness

-----------------------------------------------------------------------------
\* The variables have their types: no slot works on a leaf of another rank or
\* on a column past the last, wherever the compaction has moved it.
TypeOK ==
  /\ stage \in [Ranks -> {"dot", "reduce", "done", "crashed"}]
  /\ leafSize \in LeafSizes
  /\ nodeOffset \in [Ranks -> [Leaves -> 0 .. LeafCount]]
  /\ workingNode \in [Ranks -> Seq(Leaves)]
  /\ \A r \in Ranks :
       /\ Len(workingNode[r]) <= MaxWorkSize(r)
       /\ \A k \in Slots(r) : /\ workingNode[r][k] < LeafNodeSize(r)
                              /\ nodeOffset[r][workingNode[r][k]] < LeafCount
  /\ added \in [Blocks -> 0 .. CountBound]

\* No block is added twice, although the slots of all ranks choose their
\* leaves and columns on their own and are moved while they do.
NoBlockTwice == \A b \in Blocks : added[b] <= 1

\* "All pairwise interactions are processed" (include/HignnModel.hpp:396):
\* when DenseDot returns, every block was added exactly once.
AllProcessed ==
  (\A r \in Ranks : stage[r] = "done") => \A b \in Blocks : added[b] = 1

\* As long as no leaf is larger than a block the pool of a rank is never
\* overrun, however the slots are spread over the leaves.
PoolSuffices ==
  (\A i \in Leaves : leafSize[i] <= BlockSize) =>
    \A r \in Ranks : stage[r] = "dot" => ~Overruns(r)

\* DenseDot adds each block once, in batches, as ExactlyOnce says.
Promise == INSTANCE ExactlyOnce WITH Blocks <- Blocks
Implements == Promise!Spec

\* DenseDot returns on all ranks: no slot takes leaves for ever.
Returns == <>(\A r \in Ranks : stage[r] \in {"done", "crashed"})
=============================================================================
