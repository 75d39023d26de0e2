---------------------------- MODULE PostCheckDot ----------------------------
(***************************************************************************)
(* HignnModel::PostCheckDot: after the compressed product and its          *)
(* reduction the ranks compute the dense product once more, by the same    *)
(* slots and batches as DenseDot, into velocities of their own             *)
(* (uPostCheck), sum them, and compare the two.                            *)
(*                                                                         *)
(* "added" counts the blocks in uPostCheck; the velocities to be checked   *)
(* are given as the number of times each block is in them.                 *)
(***************************************************************************)
EXTENDS DenseDot

CONSTANT Products  \* the velocities to be checked: a set of [Blocks -> Nat]

ASSUME PostAssumption == Products \subseteq [Blocks -> Nat]

VARIABLES
  inU,    \* inU[b]: how often block b is in u
  report  \* report[r]: the quotient of the norms: "none" before it is
          \* computed, "zero", "positive" or "undefined" for a zero divisor

postVars == <<vars, inU, report>>

PostInit ==
  /\ Init
  /\ inU \in Products
  /\ report = [r \in Ranks |-> "none"]

\* The products of one batch, added to uPostCheck.
PostMultiply(r) ==
  added' = [b \in Blocks |->
    Smaller(CountBound, added[b] + Cardinality({k \in Slots(r) : Block(r, k) = b}))]

\* The slots after the batch: the next column, or the next leaf of the rank,
\* and no slot without a leaf.
PostMoveOn(r) ==
  /\ nodeOffset' = [nodeOffset EXCEPT ![r] = AdvancedOffset(r)]
  /\ workingNode' = [workingNode EXCEPT ![r] =
       Compacted([k \in Slots(r) |-> AdvancedNode(r, k)], Kept(r))]

PostBatch(r) ==
  /\ stage[r] = "dot" /\ Slots(r) # {}
  /\ PostMultiply(r) /\ PostMoveOn(r)
  /\ UNCHANGED <<stage, leafSize, inU, report>>

\* The pool is overrun, or no slot is left: as in DenseDot.
PostLeave(r) == (Crash(r) \/ Return(r)) /\ UNCHANGED <<inU, report>>

PostReduce == Reduce /\ UNCHANGED <<inU, report>>

\* The sums of squares: of uPostCheck, and of its difference from u.
NormIsZero == \A b \in Blocks : added[b] = 0
DifferenceIsZero == \A b \in Blocks : added[b] = inU[b]

\* A rank compares when the reduction has given it the sum over all ranks.
IsReducedEarly(r) == stage[r] \in {"reduce", "done"}
IsReduced(r) == stage[r] = "done"

Compare(r) ==
  /\ IsReduced(r) /\ report[r] = "none"
  /\ report' = [report EXCEPT ![r] =
       IF NormIsZero THEN "undefined" ELSE IF DifferenceIsZero THEN "zero" ELSE "positive"]
  /\ UNCHANGED <<vars, inU>>

PostStop ==
  /\ \A r \in Ranks : stage[r] = "crashed" \/ report[r] # "none"
  /\ UNCHANGED postVars

PostRankStep(r) == PostBatch(r) \/ PostLeave(r) \/ Compare(r)
PostNext == (\E r \in Ranks : PostRankStep(r)) \/ PostReduce \/ PostStop

\* As in DenseDot.
PostFairness ==
  /\ \A r \in Ranks : WF_postVars(PostRankStep(r))
  /\ WF_postVars(PostReduce)
PostSpec == PostInit /\ [][PostNext]_postVars /\ PostFairness

-----------------------------------------------------------------------------
\* The number rank 0 prints can be trusted: with room for a block it is zero
\* if and only if the checked velocities have each block exactly once, though
\* it is computed from the ranks' own slots, each at its own pace, and every
\* rank finds the same.
ReportTruthful ==
  PoolLeaves > 0 /\ LeafCount > 0 =>
    \A r \in Ranks :
      report[r] # "none" =>
        report[r] = IF \A b \in Blocks : inU[b] = 1 THEN "zero" ELSE "positive"
=============================================================================
