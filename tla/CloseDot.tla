------------------------------ MODULE CloseDot ------------------------------
(***************************************************************************)
(* HignnModel::CloseDot on one rank: the close pairs the rank was dealt    *)
(* are multiplied in batches.  A batch takes at most MaxWorkSize pairs,    *)
(* and a bisection makes it as long as its relative coordinates fit in the *)
(* pool of MaxRelativeCoord; a batch is never empty.                       *)
(*                                                                         *)
(* A pair is abstracted to the number of its entries.  The pairs come as   *)
(* running totals: total[k] entries are in the first k pairs.              *)
(***************************************************************************)
EXTENDS Integers

CONSTANTS
  PairCount,         \* closeNodeSize
  Lists,             \* the lists of close pairs, as running totals
  MaxWorkSize,       \* maxWorkSize (1000 in the code)
  MaxRelativeCoord,  \* mMaxRelativeCoord
  IntMax             \* the largest int (2^31 - 1 in the code)

Pairs == 1 .. PairCount

\* Nodes are not empty, so every pair has an entry.
ASSUME CloseDotAssumption ==
  /\ PairCount \in Nat /\ MaxWorkSize \in Nat \ {0}
  /\ MaxRelativeCoord \in Nat /\ IntMax \in Nat
  /\ \A t \in Lists :
       /\ t \in [0 .. PairCount -> Nat]
       /\ \A j, k \in 0 .. PairCount : j < k => t[j] < t[k]

VARIABLES
  total,      \* total[k]: sum of nodeI size * nodeJ size over k pairs
  stage,      \* "next": the outer loop, "fit": the bisection, "multiply",
              \* "done", or "crashed" after a write past the pool
  finished,   \* finishedNodeSize
  workSize,   \* workSize
  lower,      \* lowerWorkSize
  upper,      \* upperWorkSize
  added       \* added[k]: how often pair k was added to u

vars == <<total, stage, finished, workSize, lower, upper, added>>

\* The entries of the next n pairs, and the int the code counts them in.
Workload(n) == total[finished + n] - total[finished]
Wrapped(x) == ((x + IntMax + 1) % (2 * IntMax + 2)) - (IntMax + 1)
Fits(n) == Wrapped(Workload(n)) <= MaxRelativeCoord

Smaller(a, b) == IF a < b THEN a ELSE b
Larger(a, b) == IF a > b THEN a ELSE b
Midpoint(a, b) == (a + b) \div 2

Init ==
  /\ total \in Lists
  /\ stage = "next" /\ finished = 0
  /\ workSize = Smaller(MaxWorkSize, PairCount)
  /\ lower = 0 /\ upper = 0
  /\ added = [k \in Pairs |-> 0]

StartBatch ==
  /\ stage = "next" /\ finished < PairCount
  /\ workSize' = Smaller(MaxWorkSize, PairCount - finished)
  /\ lower' = 0 /\ upper' = workSize'
  /\ stage' = "fit"
  /\ UNCHANGED <<total, finished, added>>

\* The bisection has met: the longest length that fits is lower.
Met == upper - lower <= 1

\* One turn of the bisection.
Shrink ==
  /\ stage = "fit" /\ ~Fits(workSize)
  /\ upper' = workSize
  /\ workSize' = Midpoint(lower, workSize)
  /\ UNCHANGED <<total, stage, finished, lower, added>>

Grow ==
  /\ stage = "fit" /\ Fits(workSize) /\ ~Met
  /\ lower' = workSize
  /\ workSize' = Midpoint(workSize, upper)
  /\ UNCHANGED <<total, stage, finished, upper, added>>

\* The length the bisection settles for; a batch is never empty.
SettledEmpty == lower
SettledAbove == Larger(1, upper)
Settled == Larger(1, lower)

Settle ==
  /\ stage = "fit" /\ Fits(workSize) /\ Met
  /\ workSize' = Settled
  /\ stage' = "multiply"
  /\ UNCHANGED <<total, finished, lower, upper, added>>

\* The next pairs that are multiplied, in a batch of n.
BatchFromLast(n) == finished .. finished + n
Batch(n) == finished + 1 .. finished + n

\* Fill the pool, query the model and add the products of the batch to u.
Multiply ==
  /\ stage = "multiply"
  /\ added' = [k \in Pairs |-> IF k \in Batch(workSize) THEN added[k] + 1 ELSE added[k]]
  /\ finished' = finished + workSize
  /\ stage' = "next"
  /\ UNCHANGED <<total, workSize, lower, upper>>

\* Filling the pool past its end is undefined: the rank may go on or stop.
Overruns(n) == Workload(n) > MaxRelativeCoord

Crash ==
  /\ stage = "multiply" /\ Overruns(workSize)
  /\ stage' = "crashed"
  /\ UNCHANGED <<total, finished, workSize, lower, upper, added>>

Finish ==
  /\ stage = "next" /\ finished >= PairCount
  /\ stage' = "done"
  /\ UNCHANGED <<total, finished, workSize, lower, upper, added>>

Stop == stage \in {"done", "crashed"} /\ UNCHANGED vars

Step == StartBatch \/ Shrink \/ Grow \/ Settle \/ Multiply \/ Crash \/ Finish
Next == Step \/ Stop

\* Sequential code: while it has a step to take, it takes it.
Spec == Init /\ [][Next]_vars /\ WF_vars(Step)

-----------------------------------------------------------------------------
\* The variables have their types: no counter of CloseDot leaves the list.
TypeOK ==
  /\ total \in Lists
  /\ stage \in {"next", "fit", "multiply", "done", "crashed"}
  /\ finished \in 0 .. PairCount
  /\ workSize \in 0 .. PairCount
  /\ lower \in 0 .. PairCount
  /\ upper \in 0 .. PairCount
  /\ added \in [Pairs -> 0 .. 1]

\* The pairs before finishedNodeSize were added once, the others not at all,
\* at any moment: no batch overlaps another and none leaves a gap, whatever
\* the bisection decides.
AddedOnce == \A k \in Pairs : added[k] = IF k <= finished THEN 1 ELSE 0

\* The bisection of CloseDot keeps its guess between its bounds and inside
\* the list, so a batch is never empty and never reads past the close list.
SearchBrackets ==
  /\ stage = "fit" => /\ lower <= workSize /\ workSize <= upper
                      /\ 0 < upper /\ finished + upper <= PairCount
  /\ stage = "multiply" => 0 < workSize /\ finished + workSize <= PairCount

\* No window of pairs a batch can hold has more entries than an int counts.
NoOverflow ==
  \A j, k \in 0 .. PairCount :
    j <= k /\ k - j <= MaxWorkSize => total[k] - total[j] <= IntMax

\* A batch of CloseDot overruns the pool of relative coordinates only if it
\* is a single pair that alone does, as long as int counts the entries.
BatchFitsPool ==
  stage = "multiply" /\ NoOverflow => workSize = 1 \/ ~Overruns(workSize)

\* The bisection of CloseDot wastes nothing: a batch is the rest of the list,
\* or of MaxWorkSize pairs, or one pair more would not fit.
BatchIsLongest ==
  stage = "multiply" /\ NoOverflow =>
    \/ finished + workSize = PairCount
    \/ workSize = MaxWorkSize
    \/ Overruns(workSize + 1)

\* A batch is as long as it can be, and no longer.
BatchSized == BatchFitsPool /\ BatchIsLongest

\* CloseDot multiplies each pair at most once, in batches, as ExactlyOnce says.
Promise == INSTANCE ExactlyOnce WITH Blocks <- Pairs
Implements == Promise!Spec

\* CloseDot returns after it has multiplied all pairs, unless it wrote past the
\* pool: the bisection ends.
Completes == Promise!Complete \/ <>(stage = "crashed")
=============================================================================
