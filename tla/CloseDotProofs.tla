--------------------------- MODULE CloseDotProofs ---------------------------
(***************************************************************************)
(* CloseDot for any list of pairs, any pool and any width of int: it adds  *)
(* each pair once, stays inside the list, and, while int can count the     *)
(* entries, its batches are as long as the pool allows.                    *)
(***************************************************************************)
EXTENDS CloseDot, TLAPS

\* The pairs a batch may take: the length the bisection starts from.
Limit == Smaller(MaxWorkSize, PairCount - finished)

\* In the bisection: lower fits, upper does not or was not tried yet.
SearchInv ==
  stage = "fit" =>
    /\ lower <= workSize /\ workSize <= upper
    /\ 0 < upper /\ upper <= Limit
    /\ lower > 0 => Fits(lower)
    /\ \/ ~Fits(upper)
       \/ upper = Limit /\ workSize = upper /\ lower \in {0, upper}

\* After it: the batch fits unless it is one pair, and one more does not.
BatchInv ==
  stage = "multiply" =>
    /\ 0 < workSize /\ workSize <= Limit
    /\ workSize = 1 \/ Fits(workSize)
    /\ \/ workSize = Limit
       \/ ~Fits(workSize + 1)
       \/ workSize = 1 /\ ~Fits(1)

IInv == TypeOK /\ AddedOnce /\ SearchInv /\ BatchInv

-----------------------------------------------------------------------------
\* The midpoint of the bisection lies between its bounds.
LEMMA MidpointBetween ==
  ASSUME NEW a \in Nat, NEW b \in Nat, a <= b
  PROVE  Midpoint(a, b) \in Nat /\ a <= Midpoint(a, b) /\ Midpoint(a, b) <= b
BY DEF Midpoint

\* An int counts what it can hold.
LEMMA WrappedSmall ==
  ASSUME NEW x \in 0 .. IntMax
  PROVE  Wrapped(x) = x
BY CloseDotAssumption DEF Wrapped

\* An int is an integer, also when it has wrapped around.
LEMMA WrappedInt ==
  ASSUME NEW x \in Int
  PROVE  Wrapped(x) \in Int
BY CloseDotAssumption DEF Wrapped

\* The running totals of a window of the list are numbers, and increase.
LEMMA WorkloadIncreases ==
  ASSUME TypeOK, NEW m \in Nat, NEW n \in Nat, m <= n, finished + n <= PairCount
  PROVE  /\ Workload(m) \in Nat /\ Workload(n) \in Nat
         /\ Workload(m) <= Workload(n)
<1>1. /\ total \in [0 .. PairCount -> Nat]
      /\ \A j, k \in 0 .. PairCount : j < k => total[j] < total[k]
  BY CloseDotAssumption DEF TypeOK
<1>2. /\ finished \in 0 .. PairCount /\ finished + m \in 0 .. PairCount
      /\ finished + n \in 0 .. PairCount
  BY CloseDotAssumption DEF TypeOK
<1>3. /\ total[finished] \in Nat /\ total[finished + m] \in Nat
      /\ total[finished + n] \in Nat
  BY <1>1, <1>2
<1>4. total[finished] <= total[finished + m]
  <2>1. CASE m = 0
    BY <2>1, <1>2, <1>3
  <2>2. CASE m # 0
    <3>1. finished < finished + m
      BY <2>2, <1>2
    <3> QED BY <3>1, <1>1, <1>2, <1>3
  <2> QED BY <2>1, <2>2
<1>5. total[finished + m] <= total[finished + n]
  <2>1. CASE m = n
    BY <2>1, <1>3
  <2>2. CASE m # n
    <3>1. finished + m < finished + n
      BY <2>2, <1>2
    <3> QED BY <3>1, <1>1, <1>2, <1>3
  <2> QED BY <2>1, <2>2
<1> QED BY <1>3, <1>4, <1>5 DEF Workload

\* No pairs have no entries.
LEMMA NothingFits ==
  ASSUME TypeOK
  PROVE  Fits(0)
<1>1. Workload(0) = 0
  <2>1. finished + 0 = finished
    BY DEF TypeOK
  <2>2. total[finished] \in Nat
    BY CloseDotAssumption DEF TypeOK
  <2> QED BY <2>1, <2>2 DEF Workload
<1>2. Wrapped(0) = 0
  BY WrappedSmall, CloseDotAssumption
<1> QED BY <1>1, <1>2, CloseDotAssumption DEF Fits

\* The limit of a batch is one of the two, and a pair while pairs are left.
LEMMA LimitBounds ==
  ASSUME TypeOK
  PROVE  /\ Limit \in Nat /\ Limit <= MaxWorkSize /\ finished + Limit <= PairCount
         /\ Limit = MaxWorkSize \/ finished + Limit = PairCount
         /\ finished < PairCount => 0 < Limit
BY CloseDotAssumption DEF TypeOK, Limit, Smaller

-----------------------------------------------------------------------------
(* The invariant: one step per action of Next. *)

LEMMA InitInv == Init => IInv
<1> SUFFICES ASSUME Init PROVE IInv
  OBVIOUS
<1>1. TypeOK
  BY CloseDotAssumption DEF Init, TypeOK, Smaller
<1>2. AddedOnce
  BY DEF Init, AddedOnce, Pairs
<1>3. SearchInv /\ BatchInv
  BY DEF Init, SearchInv, BatchInv
<1> QED BY <1>1, <1>2, <1>3 DEF IInv

LEMMA StartBatchInv == IInv /\ StartBatch => IInv'
<1> SUFFICES ASSUME IInv, StartBatch PROVE IInv'
  OBVIOUS
<1>1. /\ stage = "next" /\ stage' = "fit" /\ finished < PairCount
      /\ workSize' = Limit /\ lower' = 0 /\ upper' = Limit
      /\ total' = total /\ finished' = finished /\ added' = added
  BY DEF StartBatch, Limit
<1>2. TypeOK /\ AddedOnce
  BY DEF IInv
<1>3. /\ Limit \in Nat /\ 0 < Limit /\ finished + Limit <= PairCount
      /\ Limit' = Limit
  BY <1>1, <1>2, LimitBounds DEF Limit
<1>4. TypeOK'
  BY <1>1, <1>2, <1>3, CloseDotAssumption DEF TypeOK
<1>5. AddedOnce'
  BY <1>1, <1>2 DEF AddedOnce
<1>6. SearchInv' /\ BatchInv'
  BY <1>1, <1>3 DEF SearchInv, BatchInv
<1> QED BY <1>4, <1>5, <1>6 DEF IInv

LEMMA ShrinkInv == IInv /\ Shrink => IInv'
<1> SUFFICES ASSUME IInv, Shrink PROVE IInv'
  OBVIOUS
<1>1. /\ stage = "fit" /\ stage' = "fit" /\ ~Fits(workSize)
      /\ upper' = workSize /\ workSize' = Midpoint(lower, workSize) /\ lower' = lower
      /\ total' = total /\ finished' = finished /\ added' = added
  BY DEF Shrink
<1>2. TypeOK /\ AddedOnce
  BY DEF IInv
<1>3. /\ lower \in Nat /\ workSize \in Nat /\ upper \in Nat
      /\ lower <= workSize /\ workSize <= upper /\ upper <= Limit
      /\ lower > 0 => Fits(lower)
  BY <1>1 DEF IInv, SearchInv, TypeOK
<1>4. workSize > 0
  BY <1>1, <1>2, <1>3, NothingFits
<1>5. /\ Midpoint(lower, workSize) \in Nat
      /\ lower <= Midpoint(lower, workSize) /\ Midpoint(lower, workSize) <= workSize
  BY <1>3, MidpointBetween
<1>6. Limit \in Nat /\ finished + Limit <= PairCount /\ Limit' = Limit
  BY <1>1, <1>2, LimitBounds DEF Limit
<1>7. TypeOK'
  BY <1>1, <1>2, <1>3, <1>5, CloseDotAssumption DEF TypeOK
<1>8. AddedOnce'
  BY <1>1, <1>2 DEF AddedOnce
<1>9. SearchInv'
  <2>1. (lower > 0 => Fits(lower))' /\ ~Fits(upper)'
    BY <1>1, <1>3 DEF Fits, Workload
  <2> QED BY <2>1, <1>1, <1>3, <1>4, <1>5, <1>6 DEF SearchInv
<1>10. BatchInv'
  BY <1>1 DEF BatchInv
<1> QED BY <1>7, <1>8, <1>9, <1>10 DEF IInv

LEMMA GrowInv == IInv /\ Grow => IInv'
<1> SUFFICES ASSUME IInv, Grow PROVE IInv'
  OBVIOUS
<1>1. /\ stage = "fit" /\ stage' = "fit" /\ Fits(workSize) /\ ~Met
      /\ lower' = workSize /\ workSize' = Midpoint(workSize, upper) /\ upper' = upper
      /\ total' = total /\ finished' = finished /\ added' = added
  BY DEF Grow
<1>2. TypeOK /\ AddedOnce
  BY DEF IInv
<1>3. /\ lower \in Nat /\ workSize \in Nat /\ upper \in Nat
      /\ lower <= workSize /\ workSize <= upper /\ 0 < upper /\ upper <= Limit
      /\ \/ ~Fits(upper)
         \/ upper = Limit /\ workSize = upper
  BY <1>1 DEF IInv, SearchInv, TypeOK
<1>4. /\ Midpoint(workSize, upper) \in Nat
      /\ workSize <= Midpoint(workSize, upper) /\ Midpoint(workSize, upper) <= upper
  BY <1>3, MidpointBetween
<1>5. workSize = upper => Midpoint(workSize, upper) = upper
  BY <1>3, <1>4
<1>6. Limit \in Nat /\ finished + Limit <= PairCount /\ Limit' = Limit
  BY <1>1, <1>2, LimitBounds DEF Limit
<1>7. TypeOK'
  BY <1>1, <1>2, <1>3, <1>4, CloseDotAssumption DEF TypeOK
<1>8. AddedOnce'
  BY <1>1, <1>2 DEF AddedOnce
<1>9. SearchInv'
  <2>1. Fits(lower)'
    BY <1>1 DEF Fits, Workload
  <2>2. ~Fits(upper) => ~Fits(upper)'
    BY <1>1 DEF Fits, Workload
  <2> QED BY <2>1, <2>2, <1>1, <1>3, <1>4, <1>5, <1>6 DEF SearchInv
<1>10. BatchInv'
  BY <1>1 DEF BatchInv
<1> QED BY <1>7, <1>8, <1>9, <1>10 DEF IInv

LEMMA SettleInv == IInv /\ Settle => IInv'
<1> SUFFICES ASSUME IInv, Settle PROVE IInv'
  OBVIOUS
<1>1. /\ stage = "fit" /\ stage' = "multiply" /\ Fits(workSize) /\ Met
      /\ workSize' = Settled /\ lower' = lower /\ upper' = upper
      /\ total' = total /\ finished' = finished /\ added' = added
  BY DEF Settle
<1>2. TypeOK /\ AddedOnce
  BY DEF IInv
<1>3. /\ lower \in Nat /\ workSize \in Nat /\ upper \in Nat
      /\ lower <= workSize /\ workSize <= upper /\ 0 < upper /\ upper <= Limit
      /\ lower > 0 => Fits(lower)
      /\ \/ ~Fits(upper)
         \/ upper = Limit /\ lower \in {0, upper}
  BY <1>1 DEF IInv, SearchInv, TypeOK
<1>4. Limit \in Nat /\ finished + Limit <= PairCount /\ Limit' = Limit
  BY <1>1, <1>2, LimitBounds DEF Limit
<1>5. /\ Settled \in Nat /\ 0 < Settled /\ Settled <= upper
      /\ Settled = 1 \/ Fits(Settled)
  BY <1>3 DEF Settled, Larger
<1>6. \/ Settled = Limit
      \/ ~Fits(Settled + 1)
      \/ Settled = 1 /\ ~Fits(1)
  <2>1. upper = lower \/ upper = lower + 1
    BY <1>1, <1>3 DEF Met
  <2>2. CASE upper = Limit /\ lower \in {0, upper}
    BY <2>1, <2>2, <1>3 DEF Settled, Larger
  <2>3. CASE ~Fits(upper) /\ lower = 0
    BY <2>1, <2>3, <1>3 DEF Settled, Larger
  <2>4. CASE ~Fits(upper) /\ lower > 0
    <3>1. upper = lower + 1 /\ Settled = lower
      BY <2>1, <2>4, <1>3 DEF Settled, Larger
    <3> QED BY <3>1, <2>4
  <2> QED BY <1>3, <2>2, <2>3, <2>4
<1>7. TypeOK'
  BY <1>1, <1>2, <1>3, <1>4, <1>5, CloseDotAssumption DEF TypeOK
<1>8. AddedOnce'
  BY <1>1, <1>2 DEF AddedOnce
<1>9. SearchInv'
  BY <1>1 DEF SearchInv
<1>10. BatchInv'
  <2>1. /\ Fits(Settled) => Fits(workSize)'
        /\ ~Fits(Settled + 1) => (~Fits(workSize + 1))'
        /\ ~Fits(1) => (~Fits(1))'
    BY <1>1 DEF Fits, Workload
  <2>2. 0 < workSize' /\ workSize' <= Limit' /\ (workSize = 1 \/ Fits(workSize))'
    BY <2>1, <1>1, <1>3, <1>4, <1>5
  <2>3. (workSize = Limit \/ ~Fits(workSize + 1) \/ (workSize = 1 /\ ~Fits(1)))'
    BY <2>1, <1>1, <1>4, <1>6
  <2> QED BY <2>2, <2>3 DEF BatchInv
<1> QED BY <1>7, <1>8, <1>9, <1>10 DEF IInv

\* The batch that Multiply adds: pairs of the list, none of them added before.
LEMMA BatchIsNew ==
  ASSUME IInv, stage = "multiply"
  PROVE  /\ Batch(workSize) \subseteq Pairs /\ Batch(workSize) # {}
         /\ finished + workSize \in 0 .. PairCount
         /\ \A k \in Batch(workSize) : added[k] = 0
<1>1. TypeOK /\ AddedOnce /\ 0 < workSize /\ workSize <= Limit
  BY DEF IInv, BatchInv
<1>2. /\ Limit \in Nat /\ finished + Limit <= PairCount
      /\ workSize \in Nat /\ finished \in Nat /\ PairCount \in Nat
  BY <1>1, LimitBounds, CloseDotAssumption DEF TypeOK
<1>3. finished + workSize \in 0 .. PairCount
  BY <1>1, <1>2
<1>4. Batch(workSize) \subseteq Pairs
  BY <1>2, <1>3 DEF Batch, Pairs
<1>5. finished + 1 \in Batch(workSize)
  BY <1>1, <1>2 DEF Batch
<1>6. \A k \in Batch(workSize) : k > finished
  BY <1>2 DEF Batch
<1> QED BY <1>1, <1>2, <1>3, <1>4, <1>5, <1>6 DEF AddedOnce, Batch

LEMMA MultiplyInv == IInv /\ Multiply => IInv'
<1> SUFFICES ASSUME IInv, Multiply PROVE IInv'
  OBVIOUS
<1>1. /\ stage = "multiply" /\ stage' = "next"
      /\ added' = [k \in Pairs |-> IF k \in Batch(workSize) THEN added[k] + 1 ELSE added[k]]
      /\ finished' = finished + workSize
      /\ total' = total /\ workSize' = workSize /\ lower' = lower /\ upper' = upper
  BY DEF Multiply
<1>2. TypeOK /\ AddedOnce
  BY DEF IInv
<1>3. /\ Batch(workSize) \subseteq Pairs /\ finished + workSize \in 0 .. PairCount
      /\ \A k \in Batch(workSize) : added[k] = 0
  BY <1>1, BatchIsNew
<1>4. \A k \in Pairs : added'[k] = IF k <= finished + workSize THEN 1 ELSE 0
  <2> TAKE k \in Pairs
  <2>1. k \in Int /\ finished \in Int /\ workSize \in Nat
    BY <1>2, CloseDotAssumption DEF Pairs, TypeOK
  <2>2. CASE k <= finished
    <3>1. k \notin Batch(workSize) /\ added[k] = 1
      BY <2>1, <2>2, <1>2 DEF Batch, AddedOnce
    <3> QED BY <3>1, <2>1, <2>2, <1>1
  <2>3. CASE k > finished /\ k <= finished + workSize
    <3>1. k \in Batch(workSize) /\ added[k] = 0
      BY <2>1, <2>3, <1>2 DEF Batch, AddedOnce
    <3> QED BY <3>1, <2>3, <1>1
  <2>4. CASE k > finished + workSize
    <3>1. k \notin Batch(workSize) /\ added[k] = 0
      BY <2>1, <2>4, <1>2 DEF Batch, AddedOnce
    <3> QED BY <3>1, <2>1, <2>4, <1>1
  <2> QED BY <2>1, <2>2, <2>3, <2>4
<1>5. AddedOnce'
  BY <1>4, <1>1 DEF AddedOnce
<1>6. TypeOK'
  <2>1. added' \in [Pairs -> 0 .. 1]
    BY <1>1, <1>4
  <2> QED BY <2>1, <1>1, <1>2, <1>3 DEF TypeOK
<1>7. SearchInv' /\ BatchInv'
  BY <1>1 DEF SearchInv, BatchInv
<1> QED BY <1>5, <1>6, <1>7 DEF IInv

\* The steps that only move to another stage, and stuttering.
LEMMA OtherInv == IInv /\ (Crash \/ Finish \/ UNCHANGED vars) => IInv'
<1>1. ASSUME IInv, Crash \/ Finish PROVE IInv'
  <2>1. /\ stage' \in {"crashed", "done"}
        /\ UNCHANGED <<total, finished, workSize, lower, upper, added>>
    BY <1>1 DEF Crash, Finish
  <2> QED BY <1>1, <2>1 DEF IInv, TypeOK, AddedOnce, SearchInv, BatchInv
<1>2. ASSUME IInv, UNCHANGED vars PROVE IInv'
  BY <1>2 DEF IInv, vars, TypeOK, AddedOnce, SearchInv, BatchInv, Limit, Fits, Workload
<1> QED BY <1>1, <1>2

LEMMA NextInv == IInv /\ [Next]_vars => IInv'
BY StartBatchInv, ShrinkInv, GrowInv, SettleInv, MultiplyInv, OtherInv
   DEF Next, Step, Stop

-----------------------------------------------------------------------------
(* What holds of every behaviour of the specification. *)

THEOREM Invariance == Spec => []IInv
BY InitInv, NextInv, PTL DEF Spec

\* The counters of CloseDot stay inside the list of close pairs.
THEOREM TypeCorrect == Spec => []TypeOK
<1>1. IInv => TypeOK
  BY DEF IInv
<1> QED BY Invariance, <1>1, PTL

\* At any moment CloseDot has added the pairs it is past once, the others
\* not at all: also when int overflows and when a pair overruns the pool.
THEOREM PairsAddedOnce == Spec => []AddedOnce
<1>1. IInv => AddedOnce
  BY DEF IInv
<1> QED BY Invariance, <1>1, PTL

\* The bisection of CloseDot never offers an empty batch, nor one that reads
\* past the close list.
THEOREM SearchStaysInList == Spec => []SearchBrackets
<1>1. IInv => SearchBrackets
  <2> SUFFICES ASSUME IInv PROVE SearchBrackets
    OBVIOUS
  <2>1. TypeOK /\ SearchInv /\ BatchInv
    BY DEF IInv
  <2>2. /\ Limit \in Nat /\ finished + Limit <= PairCount
        /\ finished \in Nat /\ upper \in Nat /\ workSize \in Nat /\ PairCount \in Nat
    BY <2>1, LimitBounds, CloseDotAssumption DEF TypeOK
  <2> QED BY <2>1, <2>2 DEF SearchInv, BatchInv, SearchBrackets
<1> QED BY Invariance, <1>1, PTL

\* While int can count it, a window fits exactly if it does not overrun.
LEMMA FitsCounts ==
  ASSUME TypeOK, NoOverflow,
         NEW n \in Nat, n <= MaxWorkSize, finished + n <= PairCount
  PROVE  Fits(n) <=> ~Overruns(n)
<1>1. /\ Workload(n) \in Nat /\ MaxRelativeCoord \in Nat /\ IntMax \in Nat
  BY WorkloadIncreases, CloseDotAssumption
<1>2. Workload(n) <= IntMax
  <2>1. /\ finished \in 0 .. PairCount /\ finished + n \in 0 .. PairCount
        /\ finished <= finished + n /\ (finished + n) - finished <= MaxWorkSize
    BY CloseDotAssumption DEF TypeOK
  <2> QED BY <2>1 DEF NoOverflow, Workload
<1>3. Wrapped(Workload(n)) = Workload(n)
  BY <1>1, <1>2, WrappedSmall
<1> QED BY <1>1, <1>3 DEF Fits, Overruns

\* While int can count the entries, only a single pair overruns the pool.
THEOREM BatchesFit == Spec => []BatchFitsPool
<1>1. IInv => BatchFitsPool
  <2> SUFFICES ASSUME IInv, stage = "multiply", NoOverflow, workSize # 1
               PROVE  ~Overruns(workSize)
    BY DEF BatchFitsPool
  <2>1. TypeOK /\ workSize <= Limit /\ Fits(workSize)
    BY DEF IInv, BatchInv
  <2>2. /\ workSize \in Nat /\ workSize <= MaxWorkSize
        /\ finished + workSize <= PairCount
    BY <2>1, LimitBounds, CloseDotAssumption DEF TypeOK
  <2> QED BY <2>1, <2>2, FitsCounts
<1> QED BY Invariance, <1>1, PTL

\* While int can count the entries, the bisection finds the longest batch.
THEOREM BatchesAreLongest == Spec => []BatchIsLongest
<1>1. IInv => BatchIsLongest
  <2> SUFFICES ASSUME IInv, stage = "multiply", NoOverflow,
                      finished + workSize # PairCount, workSize # MaxWorkSize
               PROVE  Overruns(workSize + 1)
    BY DEF BatchIsLongest
  <2>1. /\ TypeOK /\ 0 < workSize /\ workSize <= Limit
        /\ \/ workSize = Limit
           \/ ~Fits(workSize + 1)
           \/ (workSize = 1 /\ ~Fits(1))
    BY DEF IInv, BatchInv
  <2>2. /\ Limit \in Nat /\ Limit <= MaxWorkSize /\ finished + Limit <= PairCount
        /\ Limit = MaxWorkSize \/ finished + Limit = PairCount
        /\ workSize \in Nat /\ finished \in Nat /\ PairCount \in Nat /\ MaxWorkSize \in Nat
    BY <2>1, LimitBounds, CloseDotAssumption DEF TypeOK
  <2>3. workSize + 1 <= MaxWorkSize /\ finished + (workSize + 1) <= PairCount
    BY <2>1, <2>2
  <2>4. CASE ~Fits(workSize + 1)
    BY <2>4, <2>1, <2>2, <2>3, FitsCounts
  <2>5. CASE workSize = 1 /\ ~Fits(1)
    <3>1. Overruns(1)
      BY <2>5, <2>1, <2>2, <2>3, FitsCounts
    <3>2. /\ Workload(1) \in Nat /\ Workload(2) \in Nat
          /\ Workload(1) <= Workload(2)
      BY <2>5, <2>1, <2>2, <2>3, WorkloadIncreases
    <3> QED BY <3>1, <3>2, <2>5, CloseDotAssumption DEF Overruns
  <2>6. workSize # Limit
    BY <2>2
  <2> QED BY <2>1, <2>4, <2>5, <2>6
<1> QED BY Invariance, <1>1, PTL

\* While int can count the entries, every batch is as long as it can be.
THEOREM BatchesAreSized == Spec => []BatchSized
<1>1. BatchFitsPool /\ BatchIsLongest => BatchSized
  BY DEF BatchSized
<1> QED BY BatchesFit, BatchesAreLongest, <1>1, PTL

-----------------------------------------------------------------------------
\* CloseDot implements ExactlyOnce: Multiply adds a batch of new pairs, and
\* no other step touches the velocities.
THEOREM CloseDotImplements == Spec => Implements
<1>1. Init => Promise!Init
  BY DEF Init, Promise!Init
<1>2. IInv /\ [Next]_vars => [Promise!Next]_added
  <2> SUFFICES ASSUME IInv, [Next]_vars PROVE [Promise!Next]_added
    OBVIOUS
  <2>1. CASE Multiply
    <3>1. stage = "multiply"
      BY <2>1 DEF Multiply
    <3>2. /\ Batch(workSize) \subseteq Pairs /\ Batch(workSize) # {}
          /\ \A k \in Batch(workSize) : added[k] = 0
      BY <3>1, BatchIsNew
    <3>3. added' = [k \in Pairs |-> IF k \in Batch(workSize) THEN 1 ELSE added[k]]
      BY <2>1, <3>2 DEF Multiply
    <3>4. added \in [Pairs -> 0 .. 1]
      BY DEF IInv, TypeOK
    <3>5. Promise!AddBatch
      BY <3>3, <3>4 DEF Promise!AddBatch
    <3> QED BY <3>5 DEF Promise!Next
  <2>2. CASE \/ StartBatch \/ Shrink \/ Grow \/ Settle
             \/ Crash \/ Finish \/ Stop \/ UNCHANGED vars
    BY <2>2 DEF StartBatch, Shrink, Grow, Settle, Crash, Finish, Stop, vars
  <2> QED BY <2>1, <2>2 DEF Next, Step
<1> QED BY <1>1, <1>2, Invariance, PTL DEF Spec, Promise!Spec, Implements
=============================================================================
