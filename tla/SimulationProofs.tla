--------------------------- MODULE SimulationProofs ---------------------------
(***************************************************************************)
(* Theorems about what a simulation is made of beside the model: the       *)
(* TimeIntegrator, for every set of ranks, every step and final time, and  *)
(* every sequence of error estimates, also those on which the ranks        *)
(* disagree; and NeighborLists, for every domain, all radii, any number of *)
(* particles and every width of the integers, under the calls in every     *)
(* order.                                                                  *)
(***************************************************************************)
EXTENDS TimeIntegrator, NeighborLists, CompactionProofs, TLAPS

-----------------------------------------------------------------------------
(* The time integrator *)

(***************************************************************************)
(* The strengthening.  Between the head of the loop and the end of an      *)
(* attempt, the positions are those of the attempt's stage, the velocities *)
(* that were returned are theirs, and the attempt started before the end   *)
(* of the time.  At the head, what was left over from the last step        *)
(* belongs to the positions it ended at.                                   *)
(***************************************************************************)
Asked(r) ==
  /\ pc[r] = "return" => velocity[r] = position[r]
  /\ pc[r] = "check" => Rk4 /\ stage[r] = 6
  /\ Rk4 /\ pc[r] \in {"call", "return"} /\ stage[r] > 0 =>
       position[r] = Place(t[r], dt[r], stage[r])
  /\ pc[r] = "check" => position[r] = Place(t[r], dt[r], 6)

Before(r) ==
  /\ Rk4 /\ InStep(r) /\ stage[r] = 0 =>
       /\ position[r] = Origin /\ base[r] = Origin /\ shift[r] = Origin
       /\ slope[r][1] = Zero /\ t[r] = 0 /\ dt[r] = 0
  /\ InStep(r) /\ (Rk4 => stage[r] > 0) => t[r] < FinalTime - EndTolerance

LeftOver(r) ==
  /\ Rk4 /\ pc[r] = "head" =>
       slope[r][1] = IF position[r] = Origin THEN Zero ELSE position[r]
  /\ Rk4 /\ setup.periodic /\ pc[r] \in {"head", "return", "check"} =>
       offset[r] = position[r]
  /\ ~Rk4 /\ setup.periodic /\ pc[r] = "head" => shift[r] = position[r]

Slopes(r) ==
  Rk4 /\ InStep(r) /\ stage[r] > 0 =>
    /\ slope[r][1] = IF base[r] = Origin THEN Zero ELSE base[r]
    /\ \A k \in Stored(r) : slope[r][k] = Place(t[r], dt[r], k - 1)
Wrapped(r) == setup.periodic /\ InStep(r) => shift[r] = base[r]
InTime(r) == t[r] <= FinalTime /\ (InStep(r) => t[r] + dt[r] <= FinalTime)

RankInv(r) ==
  Asked(r) /\ Before(r) /\ LeftOver(r) /\ Slopes(r) /\ Wrapped(r) /\ InTime(r)
IInv == TypeOK /\ \A r \in Ranks : RankInv(r)

-----------------------------------------------------------------------------
(* The reduced step *)

\* A non-empty set of numbers from 1 to 8 has a largest one.
LEMMA LargestOfEight ==
  ASSUME NEW S, S \subseteq 1 .. 8, S # {}
  PROVE  \E m \in S : \A g \in S : g <= m
<1>1. \A g \in S : g \in 1 .. 8
  OBVIOUS
<1>2. CASE 8 \in S
  BY <1>1, <1>2
<1>3. CASE 8 \notin S /\ 7 \in S
  BY <1>1, <1>3
<1>4. CASE 8 \notin S /\ 7 \notin S /\ 6 \in S
  BY <1>1, <1>4
<1>5. CASE 8 \notin S /\ 7 \notin S /\ 6 \notin S /\ 5 \in S
  BY <1>1, <1>5
<1>6. CASE 8 \notin S /\ 7 \notin S /\ 6 \notin S /\ 5 \notin S /\ 4 \in S
  BY <1>1, <1>6
<1>7. CASE \A g \in S : g \in 1 .. 3
  <2>1. CASE 3 \in S
    BY <1>7, <2>1
  <2>2. CASE 3 \notin S /\ 2 \in S
    BY <1>7, <2>2
  <2>3. CASE 3 \notin S /\ 2 \notin S
    <3>1. PICK g \in S : TRUE
      OBVIOUS
    <3>2. \A h \in S : h = 1
      BY <1>7, <2>3
    <3> QED
      BY <3>1, <3>2
  <2> QED
    BY <2>1, <2>2, <2>3
<1> QED
  BY <1>1, <1>2, <1>3, <1>4, <1>5, <1>6, <1>7

\* The factor of a rejected step is at most eight tenths.
LEMMA FactorRange ==
  ASSUME NEW sum
  PROVE  Factor(sum) \in 1 .. 8
<1> DEFINE Fits == {f \in 1 .. 8 : f ^ 5 * sum <= 8 ^ 5 * Threshold}
<1>1. Factor(sum) =
        IF Fits = {} THEN 1 ELSE CHOOSE f \in Fits : \A g \in Fits : g <= f
  BY Zenon DEF Factor
<1>2. Fits \subseteq 1 .. 8
  BY Zenon
<1> HIDE DEF Fits
<1>3. CASE Fits = {}
  BY <1>1, <1>3
<1>4. CASE Fits # {}
  <2>1. \E m \in Fits : \A g \in Fits : g <= m
    BY <1>2, <1>4, LargestOfEight
  <2>2. (CHOOSE f \in Fits : \A g \in Fits : g <= f) \in Fits
    BY <2>1, Zenon
  <2> QED
    BY <1>1, <1>2, <1>4, <2>2
<1> QED
  BY <1>3, <1>4

\* The step that repeats a rejected one is not larger, unless it is MinStep.
LEMMA ReducedRange ==
  ASSUME NEW size \in Nat, NEW sum
  PROVE  /\ Reduced(size, sum) \in Nat
         /\ Reduced(size, sum) <= size \/ Reduced(size, sum) = MinStep
<1>1. Factor(sum) \in 1 .. 8
  BY FactorRange
<1>2. (size * Factor(sum)) \div 10 \in Nat /\ (size * Factor(sum)) \div 10 <= size
  <2> DEFINE d == size
  <2>1. \A f \in 1 .. 8 : (d * f) \div 10 \in Nat /\ (d * f) \div 10 <= d
    <3> SUFFICES ASSUME NEW f \in 1 .. 8
                 PROVE  (d * f) \div 10 \in Nat /\ (d * f) \div 10 <= d
      OBVIOUS
    <3>1. d * f \in Nat /\ d * f <= 8 * d
      <4> HIDE DEF d
      <4>1. d \in Nat
        BY DEF d
      <4>2. f = 1 \/ f = 2 \/ f = 3 \/ f = 4 \/ f = 5 \/ f = 6 \/ f = 7 \/ f = 8
        OBVIOUS
      <4> QED
        BY <4>1, <4>2
    <3> DEFINE p == d * f
    <3> HIDE DEF p
    <3>2. p \in Nat /\ p <= 8 * d
      BY <3>1 DEF p
    <3>3. p \div 10 \in Nat /\ p \div 10 <= d
      BY <3>2
    <3> QED
      BY <3>3 DEF p
  <2> QED
    BY <1>1, <2>1
<1> QED
  BY <1>2, IntegratorAssumption DEF Reduced, Larger

-----------------------------------------------------------------------------
(* The invariant *)

\* A local step of one rank leaves the others alone.
OtherRanks(r) ==
  \A s \in Ranks \ {r} :
    /\ pc'[s] = pc[s] /\ t'[s] = t[s] /\ dt'[s] = dt[s]
    /\ stage'[s] = stage[s] /\ base'[s] = base[s]
    /\ position'[s] = position[s] /\ offset'[s] = offset[s]
    /\ shift'[s] = shift[s] /\ velocity'[s] = velocity[s]
    /\ slope'[s] = slope[s]

LEMMA OthersKeep ==
  ASSUME NEW r \in Ranks, OtherRanks(r), UNCHANGED setup,
         \A s \in Ranks : RankInv(s), RankInv(r)'
  PROVE  \A s \in Ranks : RankInv(s)'
<1> SUFFICES ASSUME NEW s \in Ranks, s # r
             PROVE  RankInv(s)'
  OBVIOUS
<1>1. RankInv(s)
  OBVIOUS
<1>2. UNCHANGED <<setup, pc[s], t[s], dt[s], stage[s], base[s], position[s],
                  offset[s], shift[s], velocity[s], slope[s]>>
  BY DEF OtherRanks
<1> QED
  BY <1>1, <1>2 DEF RankInv, Asked, Before, LeftOver, Slopes, Wrapped, InTime,
                    Rk4, InStep, Stored

LEMMA PlaceType ==
  ASSUME NEW from \in Nat, NEW size \in Nat, NEW i \in Stages
  PROVE  /\ Place(from, size, i) \in Places
         /\ i # 0 => Place(from, size, i) # Origin
BY DEF Place, Places, Origin

LEMMA InitInv == Init => IInv
<1> SUFFICES ASSUME Init PROVE IInv
  OBVIOUS
<1>1. Origin \in Places
  BY PlaceType DEF Origin, Stages
<1>2. TypeOK
  <2>1. err \in [Ranks -> Nat] /\ apart \in BOOLEAN
    BY DEF Init
  <2>2. /\ pc \in [Ranks -> {"head", "call", "return", "check", "done"}]
        /\ t \in [Ranks -> Nat] /\ dt \in [Ranks -> Nat]
        /\ stage \in [Ranks -> Stages]
    BY DEF Init, Stages
  <2>3. /\ base \in [Ranks -> Places] /\ position \in [Ranks -> Places]
        /\ offset \in [Ranks -> Places] /\ shift \in [Ranks -> Places]
        /\ velocity \in [Ranks -> Places \cup {Zero}]
        /\ slope \in [Ranks -> [1 .. 7 -> Places \cup {Zero}]]
    BY <1>1 DEF Init
  <2> QED
    BY <2>1, <2>2, <2>3 DEF Init, TypeOK
<1>3. ASSUME NEW r \in Ranks PROVE RankInv(r)
  BY IntegratorAssumption
  DEF Init, RankInv, Asked, Before, LeftOver, Slopes, Wrapped, InTime, Rk4,
      InStep
<1> QED
  BY <1>2, <1>3 DEF IInv

LEMMA BeginInv ==
  ASSUME IInv, NEW r \in Ranks, Begin(r)
  PROVE  IInv'
<1>1. TypeOK /\ RankInv(r) /\ pc[r] = "head"
  BY DEF IInv, Begin
<1>2. FirstSize(r) \in Nat /\ FirstSize(r) \in 1 .. FinalTime - t[r]
  <2>1. setup.timeStep \in Nat \ {0}
    BY <1>1, IntegratorAssumption DEF TypeOK
  <2>2. t[r] \in Nat /\ t[r] < FinalTime - EndTolerance
    BY <1>1 DEF TypeOK, Begin, Running
  <2> QED
    BY <2>1, <2>2, IntegratorAssumption DEF FirstSize, Smaller
<1>3. /\ Place(t[r], FirstSize(r), 1) \in Places
      /\ Place(t[r], FirstSize(r), 1) # Origin
  BY <1>1, <1>2, PlaceType DEF TypeOK, Stages
<1>4. TypeOK'
  <2>1. /\ stage' \in [Ranks -> Stages] /\ position' \in [Ranks -> Places]
        /\ shift' \in [Ranks -> Places]
    <3>1. CASE Rk4
      <4>1. /\ stage' = [stage EXCEPT ![r] = 1]
            /\ position' = [position EXCEPT ![r] = Place(t[r], FirstSize(r), 1)]
            /\ shift' = [shift EXCEPT ![r] = offset[r]] \/ shift' = shift
        BY <3>1 DEF Begin
      <4>2. offset[r] \in Places
        BY <1>1 DEF TypeOK
      <4>3. shift' \in [Ranks -> Places]
        BY <1>1, <4>1, <4>2 DEF TypeOK
      <4>4. stage' \in [Ranks -> Stages] /\ position' \in [Ranks -> Places]
        BY <1>1, <1>3, <4>1 DEF TypeOK, Stages
      <4> QED
        BY <4>3, <4>4
    <3>2. CASE ~Rk4
      <4>1. UNCHANGED <<stage, position, shift>>
        BY <3>2 DEF Begin
      <4> QED
        BY <1>1, <4>1 DEF TypeOK
    <3> QED
      BY <3>1, <3>2
  <2>2. /\ pc' \in [Ranks -> {"head", "call", "return", "check", "done"}]
        /\ dt' \in [Ranks -> Nat] /\ base' \in [Ranks -> Places]
    BY <1>1, <1>2 DEF Begin, TypeOK
  <2> QED
    BY <1>1, <2>1, <2>2 DEF Begin, TypeOK
<1>5. OtherRanks(r)
  BY <1>1 DEF Begin, OtherRanks, TypeOK
<1>6. RankInv(r)'
  <2>1. /\ pc'[r] = "call" /\ t'[r] = t[r] /\ dt'[r] = FirstSize(r)
        /\ base'[r] = position[r] /\ slope'[r] = slope[r] /\ setup' = setup
    BY <1>1 DEF Begin, TypeOK
  <2>2. CASE Rk4
    <3>1. /\ stage'[r] = 1 /\ position'[r] = Place(t[r], FirstSize(r), 1)
          /\ shift'[r] = IF setup.periodic THEN offset[r] ELSE shift[r]
      BY <1>1, <2>2 DEF Begin, TypeOK
    <3>2. Asked(r)' /\ LeftOver(r)'
      BY <2>1, <2>2, <3>1 DEF Asked, LeftOver, Rk4
    <3>3. Before(r)' /\ InTime(r)'
      BY <1>1, <1>2, <2>1, <2>2, <3>1, IntegratorAssumption
      DEF Begin, Running, TypeOK, Before, InTime, Rk4, InStep
    <3>4. Slopes(r)' /\ Wrapped(r)'
      BY <1>1, <2>1, <2>2, <3>1
      DEF RankInv, LeftOver, Slopes, Wrapped, Rk4, InStep, Stored
    <3> QED
      BY <3>2, <3>3, <3>4 DEF RankInv
  <2>3. CASE ~Rk4
    <3>1. UNCHANGED <<stage, position, shift>>
      BY <2>3 DEF Begin
    <3>2. Asked(r)' /\ LeftOver(r)' /\ Slopes(r)'
      BY <2>1, <2>3, <3>1 DEF Asked, LeftOver, Slopes, Rk4
    <3>3. Before(r)' /\ InTime(r)'
      BY <1>1, <1>2, <2>1, <2>3, <3>1, IntegratorAssumption
      DEF Begin, Running, TypeOK, Before, InTime, Rk4, InStep
    <3>4. Wrapped(r)'
      BY <1>1, <2>1, <2>3, <3>1 DEF RankInv, LeftOver, Wrapped
    <3> QED
      BY <3>2, <3>3, <3>4 DEF RankInv
  <2> QED
    BY <2>2, <2>3
<1> QED
  BY <1>4, <1>5, <1>6, OthersKeep DEF IInv, Begin

LEMMA EndInv ==
  ASSUME IInv, NEW r \in Ranks, End(r)
  PROVE  IInv'
<1>1. TypeOK /\ RankInv(r)
  BY DEF IInv
<1>2. TypeOK'
  BY <1>1 DEF End, TypeOK
<1>3. OtherRanks(r)
  BY <1>1 DEF End, OtherRanks, TypeOK
<1>4. RankInv(r)'
  <2>1. pc'[r] = "done"
    BY <1>1 DEF End, TypeOK
  <2> QED
    BY <1>1, <2>1 DEF End, RankInv, Asked, Before, LeftOver, Slopes, Wrapped,
                      InTime, Rk4, InStep
<1> QED
  BY <1>2, <1>3, <1>4, OthersKeep DEF IInv, End

\* The sums of an attempt are numbers; before its last stage they are zero.
LEMMA VelocityUpdateSums ==
  ASSUME TypeOK, VelocityUpdate
  PROVE  /\ err' \in [Ranks -> Nat] /\ apart' \in BOOLEAN
         /\ \A r \in Ranks : stage[r] # 6 => err'[r] = 0
<1>1. PICK rate \in ErrorRates, rounding \in [Ranks -> -Rounding .. Rounding] :
        err' = [r \in Ranks |-> IF stage[r] = 6
                               THEN Larger(rate * dt[r] + rounding[r], 0) ELSE 0]
  BY DEF VelocityUpdate
<1>2. ASSUME NEW r \in Ranks PROVE Larger(rate * dt[r] + rounding[r], 0) \in Nat
  <2>1. rate \in Nat /\ Rounding \in Nat
    BY IntegratorAssumption
  <2>2. rounding[r] \in Int /\ dt[r] \in Nat
    BY <2>1 DEF TypeOK
  <2> DEFINE product == rate * dt[r]
  <2>3. product \in Nat
    BY <2>1, <2>2
  <2> HIDE DEF product
  <2>4. Larger(product + rounding[r], 0) \in Nat
    BY <2>2, <2>3 DEF Larger
  <2> QED
    BY <2>4 DEF product
<1>3. err' \in [Ranks -> Nat] /\ \A r \in Ranks : stage[r] # 6 => err'[r] = 0
  BY <1>1, <1>2, Zenon
<1>4. apart' \in BOOLEAN
  BY DEF VelocityUpdate
<1> QED
  BY <1>3, <1>4

LEMMA VelocityUpdateInv ==
  ASSUME IInv, VelocityUpdate
  PROVE  IInv'
<1>1. TypeOK /\ \A r \in Ranks : RankInv(r)
  BY DEF IInv
<1>2. AskedOffsets \in [Ranks -> Places]
  BY <1>1 DEF AskedOffsets, TypeOK
<1>3. err' \in [Ranks -> Nat] /\ apart' \in BOOLEAN
  BY <1>1, VelocityUpdateSums DEF TypeOK
<1>4. TypeOK'
  BY <1>1, <1>2, <1>3 DEF VelocityUpdate, TypeOK
<1>5. ASSUME NEW r \in Ranks PROVE RankInv(r)'
  <2>1. /\ pc[r] = "call" /\ pc'[r] = "return"
        /\ velocity'[r] = position[r]
        /\ setup.periodic => offset'[r] = position[r]
    BY DEF VelocityUpdate, AskedOffsets
  <2>2. RankInv(r)
    BY <1>1
  <2> QED
    BY <2>1, <2>2
    DEF VelocityUpdate, RankInv, Asked, Before, LeftOver, Slopes, Wrapped,
        InTime, Rk4, InStep, Stored
<1> QED
  BY <1>4, <1>5 DEF IInv

LEMMA FirstVelocityInv ==
  ASSUME IInv, NEW r \in Ranks, FirstVelocity(r)
  PROVE  IInv'
<1>1. TypeOK /\ RankInv(r) /\ Rk4 /\ stage[r] = 0 /\ pc[r] = "return"
  BY DEF IInv, FirstVelocity
<1>2. TypeOK'
  BY <1>1 DEF FirstVelocity, TypeOK
<1>3. OtherRanks(r)
  BY <1>1 DEF FirstVelocity, OtherRanks, TypeOK
<1>4. RankInv(r)'
  <2>1. pc'[r] = "head"
    BY <1>1 DEF FirstVelocity, TypeOK
  <2> QED
    BY <1>1, <2>1
    DEF FirstVelocity, RankInv, Asked, Before, LeftOver, Slopes, Wrapped,
        InTime, Rk4, InStep
<1> QED
  BY <1>2, <1>3, <1>4, OthersKeep DEF IInv, FirstVelocity

LEMMA NextStageInv ==
  ASSUME IInv, NEW r \in Ranks, NextStage(r)
  PROVE  IInv'
<1> DEFINE i == stage[r]
<1>1. TypeOK /\ RankInv(r) /\ Rk4 /\ pc[r] = "return" /\ i \in 1 .. 6
  BY DEF IInv, NextStage
<1>2. velocity[r] = Place(t[r], dt[r], i) /\ velocity[r] \in Places
  BY <1>1, PlaceType DEF RankInv, Asked, TypeOK, Stages
<1>3. /\ slope'[r] = [slope[r] EXCEPT ![i + 1] = velocity[r]]
      /\ slope' \in [Ranks -> [1 .. 7 -> Places \cup {Zero}]]
  BY <1>1, <1>2 DEF NextStage, StoredSlope, TypeOK
<1>4. UNCHANGED <<setup, t, dt, base, offset, shift, velocity, err, apart>>
  BY DEF NextStage
<1>5. /\ slope'[r][1] = slope[r][1]
      /\ \A k \in 2 .. i + 1 : slope'[r][k] = Place(t[r], dt[r], k - 1)
  <2>1. slope[r] \in [1 .. 7 -> Places \cup {Zero}]
    BY <1>1 DEF TypeOK
  <2>2. \A k \in 2 .. i : slope[r][k] = Place(t[r], dt[r], k - 1)
    BY <1>1 DEF RankInv, Slopes, InStep, Stored
  <2>3. slope'[r][i + 1] = Place(t[r], dt[r], i)
    BY <1>1, <1>2, <1>3, <2>1
  <2>4. \A k \in (1 .. 7) \ {i + 1} : slope'[r][k] = slope[r][k]
    BY <1>1, <1>3, <2>1
  <2>5. ASSUME NEW k \in 2 .. i + 1
        PROVE  slope'[r][k] = Place(t[r], dt[r], k - 1)
    <3>1. CASE k = i + 1
      BY <1>1, <2>3, <3>1
    <3>2. CASE k # i + 1
      <4>1. k \in 2 .. i /\ k \in (1 .. 7) \ {i + 1}
        BY <1>1, <3>2
      <4> QED
        BY <4>1, <2>2, <2>4
    <3> QED
      BY <3>1, <3>2
  <2> QED
    BY <1>1, <2>4, <2>5
<1>6. CASE MoreStages(r)
  <2>1. /\ stage'[r] = i + 1 /\ i + 1 \in Stages /\ pc'[r] = "call"
        /\ position'[r] = Place(t[r], dt[r], i + 1)
    BY <1>1, <1>6 DEF NextStage, MoreStages, TypeOK, Stages
  <2>2. TypeOK'
    <3>1. Place(t[r], dt[r], i + 1) \in Places
      BY <1>1, <2>1, PlaceType DEF TypeOK
    <3>2. /\ stage' = [stage EXCEPT ![r] = i + 1]
          /\ position' = [position EXCEPT ![r] = Place(t[r], dt[r], i + 1)]
          /\ pc' = [pc EXCEPT ![r] = "call"]
      BY <1>6 DEF NextStage
    <3>3. /\ stage' \in [Ranks -> Stages] /\ position' \in [Ranks -> Places]
          /\ pc' \in [Ranks -> {"head", "call", "return", "check", "done"}]
      BY <1>1, <2>1, <3>1, <3>2 DEF TypeOK
    <3> QED
      BY <1>1, <1>3, <1>4, <3>3 DEF TypeOK
  <2>3. OtherRanks(r)
    BY <1>1, <1>6 DEF NextStage, OtherRanks, TypeOK
  <2>4. Asked(r)' /\ Before(r)' /\ LeftOver(r)' /\ Wrapped(r)' /\ InTime(r)'
    BY <1>1, <1>4, <2>1
    DEF RankInv, Asked, Before, LeftOver, Wrapped, InTime, Rk4, InStep
  <2>5. Slopes(r)'
    <3>1. Stored(r)' = 2 .. i + 1
      BY <2>1 DEF Stored
    <3> QED
      BY <1>1, <1>4, <1>5, <2>1, <3>1 DEF RankInv, Slopes, InStep
  <2> QED
    BY <1>4, <2>2, <2>3, <2>4, <2>5, OthersKeep DEF IInv, RankInv
<1>7. CASE ~MoreStages(r)
  <2>1. i = 6 /\ pc'[r] = "check" /\ UNCHANGED <<stage, position>>
    BY <1>1, <1>7 DEF NextStage, MoreStages, TypeOK
  <2>2. TypeOK'
    BY <1>1, <1>3, <1>4, <1>7, <2>1 DEF NextStage, TypeOK
  <2>3. OtherRanks(r)
    BY <1>1, <1>7 DEF NextStage, OtherRanks, TypeOK
  <2>4. Asked(r)' /\ Before(r)' /\ LeftOver(r)' /\ Wrapped(r)' /\ InTime(r)'
    BY <1>1, <1>4, <2>1
    DEF RankInv, Asked, Before, LeftOver, Wrapped, InTime, Rk4, InStep
  <2>5. Slopes(r)'
    <3>1. Stored(r)' = 2 .. i + 1
      BY <2>1 DEF Stored
    <3> QED
      BY <1>1, <1>4, <1>5, <2>1, <3>1 DEF RankInv, Slopes, InStep
  <2> QED
    BY <1>4, <2>2, <2>3, <2>4, <2>5, OthersKeep DEF IInv, RankInv
<1> QED
  BY <1>6, <1>7

LEMMA RejectInv ==
  ASSUME IInv, NEW r \in Ranks, Reject(r)
  PROVE  IInv'
<1> DEFINE d == Reduced(dt[r], err[r])
<1>1. TypeOK /\ RankInv(r) /\ Rk4 /\ pc[r] = "check" /\ stage[r] = 6
  BY DEF IInv, Reject, RankInv, Asked
<1>2. /\ t[r] \in Nat /\ dt[r] \in Nat /\ t[r] + dt[r] <= FinalTime
      /\ t[r] < FinalTime - EndTolerance
  BY <1>1 DEF TypeOK, RankInv, InTime, Before, InStep
<1>3. d \in Nat /\ t[r] + d <= FinalTime
  BY <1>2, ReducedRange, IntegratorAssumption
<1>4. Place(t[r], d, 1) \in Places
  BY <1>2, <1>3, PlaceType DEF Stages
<1>5. /\ dt' = [dt EXCEPT ![r] = d]
      /\ stage' = [stage EXCEPT ![r] = 1]
      /\ position' = [position EXCEPT ![r] = Place(t[r], d, 1)]
      /\ pc' = [pc EXCEPT ![r] = "call"]
      /\ UNCHANGED <<setup, t, base, offset, shift, velocity, slope, err, apart>>
  BY DEF Reject
<1> HIDE DEF d
<1>6. TypeOK'
  <2>1. /\ dt' \in [Ranks -> Nat] /\ stage' \in [Ranks -> Stages]
        /\ position' \in [Ranks -> Places]
        /\ pc' \in [Ranks -> {"head", "call", "return", "check", "done"}]
    BY <1>1, <1>3, <1>4, <1>5 DEF TypeOK, Stages
  <2> QED
    BY <1>1, <1>5, <2>1 DEF TypeOK
<1>7. OtherRanks(r)
  BY <1>1, <1>5 DEF OtherRanks, TypeOK
<1>8. RankInv(r)'
  <2>1. /\ pc'[r] = "call" /\ stage'[r] = 1 /\ dt'[r] = d
        /\ position'[r] = Place(t[r], d, 1)
    BY <1>1, <1>5 DEF TypeOK
  <2>2. Asked(r)' /\ Before(r)' /\ LeftOver(r)' /\ Wrapped(r)'
    BY <1>1, <1>2, <1>5, <2>1
    DEF RankInv, Asked, Before, LeftOver, Wrapped, Rk4, InStep
  <2>3. InTime(r)'
    BY <1>1, <1>3, <1>5, <2>1 DEF RankInv, InTime
  <2>4. Slopes(r)'
    BY <1>1, <1>5, <2>1 DEF RankInv, Slopes, Rk4, InStep, Stored
  <2> QED
    BY <2>2, <2>3, <2>4 DEF RankInv
<1> QED
  BY <1>5, <1>6, <1>7, <1>8, OthersKeep DEF IInv

LEMMA AcceptInv ==
  ASSUME IInv, NEW r \in Ranks, Accept(r)
  PROVE  IInv'
<1>1. TypeOK /\ RankInv(r) /\ Rk4 /\ pc[r] = "check" /\ stage[r] = 6
  BY DEF IInv, Accept, RankInv, Asked
<1>2. /\ t[r] \in Nat /\ dt[r] \in Nat /\ t[r] + dt[r] <= FinalTime
      /\ slope[r] \in [1 .. 7 -> Places \cup {Zero}]
  BY <1>1 DEF TypeOK, RankInv, InTime, InStep
<1>3. /\ slope[r][7] = position[r] /\ position[r] # Origin
      /\ setup.periodic => offset[r] = position[r]
  <2>1. slope[r][7] = Place(t[r], dt[r], 6) /\ position[r] = Place(t[r], dt[r], 6)
    BY <1>1 DEF RankInv, Slopes, Asked, InStep, Stored
  <2>2. Place(t[r], dt[r], 6) # Origin
    BY <1>2, PlaceType DEF Stages
  <2> QED
    BY <1>1, <2>1, <2>2 DEF RankInv, LeftOver
<1>4. /\ t' = [t EXCEPT ![r] = t[r] + dt[r]]
      /\ slope' = [slope EXCEPT ![r] = Carried(r)]
      /\ pc' = [pc EXCEPT ![r] = "head"]
      /\ UNCHANGED <<setup, dt, stage, base, position, offset, shift, velocity,
                     err, apart>>
  BY DEF Accept
<1>5. /\ Carried(r) \in [1 .. 7 -> Places \cup {Zero}]
      /\ Carried(r)[1] = position[r]
  BY <1>2, <1>3 DEF Carried
<1>6. TypeOK'
  <2>1. /\ t' \in [Ranks -> Nat]
        /\ slope' \in [Ranks -> [1 .. 7 -> Places \cup {Zero}]]
        /\ pc' \in [Ranks -> {"head", "call", "return", "check", "done"}]
    BY <1>1, <1>2, <1>4, <1>5 DEF TypeOK
  <2> QED
    BY <1>1, <1>4, <2>1 DEF TypeOK
<1>7. OtherRanks(r)
  BY <1>1, <1>4 DEF OtherRanks, TypeOK
<1>8. RankInv(r)'
  <2>1. /\ pc'[r] = "head" /\ t'[r] = t[r] + dt[r]
        /\ slope'[r][1] = position[r]
    BY <1>1, <1>4, <1>5 DEF TypeOK
  <2> QED
    BY <1>1, <1>2, <1>3, <1>4, <2>1
    DEF RankInv, Asked, Before, LeftOver, Slopes, Wrapped, InTime, Rk4, InStep
<1> QED
  BY <1>4, <1>6, <1>7, <1>8, OthersKeep DEF IInv

LEMMA EulerStepInv ==
  ASSUME IInv, NEW r \in Ranks, EulerStep(r)
  PROVE  IInv'
<1> DEFINE p == Place(t[r], dt[r], 6)
<1>1. TypeOK /\ RankInv(r) /\ ~Rk4 /\ pc[r] = "return"
  BY DEF IInv, EulerStep
<1>2. /\ t[r] \in Nat /\ dt[r] \in Nat /\ t[r] + dt[r] <= FinalTime
      /\ p \in Places
  BY <1>1, PlaceType DEF TypeOK, RankInv, InTime, InStep, Stages
<1>3. /\ position' = [position EXCEPT ![r] = p]
      /\ t' = [t EXCEPT ![r] = t[r] + dt[r]]
      /\ pc' = [pc EXCEPT ![r] = "head"]
      /\ UNCHANGED <<setup, dt, stage, base, velocity, slope, err, apart>>
  BY DEF EulerStep
<1>4. position'[r] = p
  BY <1>1, <1>3 DEF TypeOK
<1>5. /\ setup.periodic => offset' = [offset EXCEPT ![r] = p]
                            /\ shift' = [shift EXCEPT ![r] = p]
      /\ ~setup.periodic => UNCHANGED <<offset, shift>>
  <2>1. CASE setup.periodic
    <3>1. offset' = [offset EXCEPT ![r] = p]
      BY <1>4, <2>1 DEF EulerStep
    <3>2. offset'[r] = p
      BY <1>1, <3>1 DEF TypeOK
    <3> QED
      BY <2>1, <3>1, <3>2 DEF EulerStep
  <2>2. CASE ~setup.periodic
    BY <2>2 DEF EulerStep
  <2> QED
    BY <2>1, <2>2
<1> HIDE DEF p
<1>6. TypeOK'
  <2>1. /\ position' \in [Ranks -> Places] /\ t' \in [Ranks -> Nat]
        /\ offset' \in [Ranks -> Places] /\ shift' \in [Ranks -> Places]
        /\ pc' \in [Ranks -> {"head", "call", "return", "check", "done"}]
    <3>1. /\ position' \in [Ranks -> Places] /\ t' \in [Ranks -> Nat]
          /\ pc' \in [Ranks -> {"head", "call", "return", "check", "done"}]
      BY <1>1, <1>2, <1>3 DEF TypeOK
    <3>2. CASE setup.periodic
      <4>1. /\ offset' = [offset EXCEPT ![r] = p]
            /\ shift' = [shift EXCEPT ![r] = p]
        BY <1>5, <3>2
      <4>2. offset' \in [Ranks -> Places] /\ shift' \in [Ranks -> Places]
        BY <1>1, <1>2, <4>1 DEF TypeOK
      <4> QED
        BY <3>1, <4>2
    <3>3. CASE ~setup.periodic
      <4>1. UNCHANGED <<offset, shift>>
        BY <1>5, <3>3
      <4> QED
        BY <1>1, <3>1, <4>1 DEF TypeOK
    <3> QED
      BY <3>2, <3>3
  <2> QED
    BY <1>1, <1>3, <2>1 DEF TypeOK
<1>7. OtherRanks(r)
  BY <1>1, <1>3, <1>5 DEF OtherRanks, TypeOK
<1>8. RankInv(r)'
  <2>1. /\ pc'[r] = "head" /\ t'[r] = t[r] + dt[r]
        /\ setup.periodic => shift'[r] = p
    BY <1>1, <1>3, <1>5 DEF TypeOK
  <2> QED
    BY <1>1, <1>2, <1>3, <1>4, <2>1
    DEF RankInv, Asked, Before, LeftOver, Slopes, Wrapped, InTime, Rk4, InStep
<1> QED
  BY <1>3, <1>6, <1>7, <1>8, OthersKeep DEF IInv

LEMMA NextInv == IInv /\ [Next]_vars => IInv'
<1> SUFFICES ASSUME IInv, [Next]_vars PROVE IInv'
  OBVIOUS
<1>1. CASE VelocityUpdate
  BY <1>1, VelocityUpdateInv
<1>2. ASSUME NEW r \in Ranks, Local(r) PROVE IInv'
  BY <1>2, BeginInv, EndInv, FirstVelocityInv, NextStageInv, RejectInv,
     AcceptInv, EulerStepInv DEF Local
<1>3. CASE UNCHANGED vars
  <2>1. UNCHANGED <<setup, pc, t, dt, stage, base, position, offset, shift,
                    velocity, slope, err, apart>>
    BY <1>3 DEF vars
  <2> QED
    BY <2>1 DEF IInv, TypeOK, RankInv, Asked, Before, LeftOver, Slopes, Wrapped,
                InTime, Rk4, InStep, Stored
<1> QED
  BY <1>1, <1>2, <1>3 DEF Next, Finished, Waiting

LEMMA InvHolds == Spec => []IInv
BY InitInv, NextInv, PTL DEF Spec

-----------------------------------------------------------------------------
(* Theorems *)

\* Every variable of TimeIntegrator always holds a value of its kind.
THEOREM TypeCorrect == Spec => []TypeOK
<1>1. IInv => TypeOK
  BY DEF IInv
<1> QED
  BY <1>1, InvHolds, PTL

\* ExplicitRk4 never combines slopes of different attempts, however many
\* were rejected, and each step but the first starts with the slope at its
\* base.
THEOREM SlopesAreCurrent == Spec => []SlopesCurrent
<1>1. IInv => SlopesCurrent
  BY DEF IInv, RankInv, Slopes, SlopesCurrent
<1> QED
  BY <1>1, InvHolds, PTL

\* Positions are put back into the domain by their own offsets only.
THEOREM WrapsAreOwn == Spec => []WrappedByOwnOffset
<1>1. IInv => WrappedByOwnOffset
  BY DEF IInv, RankInv, Wrapped, WrappedByOwnOffset
<1> QED
  BY <1>1, InvHolds, PTL

\* No step of Run leads past the final time, although a rejected step may
\* grow to MinStep: MinStep is not above EndTolerance.
THEOREM StepsEndInTime == Spec => []NeverPastEnd
<1>1. IInv => NeverPastEnd
  BY DEF IInv, RankInv, InTime, NeverPastEnd
<1> QED
  BY <1>1, InvHolds, PTL

-----------------------------------------------------------------------------
(***************************************************************************)
(* Unless the sums of an attempt lead two ranks to different outcomes, no  *)
(* rank of Run waits in a callback for one that asks about something else, *)
(* or has returned: for every number of ranks, and sums that differ as     *)
(* much as they may.                                                       *)
(*                                                                         *)
(* Between two callbacks a rank is on its own, and its steps have one      *)
(* outcome: Arrival(r), the state in which r asks for velocities again or  *)
(* returns.  A step of r leaves Arrival(r) as it is, and so all ranks have *)
(* the same.  Their sums are no part of it.                                *)
(***************************************************************************)

\* The state of a rank, but for where it is.
Rank(t0, dt0, i, base0, p, o, sh, v, k) ==
  [t |-> t0, dt |-> dt0, stage |-> i, base |-> base0, position |-> p,
   offset |-> o, shift |-> sh, velocity |-> v, slope |-> k]

State(r) == Rank(t[r], dt[r], stage[r], base[r], position[r], offset[r],
                 shift[r], velocity[r], slope[r])

Called(x) == <<"call", x>>
Returned(x) == <<"done", x>>

\* What becomes of a rank in state x at each place of Run.
FromHead(x) ==
  LET size == Smaller(setup.timeStep, FinalTime - x.t)
  IN  IF ~(x.t < FinalTime - EndTolerance) THEN Returned(x)
      ELSE IF Rk4
      THEN Called(Rank(x.t, size, 1, x.position, Place(x.t, size, 1), x.offset,
                       IF setup.periodic THEN x.offset ELSE x.shift,
                       x.velocity, x.slope))
      ELSE Called(Rank(x.t, size, x.stage, x.position, x.position, x.offset,
                       x.shift, x.velocity, x.slope))

FromCheck(x, sum) ==
  LET size == NextAttempt(x.dt, sum)
  IN  IF size > 0
      THEN Called(Rank(x.t, size, 1, x.base, Place(x.t, size, 1), x.offset,
                       x.shift, x.velocity, x.slope))
      ELSE FromHead(Rank(x.t + x.dt, x.dt, x.stage, x.base, x.position,
                         x.offset, x.shift, x.velocity,
                         [x.slope EXCEPT ![1] = x.slope[7]]))

FromStage(x, sum) ==
  LET stored == [x.slope EXCEPT ![x.stage + 1] = x.velocity]
  IN  IF x.stage < 6
      THEN Called(Rank(x.t, x.dt, x.stage + 1, x.base,
                       Place(x.t, x.dt, x.stage + 1), x.offset, x.shift,
                       x.velocity, stored))
      ELSE FromCheck(Rank(x.t, x.dt, x.stage, x.base, x.position, x.offset,
                          x.shift, x.velocity, stored), sum)

FromEuler(x) ==
  LET p == Place(x.t, x.dt, 6)
  IN  FromHead(Rank(x.t + x.dt, x.dt, x.stage, x.base, p,
                    IF setup.periodic THEN p ELSE x.offset,
                    IF setup.periodic THEN p ELSE x.shift,
                    x.velocity, x.slope))

Arrival(r) ==
  CASE pc[r] = "call" -> Called(State(r))
    [] pc[r] = "done" -> Returned(State(r))
    [] pc[r] = "head" -> FromHead(State(r))
    [] pc[r] = "check" -> FromCheck(State(r), err[r])
    [] pc[r] = "return" ->
         IF ~Rk4 THEN FromEuler(State(r))
         ELSE IF stage[r] = 0 THEN FromHead(State(r))
         ELSE FromStage(State(r), err[r])

Together == apart \/ \A r, s \in Ranks : Arrival(r) = Arrival(s)

-----------------------------------------------------------------------------
(* One lemma per action *)

LEMMA LocalOthers ==
  ASSUME TypeOK, NEW r \in Ranks, Local(r)
  PROVE  OtherRanks(r) /\ UNCHANGED <<setup, err, apart>>
<1>1. CASE Begin(r)
  BY <1>1 DEF Begin, OtherRanks, TypeOK
<1>2. CASE End(r)
  BY <1>2 DEF End, OtherRanks, TypeOK
<1>3. CASE FirstVelocity(r)
  BY <1>3 DEF FirstVelocity, OtherRanks, TypeOK
<1>4. CASE NextStage(r)
  BY <1>4 DEF NextStage, OtherRanks, TypeOK
<1>5. CASE Reject(r)
  BY <1>5 DEF Reject, OtherRanks, TypeOK
<1>6. CASE Accept(r)
  BY <1>6 DEF Accept, OtherRanks, TypeOK
<1>7. CASE EulerStep(r)
  BY <1>7 DEF EulerStep, OtherRanks, TypeOK
<1> QED
  BY <1>1, <1>2, <1>3, <1>4, <1>5, <1>6, <1>7 DEF Local

LEMMA Fields ==
  ASSUME NEW r \in Ranks
  PROVE  /\ State(r).t = t[r] /\ State(r).dt = dt[r]
         /\ State(r).stage = stage[r] /\ State(r).base = base[r]
         /\ State(r).position = position[r] /\ State(r).offset = offset[r]
         /\ State(r).shift = shift[r] /\ State(r).velocity = velocity[r]
         /\ State(r).slope = slope[r]
BY DEF State, Rank

\* An attempt that is repeated has a size.
LEMMA RepeatedHasSize ==
  ASSUME NEW size \in Nat, NEW sum \in Nat
  PROVE  NextAttempt(size, sum) > 0 <=> sum > Threshold
<1>1. Reduced(size, sum) > 0
  <2>1. /\ MinStep \in Nat /\ MinStep > 0
    BY IntegratorAssumption
  <2>2. Factor(sum) \in 1 .. 8
    BY FactorRange
  <2> DEFINE q == (size * Factor(sum)) \div 10
  <2>3. q \in Int
    BY <2>2
  <2>4. Reduced(size, sum) = Larger(q, MinStep)
    BY DEF Reduced
  <2> HIDE DEF q
  <2> QED
    BY <2>1, <2>3, <2>4 DEF Larger
<1> QED
  BY <1>1 DEF NextAttempt

\* The arrival of a rank depends on its own state, its sum and setup.
LEMMA ArrivalKept ==
  ASSUME NEW s \in Ranks, UNCHANGED <<setup, err>>,
         pc'[s] = pc[s], stage'[s] = stage[s], State(s)' = State(s)
  PROVE  Arrival(s)' = Arrival(s)
BY DEF Arrival, Rk4, FromCheck, FromStage, FromEuler, FromHead

LEMMA OneArrives ==
  ASSUME TypeOK, Together, NEW r \in Ranks, Local(r),
         Arrival(r)' = Arrival(r)
  PROVE  Together'
<1>1. ASSUME NEW s \in Ranks PROVE Arrival(s)' = Arrival(s)
  <2>1. CASE s = r
    BY <2>1
  <2>2. CASE s # r
    BY <2>2, LocalOthers, ArrivalKept DEF OtherRanks, State
  <2> QED
    BY <2>1, <2>2
<1>2. apart' = apart
  BY LocalOthers
<1> QED
  BY <1>1, <1>2 DEF Together

LEMMA BeginArrives ==
  ASSUME TypeOK, NEW r \in Ranks, Begin(r)
  PROVE  Arrival(r)' = Arrival(r)
<1> DEFINE x == State(r)
           size == FirstSize(r)
<1>1. pc[r] = "head" /\ t[r] < FinalTime - EndTolerance
  BY DEF Begin, Running
<1>2. Arrival(r) = FromHead(x)
  BY <1>1 DEF Arrival
<1>3. pc'[r] = "call" /\ Arrival(r)' = Called(State(r)')
  BY DEF Begin, TypeOK, Arrival
<1>4. CASE Rk4
  <2>1. /\ dt'[r] = size /\ base'[r] = position[r] /\ stage'[r] = 1
        /\ position'[r] = Place(t[r], size, 1)
        /\ shift'[r] = IF setup.periodic THEN offset[r] ELSE shift[r]
        /\ UNCHANGED <<t, offset, velocity, slope>>
    BY <1>4 DEF Begin, TypeOK
  <2>2. State(r)' = Rank(t[r], size, 1, position[r], Place(t[r], size, 1),
                         offset[r],
                         IF setup.periodic THEN offset[r] ELSE shift[r],
                         velocity[r], slope[r])
    BY <2>1 DEF State
  <2> QED
    BY <1>1, <1>2, <1>3, <1>4, <2>2, Fields DEF FromHead, FirstSize
<1>5. CASE ~Rk4
  <2>1. /\ dt'[r] = size /\ base'[r] = position[r]
        /\ UNCHANGED <<t, stage, position, shift, offset, velocity, slope>>
    BY <1>5 DEF Begin, TypeOK
  <2>2. State(r)' = Rank(t[r], size, stage[r], position[r], position[r],
                         offset[r], shift[r], velocity[r], slope[r])
    BY <2>1 DEF State
  <2> QED
    BY <1>1, <1>2, <1>3, <1>5, <2>2, Fields DEF FromHead, FirstSize
<1> QED
  BY <1>4, <1>5

LEMMA EndArrives ==
  ASSUME TypeOK, NEW r \in Ranks, End(r)
  PROVE  Arrival(r)' = Arrival(r)
<1>1. pc[r] = "head" /\ ~(t[r] < FinalTime - EndTolerance)
  BY DEF End, Running
<1>2. pc'[r] = "done" /\ State(r)' = State(r)
  BY DEF End, TypeOK, State
<1> QED
  BY <1>1, <1>2, Fields DEF Arrival, FromHead

LEMMA FirstVelocityArrives ==
  ASSUME TypeOK, NEW r \in Ranks, FirstVelocity(r)
  PROVE  Arrival(r)' = Arrival(r)
<1>1. pc[r] = "return" /\ Rk4 /\ stage[r] = 0
  BY DEF FirstVelocity
<1>2. /\ pc'[r] = "head" /\ State(r)' = State(r)
      /\ UNCHANGED <<setup, err, apart>>
  BY DEF FirstVelocity, TypeOK, State
<1> QED
  BY <1>1, <1>2 DEF Arrival, FromHead, Rk4

LEMMA NextStageArrives ==
  ASSUME TypeOK, NEW r \in Ranks, NextStage(r)
  PROVE  Arrival(r)' = Arrival(r)
<1> DEFINE x == State(r)
           stored == [slope[r] EXCEPT ![stage[r] + 1] = velocity[r]]
<1>1. pc[r] = "return" /\ Rk4 /\ stage[r] \in 1 .. 6
  BY DEF NextStage
<1>2. Arrival(r) = FromStage(x, err[r])
  BY <1>1 DEF Arrival
<1>3. /\ slope'[r] = stored
      /\ UNCHANGED <<setup, t, dt, base, offset, shift, velocity, err, apart>>
  BY DEF NextStage, StoredSlope, TypeOK
<1>4. CASE MoreStages(r)
  <2>1. /\ pc'[r] = "call" /\ stage'[r] = stage[r] + 1
        /\ position'[r] = Place(t[r], dt[r], stage[r] + 1)
    BY <1>4 DEF NextStage, TypeOK
  <2>2. State(r)' = Rank(t[r], dt[r], stage[r] + 1, base[r],
                         Place(t[r], dt[r], stage[r] + 1), offset[r], shift[r],
                         velocity[r], stored)
    BY <1>3, <2>1 DEF State
  <2> QED
    BY <1>2, <1>4, <2>1, <2>2, Fields DEF Arrival, FromStage, MoreStages
<1>5. CASE ~MoreStages(r)
  <2>1. pc'[r] = "check" /\ UNCHANGED <<stage, position>>
    BY <1>5 DEF NextStage, TypeOK
  <2>2. State(r)' = Rank(t[r], dt[r], stage[r], base[r], position[r],
                         offset[r], shift[r], velocity[r], stored)
    BY <1>3, <2>1 DEF State
  <2>3. Arrival(r)' = FromCheck(State(r)', err[r])
    BY <1>3, <2>1 DEF Arrival, FromCheck, FromHead, Rk4
  <2> QED
    BY <1>2, <1>5, <2>2, <2>3, Fields DEF FromStage, MoreStages
<1> QED
  BY <1>4, <1>5

LEMMA RejectArrives ==
  ASSUME TypeOK, NEW r \in Ranks, Reject(r)
  PROVE  Arrival(r)' = Arrival(r)
<1> DEFINE x == State(r)
           size == Reduced(dt[r], err[r])
<1>1. /\ pc[r] = "check" /\ NextAttempt(dt[r], err[r]) = size
      /\ NextAttempt(dt[r], err[r]) > 0
  <2>1. dt[r] \in Nat /\ err[r] \in Nat
    BY DEF TypeOK
  <2> QED
    BY <2>1, RepeatedHasSize DEF Reject, Rejected, NextAttempt
<1>2. /\ pc'[r] = "call" /\ dt'[r] = size /\ stage'[r] = 1
      /\ position'[r] = Place(t[r], size, 1)
      /\ UNCHANGED <<t, base, offset, shift, velocity, slope>>
  BY DEF Reject, TypeOK
<1>3. State(r)' = Rank(t[r], size, 1, base[r], Place(t[r], size, 1), offset[r],
                       shift[r], velocity[r], slope[r])
  BY <1>2 DEF State
<1> HIDE DEF size
<1> QED
  BY <1>1, <1>2, <1>3, Fields DEF Arrival, FromCheck

LEMMA AcceptArrives ==
  ASSUME TypeOK, NEW r \in Ranks, Accept(r)
  PROVE  Arrival(r)' = Arrival(r)
<1> DEFINE x == State(r)
<1>1. pc[r] = "check" /\ ~(NextAttempt(dt[r], err[r]) > 0)
  <2>1. dt[r] \in Nat /\ err[r] \in Nat
    BY DEF TypeOK
  <2> QED
    BY <2>1, RepeatedHasSize DEF Accept, Rejected
<1>2. /\ pc'[r] = "head" /\ t'[r] = t[r] + dt[r] /\ slope'[r] = Carried(r)
      /\ UNCHANGED <<setup, dt, stage, base, position, offset, shift, velocity>>
  BY DEF Accept, TypeOK
<1>3. State(r)' = Rank(t[r] + dt[r], dt[r], stage[r], base[r], position[r],
                       offset[r], shift[r], velocity[r], Carried(r))
  BY <1>2 DEF State
<1>4. Arrival(r)' = FromHead(State(r)')
  BY <1>2 DEF Arrival, FromHead, Rk4
<1>5. Arrival(r) =
        FromHead(Rank(t[r] + dt[r], dt[r], stage[r], base[r], position[r],
                      offset[r], shift[r], velocity[r], Carried(r)))
  BY <1>1, Fields DEF Arrival, FromCheck, Carried
<1> QED
  BY <1>3, <1>4, <1>5

LEMMA EulerStepArrives ==
  ASSUME TypeOK, NEW r \in Ranks, EulerStep(r)
  PROVE  Arrival(r)' = Arrival(r)
<1> DEFINE x == State(r)
           p == Place(t[r], dt[r], 6)
<1>1. pc[r] = "return" /\ ~Rk4
  BY DEF EulerStep
<1>2. /\ pc'[r] = "head" /\ t'[r] = t[r] + dt[r] /\ position'[r] = p
      /\ UNCHANGED <<setup, dt, stage, base, velocity, slope>>
  BY DEF EulerStep, TypeOK
<1>3. /\ offset'[r] = IF setup.periodic THEN p ELSE offset[r]
      /\ shift'[r] = IF setup.periodic THEN p ELSE shift[r]
  <2>1. CASE setup.periodic
    BY <1>2, <2>1 DEF EulerStep, TypeOK
  <2>2. CASE ~setup.periodic
    BY <2>2 DEF EulerStep
  <2> QED
    BY <2>1, <2>2
<1>4. State(r)' = Rank(t[r] + dt[r], dt[r], stage[r], base[r], p,
                       IF setup.periodic THEN p ELSE offset[r],
                       IF setup.periodic THEN p ELSE shift[r],
                       velocity[r], slope[r])
  BY <1>2, <1>3 DEF State
<1>5. Arrival(r)' = FromHead(State(r)')
  BY <1>2 DEF Arrival, FromHead, Rk4
<1>6. Arrival(r) = FromEuler(x)
  BY <1>1 DEF Arrival
<1> QED
  BY <1>4, <1>5, <1>6, Fields DEF FromEuler

\* The sum of an attempt enters only through its outcome.
LEMMA SumsOfOneOutcome ==
  ASSUME NEW x, NEW a, NEW b, NextAttempt(x.dt, a) = NextAttempt(x.dt, b)
  PROVE  FromStage(x, a) = FromStage(x, b)
BY DEF FromStage, FromCheck, Rank

LEMMA VelocityUpdateArrives ==
  ASSUME TypeOK, Together, VelocityUpdate
  PROVE  Together'
<1> SUFFICES ASSUME ~apart', NEW r \in Ranks, NEW s \in Ranks
             PROVE  Arrival(r)' = Arrival(s)'
  BY DEF Together
<1>0. /\ \A q \in Ranks : Arrival(q) = Arrival(r)
      /\ NextAttempt(dt[r], err'[r]) = NextAttempt(dt[s], err'[s])
  <2>1. ~apart
    BY DEF VelocityUpdate
  <2> QED
    BY <2>1 DEF VelocityUpdate, Together
<1>1. pc[r] = "call" /\ pc[s] = "call" /\ pc'[r] = "return" /\ pc'[s] = "return"
  BY DEF VelocityUpdate
<1>2. State(r) = State(s)
  <2>1. Called(State(r)) = Called(State(s))
    BY <1>0, <1>1 DEF Arrival
  <2> QED
    BY <2>1 DEF Called
<1>3. stage[r] = stage[s] /\ position[r] = position[s] /\ offset[r] = offset[s]
  BY <1>2, Fields
<1>4. State(r)' = State(s)' /\ stage'[r] = stage'[s]
  <2>1. offset'[r] = offset'[s] /\ velocity'[r] = velocity'[s]
    BY <1>3 DEF VelocityUpdate, AskedOffsets
  <2>2. UNCHANGED <<t, dt, stage, base, position, shift, slope>>
    BY DEF VelocityUpdate
  <2>3. /\ t[r] = t[s] /\ dt[r] = dt[s] /\ base[r] = base[s]
        /\ shift[r] = shift[s] /\ slope[r] = slope[s]
    BY <1>2, Fields
  <2> QED
    BY <1>3, <2>1, <2>2, <2>3 DEF State
<1>5. NextAttempt(State(r).dt', err'[r]) = NextAttempt(State(s).dt', err'[s])
  <2>1. State(r).dt' = dt[r] /\ State(s).dt' = dt[s]
    BY DEF State, Rank, VelocityUpdate
  <2> QED
    BY <1>0, <2>1
<1>6. FromStage(State(r)', err'[r]) = FromStage(State(s)', err'[s])
  BY <1>4, <1>5, SumsOfOneOutcome
<1> QED
  BY <1>1, <1>4, <1>6 DEF Arrival

-----------------------------------------------------------------------------
(* The theorem *)

LEMMA InitTogether == Init => Together
<1> SUFFICES ASSUME Init, NEW r \in Ranks, NEW s \in Ranks
             PROVE  Arrival(r) = Arrival(s)
  BY DEF Together
<1>1. /\ pc[r] = pc[s] /\ pc[r] \in {"head", "call"} /\ stage[r] = stage[s]
      /\ State(r) = State(s)
  BY DEF Init, State
<1> QED
  BY <1>1 DEF Arrival

LEMMA NextTogether ==
  ASSUME TypeOK, Together, [Next]_vars
  PROVE  Together'
<1>1. CASE VelocityUpdate
  BY <1>1, VelocityUpdateArrives
<1>2. ASSUME NEW r \in Ranks, Local(r) PROVE Together'
  <2>1. Arrival(r)' = Arrival(r)
    BY <1>2, BeginArrives, EndArrives, FirstVelocityArrives, NextStageArrives,
       RejectArrives, AcceptArrives, EulerStepArrives DEF Local
  <2> QED
    BY <1>2, <2>1, OneArrives
<1>3. CASE UNCHANGED vars
  <2>1. ASSUME NEW r \in Ranks PROVE Arrival(r)' = Arrival(r)
    BY <1>3, ArrivalKept DEF vars, State
  <2> QED
    BY <1>3, <2>1 DEF Together, vars
<1> QED
  BY <1>1, <1>2, <1>3 DEF Next, Finished, Waiting

LEMMA TogetherAgree == Together => CollectivesAgree
<1> SUFFICES ASSUME Together, ~apart,
                    NEW r \in Ranks, NEW s \in Ranks, pc[r] = "call"
             PROVE  /\ pc[s] # "done"
                    /\ pc[s] = "call" => position[r] = position[s]
                                        /\ stage[r] = stage[s]
  BY DEF CollectivesAgree
<1>1. Arrival(r) = Called(State(r)) /\ Arrival(s) = Arrival(r)
  BY DEF Together, Arrival
<1>2. pc[s] # "done"
  <2>1. pc[s] = "done" => Arrival(s) = Returned(State(s))
    BY DEF Arrival
  <2> QED
    BY <1>1, <2>1 DEF Called, Returned
<1>3. CASE pc[s] = "call"
  <2>1. Called(State(r)) = Called(State(s))
    BY <1>1, <1>3 DEF Arrival
  <2>2. State(r) = State(s)
    BY <2>1 DEF Called
  <2> QED
    BY <1>2, <2>2, Fields
<1> QED
  BY <1>2, <1>3

\* However the ranks sum their errors: as long as no attempt has had different
\* outcomes for two ranks, no rank waits in the callback for one that asks about
\* other positions or has returned.  Sums that differ otherwise do no harm.
THEOREM RanksAgreeInCallbacks == Spec => []CollectivesAgree
<1>1. TypeOK /\ Together /\ [Next]_vars => Together'
  BY NextTogether
<1>2. Spec => []TypeOK
  BY TypeCorrect
<1> QED
  BY <1>1, <1>2, InitTogether, TogetherAgree, PTL DEF Spec

\* The ranks of ExplicitEuler never part: it compares no sum with a threshold.
THEOREM EulerRanksNeverPart == Spec => [](~Rk4 => ~apart)
<1> DEFINE Never == ~Rk4 => ~apart /\ \A r \in Ranks : stage[r] = 0
<1>1. Init => Never
  BY DEF Init
<1>2. IInv /\ Never /\ [Next]_vars => Never'
  <2> SUFFICES ASSUME IInv, TypeOK, Never, [Next]_vars, ~Rk4'
               PROVE  ~apart' /\ \A r \in Ranks : stage'[r] = 0
    BY DEF IInv
  <2>1. ~Rk4 /\ ~apart /\ \A r \in Ranks : stage[r] = 0
    <3>1. setup' = setup
      BY LocalOthers DEF Next, VelocityUpdate, Finished, Waiting, vars
    <3> QED
      BY <3>1 DEF Rk4
  <2>2. CASE VelocityUpdate
    <3>1. \A r \in Ranks : err'[r] = 0
      BY <2>1, <2>2, VelocityUpdateSums
    <3>2. \A r \in Ranks : NextAttempt(dt[r], err'[r]) = 0
      BY <3>1, IntegratorAssumption DEF NextAttempt
    <3> QED
      BY <2>1, <2>2, <3>2 DEF VelocityUpdate
  <2>3. ASSUME NEW r \in Ranks, Local(r)
        PROVE  ~apart' /\ \A s \in Ranks : stage'[s] = 0
    <3>1. stage' = stage
      <4>1. ~Reject(r) /\ ~Accept(r)
        BY <2>1 DEF IInv, RankInv, Asked, Reject, Accept
      <4> QED
        BY <2>1, <2>3, <4>1
        DEF Local, Begin, End, FirstVelocity, NextStage, EulerStep
    <3> QED
      BY <2>1, <2>3, <3>1, LocalOthers
  <2>4. CASE UNCHANGED vars
    BY <2>1, <2>4 DEF vars
  <2> QED
    BY <2>2, <2>3, <2>4 DEF Next, Finished, Waiting
<1> QED
  BY <1>1, <1>2, InvHolds, PTL DEF Spec

-----------------------------------------------------------------------------
(* Lists and their lengths *)

\* A function on the first n numbers is a sequence of length n.
LEMMA ListOf ==
  ASSUME NEW n \in Nat, NEW S, NEW f \in [1 .. n -> S]
  PROVE  f \in Seq(S) /\ Len(f) = n /\ DOMAIN f = 1 .. n
OBVIOUS

\* Whatever its entries are.
LEMMA LengthOf ==
  ASSUME NEW n \in Nat, NEW f, f = [k \in 1 .. n |-> f[k]]
  PROVE  Len(f) = n /\ DOMAIN f = 1 .. n
<1>1. f \in [1 .. n -> {f[k] : k \in 1 .. n}]
  OBVIOUS
<1> QED BY <1>1, ListOf

\* A sequence is a function on the first numbers.
LEMMA SeqIsList ==
  ASSUME NEW S, NEW f \in Seq(S)
  PROVE  Len(f) \in Nat /\ DOMAIN f = 1 .. Len(f) /\ f \in [1 .. Len(f) -> S]
OBVIOUS

\* A chain of values, each made from the one before it, has all its links.
LEMMA ChainExists ==
  ASSUME NEW n \in Nat, NEW h \in [Nat \X (1 .. n) -> Nat]
  PROVE  \E f \in [0 .. n -> Nat] :
           f[0] = 0 /\ \A i \in 1 .. n : f[i] = h[<<f[i - 1], i>>]
<1> DEFINE Chain(m, f) == f \in [0 .. m -> Nat] /\ f[0] = 0 /\
                          \A i \in 1 .. m : f[i] = h[<<f[i - 1], i>>]
           A == {m \in Nat : m <= n /\ ~ \E f : Chain(m, f)}
<1>1. A = {}
  <2> SUFFICES ASSUME A # {} PROVE FALSE
    OBVIOUS
  <2>1. PICK m \in A : \A x \in A : m <= x
    <3>1. A \in SUBSET Nat
      OBVIOUS
    <3> HIDE DEF A
    <3> QED BY <3>1, LeastNatural
  <2>2. m \in Nat /\ m <= n /\ ~ \E f : Chain(m, f)
    BY <2>1
  <2>3. m # 0
    <3> SUFFICES ASSUME m = 0 PROVE FALSE
      OBVIOUS
    <3> DEFINE z == [i \in 0 .. 0 |-> 0]
    <3>1. Chain(0, z)
      OBVIOUS
    <3> HIDE DEF Chain, z
    <3> QED BY <3>1, <2>2
  <2> DEFINE l == m - 1
  <2>15. l \in Nat /\ l < m /\ l + 1 = m /\ ~ (m <= l)
    BY <2>2, <2>3
  <2> HIDE DEF l
  <2>4. l \in Nat /\ l < m /\ l + 1 = m /\ l \notin A
    <3> HIDE DEF A
    <3> QED BY <2>1, <2>15
  <2>5. PICK f : Chain(l, f)
    BY <2>2, <2>4
  <2> DEFINE g == [i \in 0 .. m |-> IF i = m THEN h[<<f[l], m>>] ELSE f[i]]
  <2>6. /\ f \in [0 .. l -> Nat] /\ f[0] = 0
        /\ \A i \in 1 .. l : f[i] = h[<<f[i - 1], i>>]
    BY <2>5
  <2>7. f[l] \in Nat /\ m \in 1 .. n
    BY <2>6, <2>4, <2>2
  <2>8. h[<<f[l], m>>] \in Nat
    BY <2>7
  <2>9. g \in [0 .. m -> Nat]
    <3>1. \A i \in 0 .. m : i # m => i \in 0 .. l
      BY <2>4
    <3> QED BY <3>1, <2>6, <2>8
  <2>10. \A i \in 0 .. l : g[i] = f[i]
    BY <2>4
  <2>11. g[m] = h[<<f[l], m>>]
    BY <2>2
  <2> HIDE DEF g
  <2>12. \A i \in 1 .. m : g[i] = h[<<g[i - 1], i>>]
    <3> TAKE i \in 1 .. m
    <3>1. CASE i = m
      <4>1. i - 1 = l /\ l \in 0 .. l
        BY <3>1, <2>4
      <4> QED BY <4>1, <3>1, <2>10, <2>11
    <3>2. CASE i # m
      <4>1. i \in 1 .. l /\ i \in 0 .. l /\ i - 1 \in 0 .. l
        BY <3>2, <2>4
      <4> QED BY <4>1, <2>6, <2>10
    <3> QED BY <3>1, <3>2
  <2>13. g[0] = 0
    BY <2>4, <2>6, <2>10
  <2>14. Chain(m, g)
    BY <2>9, <2>12, <2>13
  <2> HIDE DEF Chain
  <2> QED BY <2>14, <2>2
<1>2. n \notin A
  BY <1>1
<1>3. PICK f : Chain(n, f)
  BY <1>2
<1> QED BY <1>3

\* The least number of a set of numbers, for proofs by induction: what holds for
\* 0 and passes from each number to the next up to n holds up to n.
LEMMA UpToBound ==
  ASSUME NEW n \in Nat, NEW good \in SUBSET Nat, 0 \in good,
         \A i \in Nat : i < n /\ i \in good => i + 1 \in good
  PROVE  \A i \in 0 .. n : i \in good
<1> SUFFICES ASSUME NEW i \in 0 .. n, i \notin good PROVE FALSE
  OBVIOUS
<1> DEFINE A == {j \in Nat : j <= n /\ j \notin good}
<1>1. i \in A
  OBVIOUS
<1>2. PICK m \in A : \A x \in A : m <= x
  <2>1. A \in SUBSET Nat /\ A # {}
    BY <1>1
  <2> HIDE DEF A
  <2> QED BY <2>1, LeastNatural
<1>3. m \in Nat /\ m <= n /\ m \notin good /\ m # 0
  BY <1>2
<1> DEFINE l == m - 1
<1>4. l \in Nat /\ l < n /\ l <= n /\ l + 1 = m /\ ~ (m <= l)
  BY <1>3
<1> HIDE DEF l
<1>5. l \notin A
  <2> HIDE DEF A
  <2> QED BY <1>2, <1>4
<1>6. l \in good
  BY <1>4, <1>5
<1> QED BY <1>3, <1>4, <1>6

-----------------------------------------------------------------------------
(* Where the parts of an array start *)

LEMMA StartsType ==
  ASSUME NEW n \in Nat, NEW num \in [1 .. n -> Nat]
  PROVE  /\ Starts(num) \in [0 .. n -> Nat] /\ Starts(num)[0] = 0
         /\ \A i \in 1 .. n : Starts(num)[i] = Starts(num)[i - 1] + num[i]
<1>1. Len(num) = n
  BY ListOf
<1> DEFINE Sums(f) == f = [i \in 0 .. n |-> IF i = 0 THEN 0 ELSE f[i - 1] + num[i]]
           h == [p \in Nat \X (1 .. n) |-> p[1] + num[p[2]]]
<1>2. h \in [Nat \X (1 .. n) -> Nat]
  OBVIOUS
<1>3. \A x \in Nat, i \in 1 .. n : h[<<x, i>>] = x + num[i]
  OBVIOUS
<1> HIDE DEF h
<1>4. PICK f \in [0 .. n -> Nat] :
        f[0] = 0 /\ \A i \in 1 .. n : f[i] = h[<<f[i - 1], i>>]
  BY <1>2, ChainExists
<1>5. Sums(f)
  <2>1. \A i \in 0 .. n : f[i] = IF i = 0 THEN 0 ELSE f[i - 1] + num[i]
    <3> TAKE i \in 0 .. n
    <3>1. CASE i = 0
      BY <3>1, <1>4
    <3>2. CASE i # 0
      <4>1. i \in 1 .. n /\ i - 1 \in 0 .. n
        BY <3>2
      <4>2. f[i - 1] \in Nat
        BY <4>1
      <4> QED BY <3>2, <4>1, <4>2, <1>3, <1>4
    <3> QED BY <3>1, <3>2
  <2> QED BY <2>1
<1> DEFINE s == CHOOSE f2 : Sums(f2)
<1>6. Sums(s)
  <2>1. \E f2 : Sums(f2)
    BY <1>5
  <2> HIDE DEF Sums
  <2> QED BY <2>1
<1>7. Starts(num) = s
  BY <1>1 DEF Starts
<1> HIDE DEF s
<1>8. /\ s = [i \in 0 .. n |-> s[i]] /\ s[0] = 0
      /\ \A i \in 1 .. n : s[i] = s[i - 1] + num[i]
  BY <1>6
<1> DEFINE good == {i \in Nat : i <= n => s[i] \in Nat}
<1>9. \A i \in 0 .. n : i \in good
  <2>1. 0 \in good
    BY <1>8
  <2>2. ASSUME NEW i \in Nat, i < n, i \in good PROVE i + 1 \in good
    <3>1. i + 1 \in 1 .. n /\ (i + 1) - 1 = i /\ s[i] \in Nat
      BY <2>2
    <3>2. s[i + 1] = s[(i + 1) - 1] + num[i + 1]
      BY <3>1, <1>8
    <3> QED BY <3>1, <3>2
  <2>3. good \in SUBSET Nat
    OBVIOUS
  <2> HIDE DEF good
  <2> QED BY <2>1, <2>2, <2>3, UpToBound
<1>10. \A i \in 0 .. n : s[i] \in Nat
  BY <1>9
<1>11. s \in [0 .. n -> Nat]
  BY <1>8, <1>10
<1> QED BY <1>7, <1>8, <1>11

\* A later part starts no earlier.
LEMMA StartsGrow ==
  ASSUME NEW n \in Nat, NEW num \in [1 .. n -> Nat],
         NEW i \in 0 .. n, NEW j \in 0 .. n, i <= j
  PROVE  Starts(num)[i] <= Starts(num)[j]
<1> DEFINE s == Starts(num)
<1>1. /\ s \in [0 .. n -> Nat]
      /\ \A k \in 1 .. n : s[k] = s[k - 1] + num[k]
  BY StartsType
<1> HIDE DEF s
<1> DEFINE good == {k \in Nat : k <= n /\ i <= k => s[i] <= s[k]}
<1>2. \A k \in 0 .. n : k \in good
  <2>1. 0 \in good
    BY <1>1
  <2>2. ASSUME NEW k \in Nat, k < n, k \in good PROVE k + 1 \in good
    <3>1. k + 1 \in 1 .. n /\ (k + 1) - 1 = k /\ k \in 0 .. n
      BY <2>2
    <3>2. s[k + 1] = s[k] + num[k + 1] /\ s[k] \in Nat /\ s[i] \in Nat /\ num[k + 1] \in Nat
      BY <3>1, <1>1
    <3>3. i <= k \/ i = k + 1 \/ ~ (i <= k + 1)
      OBVIOUS
    <3> QED BY <3>1, <3>2, <3>3, <2>2
  <2>3. good \in SUBSET Nat
    OBVIOUS
  <2> HIDE DEF good
  <2> QED BY <2>1, <2>2, <2>3, UpToBound
<1>3. s[i] <= s[j]
  BY <1>2
<1> QED BY <1>3 DEF s

\* Each place belongs to a part.
LEMMA PartOf ==
  ASSUME NEW n \in Nat, NEW num \in [1 .. n -> Nat], NEW k \in 1 .. Starts(num)[n]
  PROVE  \E i \in 1 .. n : Starts(num)[i - 1] < k /\ k <= Starts(num)[i]
<1> DEFINE s == Starts(num)
<1>1. s \in [0 .. n -> Nat] /\ s[0] = 0
  BY StartsType
<1>2. k \in 1 .. s[n]
  OBVIOUS
<1> HIDE DEF s
<1> DEFINE A == {i \in Nat : i <= n /\ k <= s[i]}
<1>3. k \in Nat /\ k > 0 /\ n \in A
  BY <1>1, <1>2
<1>4. PICK i \in A : \A x \in A : i <= x
  <2>1. A \in SUBSET Nat /\ A # {}
    BY <1>3
  <2> HIDE DEF A
  <2> QED BY <2>1, LeastNatural
<1>5. i \in Nat /\ i <= n /\ k <= s[i] /\ i # 0
  BY <1>4, <1>1, <1>3
<1> DEFINE l == i - 1
<1>6. l \in Nat /\ l <= n /\ ~ (i <= l) /\ i \in 1 .. n
  BY <1>5
<1> HIDE DEF l
<1>7. l \notin A
  <2> HIDE DEF A
  <2> QED BY <1>4, <1>6
<1>8. s[l] \in Nat /\ ~ (k <= s[l])
  BY <1>6, <1>7, <1>1
<1>9. s[l] < k
  BY <1>8, <1>3
<1> QED BY <1>5, <1>6, <1>9 DEF l, s

\* The n-th place of a part lies in the array, and in no other part.
LEMMA PlaceOf ==
  ASSUME NEW n \in Nat, NEW num \in [1 .. n -> Nat],
         NEW i \in 1 .. n, NEW q \in 1 .. num[i]
  PROVE  /\ Starts(num)[i - 1] + q \in 1 .. Starts(num)[n]
         /\ \A j \in 1 .. n :
              /\ Starts(num)[j - 1] < Starts(num)[i - 1] + q
              /\ Starts(num)[i - 1] + q <= Starts(num)[j]
              => j = i
<1> DEFINE s == Starts(num)
<1>1. s \in [0 .. n -> Nat] /\ \A k \in 1 .. n : s[k] = s[k - 1] + num[k]
  BY StartsType
<1>2. \A a, b \in 0 .. n : a <= b => s[a] <= s[b]
  BY StartsGrow
<1> HIDE DEF s
<1>3. i - 1 \in 0 .. n /\ i \in 0 .. n /\ n \in 0 .. n /\ num[i] \in Nat
  OBVIOUS
<1>4. s[i - 1] \in Nat /\ s[i] \in Nat /\ s[n] \in Nat /\ s[i] = s[i - 1] + num[i]
  BY <1>1, <1>3
<1>5. q \in Nat /\ 1 <= q /\ q <= num[i]
  BY <1>3
<1>6. s[i] <= s[n]
  BY <1>2, <1>3
<1>7. s[i - 1] + q \in 1 .. s[n]
  BY <1>3, <1>4, <1>5, <1>6
<1>8. ASSUME NEW j \in 1 .. n, s[j - 1] < s[i - 1] + q, s[i - 1] + q <= s[j]
      PROVE  j = i
  <2>1. j - 1 \in 0 .. n /\ j \in 0 .. n
    OBVIOUS
  <2>2. s[j - 1] \in Nat /\ s[j] \in Nat
    BY <2>1, <1>1
  <2>3. ~ (j <= i - 1)
    <3> SUFFICES ASSUME j <= i - 1 PROVE FALSE
      OBVIOUS
    <3>1. s[j] <= s[i - 1]
      BY <2>1, <1>3, <1>2
    <3> QED BY <3>1, <2>2, <1>4, <1>5, <1>8
  <2>4. ~ (i <= j - 1)
    <3> SUFFICES ASSUME i <= j - 1 PROVE FALSE
      OBVIOUS
    <3>1. s[i] <= s[j - 1]
      BY <2>1, <1>3, <1>2
    <3> QED BY <3>1, <2>2, <1>4, <1>5, <1>8
  <2> QED BY <2>3, <2>4
<1> QED BY <1>7, <1>8 DEF s

-----------------------------------------------------------------------------
(* Arrays of parts *)

\* An array holds parts of given lengths one after another.
LaidOut(n, num, parts, array) ==
  /\ array = [k \in 1 .. Starts(num)[n] |-> array[k]]
  /\ \A i \in 1 .. n : \A q \in 1 .. num[i] : array[Starts(num)[i - 1] + q] = parts[i][q]

LEMMA JoinedLaidOut ==
  ASSUME NEW n \in Nat, NEW num \in [1 .. n -> Nat], NEW parts,
         parts = [i \in 1 .. n |-> parts[i]], \A i \in 1 .. n : Len(parts[i]) = num[i]
  PROVE  LaidOut(n, num, parts, Joined(parts))
<1> DEFINE s == Starts(num)
           E(k) == LET i == CHOOSE i \in 1 .. n : s[i - 1] < k /\ k <= s[i]
                   IN  parts[i][k - s[i - 1]]
<1>1. DOMAIN parts = 1 .. n /\ Len(parts) = n
  BY LengthOf
<1>2. [i \in DOMAIN parts |-> Len(parts[i])] = num
  BY <1>1
<1>3. Joined(parts) = [k \in 1 .. s[n] |-> E(k)]
  <2> DEFINE r == Starts([i \in DOMAIN parts |-> Len(parts[i])])
             F(f, D, k) == LET i == CHOOSE i \in D : f[i - 1] < k /\ k <= f[i]
                              IN  parts[i][k - f[i - 1]]
  <2>1. Joined(parts) = [k \in 1 .. r[Len(parts)] |-> F(r, DOMAIN parts, k)]
    BY DEF Joined
  <2>2. r = s
    BY <1>2
  <2>3. \A k : F(s, 1 .. n, k) = E(k)
    OBVIOUS
  <2> HIDE DEF r, s, E, F
  <2>4. Joined(parts) = [k \in 1 .. s[n] |-> F(s, 1 .. n, k)]
    BY <2>1, <2>2, <1>1
  <2> QED BY <2>3, <2>4
<1>4. ASSUME NEW i \in 1 .. n, NEW q \in 1 .. num[i]
      PROVE  s[i - 1] + q \in 1 .. s[n] /\ E(s[i - 1] + q) = parts[i][q]
  <2> DEFINE k == s[i - 1] + q
  <2>1. /\ k \in 1 .. s[n]
        /\ \A j \in 1 .. n : s[j - 1] < k /\ k <= s[j] => j = i
    BY PlaceOf
  <2>2. /\ s[i - 1] \in Nat /\ s[i] = s[i - 1] + num[i] /\ q \in Nat /\ num[i] \in Nat
        /\ 1 <= q /\ q <= num[i]
    <3>1. i - 1 \in 0 .. n /\ num[i] \in Nat
      OBVIOUS
    <3>2. s \in [0 .. n -> Nat] /\ \A j \in 1 .. n : s[j] = s[j - 1] + num[j]
      BY StartsType
    <3> HIDE DEF s
    <3> QED BY <3>1, <3>2
  <2> HIDE DEF s
  <2>3. s[i - 1] < k /\ k <= s[i] /\ k - s[i - 1] = q
    BY <2>2
  <2> HIDE DEF k
  <2>4. (CHOOSE j \in 1 .. n : s[j - 1] < k /\ k <= s[j]) = i
    BY <2>1, <2>3
  <2>5. E(k) = parts[i][k - s[i - 1]]
    BY <2>4
  <2> QED BY <2>1, <2>3, <2>5 DEF k
<1> HIDE DEF s, E
<1>5. Joined(parts) = [k \in 1 .. s[n] |-> Joined(parts)[k]]
  BY <1>3
<1>6. ASSUME NEW i \in 1 .. n, NEW q \in 1 .. num[i]
      PROVE  Joined(parts)[s[i - 1] + q] = parts[i][q]
  BY <1>3, <1>4
<1> QED BY <1>5, <1>6 DEF LaidOut, s

\* The length of the array; where its entries come from.
EntriesFrom(n, num, parts, array) ==
  \A k \in DOMAIN array : \E i \in 1 .. n : \E q \in 1 .. num[i] :
    k = Starts(num)[i - 1] + q /\ array[k] = parts[i][q]

LEMMA LaidOutEntries ==
  ASSUME NEW n \in Nat, NEW num \in [1 .. n -> Nat], NEW parts, NEW array,
         LaidOut(n, num, parts, array)
  PROVE  /\ DOMAIN array = 1 .. Starts(num)[n] /\ Len(array) = Starts(num)[n]
         /\ Starts(num)[n] \in Nat
         /\ EntriesFrom(n, num, parts, array)
<1> DEFINE s == Starts(num)
<1>1. /\ s \in [0 .. n -> Nat] /\ \A i \in 1 .. n : s[i] = s[i - 1] + num[i]
  BY StartsType
<1>2. s[n] \in Nat
  BY <1>1
<1>3. array = [k \in 1 .. s[n] |-> array[k]]
  BY DEF LaidOut
<1>4. DOMAIN array = 1 .. s[n] /\ Len(array) = s[n]
  <2> HIDE DEF s
  <2> QED BY <1>2, <1>3, LengthOf
<1>5. ASSUME NEW k \in 1 .. s[n]
      PROVE  \E i \in 1 .. n : \E q \in 1 .. num[i] : k = s[i - 1] + q /\ array[k] = parts[i][q]
  <2>1. PICK i \in 1 .. n : s[i - 1] < k /\ k <= s[i]
    BY PartOf
  <2> DEFINE q == k - s[i - 1]
  <2>2. i - 1 \in 0 .. n
    OBVIOUS
  <2>3. s[i - 1] \in Nat /\ s[i] = s[i - 1] + num[i] /\ num[i] \in Nat
    BY <1>1, <2>2
  <2> HIDE DEF s
  <2>4. q \in 1 .. num[i] /\ k = s[i - 1] + q
    BY <2>1, <2>3
  <2> HIDE DEF q
  <2>5. array[s[i - 1] + q] = parts[i][q]
    BY <2>4 DEF LaidOut, s
  <2> QED BY <2>4, <2>5
<1>6. EntriesFrom(n, num, parts, array)
  BY <1>4, <1>5, Zenon DEF EntriesFrom
<1> QED BY <1>2, <1>4, <1>6

\* Parts with different entries that make up a set.
PartsOnce(n, num, parts, set) ==
  /\ \A i \in 1 .. n : \A q \in 1 .. num[i] : parts[i][q] \in set
  /\ \A x \in set : \E i \in 1 .. n : \E q \in 1 .. num[i] : parts[i][q] = x
  /\ \A i, j \in 1 .. n : \A q \in 1 .. num[i] : \A r \in 1 .. num[j] :
       parts[i][q] = parts[j][r] => i = j /\ q = r

\* The array of such parts holds each member of the set once.
LEMMA LaidOutOnce ==
  ASSUME NEW n \in Nat, NEW num \in [1 .. n -> Nat], NEW parts, NEW array, NEW set,
         LaidOut(n, num, parts, array), PartsOnce(n, num, parts, set)
  PROVE  EachOnce(array, set)
<1> DEFINE s == Starts(num)
<1>0. /\ \A i \in 1 .. n : \A q \in 1 .. num[i] : parts[i][q] \in set
      /\ \A x \in set : \E i \in 1 .. n : \E q \in 1 .. num[i] : parts[i][q] = x
      /\ \A i, j \in 1 .. n : \A q \in 1 .. num[i] : \A r \in 1 .. num[j] :
           parts[i][q] = parts[j][r] => i = j /\ q = r
  BY Zenon DEF PartsOnce
<1>1. /\ DOMAIN array = 1 .. s[n]
      /\ \A k \in DOMAIN array : \E i \in 1 .. n : \E q \in 1 .. num[i] :
           k = s[i - 1] + q /\ array[k] = parts[i][q]
  BY LaidOutEntries DEF EntriesFrom
<1>2. \A i \in 1 .. n : \A q \in 1 .. num[i] :
        s[i - 1] + q \in 1 .. s[n] /\ array[s[i - 1] + q] = parts[i][q]
  BY PlaceOf DEF LaidOut
<1> HIDE DEF s
<1>3. \A k \in DOMAIN array : array[k] \in set
  BY <1>0, <1>1
<1>4. \A x \in set : \E k \in DOMAIN array : array[k] = x
  <2> TAKE x \in set
  <2>1. PICK i \in 1 .. n : \E q \in 1 .. num[i] : parts[i][q] = x
    BY <1>0
  <2>2. PICK q \in 1 .. num[i] : parts[i][q] = x
    BY <2>1
  <2>3. s[i - 1] + q \in DOMAIN array /\ array[s[i - 1] + q] = parts[i][q]
    BY <1>1, <1>2
  <2> QED BY <2>2, <2>3
<1>5. \A k, l \in DOMAIN array : array[k] = array[l] => k = l
  <2> SUFFICES ASSUME NEW k \in DOMAIN array, NEW l \in DOMAIN array, array[k] = array[l]
               PROVE  k = l
    OBVIOUS
  <2>1. PICK i \in 1 .. n : \E q \in 1 .. num[i] : k = s[i - 1] + q /\ array[k] = parts[i][q]
    BY <1>1
  <2>2. PICK q \in 1 .. num[i] : k = s[i - 1] + q /\ array[k] = parts[i][q]
    BY <2>1
  <2>3. PICK j \in 1 .. n : \E r \in 1 .. num[j] : l = s[j - 1] + r /\ array[l] = parts[j][r]
    BY <1>1
  <2>4. PICK r \in 1 .. num[j] : l = s[j - 1] + r /\ array[l] = parts[j][r]
    BY <2>3
  <2>5. parts[i][q] = parts[j][r]
    BY <2>2, <2>4
  <2>6. i = j /\ q = r
    BY <1>0, <2>5
  <2> QED BY <2>2, <2>4, <2>6
<1> QED BY <1>3, <1>4, <1>5 DEF EachOnce

-----------------------------------------------------------------------------
(* Tables *)

\* The sums of size_t are numbers a size_t can hold.
LEMMA ScanType ==
  ASSUME NEW n \in Nat, NEW num \in [1 .. n -> Nat]
  PROVE  /\ Scan(num) \in [0 .. n -> 0 .. SizeMod - 1] /\ Scan(num)[0] = 0
         /\ \A i \in 1 .. n : Scan(num)[i] = (Scan(num)[i - 1] + num[i]) % SizeMod
<1>0. SizeMod \in Nat /\ SizeMod > 0
  BY ListsAssumption DEF UIntMod
<1>1. Len(num) = n
  BY ListOf
<1> DEFINE Sums(f) == f = [i \in 0 .. n |-> IF i = 0 THEN 0 ELSE (f[i - 1] + num[i]) % SizeMod]
           h == [p \in Nat \X (1 .. n) |-> (p[1] + num[p[2]]) % SizeMod]
<1>2. \A x \in Nat, i \in 1 .. n : (x + num[i]) % SizeMod \in 0 .. SizeMod - 1
  BY <1>0
<1>3. \A x \in Nat, i \in 1 .. n : h[<<x, i>>] = (x + num[i]) % SizeMod
  OBVIOUS
<1>4. h \in [Nat \X (1 .. n) -> Nat]
  BY <1>0
<1> HIDE DEF h
<1>5. PICK f \in [0 .. n -> Nat] :
        f[0] = 0 /\ \A i \in 1 .. n : f[i] = h[<<f[i - 1], i>>]
  BY <1>4, ChainExists
<1>6. Sums(f)
  <2>1. \A i \in 0 .. n : f[i] = IF i = 0 THEN 0 ELSE (f[i - 1] + num[i]) % SizeMod
    <3> TAKE i \in 0 .. n
    <3>1. CASE i = 0
      BY <3>1, <1>5
    <3>2. CASE i # 0
      <4>1. i \in 1 .. n /\ i - 1 \in 0 .. n
        BY <3>2
      <4>2. f[i - 1] \in Nat
        BY <4>1
      <4>3. f[i] = h[<<f[i - 1], i>>]
        BY <4>1, <1>5
      <4>4. h[<<f[i - 1], i>>] = (f[i - 1] + num[i]) % SizeMod
        BY <4>1, <4>2, <1>3
      <4> QED BY <3>2, <4>3, <4>4
    <3> QED BY <3>1, <3>2
  <2> QED BY <2>1
<1> DEFINE s == CHOOSE f2 : Sums(f2)
<1>7. Sums(s)
  <2>1. \E f2 : Sums(f2)
    BY <1>6
  <2> HIDE DEF Sums
  <2> QED BY <2>1
<1>8. Scan(num) = s
  BY <1>1 DEF Scan
<1> HIDE DEF s
<1>9. /\ s = [i \in 0 .. n |-> s[i]] /\ s[0] = 0
      /\ \A i \in 1 .. n : s[i] = (s[i - 1] + num[i]) % SizeMod
  <2>1. \A i \in 0 .. n : s[i] = IF i = 0 THEN 0 ELSE (s[i - 1] + num[i]) % SizeMod
    BY <1>7
  <2>2. s = [i \in 0 .. n |-> s[i]]
    BY <1>7
  <2>3. s[0] = 0
    BY <2>1
  <2>4. \A i \in 1 .. n : s[i] = (s[i - 1] + num[i]) % SizeMod
    <3> TAKE i \in 1 .. n
    <3>1. i \in 0 .. n /\ i # 0
      OBVIOUS
    <3> QED BY <3>1, <2>1
  <2> QED BY <2>2, <2>3, <2>4
<1> DEFINE good == {i \in Nat : i <= n => s[i] \in 0 .. SizeMod - 1}
<1>10. \A i \in 0 .. n : i \in good
  <2>1. 0 \in good
    BY <1>9, <1>0
  <2>2. ASSUME NEW i \in Nat, i < n, i \in good PROVE i + 1 \in good
    <3>1. i + 1 \in 1 .. n /\ (i + 1) - 1 = i /\ s[i] \in Nat
      BY <2>2
    <3>2. s[i + 1] = (s[i] + num[i + 1]) % SizeMod
      BY <3>1, <1>9
    <3>3. s[i + 1] \in 0 .. SizeMod - 1
      BY <3>1, <3>2, <1>2
    <3> QED BY <3>3
  <2>3. good \in SUBSET Nat
    OBVIOUS
  <2> HIDE DEF good
  <2> QED BY <2>1, <2>2, <2>3, UpToBound
<1>11. \A i \in 0 .. n : s[i] \in 0 .. SizeMod - 1
  BY <1>10
<1>12. s \in [0 .. n -> 0 .. SizeMod - 1]
  BY <1>9, <1>11
<1> QED BY <1>8, <1>9, <1>12

\* A number below the modulus is its own remainder.
LEMMA SmallMod ==
  ASSUME NEW x \in Nat, NEW m \in Nat, x < m
  PROVE  x % m = x
OBVIOUS

\* While the sum fits, nothing wraps around.
LEMMA ScanIsStarts ==
  ASSUME NEW n \in Nat, NEW num \in [1 .. n -> Nat], Starts(num)[n] < SizeMod
  PROVE  \A i \in 0 .. n : Scan(num)[i] = Starts(num)[i]
<1>0. SizeMod \in Nat
  BY ListsAssumption
<1> DEFINE s == Starts(num)
           c == Scan(num)
<1>1. s \in [0 .. n -> Nat] /\ s[0] = 0 /\ \A i \in 1 .. n : s[i] = s[i - 1] + num[i]
  BY StartsType
<1>2. c[0] = 0 /\ \A i \in 1 .. n : c[i] = (c[i - 1] + num[i]) % SizeMod
  BY ScanType
<1>3. \A i \in 0 .. n : s[i] < SizeMod
  <2> TAKE i \in 0 .. n
  <2>1. s[i] <= s[n]
    BY StartsGrow
  <2>2. s[i] \in Nat /\ s[n] \in Nat /\ s[n] < SizeMod
    BY <1>1
  <2> HIDE DEF s
  <2> QED BY <2>1, <2>2, <1>0
<1> HIDE DEF s, c
<1> DEFINE good == {i \in Nat : i <= n => c[i] = s[i]}
<1>4. \A i \in 0 .. n : i \in good
  <2>1. 0 \in good
    BY <1>1, <1>2
  <2>2. ASSUME NEW i \in Nat, i < n, i \in good PROVE i + 1 \in good
    <3>1. i + 1 \in 1 .. n /\ (i + 1) - 1 = i /\ c[i] = s[i] /\ i + 1 \in 0 .. n
      BY <2>2
    <3>2. c[i + 1] = (s[i] + num[i + 1]) % SizeMod /\ s[i + 1] = s[i] + num[i + 1]
      BY <3>1, <1>1, <1>2
    <3>3. s[i + 1] \in Nat /\ s[i + 1] < SizeMod
      BY <3>1, <1>1, <1>3
    <3>4. c[i + 1] = s[i + 1]
      BY <3>2, <3>3, <1>0, SmallMod
    <3> QED BY <3>4
  <2>3. good \in SUBSET Nat
    OBVIOUS
  <2> HIDE DEF good
  <2> QED BY <2>1, <2>2, <2>3, UpToBound
<1>5. \A i \in 0 .. n : c[i] = s[i]
  BY <1>4
<1> QED BY <1>5 DEF c, s

\* What the assumptions say of the widths of the numbers.
LEMMA Widths ==
  /\ IntMax \in Nat /\ UIntMod \in Nat /\ UIntMod > 0 /\ UIntMod = 2 * (IntMax + 1)
  /\ MaxRows \in Nat /\ MaxRows < UIntMod /\ MaxRows < SizeMod
  /\ SizeMod \in Nat /\ SizeMod > 0 /\ SizeMod >= 2 * UIntMod /\ SizeMod % UIntMod = 0
BY ListsAssumption DEF UIntMod

\* The offsets are numbers a size_t can hold, and one for each particle.
LEMMA OffsetsType ==
  ASSUME NEW n \in Nat, NEW num \in [1 .. n -> Nat]
  PROVE  /\ Offsets(num) \in [1 .. n -> 0 .. SizeMod - 1]
         /\ TotalOf(num) \in 0 .. SizeMod - 1
<1>1. Len(num) = n /\ DOMAIN num = 1 .. n
  BY ListOf
<1>2. Scan(num) \in [0 .. n -> 0 .. SizeMod - 1]
  BY ScanType
<1>3. \A i \in 1 .. n : i - 1 \in 0 .. n
  OBVIOUS
<1>4. \A i \in 1 .. n : Scan(num)[i - 1] \in 0 .. SizeMod - 1
  BY <1>2, <1>3
<1>5. n \in 0 .. n
  OBVIOUS
<1> QED BY <1>1, <1>2, <1>4, <1>5 DEF Offsets, TotalOf

\* If the entries fit, a table holds them one after another.
LEMMA RowsLaidOut ==
  ASSUME NEW n \in Nat, NEW num \in [1 .. n -> Nat], NEW count, NEW entries,
         EntriesFit(num, count, entries), Allocated(count)
  PROVE  /\ Starts(num)[n] = count /\ TotalOf(num) = count /\ count \in Nat
         /\ Offsets(num) = [i \in 1 .. n |-> Starts(num)[i - 1]]
         /\ LaidOut(n, num, entries, Rows(num, Offsets(num), entries))
<1> DEFINE s == Starts(num)
           o == [i \in 1 .. n |-> s[i - 1]]
<1>1. Len(num) = n /\ DOMAIN num = 1 .. n
  BY ListOf
<1>2. s[n] = count
  BY <1>1 DEF EntriesFit
<1>3. s \in [0 .. n -> Nat] /\ s[0] = 0 /\ \A i \in 1 .. n : s[i] = s[i - 1] + num[i]
  BY StartsType
<1>4. s[n] \in Nat /\ s[n] < SizeMod
  <2>1. n \in 0 .. n
    OBVIOUS
  <2> HIDE DEF s
  <2>2. s[n] \in Nat
    BY <1>3, <2>1
  <2>3. count <= MaxRows
    BY DEF Allocated
  <2> QED BY <1>2, <2>2, <2>3, Widths
<1>5. \A i \in 0 .. n : Scan(num)[i] = s[i]
  BY <1>4, ScanIsStarts
<1>6. TotalOf(num) = s[n]
  BY <1>1, <1>5 DEF TotalOf
<1>7. Offsets(num) = o
  <2>1. \A i \in 1 .. n : i - 1 \in 0 .. n
    OBVIOUS
  <2> HIDE DEF s
  <2>2. \A i \in 1 .. n : Scan(num)[i - 1] = s[i - 1]
    BY <2>1, <1>5
  <2> QED BY <2>2, <1>1 DEF Offsets
<1> DEFINE owners(k) == {i \in 1 .. n : k \in o[i] + 1 .. o[i] + num[i]}
           E(k) == IF owners(k) = {} THEN <<>>
                   ELSE LET i == CHOOSE i \in owners(k) : TRUE IN entries[i][k - o[i]]
<1>8. Rows(num, o, entries) = [k \in 1 .. s[n] |-> E(k)]
  <2> HIDE DEF s, o
  <2> QED BY <1>1, <1>6 DEF Rows
<1>9. ASSUME NEW i \in 1 .. n, NEW q \in 1 .. num[i]
      PROVE  s[i - 1] + q \in 1 .. s[n] /\ E(s[i - 1] + q) = entries[i][q]
  <2> DEFINE k == s[i - 1] + q
  <2>1. /\ k \in 1 .. s[n]
        /\ \A j \in 1 .. n : s[j - 1] < k /\ k <= s[j] => j = i
    BY PlaceOf
  <2>2. \A j \in 1 .. n : /\ s[j - 1] \in Nat /\ s[j] = s[j - 1] + num[j] /\ num[j] \in Nat
                          /\ o[j] = s[j - 1]
    <3> TAKE j \in 1 .. n
    <3>1. j - 1 \in 0 .. n
      OBVIOUS
    <3> HIDE DEF s
    <3> QED BY <1>3, <3>1
  <2>3. q \in Nat /\ 1 <= q /\ q <= num[i]
    BY <2>2
  <2> HIDE DEF s, o
  <2>4. k \in Nat /\ o[i] = s[i - 1] /\ k - o[i] = q /\ k \in o[i] + 1 .. o[i] + num[i]
    BY <2>2, <2>3
  <2>5. ASSUME NEW j \in 1 .. n, k \in o[j] + 1 .. o[j] + num[j] PROVE j = i
    <3>1. s[j - 1] < k /\ k <= s[j]
      BY <2>2, <2>4, <2>5
    <3> QED BY <3>1, <2>1
  <2> HIDE DEF k
  <2>6. owners(k) = {i}
    BY <2>4, <2>5
  <2> HIDE DEF owners
  <2>7. (CHOOSE j \in owners(k) : TRUE) = i
    BY <2>6
  <2>8. E(k) = entries[i][k - o[i]]
    BY <2>6, <2>7
  <2> QED BY <2>1, <2>4, <2>8 DEF k
<1> HIDE DEF s, o, E
<1>10. LaidOut(n, num, entries, Rows(num, o, entries))
  BY <1>8, <1>9 DEF LaidOut, s
<1>11. count \in Nat
  BY <1>2, <1>4
<1> QED BY <1>2, <1>6, <1>7, <1>10, <1>11 DEF s, o

\* Parts of at most b entries take at most b places each.
LEMMA StartsBound ==
  ASSUME NEW n \in Nat, NEW num \in [1 .. n -> Nat], NEW b \in Nat,
         \A i \in 1 .. n : num[i] <= b
  PROVE  \A i \in 0 .. n : Starts(num)[i] <= i * b
<1> DEFINE s == Starts(num)
<1>1. s \in [0 .. n -> Nat] /\ s[0] = 0 /\ \A i \in 1 .. n : s[i] = s[i - 1] + num[i]
  BY StartsType
<1> HIDE DEF s
<1> DEFINE good == {i \in Nat : i <= n => s[i] <= i * b}
<1>2. \A i \in 0 .. n : i \in good
  <2>1. 0 \in good
    BY <1>1
  <2>2. ASSUME NEW i \in Nat, i < n, i \in good PROVE i + 1 \in good
    <3>1. i + 1 \in 1 .. n /\ (i + 1) - 1 = i /\ s[i] <= i * b /\ i \in 0 .. n
      BY <2>2
    <3>2. s[i + 1] = s[i] + num[i + 1] /\ num[i + 1] <= b /\ s[i] \in Nat /\ num[i + 1] \in Nat
      BY <3>1, <1>1
    <3>3. (i + 1) * b = i * b + b
      OBVIOUS
    <3>4. i * b \in Nat
      OBVIOUS
    <3> HIDE DEF good
    <3>5. s[i + 1] <= (i + 1) * b
      BY <3>1, <3>2, <3>3, <3>4
    <3> QED BY <3>5 DEF good
  <2>3. good \in SUBSET Nat
    OBVIOUS
  <2> HIDE DEF good
  <2> QED BY <2>1, <2>2, <2>3, UpToBound
<1> QED BY <1>2 DEF s

-----------------------------------------------------------------------------
(* The flagged slots, in their order *)

\* A sequence names each member of a set once.
Enumerates(f, n, S) ==
  /\ n \in Nat /\ f \in [1 .. n -> S]
  /\ \A k, l \in 1 .. n : f[k] = f[l] => k = l
  /\ \A x \in S : \E k \in 1 .. n : f[k] = x

LEMMA SourceEnumerates ==
  ASSUME NEW n \in Nat, NEW kept, \A j \in kept : j \in 1 .. n
  PROVE  Enumerates([k \in 1 .. Cardinality(kept) |-> Source(kept, k)],
                    Cardinality(kept), kept)
<1> DEFINE c == Cardinality(kept)
           f == [k \in 1 .. c |-> Source(kept, k)]
<1>1. c \in Nat
  BY UpToType
<1>2. \A k \in 1 .. c : Source(kept, k) \in kept
  BY SourceFound
<1>3. \A k, l \in 1 .. c : k < l => Source(kept, k) < Source(kept, l)
  BY SourceOrdered
<1>4. \A x \in kept : \E k \in 1 .. c : Source(kept, k) = x
  BY SourceOnto
<1>5. \A j \in kept : j \in Nat
  BY SlotType
<1> HIDE DEF c
<1>6. \A k, l \in 1 .. c : Source(kept, k) = Source(kept, l) => k = l
  <2> SUFFICES ASSUME NEW k \in 1 .. c, NEW l \in 1 .. c,
                      Source(kept, k) = Source(kept, l), k # l
               PROVE  FALSE
    OBVIOUS
  <2>1. k < l \/ l < k
    OBVIOUS
  <2>2. Source(kept, k) \in Nat /\ Source(kept, l) \in Nat
    BY <1>2, <1>5
  <2> QED BY <2>1, <2>2, <1>3
<1>7. f \in [1 .. c -> kept]
  BY <1>2
<1>8. \A k \in 1 .. c : f[k] = Source(kept, k)
  OBVIOUS
<1> HIDE DEF f
<1>9. Enumerates(f, c, kept)
  BY <1>1, <1>4, <1>6, <1>7, <1>8 DEF Enumerates
<1> QED BY <1>9 DEF c, f

\* The flagged slots of an interval follow each other.
LEMMA IntervalSource ==
  ASSUME NEW n \in Nat, NEW a \in Nat, NEW b \in Nat, a + b <= n
  PROVE  /\ Cardinality(a + 1 .. a + b) = b
         /\ \A q \in 1 .. b : Source(a + 1 .. a + b, q) = a + q
<1> DEFINE kept == a + 1 .. a + b
<1>1. \A j \in kept : j \in 1 .. n
  OBVIOUS
<1>2. \A q \in 0 .. b : Cardinality(a + 1 .. a + q) = q
  <2> TAKE q \in 0 .. b
  <2>1. /\ a + 1 \in Int /\ a + q \in Int
        /\ (IF a + 1 > a + q THEN 0 ELSE (a + q) - (a + 1) + 1) = q
    OBVIOUS
  <2> QED BY <2>1, FS_Interval, Zenon
<1>3. Cardinality(kept) = b
  <2>1. b \in 0 .. b
    OBVIOUS
  <2> QED BY <2>1, <1>2
<1>4. ASSUME NEW q \in 1 .. b PROVE Source(kept, q) = a + q
  <2>1. Source(kept, q) \in kept /\ UpTo(kept, Source(kept, q)) = q
    <3>1. q \in 1 .. Cardinality(kept)
      BY <1>3
    <3> HIDE DEF kept
    <3> QED BY <1>1, <3>1, SourceFound
  <2> DEFINE x == Source(kept, q)
             r == x - a
  <2>2. x \in kept /\ UpTo(kept, x) = q
    BY <2>1
  <2> HIDE DEF x
  <2>3. r \in 0 .. b /\ x = a + r
    BY <2>2
  <2>4. {j \in kept : j <= x} = a + 1 .. a + r
    BY <2>2, <2>3
  <2>5. UpTo(kept, x) = r
    <3>1. Cardinality(a + 1 .. a + r) = r
      BY <2>3, <1>2
    <3> HIDE DEF kept, r
    <3> QED BY <2>4, <3>1 DEF UpTo
  <2>6. x = a + q
    BY <2>2, <2>3, <2>5
  <2> QED BY <2>6 DEF x
<1> QED BY <1>3, <1>4

-----------------------------------------------------------------------------
(* The radius search *)

\* What an enumeration is as a sequence.
LEMMA EnumerationType ==
  ASSUME NEW f, NEW n, NEW S, Enumerates(f, n, S)
  PROVE  n \in Nat /\ DOMAIN f = 1 .. n /\ Len(f) = n /\ f \in Seq(S)
         /\ f \in [1 .. n -> S]
BY ListOf DEF Enumerates

\* Swapping an entry to the front keeps all entries.
LEMMA SwapEnumerates ==
  ASSUME NEW f, NEW n, NEW S, Enumerates(f, n, S), NEW k \in 1 .. n
  PROVE  Enumerates(Swap(f, k), n, S) /\ Swap(f, k)[1] = f[k]
<1> DEFINE g == Swap(f, k)
           to(x) == IF x = 1 THEN k ELSE IF x = k THEN 1 ELSE x
<1>1. /\ n \in Nat /\ f \in [1 .. n -> S] /\ DOMAIN f = 1 .. n
      /\ \A x, y \in 1 .. n : f[x] = f[y] => x = y
      /\ \A v \in S : \E x \in 1 .. n : f[x] = v
  BY EnumerationType DEF Enumerates
<1>2. 1 \in 1 .. n
  BY <1>1
<1>3. \A x \in 1 .. n : to(x) \in 1 .. n /\ to(to(x)) = x
  BY <1>2
<1>4. g = [x \in 1 .. n |-> f[to(x)]]
  <2>1. \A x \in 1 .. n : (IF x = 1 THEN f[k] ELSE IF x = k THEN f[1] ELSE f[x]) = f[to(x)]
    OBVIOUS
  <2> QED BY <1>1, <2>1 DEF Swap
<1>5. g[1] = f[k]
  BY <1>2, <1>4
<1> HIDE DEF to, g
<1>6. g \in [1 .. n -> S] /\ \A x \in 1 .. n : g[x] = f[to(x)]
  BY <1>1, <1>3, <1>4
<1>7. \A x, y \in 1 .. n : g[x] = g[y] => x = y
  <2> SUFFICES ASSUME NEW x \in 1 .. n, NEW y \in 1 .. n, g[x] = g[y] PROVE x = y
    OBVIOUS
  <2>1. to(x) = to(y)
    BY <1>1, <1>3, <1>6
  <2> QED BY <2>1, <1>3
<1>8. \A v \in S : \E x \in 1 .. n : g[x] = v
  <2> TAKE v \in S
  <2>1. PICK x \in 1 .. n : f[x] = v
    BY <1>1
  <2>2. to(x) \in 1 .. n /\ g[to(x)] = v
    BY <2>1, <1>3, <1>6
  <2> QED BY <2>2
<1> QED BY <1>1, <1>5, <1>6, <1>7, <1>8 DEF Enumerates, g

\* The tree meets each source within the radius once.
LEMMA MetEnumerates ==
  ASSUME NEW m \in Nat, NEW sources, DOMAIN sources = 1 .. m,
         NEW site, NEW eps, NEW ascending \in BOOLEAN
  PROVE  \E n : Enumerates(Met(site, sources, eps, ascending), n,
                           Accepted(site, sources, eps))
<1> DEFINE A == Accepted(site, sources, eps)
           n == Cardinality(A)
           f == [k \in 1 .. n |-> Source(A, k)]
           g == [k \in 1 .. n |-> Source(A, n + 1 - k)]
<1>1. \A j \in A : j \in 1 .. m
  BY DEF Accepted
<1> HIDE DEF A
<1>2. Enumerates(f, n, A)
  BY <1>1, SourceEnumerates
<1>3. Met(site, sources, eps, ascending) = IF ascending THEN f ELSE g
  BY Zenon DEF Met, A
<1>4. n \in Nat
  BY <1>2 DEF Enumerates
<1>5. Enumerates(g, n, A)
  <2>1. \A k \in 1 .. n : n + 1 - k \in 1 .. n /\ n + 1 - (n + 1 - k) = k
    BY <1>4
  <2>2. /\ f \in [1 .. n -> A] /\ \A k, l \in 1 .. n : f[k] = f[l] => k = l
        /\ \A x \in A : \E k \in 1 .. n : f[k] = x
    BY <1>2 DEF Enumerates
  <2>3. \A k \in 1 .. n : f[k] = Source(A, k)
    OBVIOUS
  <2>4. \A k \in 1 .. n : g[k] = f[n + 1 - k]
    BY <2>1
  <2>5. g = [k \in 1 .. n |-> g[k]]
    OBVIOUS
  <2> HIDE DEF f, g, n
  <2>6. g \in [1 .. n -> A]
    BY <2>1, <2>2, <2>4, <2>5
  <2>7. \A k, l \in 1 .. n : g[k] = g[l] => k = l
    <3> SUFFICES ASSUME NEW k \in 1 .. n, NEW l \in 1 .. n, g[k] = g[l] PROVE k = l
      OBVIOUS
    <3>1. n + 1 - k = n + 1 - l
      BY <2>1, <2>2, <2>4
    <3> QED BY <3>1, <1>4
  <2>8. \A x \in A : \E k \in 1 .. n : g[k] = x
    <3> TAKE x \in A
    <3>1. PICK k \in 1 .. n : f[k] = x
      BY <2>2
    <3>2. g[n + 1 - k] = x
      BY <3>1, <2>1, <2>4
    <3> QED BY <3>2, <2>1
  <2> QED BY <1>4, <2>6, <2>7, <2>8 DEF Enumerates
<1> QED BY <1>2, <1>3, <1>5 DEF A

\* The square of a number is a number, of its absolute value.
LEMMA SquareType ==
  ASSUME NEW x \in Int
  PROVE  Square(x) \in Nat /\ Square(-x) = Square(x) /\ Square(0) = 0
         /\ (x # 0 => Square(x) > 0)
<1>1. x * x >= 0 /\ (-x) * (-x) = x * x
  OBVIOUS
<1>2. x # 0 => x * x > 0
  OBVIOUS
<1>3. x * x \in Int
  OBVIOUS
<1> QED BY <1>1, <1>2, <1>3 DEF Square

LEMMA NormType ==
  ASSUME NEW d \in Sites
  PROVE  /\ SquaredNorm(d) \in Nat
         /\ \A a \in Axes : d[a] \in Int /\ Square(d[a]) \in Nat
                            /\ Square(d[a]) <= SquaredNorm(d)
<1>1. d[1] \in Int /\ d[2] \in Int /\ d[3] \in Int /\ Axes = {1, 2, 3}
  BY DEF Sites, Axes
<1>2. Square(d[1]) \in Nat /\ Square(d[2]) \in Nat /\ Square(d[3]) \in Nat
  BY <1>1, SquareType
<1> QED BY <1>1, <1>2 DEF SquaredNorm

LEMMA DistanceType ==
  ASSUME NEW p \in Sites, NEW q \in Sites
  PROVE  DistanceSquared(p, q) \in Nat /\ [a \in Axes |-> p[a] - q[a]] \in Sites
<1>1. [a \in Axes |-> p[a] - q[a]] \in Sites
  BY DEF Sites
<1> QED BY <1>1, NormType DEF DistanceSquared

\* Of some numbers, the first of the least ones.
LEMMA FirstLeast ==
  ASSUME NEW n \in Nat, n > 0, NEW far \in [1 .. n -> Nat]
  PROVE  \E k \in 1 .. n : /\ \A l \in 1 .. n : far[k] <= far[l]
                           /\ \A l \in 1 .. k - 1 : far[k] < far[l]
<1> DEFINE D == {far[k] : k \in 1 .. n}
<1>1. 1 \in 1 .. n
  OBVIOUS
<1>2. PICK d \in D : \A x \in D : d <= x
  <2>1. D \in SUBSET Nat /\ D # {}
    BY <1>1
  <2> HIDE DEF D
  <2> QED BY <2>1, LeastNatural
<1> DEFINE K == {k \in 1 .. n : far[k] = d}
<1>3. PICK k \in K : \A x \in K : k <= x
  <2>1. K \in SUBSET Nat /\ K # {}
    BY <1>2
  <2> HIDE DEF K
  <2> QED BY <2>1, LeastNatural
<1>4. k \in 1 .. n /\ far[k] = d
  BY <1>3
<1>5. \A l \in 1 .. n : far[k] <= far[l]
  BY <1>2, <1>4
<1>6. \A l \in 1 .. k - 1 : far[k] < far[l]
  <2> TAKE l \in 1 .. k - 1
  <2>1. l \in 1 .. n /\ ~ (k <= l)
    BY <1>4
  <2>2. l \notin K
    BY <1>3, <2>1
  <2>3. far[l] # d /\ far[l] \in Nat /\ far[k] \in Nat /\ far[k] <= far[l]
    BY <2>1, <2>2, <1>4, <1>5
  <2> QED BY <2>3, <1>4
<1> QED BY <1>4, <1>5, <1>6

\* The sources of a search: sites of particles.
SourcesOf(n, m, sources) ==
  /\ m \in Nat /\ DOMAIN sources = 1 .. m /\ n <= m
  /\ \A k \in 1 .. m : sources[k].site \in Sites /\ sources[k].index \in 1 .. n

LEMMA SearchEnumerates ==
  ASSUME NEW N \in Nat, NEW m, NEW sources, SourcesOf(N, m, sources),
         NEW site \in Sites, NEW eps \in Nat, NEW ascending \in BOOLEAN
  PROVE  \E n : Enumerates(RadiusSearch(site, sources, eps, ascending), n,
                           Accepted(site, sources, eps))
<1> DEFINE A == Accepted(site, sources, eps)
           found == Met(site, sources, eps, ascending)
<1>1. m \in Nat /\ DOMAIN sources = 1 .. m /\ \A k \in 1 .. m : sources[k].site \in Sites
  BY DEF SourcesOf
<1>2. PICK n : Enumerates(found, n, A)
  BY <1>1, MetEnumerates
<1>3. A \subseteq 1 .. m
  BY <1>1 DEF Accepted
<1> HIDE DEF A, found
<1>4. /\ n \in Nat /\ DOMAIN found = 1 .. n /\ Len(found) = n
      /\ \A k \in 1 .. n : found[k] \in A
  BY <1>2, EnumerationType
<1>5. CASE found = <<>>
  BY <1>2, <1>5 DEF RadiusSearch, A, found
<1>6. CASE found # <<>>
  <2>1. n > 0
    <3> SUFFICES ASSUME n = 0 PROVE FALSE
      BY <1>4
    <3>1. found \in [1 .. 0 -> A]
      BY <1>2, EnumerationType
    <3> QED BY <3>1, <1>6
  <2> DEFINE far == [k \in 1 .. n |-> DistanceSquared(site, sources[found[k]].site)]
             P(k) == /\ \A l \in 1 .. n : far[k] <= far[l]
                     /\ \A l \in 1 .. k - 1 : far[k] < far[l]
             Q(k) == /\ \A l \in 1 .. n : DistanceSquared(site, sources[found[k]].site)
                                          <= DistanceSquared(site, sources[found[l]].site)
                     /\ \A l \in 1 .. k - 1 : DistanceSquared(site, sources[found[k]].site)
                                          < DistanceSquared(site, sources[found[l]].site)
  <2>2. far \in [1 .. n -> Nat]
    BY <1>1, <1>3, <1>4, DistanceType
  <2>3. \E k \in 1 .. n : P(k)
    <3> HIDE DEF far
    <3> QED BY <2>1, <2>2, <1>4, FirstLeast
  <2>4. \A k \in 1 .. n : P(k) => Q(k)
    <3> TAKE k \in 1 .. n
    <3>1. \A l \in 1 .. k - 1 : l \in 1 .. n
      BY <1>4
    <3> QED BY <3>1
  <2>5. \E k \in 1 .. n : Q(k)
    BY <2>3, <2>4
  <2>6. Nearest(site, sources, found) = CHOOSE k \in 1 .. n : Q(k)
    BY <1>4, Zenon DEF Nearest
  <2> HIDE DEF P, Q, far
  <2>7. Nearest(site, sources, found) \in 1 .. n
    BY <2>5, <2>6
  <2>8. Enumerates(Swap(found, Nearest(site, sources, found)), n, A)
    BY <2>7, <1>2, SwapEnumerates
  <2>9. RadiusSearch(site, sources, eps, ascending)
          = Swap(found, Nearest(site, sources, found))
    BY <1>6 DEF RadiusSearch, found
  <2> QED BY <2>8, <2>9 DEF A
<1> QED BY <1>5, <1>6

\* The largest of some numbers exists.
LEMMA Largest ==
  ASSUME NEW n \in Nat, NEW w \in Nat, NEW g \in [1 .. n -> Nat]
  PROVE  \E v \in Nat : /\ v = w \/ \E i \in 1 .. n : v = g[i]
                       /\ w <= v /\ \A i \in 1 .. n : g[i] <= v
<1> DEFINE S(k) == {w} \cup {g[i] : i \in 1 .. k}
           good == {k \in Nat : k <= n => \E v \in S(k) : v \in Nat /\ \A u \in S(k) : u <= v}
<1>1. \A k \in 0 .. n : k \in good
  <2>1. 0 \in good
    <3>1. S(0) = {w}
      OBVIOUS
    <3> HIDE DEF S
    <3> QED BY <3>1
  <2>2. ASSUME NEW k \in Nat, k < n, k \in good PROVE k + 1 \in good
    <3>1. PICK v \in S(k) : v \in Nat /\ \A u \in S(k) : u <= v
      BY <2>2
    <3>2. g[k + 1] \in Nat /\ k + 1 \in 1 .. k + 1
      BY <2>2
    <3>3. S(k + 1) = S(k) \cup {g[k + 1]}
      <4>1. 1 .. k + 1 = (1 .. k) \cup {k + 1}
        OBVIOUS
      <4> QED BY <4>1
    <3>4. \A u \in S(k) : u \in Nat
      BY <2>2
    <3> HIDE DEF S
    <3>5. \E x \in S(k + 1) : x \in Nat /\ \A u \in S(k + 1) : u <= x
      <4>1. CASE g[k + 1] <= v
        <5>1. \A u \in S(k + 1) : u <= v
          BY <4>1, <3>1, <3>3
        <5> QED BY <5>1, <3>1, <3>3
      <4>2. CASE v <= g[k + 1]
        <5>1. \A u \in S(k + 1) : u <= g[k + 1]
          BY <4>2, <3>1, <3>2, <3>3, <3>4
        <5> QED BY <5>1, <3>2, <3>3
      <4> QED BY <4>1, <4>2, <3>1, <3>2
    <3> QED BY <3>5
  <2>3. good \in SUBSET Nat
    OBVIOUS
  <2> HIDE DEF good
  <2> QED BY <2>1, <2>2, <2>3, UpToBound
<1>2. n \in good
  <2> HIDE DEF good
  <2> QED BY <1>1
<1>3. PICK v \in S(n) : v \in Nat /\ \A u \in S(n) : u <= v
  BY <1>2
<1> QED BY <1>3

\* The list of neighbours of a target: the particles of the sources within the
\* radius, itself first if it is one of them.
ListFrom(list, i, site, sources, eps) ==
  \E n, p : /\ Enumerates(p, n, Accepted(site, sources, eps))
            /\ list = [k \in 1 .. n |-> sources[p[k]].index]
            /\ (\E k \in 1 .. n : list[k] = i) => list[1] = i

\* The target goes to the front of its own list.
LEMMA OwnFirstFrom ==
  ASSUME NEW i, NEW site, NEW sources, NEW eps, NEW p, NEW n,
         Enumerates(p, n, Accepted(site, sources, eps))
  PROVE  ListFrom(OwnFirst(Translated(p, sources), i), i, site, sources, eps)
<1> DEFINE A == Accepted(site, sources, eps)
           t1 == [k \in 1 .. n |-> sources[p[k]].index]
           Is(k) == t1[k] = i /\ \A l \in 1 .. k - 1 : t1[l] # i
<1>1. n \in Nat /\ DOMAIN p = 1 .. n
  BY EnumerationType
<1>2. Translated(p, sources) = t1
  BY <1>1 DEF Translated
<1> HIDE DEF A
<1>3. CASE \E k \in 1 .. n : t1[k] = i
  <2>1. \E k \in 1 .. n : Is(k)
    <3> DEFINE K == {k \in 1 .. n : t1[k] = i}
    <3>1. PICK k \in K : \A x \in K : k <= x
      <4>1. K \in SUBSET Nat /\ K # {}
        BY <1>1, <1>3
      <4> HIDE DEF K
      <4> QED BY <4>1, LeastNatural
    <3>2. k \in 1 .. n /\ t1[k] = i
      BY <3>1
    <3>3. \A l \in 1 .. k - 1 : t1[l] # i
      <4> TAKE l \in 1 .. k - 1
      <4>1. l \in 1 .. n /\ ~ (k <= l)
        BY <3>2, <1>1
      <4>2. l \notin K
        BY <3>1, <4>1
      <4> QED BY <4>1, <4>2
    <3> QED BY <3>2, <3>3
  <2> DEFINE k == CHOOSE k \in 1 .. n : Is(k)
             q == Swap(p, k)
             u == [x \in 1 .. n |-> sources[q[x]].index]
  <2>2. k \in 1 .. n /\ Is(k)
    <3> HIDE DEF Is
    <3> QED BY <2>1
  <2>3. OwnFirst(t1, i) = Swap(t1, k)
    <3>1. DOMAIN t1 = 1 .. n
      OBVIOUS
    <3>2. OwnFirst(t1, i) = IF \E j \in DOMAIN t1 : t1[j] = i
                            THEN Swap(t1, CHOOSE j \in DOMAIN t1 :
                                   t1[j] = i /\ \A l \in 1 .. j - 1 : t1[l] # i)
                            ELSE t1
      BY DEF OwnFirst
    <3> HIDE DEF t1
    <3> QED BY <1>3, <3>1, <3>2
  <2> HIDE DEF k
  <2>4. Enumerates(q, n, A) /\ q[1] = p[k]
    BY <2>2, SwapEnumerates DEF A
  <2>5. Swap(t1, k) = u
    <3>1. DOMAIN q = 1 .. n /\ 1 \in 1 .. n
      BY <2>4, <2>2, <1>1, EnumerationType
    <3>2. \A x \in 1 .. n : q[x] = IF x = 1 THEN p[k] ELSE IF x = k THEN p[1] ELSE p[x]
      BY <1>1 DEF Swap
    <3> HIDE DEF q
    <3>3. \A x \in 1 .. n : (IF x = 1 THEN t1[k] ELSE IF x = k THEN t1[1] ELSE t1[x])
                            = sources[q[x]].index
      BY <3>1, <3>2, <2>2
    <3>4. DOMAIN t1 = 1 .. n
      OBVIOUS
    <3> HIDE DEF t1
    <3> QED BY <3>3, <3>4 DEF Swap
  <2>6. u[1] = i
    <3>1. 1 \in 1 .. n
      BY <2>2, <1>1
    <3>2. u[1] = sources[p[k]].index
      BY <3>1, <2>4
    <3> QED BY <3>2, <2>2
  <2> HIDE DEF q, t1
  <2>7. ListFrom(u, i, site, sources, eps)
    BY <2>4, <2>6 DEF ListFrom, A
  <2> QED BY <1>2, <2>3, <2>5, <2>7
<1>4. CASE ~ \E k \in 1 .. n : t1[k] = i
  <2>1. OwnFirst(t1, i) = t1
    <3>1. DOMAIN t1 = 1 .. n
      OBVIOUS
    <3> HIDE DEF t1
    <3> QED BY <3>1, <1>4 DEF OwnFirst
  <2> HIDE DEF A
  <2>2. ListFrom(t1, i, site, sources, eps)
    BY <1>4 DEF ListFrom
  <2> QED BY <1>2, <2>1, <2>2
<1> QED BY <1>3, <1>4

\* What a search gives: no list is longer than the columns.
SearchIs(n, c, sources, eps, search) ==
  /\ ~search.overrun /\ search.width \in Nat
  /\ DOMAIN search.lists = 1 .. n /\ search.lists = [i \in 1 .. n |-> search.lists[i]]
  /\ \A i \in 1 .. n : ListFrom(search.lists[i], i, c[i], sources, eps)

LEMMA SearchShape ==
  ASSUME NEW N \in Nat, NEW c \in [1 .. N -> Sites], NEW m, NEW sources,
         SourcesOf(N, m, sources), NEW eps \in Nat, NEW ascending \in BOOLEAN,
         NEW columns \in Nat,
         NEW search, search = TargetNeighborLists(c, sources, eps, ascending, columns)
  PROVE  SearchIs(N, c, sources, eps, search)
<1> DEFINE found == [i \in 1 .. N |-> RadiusSearch(c[i], sources, eps, ascending)]
           wide == WidthFor(found, columns)
           g == [i \in 1 .. N |-> 1 + Len(found[i])]
<1>0. DOMAIN c = 1 .. N
  OBVIOUS
<1>1. search = [lists |-> [i \in 1 .. N |-> OwnFirst(Translated(found[i], sources), i)],
                width |-> wide,
                overrun |-> \E i \in 1 .. N : Len(found[i]) > wide - 1]
  BY <1>0, Zenon DEF TargetNeighborLists
<1>2. \A i \in 1 .. N : \E n : Enumerates(found[i], n, Accepted(c[i], sources, eps))
  <2> TAKE i \in 1 .. N
  <2>1. c[i] \in Sites /\ found[i] = RadiusSearch(c[i], sources, eps, ascending)
    OBVIOUS
  <2> HIDE DEF found
  <2> QED BY <2>1, SearchEnumerates
<1>3. DOMAIN found = 1 .. N
  OBVIOUS
<1> HIDE DEF found
<1>4. \A i \in 1 .. N : Len(found[i]) \in Nat
  <2> TAKE i \in 1 .. N
  <2>1. PICK n : Enumerates(found[i], n, Accepted(c[i], sources, eps))
    BY <1>2
  <2> QED BY <2>1, EnumerationType
<1>5. g \in [1 .. N -> Nat]
  BY <1>4
<1>6. {columns} \cup {1 + Len(found[i]) : i \in DOMAIN found} = {columns} \cup {g[i] : i \in 1 .. N}
  BY <1>3
<1> DEFINE widths == {columns} \cup {g[i] : i \in 1 .. N}
<1>7. wide \in widths /\ \A v \in widths : v <= wide
  <2>1. wide = CHOOSE w \in widths : \A v \in widths : v <= w
    BY <1>6 DEF WidthFor
  <2>2. \E w \in widths : \A v \in widths : v <= w
    <3> HIDE DEF g
    <3>1. PICK v \in Nat : /\ v = columns \/ \E i \in 1 .. N : v = g[i]
                          /\ columns <= v /\ \A i \in 1 .. N : g[i] <= v
      BY <1>5, Largest
    <3>2. v \in widths /\ \A u \in widths : u <= v
      BY <3>1
    <3> QED BY <3>2, Zenon
  <2> HIDE DEF widths, wide
  <2> QED BY <2>1, <2>2
<1>8. widths \in SUBSET Nat
  BY <1>5
<1>9. \A i \in 1 .. N : 1 + Len(found[i]) <= wide
  <2> TAKE i \in 1 .. N
  <2>1. g[i] \in widths /\ g[i] = 1 + Len(found[i])
    OBVIOUS
  <2> HIDE DEF widths, wide, g
  <2> QED BY <2>1, <1>7
<1>10. wide \in Nat
  <2> HIDE DEF widths, wide
  <2> QED BY <1>7, <1>8
<1>11. \A i \in 1 .. N : ~ (Len(found[i]) > wide - 1)
  <2> HIDE DEF wide
  <2> QED BY <1>4, <1>9, <1>10
<1> HIDE DEF wide, g
<1>12. ~search.overrun /\ search.width = wide
  BY <1>1, <1>11
<1>13. search.lists = [i \in 1 .. N |-> OwnFirst(Translated(found[i], sources), i)]
  BY <1>1
<1>14. \A i \in 1 .. N : ListFrom(search.lists[i], i, c[i], sources, eps)
  <2> TAKE i \in 1 .. N
  <2>1. PICK n : Enumerates(found[i], n, Accepted(c[i], sources, eps))
    BY <1>2
  <2>2. ListFrom(OwnFirst(Translated(found[i], sources), i), i, c[i], sources, eps)
    BY <2>1, OwnFirstFrom
  <2> QED BY <2>2, <1>13
<1>15. DOMAIN search.lists = 1 .. N /\ search.lists = [i \in 1 .. N |-> search.lists[i]]
  BY <1>13
<1> QED BY <1>10, <1>12, <1>14, <1>15 DEF SearchIs

-----------------------------------------------------------------------------
(* The nearest image *)

LEMMA LengthType ==
  ASSUME NEW a \in Axes
  PROVE  Length(a) \in Nat /\ Length(a) > 0 /\ Low[a] \in Int /\ High[a] \in Int
         /\ Length(a) = High[a] - Low[a]
BY DomainAssumption DEF Length, Sites

\* A smaller square is the square of a number nearer to zero.
LEMMA SquareOrder ==
  ASSUME NEW x \in Int, NEW e \in Nat, Square(x) < Square(e)
  PROVE  -e < x /\ x < e
<1>1. ASSUME NEW y \in Int, e <= y PROVE e * e <= y * y
  BY <1>1
<1>2. ~ (e <= x)
  BY <1>1 DEF Square
<1>3. ~ (e <= -x)
  <2> SUFFICES ASSUME e <= -x PROVE FALSE
    OBVIOUS
  <2>1. e * e <= (-x) * (-x)
    BY <1>1
  <2>2. (-x) * (-x) = x * x
    OBVIOUS
  <2> QED BY <2>1, <2>2 DEF Square
<1> QED BY <1>2, <1>3

\* The difference to the nearest image is one of the three, and the least.
LEMMA WrapLeast ==
  ASSUME NEW a \in Axes, NEW x \in Int, NEW y \in Int
  PROVE  /\ WrappedDifference(x, y, a) \in Wraps(x, y, a)
         /\ WrappedDifference(x, y, a) \in Int
         /\ \A e \in Wraps(x, y, a) : e \in Int /\ Square(WrappedDifference(x, y, a)) <= Square(e)
<1> DEFINE W == Wraps(x, y, a)
           P(d) == \A e \in W : Square(d) < Square(e) \/ (Square(d) = Square(e) /\ d >= e)
           u == x - y - Length(a)
           v == x - y
           w == x - y + Length(a)
<1>1. W = {u, v, w} /\ u \in Int /\ v \in Int /\ w \in Int /\ u < v /\ v < w
  BY LengthType DEF Wraps
<1>2. Square(u) \in Nat /\ Square(v) \in Nat /\ Square(w) \in Nat
  BY <1>1, SquareType
<1>3. \E d \in W : P(d)
  <2> HIDE DEF u, v, w
  <2>1. CASE Square(w) <= Square(u) /\ Square(w) <= Square(v)
    <3>1. P(w)
      BY <2>1, <1>1, <1>2
    <3> QED BY <3>1, <1>1
  <2>2. CASE Square(v) <= Square(u) /\ Square(v) < Square(w)
    <3>1. P(v)
      BY <2>2, <1>1, <1>2
    <3> QED BY <3>1, <1>1
  <2>3. CASE Square(u) < Square(v) /\ Square(u) < Square(w)
    <3>1. P(u)
      BY <2>3, <1>1, <1>2
    <3> QED BY <3>1, <1>1
  <2>4. \/ Square(w) <= Square(u) /\ Square(w) <= Square(v)
        \/ Square(v) <= Square(u) /\ Square(v) < Square(w)
        \/ Square(u) < Square(v) /\ Square(u) < Square(w)
    BY <1>2
  <2> QED BY <2>1, <2>2, <2>3, <2>4
<1> DEFINE d == WrappedDifference(x, y, a)
<1>4. d \in W /\ P(d)
  <2>1. d = CHOOSE z \in W : P(z)
    BY DEF WrappedDifference
  <2> HIDE DEF P, W, d
  <2> QED BY <2>1, <1>3
<1>5. \A e \in W : e \in Int
  BY <1>1
<1>6. \A e \in W : Square(e) \in Nat
  BY <1>5, SquareType
<1> HIDE DEF d, W
<1>7. \A e \in W : Square(d) <= Square(e)
  BY <1>4, <1>6
<1> QED BY <1>4, <1>5, <1>7 DEF d, W

\* The distance is the same both ways, and none from a particle to itself.
LEMMA WrapSymmetric ==
  ASSUME NEW a \in Axes, NEW x \in Int, NEW y \in Int
  PROVE  /\ Square(WrappedDifference(x, y, a)) = Square(WrappedDifference(y, x, a))
         /\ Square(WrappedDifference(x, x, a)) = 0
<1>1. ASSUME NEW r \in Int, NEW s \in Int
      PROVE  Square(WrappedDifference(r, s, a)) <= Square(WrappedDifference(s, r, a))
  <2> DEFINE d == WrappedDifference(s, r, a)
  <2>1. d \in Wraps(s, r, a) /\ d \in Int
    BY WrapLeast
  <2> HIDE DEF d
  <2>2. -d \in Wraps(r, s, a)
    BY <2>1, LengthType DEF Wraps
  <2>3. Square(WrappedDifference(r, s, a)) <= Square(-d)
    BY <2>2, WrapLeast
  <2>4. Square(-d) = Square(d)
    BY <2>1, SquareType
  <2> QED BY <2>3, <2>4 DEF d
<1>2. ASSUME NEW r \in Int, NEW s \in Int PROVE Square(WrappedDifference(r, s, a)) \in Nat
  BY WrapLeast, SquareType
<1>3. Square(WrappedDifference(x, y, a)) = Square(WrappedDifference(y, x, a))
  <2> DEFINE p == Square(WrappedDifference(x, y, a))
             q == Square(WrappedDifference(y, x, a))
  <2>1. p <= q /\ q <= p
    BY <1>1
  <2>2. p \in Nat /\ q \in Nat
    BY <1>2
  <2> HIDE DEF p, q
  <2>3. p = q
    BY <2>1, <2>2
  <2> QED BY <2>3 DEF p, q
<1>4. 0 \in Wraps(x, x, a)
  BY LengthType DEF Wraps
<1>5. Square(WrappedDifference(x, x, a)) <= Square(0) /\ Square(0) = 0
  BY <1>4, WrapLeast, SquareType
<1> QED BY <1>2, <1>3, <1>5

LEMMA SeparationType ==
  ASSUME NEW N \in Nat, NEW c \in [1 .. N -> Sites], NEW i \in 1 .. N, NEW j \in 1 .. N,
         NEW flag \in BOOLEAN
  PROVE  /\ Separation(c, i, j, flag) \in Sites
         /\ \A a \in Axes : c[i][a] \in Int /\ c[j][a] \in Int
              /\ Separation(c, i, j, flag)[a] = IF flag THEN WrappedDifference(c[i][a], c[j][a], a)
                                                ELSE c[i][a] - c[j][a]
<1>1. \A a \in Axes : c[i][a] \in Int /\ c[j][a] \in Int
  BY DEF Sites
<1>2. \A a \in Axes : WrappedDifference(c[i][a], c[j][a], a) \in Int
  BY <1>1, WrapLeast
<1> QED BY <1>1, <1>2 DEF Separation, Sites

LEMMA NearSymmetric ==
  ASSUME NEW N \in Nat, NEW c \in [1 .. N -> Sites], NEW i \in 1 .. N, NEW j \in 1 .. N,
         NEW flag \in BOOLEAN, NEW eps \in Nat
  PROVE  /\ Near(c, i, j, flag, eps) <=> Near(c, j, i, flag, eps)
         /\ Near(c, i, i, flag, eps) <=> eps > 0
<1> DEFINE d == Separation(c, i, j, flag)
           e == Separation(c, j, i, flag)
           o == Separation(c, i, i, flag)
<1>1. \A a \in Axes : Square(d[a]) = Square(e[a]) /\ Square(o[a]) = 0
  <2> TAKE a \in Axes
  <2>1. c[i][a] \in Int /\ c[j][a] \in Int
    BY SeparationType
  <2>2. CASE flag
    <3>1. /\ d[a] = WrappedDifference(c[i][a], c[j][a], a)
          /\ e[a] = WrappedDifference(c[j][a], c[i][a], a)
          /\ o[a] = WrappedDifference(c[i][a], c[i][a], a)
      BY <2>2, SeparationType
    <3> HIDE DEF d, e, o
    <3> QED BY <2>1, <3>1, WrapSymmetric
  <2>3. CASE ~flag
    <3>1. d[a] = c[i][a] - c[j][a] /\ e[a] = c[j][a] - c[i][a] /\ o[a] = c[i][a] - c[i][a]
      BY <2>3, SeparationType
    <3>2. d[a] \in Int /\ e[a] = - d[a] /\ o[a] = 0
      BY <2>1, <3>1
    <3> HIDE DEF d, e, o
    <3> QED BY <3>2, SquareType
  <2> QED BY <2>2, <2>3
<1>2. 1 \in Axes /\ 2 \in Axes /\ 3 \in Axes
  BY DEF Axes
<1>3. SquaredNorm(d) = SquaredNorm(e) /\ SquaredNorm(o) = 0
  BY <1>1, <1>2 DEF SquaredNorm
<1>4. 0 < Square(eps) <=> eps > 0
  <2>1. eps \in Int /\ Square(eps) \in Nat /\ (eps # 0 => Square(eps) > 0)
    BY SquareType
  <2>2. eps = 0 => Square(eps) = 0
    BY DEF Square
  <2> QED BY <2>1, <2>2
<1> QED BY <1>3, <1>4 DEF Near

-----------------------------------------------------------------------------
(* The list of a target *)

\* Lists of the particles within the radius, the target itself first.
ExactList(list, i, c, flag, eps) ==
  /\ Enumerates(list, Len(list), {j \in DOMAIN c : Near(c, i, j, flag, eps)})
  /\ eps > 0 => list[1] = i

\* The sources within the radius are images of the particles within the radius,
\* one of each.
OneImageEach(c, i, flag, eps, sources) ==
  /\ \A k \in Accepted(c[i], sources, eps) :
       sources[k].index \in DOMAIN c /\ Near(c, i, sources[k].index, flag, eps)
  /\ \A k, l \in Accepted(c[i], sources, eps) :
       sources[k].index = sources[l].index => k = l
  /\ \A j \in DOMAIN c : Near(c, i, j, flag, eps) =>
       \E k \in Accepted(c[i], sources, eps) : sources[k].index = j

\* Then the list is exact.
LEMMA ExactFromSources ==
  ASSUME NEW N \in Nat, NEW c \in [1 .. N -> Sites], NEW i \in 1 .. N,
         NEW flag \in BOOLEAN, NEW eps \in Nat, NEW sources, NEW list,
         ListFrom(list, i, c[i], sources, eps), OneImageEach(c, i, flag, eps, sources)
  PROVE  ExactList(list, i, c, flag, eps)
<1> DEFINE A == Accepted(c[i], sources, eps)
           S == {j \in 1 .. N : Near(c, i, j, flag, eps)}
<1>1. PICK n, p : /\ Enumerates(p, n, A)
                  /\ list = [k \in 1 .. n |-> sources[p[k]].index]
                  /\ (\E k \in 1 .. n : list[k] = i) => list[1] = i
  BY DEF ListFrom
<1>0. /\ DOMAIN c = 1 .. N
      /\ \A k \in A : sources[k].index \in 1 .. N /\ Near(c, i, sources[k].index, flag, eps)
      /\ \A k, l \in A : sources[k].index = sources[l].index => k = l
      /\ \A j \in 1 .. N : Near(c, i, j, flag, eps) => \E k \in A : sources[k].index = j
  <2>1. DOMAIN c = 1 .. N
    OBVIOUS
  <2> QED BY <2>1, Zenon DEF OneImageEach
<1> HIDE DEF A
<1>2. /\ n \in Nat /\ p \in [1 .. n -> A] /\ \A k, l \in 1 .. n : p[k] = p[l] => k = l
      /\ \A x \in A : \E k \in 1 .. n : p[k] = x
  BY <1>1 DEF Enumerates
<1>3. Len(list) = n
  BY <1>1, <1>2, LengthOf
<1>4. \A k \in 1 .. n : list[k] = sources[p[k]].index /\ p[k] \in A
  BY <1>1, <1>2
<1>5. list \in [1 .. n -> S]
  <2>1. \A k \in 1 .. n : sources[p[k]].index \in S
    BY <1>0, <1>4
  <2> HIDE DEF S
  <2> QED BY <2>1, <1>1
<1>6. \A k, l \in 1 .. n : list[k] = list[l] => k = l
  <2> SUFFICES ASSUME NEW k \in 1 .. n, NEW l \in 1 .. n, list[k] = list[l] PROVE k = l
    OBVIOUS
  <2>1. p[k] = p[l]
    BY <1>0, <1>4
  <2> QED BY <2>1, <1>2
<1>7. \A x \in S : \E k \in 1 .. n : list[k] = x
  <2> TAKE x \in S
  <2>1. PICK a \in A : sources[a].index = x
    BY <1>0
  <2>2. PICK k \in 1 .. n : p[k] = a
    BY <1>2
  <2> QED BY <2>1, <2>2, <1>4
<1>8. eps > 0 => list[1] = i
  <2> SUFFICES ASSUME eps > 0 PROVE list[1] = i
    OBVIOUS
  <2>1. i \in S
    BY NearSymmetric
  <2>2. \E k \in 1 .. n : list[k] = i
    BY <2>1, <1>7
  <2> QED BY <2>2, <1>1
<1>9. {j \in DOMAIN c : Near(c, i, j, flag, eps)} = S
  OBVIOUS
<1> HIDE DEF S
<1> QED BY <1>2, <1>3, <1>5, <1>6, <1>7, <1>8, <1>9 DEF ExactList, Enumerates

\* Without periodic boundaries the sources are the particles.
LEMMA PlainSources ==
  ASSUME NEW N \in Nat, NEW c \in [1 .. N -> Sites], NEW images
  PROVE  /\ SourceSites(c, FALSE, images) = [i \in 1 .. N |-> [site |-> c[i], index |-> i]]
         /\ SourcesOf(N, N, SourceSites(c, FALSE, images))
<1>1. SourceSites(c, FALSE, images) = [i \in 1 .. N |-> [site |-> c[i], index |-> i]]
  <2>1. DOMAIN c = 1 .. N
    OBVIOUS
  <2> QED BY <2>1, Zenon DEF SourceSites
<1> DEFINE sources == [i \in 1 .. N |-> [site |-> c[i], index |-> i]]
<1>2. SourcesOf(N, N, sources)
  BY DEF SourcesOf
<1> QED BY <1>1, <1>2, Zenon

LEMMA PlainExact ==
  ASSUME NEW N \in Nat, NEW c \in [1 .. N -> Sites], NEW i \in 1 .. N,
         NEW eps \in Nat, NEW images, NEW list,
         ListFrom(list, i, c[i], SourceSites(c, FALSE, images), eps)
  PROVE  ExactList(list, i, c, FALSE, eps)
<1> SUFFICES ASSUME NEW flag \in BOOLEAN, ~flag PROVE ExactList(list, i, c, flag, eps)
  BY Zenon
<1> DEFINE sources == SourceSites(c, FALSE, images)
<1>1. sources = [j \in 1 .. N |-> [site |-> c[j], index |-> j]]
  <2>1. SourceSites(c, FALSE, images) = [j \in 1 .. N |-> [site |-> c[j], index |-> j]]
    <3>1. DOMAIN c = 1 .. N
      OBVIOUS
    <3> QED BY <3>1, Zenon DEF SourceSites
  <2> QED BY <2>1
<1>2. \A j \in 1 .. N : Accepts(c[i], c[j], eps) <=> Near(c, i, j, flag, eps)
  <2> TAKE j \in 1 .. N
  <2>1. Separation(c, i, j, flag) = [a \in Axes |-> c[i][a] - c[j][a]]
    BY DEF Separation
  <2> QED BY <2>1 DEF Near, Accepts, DistanceSquared
<1> HIDE DEF sources
<1>3. \A k \in Accepted(c[i], sources, eps) :
        k \in 1 .. N /\ sources[k].index = k /\ Near(c, i, k, flag, eps)
  BY <1>1, <1>2 DEF Accepted
<1>4. \A j \in 1 .. N : Near(c, i, j, flag, eps) =>
        j \in Accepted(c[i], sources, eps) /\ sources[j].index = j
  BY <1>1, <1>2 DEF Accepted
<1>5. ListFrom(list, i, c[i], sources, eps)
  BY DEF sources
<1>6. DOMAIN c = 1 .. N
  OBVIOUS
<1>7. OneImageEach(c, i, flag, eps, sources)
  BY <1>3, <1>4, <1>6 DEF OneImageEach
<1> QED BY <1>5, <1>7, ExactFromSources

-----------------------------------------------------------------------------
(* The images of a particle *)

\* The copies of a particle are numbered by digits, one for each axis.
LEMMA Digits ==
  ASSUME NEW p \in {1, 2}, NEW q \in {1, 2}, NEW r \in {1, 2}
  PROVE  /\ p * q * r \in Nat /\ p * q * r >= 1
         /\ \A n \in 0 .. p * q * r - 1 :
              /\ (n \div (q * r)) % p \in 0 .. p - 1
              /\ (n \div r) % q \in 0 .. q - 1
              /\ (n \div 1) % r \in 0 .. r - 1
         /\ \A n, m \in 0 .. p * q * r - 1 :
              /\ (n \div (q * r)) % p = (m \div (q * r)) % p
              /\ (n \div r) % q = (m \div r) % q
              /\ (n \div 1) % r = (m \div 1) % r
              => n = m
<1>1. /\ p * q * r \in Nat /\ p * q * r >= 1
  BY SMT
<1>2. \A n \in 0 .. p * q * r - 1 :
              /\ (n \div (q * r)) % p \in 0 .. p - 1
              /\ (n \div r) % q \in 0 .. q - 1
              /\ (n \div 1) % r \in 0 .. r - 1
  BY SMT
<1>3. \A n, m \in 0 .. p * q * r - 1 :
              /\ (n \div (q * r)) % p = (m \div (q * r)) % p
              /\ (n \div r) % q = (m \div r) % q
              /\ (n \div 1) % r = (m \div 1) % r
              => n = m
  <2>1. CASE p = 1 /\ q = 1 /\ r = 1
    BY <2>1
  <2>2. CASE p = 1 /\ q = 1 /\ r = 2
    BY <2>2
  <2>3. CASE p = 1 /\ q = 2 /\ r = 1
    BY <2>3
  <2>4. CASE p = 1 /\ q = 2 /\ r = 2
    BY <2>4
  <2>5. CASE p = 2 /\ q = 1 /\ r = 1
    BY <2>5
  <2>6. CASE p = 2 /\ q = 1 /\ r = 2
    BY <2>6
  <2>7. CASE p = 2 /\ q = 2 /\ r = 1
    BY <2>7
  <2>8. CASE p = 2 /\ q = 2 /\ r = 2
    BY <2>8
  <2> QED BY <2>1, <2>2, <2>3, <2>4, <2>5, <2>6, <2>7, <2>8
<1> QED BY <1>1, <1>2, <1>3

\* The digit of a copy on an axis, and the place it gives the image there.
Digit(site, eps, n, a) == (n \div Stride(site, a, eps)) % AxisCopies(site, a, eps)
Image(site, eps, a, b) == IF b = 1 THEN site[a] + AxisShift(site, a, eps) ELSE site[a]

LEMMA CopiesType ==
  ASSUME NEW site \in Sites, NEW eps \in Nat
  PROVE  /\ Copies(site, eps) \in Nat /\ Copies(site, eps) >= 1
         /\ \A n \in 0 .. Copies(site, eps) - 1 : \A a \in Axes :
              /\ Digit(site, eps, n, a) \in 0 .. AxisCopies(site, a, eps) - 1
              /\ Copy(site, eps, n)[a] = Image(site, eps, a, Digit(site, eps, n, a))
         /\ \A n \in 0 .. Copies(site, eps) - 1 : Copy(site, eps, n) \in Sites
         /\ \A n, m \in 0 .. Copies(site, eps) - 1 :
              (\A a \in Axes : Digit(site, eps, n, a) = Digit(site, eps, m, a)) => n = m
         /\ \A b \in [Axes -> {0, 1}] :
              (\A a \in Axes : b[a] <= AxisCopies(site, a, eps) - 1) =>
                \E n \in 0 .. Copies(site, eps) - 1 :
                  \A a \in Axes : Digit(site, eps, n, a) = b[a]
<1> DEFINE p == AxisCopies(site, 1, eps)
           q == AxisCopies(site, 2, eps)
           r == AxisCopies(site, 3, eps)
           D(n, a) == Digit(site, eps, n, a)
<1>1. p \in {1, 2} /\ q \in {1, 2} /\ r \in {1, 2}
  BY DEF AxisCopies
<1>2. Copies(site, eps) = p * q * r
  BY DEF Copies
<1>3. \A n : /\ D(n, 1) = (n \div (q * r)) % p /\ D(n, 2) = (n \div r) % q
             /\ D(n, 3) = (n \div 1) % r
  BY DEF Digit, Stride
<1>4. 1 \in Axes /\ 2 \in Axes /\ 3 \in Axes /\ \A a \in Axes : a = 1 \/ a = 2 \/ a = 3
  BY DEF Axes
<1>5. \A a \in Axes : site[a] \in Int /\ AxisShift(site, a, eps) \in Int
  BY LengthType DEF Sites, AxisShift
<1>6. \A n, a : a \in Axes => Copy(site, eps, n)[a] = Image(site, eps, a, D(n, a))
  BY DEF Copy, Image, Digit
<1>7. ASSUME NEW n PROVE Copy(site, eps, n) \in Sites
  <2>1. \A a \in Axes : Image(site, eps, a, D(n, a)) \in Int
    BY <1>5 DEF Image
  <2>2. Copy(site, eps, n) = [a \in Axes |-> Copy(site, eps, n)[a]]
    BY DEF Copy
  <2> QED BY <2>1, <2>2, <1>6 DEF Sites
<1>8. \A a \in Axes : AxisCopies(site, a, eps) = IF a = 1 THEN p ELSE IF a = 2 THEN q ELSE r
  BY <1>4
<1> HIDE DEF p, q, r, D
<1>9. /\ p * q * r \in Nat /\ p * q * r >= 1
      /\ \A n \in 0 .. p * q * r - 1 :
           D(n, 1) \in 0 .. p - 1 /\ D(n, 2) \in 0 .. q - 1 /\ D(n, 3) \in 0 .. r - 1
      /\ \A n, m \in 0 .. p * q * r - 1 :
           D(n, 1) = D(m, 1) /\ D(n, 2) = D(m, 2) /\ D(n, 3) = D(m, 3) => n = m
      /\ \A x \in 0 .. p - 1, y \in 0 .. q - 1, z \in 0 .. r - 1 :
           \E n \in 0 .. p * q * r - 1 : D(n, 1) = x /\ D(n, 2) = y /\ D(n, 3) = z
  <2>1. /\ p * q * r \in Nat /\ p * q * r >= 1
    BY <1>1, Digits
  <2>2. \A n \in 0 .. p * q * r - 1 :
           /\ (n \div (q * r)) % p \in 0 .. p - 1
           /\ (n \div r) % q \in 0 .. q - 1
           /\ (n \div 1) % r \in 0 .. r - 1
    BY <1>1, Digits
  <2>3. \A n, m \in 0 .. p * q * r - 1 :
              /\ (n \div (q * r)) % p = (m \div (q * r)) % p
              /\ (n \div r) % q = (m \div r) % q
              /\ (n \div 1) % r = (m \div 1) % r
              => n = m
    BY <1>1, Digits
  <2>4. ASSUME NEW x \in 0 .. p - 1, NEW y \in 0 .. q - 1, NEW z \in 0 .. r - 1
        PROVE  \E n \in 0 .. p * q * r - 1 : D(n, 1) = x /\ D(n, 2) = y /\ D(n, 3) = z
    <3> DEFINE n == x * (q * r) + y * r + z
    <3>1. /\ n \in 0 .. p * q * r - 1
          /\ (n \div (q * r)) % p = x
          /\ (n \div r) % q = y
          /\ (n \div 1) % r = z
      BY <1>1, SMT
    <3> HIDE DEF n
    <3> QED BY <1>3, <3>1, Zenon
  <2>5. \A n \in 0 .. p * q * r - 1 :
           D(n, 1) \in 0 .. p - 1 /\ D(n, 2) \in 0 .. q - 1 /\ D(n, 3) \in 0 .. r - 1
    BY <1>3, <2>2, Zenon
  <2>6. ASSUME NEW n \in 0 .. p * q * r - 1, NEW m \in 0 .. p * q * r - 1,
               D(n, 1) = D(m, 1), D(n, 2) = D(m, 2), D(n, 3) = D(m, 3)
        PROVE  n = m
    <3>1. /\ (n \div (q * r)) % p = (m \div (q * r)) % p
          /\ (n \div r) % q = (m \div r) % q
          /\ (n \div 1) % r = (m \div 1) % r
      BY <1>3, <2>6, Zenon
    <3> QED BY <2>3, <3>1, Zenon
  <2> QED BY <2>1, <2>4, <2>5, <2>6, Zenon
<1> DEFINE c == p * q * r
<1>10. c \in Nat /\ c >= 1
  BY <1>9
<1>11. ASSUME NEW n \in 0 .. c - 1, NEW a \in Axes
       PROVE  D(n, a) \in 0 .. AxisCopies(site, a, eps) - 1
  <2>1. D(n, 1) \in 0 .. p - 1 /\ D(n, 2) \in 0 .. q - 1 /\ D(n, 3) \in 0 .. r - 1
    BY <1>9
  <2> HIDE DEF c
  <2>2. CASE a = 1
    BY <2>1, <2>2, <1>8
  <2>3. CASE a = 2
    BY <2>1, <2>3, <1>8
  <2>4. CASE a = 3
    BY <2>1, <2>4, <1>8
  <2> QED BY <2>2, <2>3, <2>4, <1>4
<1>12. ASSUME NEW n \in 0 .. c - 1, NEW m \in 0 .. c - 1, \A a \in Axes : D(n, a) = D(m, a)
       PROVE  n = m
  <2>1. D(n, 1) = D(m, 1) /\ D(n, 2) = D(m, 2) /\ D(n, 3) = D(m, 3)
    BY <1>12, <1>4
  <2> QED BY <2>1, <1>9
<1>13. ASSUME NEW b \in [Axes -> {0, 1}],
              \A a \in Axes : b[a] <= AxisCopies(site, a, eps) - 1
       PROVE  \E n \in 0 .. c - 1 : \A a \in Axes : D(n, a) = b[a]
  <2>1. b[1] \in 0 .. p - 1 /\ b[2] \in 0 .. q - 1 /\ b[3] \in 0 .. r - 1
    <3>1. b[1] \in {0, 1} /\ b[2] \in {0, 1} /\ b[3] \in {0, 1}
      BY <1>4
    <3>2. b[1] <= p - 1 /\ b[2] <= q - 1 /\ b[3] <= r - 1
      BY <1>13, <1>4, <1>8
    <3> QED BY <3>1, <3>2, <1>1
  <2>2. PICK n \in 0 .. c - 1 : D(n, 1) = b[1] /\ D(n, 2) = b[2] /\ D(n, 3) = b[3]
    BY <2>1, <1>9
  <2>3. \A a \in Axes : D(n, a) = b[a]
    BY <2>2, <1>4
  <2> QED BY <2>3
<1>14. Copies(site, eps) = c
  BY <1>2
<1> HIDE DEF c
<1>15. \A n, a : D(n, a) = Digit(site, eps, n, a)
  BY DEF D
<1>16. \A n \in 0 .. c - 1 : \A a \in Axes :
         Digit(site, eps, n, a) \in 0 .. AxisCopies(site, a, eps) - 1
  BY <1>11, <1>15
<1>17. \A n, m \in 0 .. c - 1 :
         (\A a \in Axes : Digit(site, eps, n, a) = Digit(site, eps, m, a)) => n = m
  BY <1>12, <1>15
<1>18. \A b \in [Axes -> {0, 1}] :
         (\A a \in Axes : b[a] <= AxisCopies(site, a, eps) - 1) =>
            \E n \in 0 .. c - 1 : \A a \in Axes : Digit(site, eps, n, a) = b[a]
  BY <1>13, <1>15
<1>19. \A n, a : a \in Axes => Copy(site, eps, n)[a] = Image(site, eps, a, Digit(site, eps, n, a))
  BY <1>6, <1>15
<1> QED BY <1>7, <1>10, <1>14, <1>16, <1>17, <1>18, <1>19

\* The image of a coordinate is one of the three places that are a length apart.
\* Near a boundary the image is made that the other side may be near to, and no
\* place is near to both.
LEMMA AxisImages ==
  ASSUME NEW a \in Axes, NEW site \in Sites, NEW x \in Low[a] .. High[a],
         site[a] \in Low[a] .. High[a], NEW images \in Nat, 2 * images <= Length(a)
  PROVE  /\ \A b \in {0, 1} : /\ Image(site, images, a, b) \in Int
                              /\ x - Image(site, images, a, b) \in Wraps(x, site[a], a)
         /\ \A d \in Wraps(x, site[a], a) : -images < d /\ d < images =>
              \E b \in {0, 1} : /\ b <= AxisCopies(site, a, images) - 1
                                /\ x - Image(site, images, a, b) = d
         /\ \A b, e \in 0 .. AxisCopies(site, a, images) - 1 :
              /\ -images < x - Image(site, images, a, b)
              /\ x - Image(site, images, a, b) < images
              /\ -images < x - Image(site, images, a, e)
              /\ x - Image(site, images, a, e) < images
              => b = e
<1> DEFINE y == site[a]
           h == AxisShift(site, a, images)
           I(b) == Image(site, images, a, b)
<1>1. /\ Low[a] \in Int /\ High[a] \in Int /\ Length(a) \in Nat /\ Length(a) > 0
      /\ Length(a) = High[a] - Low[a]
  BY LengthType
<1>2. x \in Int /\ y \in Int /\ Low[a] <= x /\ x <= High[a] /\ Low[a] <= y /\ y <= High[a]
  BY <1>1
<1>3. h = IF y < Low[a] + images THEN Length(a)
          ELSE IF y > High[a] - images THEN -Length(a) ELSE 0
  BY DEF AxisShift
<1>4. AxisCopies(site, a, images) = IF h = 0 THEN 1 ELSE 2
  BY DEF AxisCopies
<1>5. I(0) = y /\ I(1) = y + h
  BY DEF Image
<1>6. Wraps(x, y, a) = {x - y - Length(a), x - y, x - y + Length(a)}
  BY DEF Wraps
<1> DEFINE L == Length(a)
<1>7. 2 * images <= L
  OBVIOUS
<1> HIDE DEF y, h, I, L
<1>8. ASSUME NEW b \in {0, 1} PROVE I(b) \in Int /\ x - I(b) \in Wraps(x, y, a)
  <2>1. h \in Int /\ (h = 0 \/ h = L \/ h = -L)
    BY <1>1, <1>3 DEF L
  <2>2. CASE b = 0
    BY <2>2, <1>2, <1>5, <1>6
  <2>3. CASE b = 1
    <3>1. x - I(b) = x - y - h /\ I(b) \in Int
      BY <2>1, <2>3, <1>2, <1>5
    <3> QED BY <2>1, <3>1, <1>1, <1>2, <1>6 DEF L
  <2> QED BY <2>2, <2>3
<1>9. ASSUME NEW d \in Wraps(x, y, a), -images < d, d < images
      PROVE  \E b \in {0, 1} : b <= AxisCopies(site, a, images) - 1 /\ x - I(b) = d
  <2>1. CASE d = x - y
    <3>1. 0 <= AxisCopies(site, a, images) - 1 /\ x - I(0) = d
      BY <2>1, <1>4, <1>5
    <3> QED BY <3>1
  <2>2. CASE d = x - y - Length(a)
    <3>1. y < Low[a] + images
      BY <2>2, <1>9, <1>1, <1>2
    <3>2. h = Length(a)
      BY <3>1, <1>3
    <3>3. 1 <= AxisCopies(site, a, images) - 1 /\ x - I(1) = d
      BY <3>2, <2>2, <1>1, <1>2, <1>4, <1>5
    <3> QED BY <3>3
  <2>3. CASE d = x - y + Length(a)
    <3>1. y > High[a] - images
      BY <2>3, <1>9, <1>1, <1>2
    <3>2. ~ (y < Low[a] + images)
      BY <3>1, <1>1, <1>2, <1>7 DEF L
    <3>3. h = -Length(a)
      BY <3>1, <3>2, <1>3
    <3>4. 1 <= AxisCopies(site, a, images) - 1 /\ x - I(1) = d
      BY <3>3, <2>3, <1>1, <1>2, <1>4, <1>5
    <3> QED BY <3>4
  <2> QED BY <2>1, <2>2, <2>3, <1>6, <1>9
<1>10. ASSUME NEW b \in 0 .. AxisCopies(site, a, images) - 1,
              NEW e \in 0 .. AxisCopies(site, a, images) - 1,
              -images < x - I(b), x - I(b) < images, -images < x - I(e), x - I(e) < images
       PROVE  b = e
  <2>1. CASE h = 0
    BY <2>1, <1>4
  <2>2. CASE h # 0
    <3>1. b \in {0, 1} /\ e \in {0, 1} /\ (h = L \/ h = -L)
      BY <2>2, <1>3, <1>4 DEF L
    <3>2. ~ (b = 0 /\ e = 1) /\ ~ (b = 1 /\ e = 0)
      BY <3>1, <1>1, <1>2, <1>5, <1>7, <1>10 DEF L
    <3> QED BY <3>1, <3>2
  <2> QED BY <2>1, <2>2
<1> QED BY <1>8, <1>9, <1>10 DEF y, I

-----------------------------------------------------------------------------
(* The sources of a periodic domain *)

\* The image of a particle that a copy is.
ImageOf(c, images, i, q) == [site |-> Copy(c[i], images, q - 1), index |-> i]

\* The sources are the copies of the particles: each source is one of a
\* particle, and each copy of a particle is one source.
LEMMA PeriodicSources ==
  ASSUME NEW N \in Nat, NEW c \in [1 .. N -> Sites], NEW images \in Nat
  PROVE  LET sources == SourceSites(c, TRUE, images)
             starts == Starts([i \in 1 .. N |-> Copies(c[i], images)])
             m == starts[N]
         IN  /\ SourcesOf(N, m, sources)
             /\ \A k \in 1 .. m : \E i \in 1 .. N : \E q \in 1 .. Copies(c[i], images) :
                  k = starts[i - 1] + q /\ sources[k] = ImageOf(c, images, i, q)
             /\ \A i \in 1 .. N : \A q \in 1 .. Copies(c[i], images) :
                  /\ starts[i - 1] + q \in 1 .. m
                  /\ sources[starts[i - 1] + q] = ImageOf(c, images, i, q)
<1> DEFINE sources == SourceSites(c, TRUE, images)
           num == [i \in 1 .. N |-> Copies(c[i], images)]
           starts == Starts(num)
           parts == [i \in 1 .. N |-> [n \in 1 .. Copies(c[i], images) |->
                       [site |-> Copy(c[i], images, n - 1), index |-> i]]]
           m == starts[N]
<1>1. sources = Joined(parts)
  <2>1. DOMAIN c = 1 .. N
    OBVIOUS
  <2> QED BY <2>1, Zenon DEF SourceSites
<1>2. \A i \in 1 .. N : Copies(c[i], images) \in Nat /\ Copies(c[i], images) >= 1
  BY CopiesType
<1>3. num \in [1 .. N -> Nat] /\ \A i \in 1 .. N : num[i] = Copies(c[i], images)
  BY <1>2
<1>4. \A i \in 1 .. N : /\ Len(parts[i]) = num[i]
                        /\ \A q \in 1 .. num[i] : parts[i][q] = ImageOf(c, images, i, q)
  <2> TAKE i \in 1 .. N
  <2> DEFINE l == num[i]
             P == [n \in 1 .. l |-> [site |-> Copy(c[i], images, n - 1), index |-> i]]
  <2>1. parts[i] = P /\ l \in Nat
    BY <1>3
  <2> HIDE DEF l, num, parts
  <2>2. Len(P) = l
    <3>1. P = [k \in 1 .. l |-> P[k]]
      OBVIOUS
    <3> HIDE DEF P
    <3> QED BY <2>1, <3>1, LengthOf
  <2>3. \A q \in 1 .. l : P[q] = ImageOf(c, images, i, q)
    BY DEF ImageOf
  <2> HIDE DEF P
  <2> QED BY <2>1, <2>2, <2>3 DEF l
<1>5. parts = [i \in 1 .. N |-> parts[i]]
  OBVIOUS
<1> HIDE DEF parts, sources, num
<1>6. LaidOut(N, num, parts, sources)
  BY <1>1, <1>3, <1>4, <1>5, JoinedLaidOut
<1>7. /\ DOMAIN sources = 1 .. m /\ m \in Nat
      /\ \A k \in DOMAIN sources : \E i \in 1 .. N : \E q \in 1 .. num[i] :
           k = starts[i - 1] + q /\ sources[k] = parts[i][q]
  <2>1. DOMAIN sources = 1 .. m /\ m \in Nat
    BY <1>3, <1>6, LaidOutEntries
  <2>2. \A k \in DOMAIN sources : \E i \in 1 .. N : \E q \in 1 .. num[i] :
           k = Starts(num)[i - 1] + q /\ sources[k] = parts[i][q]
    <3>1. EntriesFrom(N, num, parts, sources)
      BY <1>3, <1>6, LaidOutEntries
    <3> QED BY <3>1, Zenon DEF EntriesFrom
  <2> QED BY <2>1, <2>2
<1>8. \A i \in 1 .. N : \A q \in 1 .. num[i] :
        starts[i - 1] + q \in 1 .. m /\ sources[starts[i - 1] + q] = parts[i][q]
  BY <1>3, <1>6, PlaceOf DEF LaidOut
<1>9. \A i \in 0 .. N : i <= starts[i]
  <2> DEFINE good == {i \in Nat : i <= N => i <= starts[i]}
  <2>1. starts \in [0 .. N -> Nat] /\ starts[0] = 0
        /\ \A i \in 1 .. N : starts[i] = starts[i - 1] + num[i]
    BY <1>3, StartsType
  <2> HIDE DEF starts
  <2>2. 0 \in good
    BY <2>1
  <2>3. ASSUME NEW i \in Nat, i < N, i \in good PROVE i + 1 \in good
    <3>1. i + 1 \in 1 .. N /\ (i + 1) - 1 = i /\ i <= starts[i] /\ i \in 0 .. N
      BY <2>3
    <3>2. starts[i + 1] = starts[i] + num[i + 1] /\ num[i + 1] >= 1 /\ num[i + 1] \in Nat
          /\ starts[i] \in Nat
      BY <3>1, <2>1, <1>2, <1>3
    <3> QED BY <3>1, <3>2
  <2>4. good \in SUBSET Nat
    OBVIOUS
  <2>5. \A i \in 0 .. N : i \in good
    <3> HIDE DEF good
    <3> QED BY <2>2, <2>3, <2>4, UpToBound
  <2> QED BY <2>5
<1>10. N <= m
  <2>1. N \in 0 .. N
    OBVIOUS
  <2> HIDE DEF starts
  <2> QED BY <2>1, <1>9
<1> HIDE DEF starts
<1>11. ASSUME NEW k \in 1 .. m
       PROVE  \E i \in 1 .. N : \E q \in 1 .. Copies(c[i], images) :
                k = starts[i - 1] + q /\ sources[k] = ImageOf(c, images, i, q)
  <2>1. PICK i \in 1 .. N : \E q \in 1 .. num[i] :
          k = starts[i - 1] + q /\ sources[k] = parts[i][q]
    BY <1>7
  <2>2. PICK q \in 1 .. num[i] : k = starts[i - 1] + q /\ sources[k] = parts[i][q]
    BY <2>1
  <2>3. q \in 1 .. Copies(c[i], images) /\ sources[k] = ImageOf(c, images, i, q)
    BY <1>3, <1>4, <2>2
  <2> QED BY <2>2, <2>3
<1>12. \A i \in 1 .. N : \A q \in 1 .. Copies(c[i], images) :
                  /\ starts[i - 1] + q \in 1 .. m
                  /\ sources[starts[i - 1] + q] = ImageOf(c, images, i, q)
  BY <1>3, <1>4, <1>8
<1>13. \A i \in 1 .. N : \A q \in 1 .. Copies(c[i], images) :
         ImageOf(c, images, i, q).index = i /\ ImageOf(c, images, i, q).site \in Sites
  <2> TAKE i \in 1 .. N
  <2> TAKE q \in 1 .. Copies(c[i], images)
  <2>1. q - 1 \in 0 .. Copies(c[i], images) - 1
    BY <1>2
  <2> QED BY <2>1, CopiesType DEF ImageOf
<1>14. \A k \in 1 .. m : sources[k].site \in Sites /\ sources[k].index \in 1 .. N
  BY <1>11, <1>13
<1>15. SourcesOf(N, m, sources)
  BY <1>7, <1>10, <1>14 DEF SourcesOf
<1> QED BY <1>11, <1>12, <1>15 DEF sources, starts, num

\* Three numbers with smaller squares have a smaller norm.
LEMMA NormOrder ==
  ASSUME NEW d \in Sites, NEW e \in Sites, \A a \in Axes : Square(d[a]) <= Square(e[a])
  PROVE  SquaredNorm(d) <= SquaredNorm(e)
<1>1. 1 \in Axes /\ 2 \in Axes /\ 3 \in Axes
  BY DEF Axes
<1>2. /\ Square(d[1]) \in Nat /\ Square(d[2]) \in Nat /\ Square(d[3]) \in Nat
      /\ Square(e[1]) \in Nat /\ Square(e[2]) \in Nat /\ Square(e[3]) \in Nat
  BY <1>1, NormType
<1>3. /\ Square(d[1]) <= Square(e[1]) /\ Square(d[2]) <= Square(e[2])
      /\ Square(d[3]) <= Square(e[3])
  BY <1>1
<1> QED BY <1>2, <1>3 DEF SquaredNorm

\* The number of copies of a site.
LEMMA CopiesCount ==
  ASSUME NEW site \in Sites, NEW eps \in Nat
  PROVE  Copies(site, eps) \in Nat
  BY CopiesType

\* Each short difference across a boundary is that to one of the images.
LEMMA NearImage ==
  ASSUME NEW a \in Axes, NEW site \in Sites, NEW x \in Low[a] .. High[a],
         site[a] \in Low[a] .. High[a], NEW images \in Nat, 2 * images <= Length(a),
         NEW d \in Wraps(x, site[a], a), -images < d, d < images
  PROVE  \E b \in {0, 1} : /\ b <= AxisCopies(site, a, images) - 1
                           /\ x - Image(site, images, a, b) = d
  BY AxisImages

\* In a periodic domain that is wide enough, the sources within a radius that
\* the images were made for are one image of each particle within the radius.
LEMMA WrappedExact ==
  ASSUME NEW N \in Nat, NEW c \in [1 .. N -> Sites], NEW i \in 1 .. N,
         NEW images \in Nat, NEW eps \in Nat, eps <= images, FitsDomain(c, images), NEW list,
         ListFrom(list, i, c[i], SourceSites(c, TRUE, images), eps),
         NEW flag \in BOOLEAN,
         \A j \in 1 .. N : \A a \in Axes :
           Separation(c, i, j, flag)[a] = WrappedDifference(c[i][a], c[j][a], a)
  PROVE  ExactList(list, i, c, flag, eps)
<1> DEFINE sources == SourceSites(c, TRUE, images)
           starts == Starts([j \in 1 .. N |-> Copies(c[j], images)])
           m == starts[N]
           A == Accepted(c[i], sources, eps)
           D(j, n) == [a \in Axes |-> c[i][a] - Copy(c[j], images, n)[a]]
<1>1. /\ SourcesOf(N, m, sources)
      /\ \A k \in 1 .. m : \E j \in 1 .. N : \E q \in 1 .. Copies(c[j], images) :
                  k = starts[j - 1] + q /\ sources[k] = ImageOf(c, images, j, q)
      /\ \A j \in 1 .. N : \A q \in 1 .. Copies(c[j], images) :
                  /\ starts[j - 1] + q \in 1 .. m
                  /\ sources[starts[j - 1] + q] = ImageOf(c, images, j, q)
  BY PeriodicSources, Zenon
<1>2. ListFrom(list, i, c[i], sources, eps)
  OBVIOUS
<1>0. Square(eps) \in Nat
  <2>1. eps \in Int
    OBVIOUS
  <2> QED BY <2>1, SquareType
<1> HIDE DEF sources, starts, m
<1>3. \A k : k \in A <=> k \in 1 .. m /\ DistanceSquared(c[i], sources[k].site) < Square(eps)
  BY <1>1 DEF Accepted, Accepts, SourcesOf
<1> HIDE DEF A
<1>4. /\ \A j \in 1 .. N : c[j] \in Sites
      /\ \A j \in 1 .. N : \A a \in Axes : c[j][a] \in Low[a] .. High[a]
      /\ \A a \in Axes : 2 * images <= Length(a)
  <2>1. DOMAIN c = 1 .. N
    OBVIOUS
  <2> QED BY <2>1 DEF FitsDomain
<1>5. \A j \in 1 .. N : \A n \in 0 .. Copies(c[j], images) - 1 :
        D(j, n) \in Sites /\ DistanceSquared(c[i], Copy(c[j], images, n)) = SquaredNorm(D(j, n))
  BY <1>4, CopiesType, DistanceType DEF DistanceSquared
\* A copy that is near is near on every axis.
<1>6. ASSUME NEW j \in 1 .. N, NEW n \in 0 .. Copies(c[j], images) - 1,
             SquaredNorm(D(j, n)) < Square(eps), NEW a \in Axes
      PROVE  /\ -images < D(j, n)[a] /\ D(j, n)[a] < images
             /\ D(j, n)[a] = c[i][a] - Image(c[j], images, a, Digit(c[j], images, n, a))
             /\ D(j, n)[a] \in Wraps(c[i][a], c[j][a], a)
  <2>1. D(j, n)[a] = c[i][a] - Image(c[j], images, a, Digit(c[j], images, n, a))
    <3>1. D(j, n)[a] = c[i][a] - Copy(c[j], images, n)[a]
      OBVIOUS
    <3> QED BY <3>1, <1>4, CopiesType
  <2>2. Square(D(j, n)[a]) < Square(eps) /\ D(j, n)[a] \in Int
    <3>1. /\ SquaredNorm(D(j, n)) \in Nat /\ D(j, n)[a] \in Int /\ Square(D(j, n)[a]) \in Nat
          /\ Square(D(j, n)[a]) <= SquaredNorm(D(j, n))
      <4>1. D(j, n) \in Sites
        BY <1>5
      <4> HIDE DEF D
      <4> QED BY <4>1, NormType
    <3> HIDE DEF D
    <3> QED BY <3>1, <1>0, <1>6
  <2>3. -eps < D(j, n)[a] /\ D(j, n)[a] < eps
    <3> HIDE DEF D
    <3> QED BY <2>2, SquareOrder
  <2>4. Digit(c[j], images, n, a) \in {0, 1}
    <3>1. Digit(c[j], images, n, a) \in 0 .. AxisCopies(c[j], a, images) - 1
      BY <1>4, CopiesType
    <3> QED BY <3>1 DEF AxisCopies
  <2>5. c[i][a] - Image(c[j], images, a, Digit(c[j], images, n, a))
           \in Wraps(c[i][a], c[j][a], a)
    BY <2>4, <1>4, AxisImages
  <2> HIDE DEF D
  <2> QED BY <2>1, <2>2, <2>3, <2>5
\* Which copy a source within the radius is.
<1>7. ASSUME NEW k \in A
      PROVE  \E j \in 1 .. N : \E n \in 0 .. Copies(c[j], images) - 1 :
               /\ k = starts[j - 1] + (n + 1) /\ sources[k].index = j
               /\ SquaredNorm(D(j, n)) < Square(eps)
  <2>1. PICK j \in 1 .. N : \E q \in 1 .. Copies(c[j], images) :
                  k = starts[j - 1] + q /\ sources[k] = ImageOf(c, images, j, q)
    BY <1>1, <1>3
  <2>2. PICK q \in 1 .. Copies(c[j], images) :
                  k = starts[j - 1] + q /\ sources[k] = ImageOf(c, images, j, q)
    BY <2>1
  <2> DEFINE n == q - 1
  <2>3. n \in 0 .. Copies(c[j], images) - 1 /\ n + 1 = q
    <3>1. Copies(c[j], images) \in Nat
      BY <1>4, CopiesType
    <3> QED BY <3>1
  <2>4. sources[k].index = j /\ sources[k].site = Copy(c[j], images, n)
    BY <2>2 DEF ImageOf
  <2> HIDE DEF n, D
  <2>5. SquaredNorm(D(j, n)) < Square(eps)
    BY <2>3, <2>4, <1>3, <1>5
  <2> QED BY <2>2, <2>3, <2>4, <2>5
<1> DEFINE s(j) == Separation(c, i, j, flag)
<1>8. \A j \in 1 .. N : /\ s(j) \in Sites
                        /\ \A a \in Axes : s(j)[a] = WrappedDifference(c[i][a], c[j][a], a)
  BY SeparationType
<1>9. \A j \in 1 .. N : \A a \in Axes : c[j][a] \in Int
  BY <1>4 DEF Sites
<1>10. \A j : Near(c, i, j, flag, eps) <=> SquaredNorm(s(j)) < Square(eps)
  BY DEF Near
<1> HIDE DEF s, D
<1>11. ASSUME NEW k \in A
       PROVE  sources[k].index \in 1 .. N /\ Near(c, i, sources[k].index, flag, eps)
  <2>1. PICK j \in 1 .. N : \E n \in 0 .. Copies(c[j], images) - 1 :
               /\ k = starts[j - 1] + (n + 1) /\ sources[k].index = j
               /\ SquaredNorm(D(j, n)) < Square(eps)
    BY <1>7
  <2>2. PICK n \in 0 .. Copies(c[j], images) - 1 : SquaredNorm(D(j, n)) < Square(eps)
    BY <2>1
  <2>3. \A a \in Axes : Square(s(j)[a]) <= Square(D(j, n)[a])
    <3> TAKE a \in Axes
    <3>1. D(j, n)[a] \in Wraps(c[i][a], c[j][a], a)
      BY <2>2, <1>6
    <3>2. Square(WrappedDifference(c[i][a], c[j][a], a)) <= Square(D(j, n)[a])
      BY <3>1, <1>9, WrapLeast
    <3> QED BY <3>2, <1>8
  <2>4. s(j) \in Sites /\ D(j, n) \in Sites
    BY <1>5, <1>8
  <2>5. SquaredNorm(s(j)) <= SquaredNorm(D(j, n))
    BY <2>3, <2>4, NormOrder
  <2>6. SquaredNorm(s(j)) \in Nat /\ SquaredNorm(D(j, n)) \in Nat
    BY <2>4, NormType
  <2>7. SquaredNorm(s(j)) < Square(eps)
    BY <2>2, <2>5, <2>6, <1>0
  <2> QED BY <2>1, <2>7, <1>10
<1>12. ASSUME NEW k \in A, NEW l \in A, sources[k].index = sources[l].index PROVE k = l
  <2>1. PICK j \in 1 .. N : \E n \in 0 .. Copies(c[j], images) - 1 :
               /\ k = starts[j - 1] + (n + 1) /\ sources[k].index = j
               /\ SquaredNorm(D(j, n)) < Square(eps)
    BY <1>7
  <2>2. PICK n \in 0 .. Copies(c[j], images) - 1 :
          k = starts[j - 1] + (n + 1) /\ SquaredNorm(D(j, n)) < Square(eps)
    BY <2>1
  <2>3. \E o \in 0 .. Copies(c[j], images) - 1 :
          l = starts[j - 1] + (o + 1) /\ SquaredNorm(D(j, o)) < Square(eps)
    BY <2>1, <1>7, <1>12
  <2>4. PICK o \in 0 .. Copies(c[j], images) - 1 :
          l = starts[j - 1] + (o + 1) /\ SquaredNorm(D(j, o)) < Square(eps)
    BY <2>3
  <2>5. \A a \in Axes : Digit(c[j], images, n, a) = Digit(c[j], images, o, a)
    <3> TAKE a \in Axes
    <3> DEFINE b == Digit(c[j], images, n, a)
               e == Digit(c[j], images, o, a)
    <3>1. b \in 0 .. AxisCopies(c[j], a, images) - 1 /\ e \in 0 .. AxisCopies(c[j], a, images) - 1
      BY <1>4, CopiesType
    <3>2. /\ -images < c[i][a] - Image(c[j], images, a, b)
          /\ c[i][a] - Image(c[j], images, a, b) < images
      BY <2>2, <1>6
    <3>3. /\ -images < c[i][a] - Image(c[j], images, a, e)
          /\ c[i][a] - Image(c[j], images, a, e) < images
      BY <2>4, <1>6
    <3> HIDE DEF b, e
    <3>4. b = e
      BY <3>1, <3>2, <3>3, <1>4, AxisImages
    <3> QED BY <3>4 DEF b, e
  <2>6. n = o
    BY <2>5, <1>4, CopiesType
  <2> QED BY <2>2, <2>4, <2>6
<1>13. ASSUME NEW j \in 1 .. N, Near(c, i, j, flag, eps)
       PROVE  \E k \in A : sources[k].index = j
  <2>1. SquaredNorm(s(j)) < Square(eps) /\ s(j) \in Sites
    BY <1>8, <1>10, <1>13
  <2>2. ASSUME NEW a \in Axes
        PROVE  \E b \in {0, 1} : /\ b <= AxisCopies(c[j], a, images) - 1
                                 /\ c[i][a] - Image(c[j], images, a, b) = s(j)[a]
    <3>1. /\ SquaredNorm(s(j)) \in Nat /\ s(j)[a] \in Int /\ Square(s(j)[a]) \in Nat
          /\ Square(s(j)[a]) <= SquaredNorm(s(j)) /\ Square(eps) \in Nat
      BY <2>1, NormType, SquareType
    <3>2. Square(s(j)[a]) < Square(eps)
      BY <3>1, <2>1
    <3>3. -eps < s(j)[a] /\ s(j)[a] < eps
      BY <3>1, <3>2, SquareOrder
    <3>4. -images < s(j)[a] /\ s(j)[a] < images
      BY <3>1, <3>3
    <3>5. s(j)[a] \in Wraps(c[i][a], c[j][a], a)
      BY <1>8, <1>9, WrapLeast
    <3>6. c[j] \in Sites /\ c[i][a] \in Low[a] .. High[a] /\ c[j][a] \in Low[a] .. High[a]
          /\ 2 * images <= Length(a)
      BY <1>4
    <3> DEFINE y == c[j]
               x == c[i][a]
               d == s(j)[a]
    <3>7. /\ a \in Axes /\ y \in Sites /\ x \in Low[a] .. High[a] /\ y[a] \in Low[a] .. High[a]
          /\ images \in Nat /\ 2 * images <= Length(a)
          /\ d \in Wraps(x, y[a], a) /\ -images < d /\ d < images
      BY <3>4, <3>5, <3>6
    <3> HIDE DEF x, y, d
    <3>8. \E b \in {0, 1} : /\ b <= AxisCopies(y, a, images) - 1
                            /\ x - Image(y, images, a, b) = d
      BY <3>7, NearImage
    <3> QED BY <3>8 DEF x, y, d
  <2> DEFINE P(a, b) == /\ b <= AxisCopies(c[j], a, images) - 1
                        /\ c[i][a] - Image(c[j], images, a, b) = s(j)[a]
             bs == [a \in Axes |-> CHOOSE b \in {0, 1} : P(a, b)]
  <2>3. \A a \in Axes : bs[a] \in {0, 1} /\ P(a, bs[a])
    <3> TAKE a \in Axes
    <3>1. \E b \in {0, 1} : P(a, b)
      BY <2>2
    <3>2. bs[a] = CHOOSE b \in {0, 1} : P(a, b)
      OBVIOUS
    <3> HIDE DEF P, bs
    <3> QED BY <3>1, <3>2
  <2>4. bs \in [Axes -> {0, 1}]
    BY <2>3
  <2> HIDE DEF bs
  <2>5. PICK n \in 0 .. Copies(c[j], images) - 1 :
          \A a \in Axes : Digit(c[j], images, n, a) = bs[a]
    BY <2>3, <2>4, <1>4, CopiesType
  <2>6. D(j, n) = s(j)
    <3>1. ASSUME NEW a \in Axes
          PROVE  Copy(c[j], images, n)[a] = Image(c[j], images, a, bs[a])
      <4>1. Copy(c[j], images, n)[a] = Image(c[j], images, a, Digit(c[j], images, n, a))
        BY <1>4, CopiesType
      <4>2. Digit(c[j], images, n, a) = bs[a]
        BY <2>5
      <4> QED BY <4>1, <4>2
    <3>2. \A a \in Axes : c[i][a] - Copy(c[j], images, n)[a] = s(j)[a]
      BY <3>1, <2>3
    <3>3. D(j, n) = [a \in Axes |-> s(j)[a]]
      BY <3>2 DEF D
    <3> QED BY <3>3, <2>1 DEF Sites
  <2> DEFINE q == n + 1
             k == starts[j - 1] + q
  <2>7. q \in 1 .. Copies(c[j], images) /\ q - 1 = n
    <3>1. Copies(c[j], images) \in Nat
      BY <1>4, CopiesCount
    <3> QED BY <3>1
  <2>8. k \in 1 .. m /\ sources[k] = ImageOf(c, images, j, q)
    BY <2>7, <1>1
  <2> HIDE DEF q, k
  <2>9. sources[k].index = j /\ sources[k].site = Copy(c[j], images, n)
    BY <2>7, <2>8 DEF ImageOf
  <2>10. k \in A
    BY <2>1, <2>6, <2>8, <2>9, <1>3, <1>5
  <2> QED BY <2>9, <2>10
<1>14. OneImageEach(c, i, flag, eps, sources)
  <2>1. DOMAIN c = 1 .. N
    OBVIOUS
  <2> QED BY <2>1, <1>11, <1>12, <1>13, Zenon DEF OneImageEach, A
<1> QED BY <1>2, <1>14, ExactFromSources

LEMMA PeriodicExact ==
  ASSUME NEW N \in Nat, NEW c \in [1 .. N -> Sites], NEW i \in 1 .. N,
         NEW images \in Nat, NEW eps \in Nat, eps <= images, FitsDomain(c, images), NEW list,
         ListFrom(list, i, c[i], SourceSites(c, TRUE, images), eps)
  PROVE  ExactList(list, i, c, TRUE, eps)
<1> SUFFICES ASSUME NEW flag \in BOOLEAN, flag PROVE ExactList(list, i, c, flag, eps)
  BY Zenon
<1>1. \A j \in 1 .. N : \A a \in Axes :
        Separation(c, i, j, flag)[a] = WrappedDifference(c[i][a], c[j][a], a)
  BY SeparationType
<1> QED BY <1>1, WrappedExact

-----------------------------------------------------------------------------
(* What a build gets from its search *)

\* The lists of n particles, of their numbers.
ListShape(n, lists) ==
  /\ DOMAIN lists = 1 .. n /\ lists = [i \in 1 .. n |-> lists[i]]
  /\ \A i \in 1 .. n : lists[i] \in Seq(1 .. n)

AllExact(lists, c, flag, eps) == \A i \in DOMAIN c : ExactList(lists[i], i, c, flag, eps)

\* The images reach far enough for the lists to be exact.
Reach(c, flag, images, eps) == flag => eps <= images /\ FitsDomain(c, images)

LEMMA SourcesShape ==
  ASSUME NEW N \in Nat, NEW c \in [1 .. N -> Sites], NEW flag \in BOOLEAN, NEW images \in Nat
  PROVE  \E m : SourcesOf(N, m, SourceSites(c, flag, images))
<1>1. CASE flag
  <2>1. SourceSites(c, flag, images) = SourceSites(c, TRUE, images)
    BY <1>1
  <2> DEFINE m == Starts([i \in 1 .. N |-> Copies(c[i], images)])[N]
  <2>2. SourcesOf(N, m, SourceSites(c, TRUE, images))
    BY PeriodicSources, Zenon
  <2> QED BY <2>1, <2>2, Zenon
<1>2. CASE ~flag
  <2>1. SourceSites(c, flag, images) = SourceSites(c, FALSE, images)
    BY <1>2
  <2>2. SourcesOf(N, N, SourceSites(c, FALSE, images))
    BY PlainSources, Zenon
  <2> QED BY <2>1, <2>2, Zenon
<1> QED BY <1>1, <1>2

LEMMA ListFromType ==
  ASSUME NEW N \in Nat, NEW m, NEW sources, SourcesOf(N, m, sources),
         NEW i, NEW site, NEW eps, NEW list, ListFrom(list, i, site, sources, eps)
  PROVE  list \in Seq(1 .. N)
<1>1. PICK n, p : /\ Enumerates(p, n, Accepted(site, sources, eps))
                  /\ list = [k \in 1 .. n |-> sources[p[k]].index]
  BY DEF ListFrom
<1>2. n \in Nat /\ \A k \in 1 .. n : p[k] \in 1 .. m
  <2>1. n \in Nat /\ \A k \in 1 .. n : p[k] \in Accepted(site, sources, eps)
    BY <1>1 DEF Enumerates
  <2>2. \A k \in Accepted(site, sources, eps) : k \in 1 .. m
    BY DEF Accepted, SourcesOf
  <2> QED BY <2>1, <2>2
<1>3. \A k \in 1 .. n : sources[p[k]].index \in 1 .. N
  BY <1>2 DEF SourcesOf
<1>4. list \in [1 .. n -> 1 .. N]
  BY <1>1, <1>3
<1> QED BY <1>2, <1>4, ListOf

LEMMA SearchLists ==
  ASSUME NEW N \in Nat, NEW c \in [1 .. N -> Sites], NEW flag \in BOOLEAN,
         NEW images \in Nat, NEW eps \in Nat, NEW ascending \in BOOLEAN,
         NEW columns \in Nat, NEW search,
         search = TargetNeighborLists(c, SourceSites(c, flag, images), eps, ascending, columns)
  PROVE  /\ ~search.overrun /\ search.width \in Nat
         /\ ListShape(N, search.lists)
         /\ Reach(c, flag, images, eps) => AllExact(search.lists, c, flag, eps)
<1> DEFINE sources == SourceSites(c, flag, images)
<1>1. PICK m : SourcesOf(N, m, sources)
  BY SourcesShape
<1>2. search = TargetNeighborLists(c, sources, eps, ascending, columns)
  OBVIOUS
<1> HIDE DEF sources
<1>3. /\ ~search.overrun /\ search.width \in Nat
      /\ DOMAIN search.lists = 1 .. N /\ search.lists = [i \in 1 .. N |-> search.lists[i]]
      /\ \A i \in 1 .. N : ListFrom(search.lists[i], i, c[i], sources, eps)
  <2>1. SearchIs(N, c, sources, eps, search)
    BY <1>1, <1>2, SearchShape
  <2> QED BY <2>1 DEF SearchIs
<1>4. \A i \in 1 .. N : search.lists[i] \in Seq(1 .. N)
  BY <1>1, <1>3, ListFromType
<1>5. ASSUME Reach(c, flag, images, eps), NEW i \in 1 .. N
      PROVE  ExactList(search.lists[i], i, c, flag, eps)
  <2>1. ListFrom(search.lists[i], i, c[i], sources, eps)
    BY <1>3
  <2>2. CASE flag
    <3>1. flag = TRUE
      BY <2>2
    <3>2. ListFrom(search.lists[i], i, c[i], SourceSites(c, TRUE, images), eps)
      BY <2>1, <3>1, Zenon DEF sources
    <3>3. eps <= images /\ FitsDomain(c, images)
      BY <1>5, <2>2 DEF Reach
    <3>4. ExactList(search.lists[i], i, c, TRUE, eps)
      BY <3>2, <3>3, PeriodicExact, Zenon
    <3> QED BY <3>1, <3>4, Zenon
  <2>3. CASE ~flag
    <3>1. flag = FALSE
      BY <2>3
    <3>2. ListFrom(search.lists[i], i, c[i], SourceSites(c, FALSE, images), eps)
      BY <2>1, <3>1, Zenon DEF sources
    <3>3. ExactList(search.lists[i], i, c, FALSE, eps)
      BY <3>2, PlainExact, Zenon
    <3> QED BY <3>1, <3>3, Zenon
  <2> QED BY <2>2, <2>3
<1>6. DOMAIN c = 1 .. N
  OBVIOUS
<1> QED BY <1>3, <1>4, <1>5, <1>6 DEF ListShape, AllExact

-----------------------------------------------------------------------------
(* The neighbours of a target without the target itself *)

LEMMA OthersType ==
  ASSUME NEW S, NEW list \in Seq(S)
  PROVE  /\ Others(list) \in Seq(S)
         /\ Len(Others(list)) = IF list = <<>> THEN 0 ELSE Len(list) - 1
         /\ DOMAIN Others(list) = 1 .. Len(Others(list))
         /\ \A n \in DOMAIN Others(list) : /\ n + 1 \in 1 .. Len(list)
                                           /\ Others(list)[n] = list[n + 1]
<1> DEFINE k == IF list = <<>> THEN 0 ELSE Len(list) - 1
<1>1. k \in Nat /\ \A n \in 1 .. k : n + 1 \in 1 .. Len(list) /\ list[n + 1] \in S
  <2>1. Len(list) \in Nat /\ (list # <<>> => Len(list) > 0)
        /\ \A n \in 1 .. Len(list) : list[n] \in S
    OBVIOUS
  <2> QED BY <2>1
<1>2. Others(list) = [n \in 1 .. k |-> list[n + 1]]
  BY DEF Others
<1> HIDE DEF k
<1>3. Others(list) \in [1 .. k -> S]
  BY <1>1, <1>2
<1>4. Others(list) \in Seq(S) /\ Len(Others(list)) = k /\ DOMAIN Others(list) = 1 .. k
  BY <1>1, <1>3, ListOf
<1> QED BY <1>1, <1>2, <1>4 DEF k

Neighbors(c, i, flag, eps) == {j \in DOMAIN c : j # i /\ Near(c, i, j, flag, eps)}

LEMMA OthersExact ==
  ASSUME NEW N \in Nat, NEW c \in [1 .. N -> Sites], NEW i \in 1 .. N,
         NEW flag \in BOOLEAN, NEW eps \in Nat, NEW list \in Seq(1 .. N),
         ExactList(list, i, c, flag, eps)
  PROVE  /\ Enumerates(Others(list), Len(Others(list)), Neighbors(c, i, flag, eps))
         /\ eps > 0 => Len(list) = Len(Others(list)) + 1
         /\ eps = 0 => list = <<>>
<1> DEFINE S == {j \in DOMAIN c : Near(c, i, j, flag, eps)}
           B == Neighbors(c, i, flag, eps)
           o == Others(list)
<1>1. Enumerates(list, Len(list), S) /\ (eps > 0 => list[1] = i)
  BY DEF ExactList
<1>2. \A x : x \in B <=> x \in S /\ x # i
  BY DEF Neighbors
<1>3. /\ o \in Seq(1 .. N) /\ Len(o) = IF list = <<>> THEN 0 ELSE Len(list) - 1
      /\ DOMAIN o = 1 .. Len(o)
      /\ \A n \in DOMAIN o : n + 1 \in 1 .. Len(list) /\ o[n] = list[n + 1]
  BY OthersType
<1>4. i \in S <=> eps > 0
  BY NearSymmetric
<1>5. \A x \in S : eps > 0
  <2> TAKE x \in S
  <2>1. x \in 1 .. N /\ SquaredNorm(Separation(c, i, x, flag)) < Square(eps)
    BY DEF Near
  <2>2. SquaredNorm(Separation(c, i, x, flag)) \in Nat
    BY <2>1, SeparationType, NormType
  <2>3. eps # 0
    <3> SUFFICES ASSUME eps = 0 PROVE FALSE
      OBVIOUS
    <3>1. Square(eps) = 0
      BY DEF Square
    <3> QED BY <2>1, <2>2, <3>1
  <2> QED BY <2>3
<1> HIDE DEF S, B, o
<1>6. /\ Len(list) \in Nat /\ list \in [1 .. Len(list) -> S]
      /\ \A k, l \in 1 .. Len(list) : list[k] = list[l] => k = l
      /\ \A x \in S : \E k \in 1 .. Len(list) : list[k] = x
  BY <1>1 DEF Enumerates
<1>7. CASE eps > 0
  <2>1. Len(list) > 0 /\ list # <<>> /\ list[1] = i
    <3>1. PICK k \in 1 .. Len(list) : list[k] = i
      BY <1>4, <1>6, <1>7
    <3>2. Len(list) > 0
      BY <3>1, <1>6
    <3> QED BY <3>2, <1>1, <1>7
  <2>2. Len(o) = Len(list) - 1 /\ Len(o) \in Nat
    BY <2>1, <1>3, <1>6
  <2>3. \A n \in 1 .. Len(o) : n + 1 \in 1 .. Len(list) /\ o[n] = list[n + 1] /\ n + 1 # 1 /\ o[n] \in B
    <3> TAKE n \in 1 .. Len(o)
    <3>1. n + 1 \in 1 .. Len(list) /\ o[n] = list[n + 1] /\ n + 1 # 1 /\ 1 \in 1 .. Len(list)
      BY <1>3, <2>1, <2>2, <1>6
    <3>2. list[n + 1] # list[1] /\ list[n + 1] \in S
      BY <3>1, <1>6
    <3> QED BY <3>1, <3>2, <2>1, <1>2
  <2>4. o \in [1 .. Len(o) -> B]
    <3>1. o = [n \in 1 .. Len(o) |-> o[n]]
      BY <1>3
    <3> QED BY <3>1, <2>3
  <2>5. \A k, l \in 1 .. Len(o) : o[k] = o[l] => k = l
    <3> SUFFICES ASSUME NEW k \in 1 .. Len(o), NEW l \in 1 .. Len(o), o[k] = o[l] PROVE k = l
      OBVIOUS
    <3>1. k + 1 = l + 1
      BY <2>3, <1>6
    <3> QED BY <3>1, <2>2
  <2>6. \A x \in B : \E k \in 1 .. Len(o) : o[k] = x
    <3> TAKE x \in B
    <3>1. PICK k \in 1 .. Len(list) : list[k] = x
      BY <1>2, <1>6
    <3>2. k # 1
      BY <3>1, <2>1, <1>2
    <3>3. k - 1 \in 1 .. Len(o) /\ (k - 1) + 1 = k
      BY <3>2, <2>2, <1>6
    <3> QED BY <3>1, <3>3, <2>3
  <2>7. Enumerates(o, Len(o), B)
    BY <2>2, <2>4, <2>5, <2>6 DEF Enumerates
  <2> QED BY <2>2, <2>7, <1>6, <1>7 DEF o, B
<1>8. CASE eps = 0
  <2>1. \A x \in S : FALSE
    BY <1>5, <1>8
  <2>2. Len(list) = 0
    <3> SUFFICES ASSUME Len(list) # 0 PROVE FALSE
      OBVIOUS
    <3>1. 1 \in 1 .. Len(list)
      BY <1>6
    <3> QED BY <3>1, <1>6, <2>1
  <2>3. list = <<>>
    BY <2>2
  <2>4. Len(o) = 0
    BY <2>3, <1>3
  <2>5. o \in [1 .. 0 -> B]
    <3>1. o = [n \in 1 .. 0 |-> o[n]]
      BY <1>3, <2>4
    <3> QED BY <3>1
  <2>6. Enumerates(o, Len(o), B)
    BY <2>1, <2>4, <2>5, <1>2 DEF Enumerates
  <2> QED BY <2>3, <2>6, <1>8 DEF o, B
<1> QED BY <1>7, <1>8

-----------------------------------------------------------------------------
(* The whole tables *)

\* The members of a set that start at a particle.
StartingAt(set, i) == {x \in set : x[1] = i}

\* Parts that hold once what starts at their particle.
PartsByParticle(n, num, parts, set) ==
  /\ \A i \in 1 .. n : DOMAIN parts[i] = 1 .. num[i] /\ EachOnce(parts[i], StartingAt(set, i))
  /\ \A x \in set : x[1] \in 1 .. n

LEMMA ByParticleOnce ==
  ASSUME NEW n \in Nat, NEW num, NEW parts, NEW set, PartsByParticle(n, num, parts, set)
  PROVE  PartsOnce(n, num, parts, set)
<1>1. ASSUME NEW i \in 1 .. n
      PROVE  /\ \A q \in 1 .. num[i] : parts[i][q] \in set /\ parts[i][q][1] = i
             /\ \A x \in set : x[1] = i => \E q \in 1 .. num[i] : parts[i][q] = x
             /\ \A q, r \in 1 .. num[i] : parts[i][q] = parts[i][r] => q = r
  <2> DEFINE p == parts[i]
  <2>1. /\ DOMAIN p = 1 .. num[i] /\ {p[k] : k \in DOMAIN p} = StartingAt(set, i)
        /\ \A k, l \in DOMAIN p : p[k] = p[l] => k = l
    BY DEF PartsByParticle, EachOnce
  <2> HIDE DEF p
  <2>2. \A q \in 1 .. num[i] : p[q] \in set /\ p[q][1] = i
    <3> TAKE q \in 1 .. num[i]
    <3>1. p[q] \in StartingAt(set, i)
      BY <2>1
    <3> QED BY <3>1 DEF StartingAt
  <2>3. \A x \in set : x[1] = i => \E q \in 1 .. num[i] : p[q] = x
    <3> SUFFICES ASSUME NEW x \in set, x[1] = i PROVE \E q \in 1 .. num[i] : p[q] = x
      OBVIOUS
    <3>1. x \in StartingAt(set, i)
      BY DEF StartingAt
    <3>2. x \in {p[k] : k \in DOMAIN p}
      BY <3>1, <2>1
    <3> QED BY <3>2, <2>1
  <2> QED BY <2>1, <2>2, <2>3 DEF p
<1>2. \A x \in set : \E i \in 1 .. n : \E q \in 1 .. num[i] : parts[i][q] = x
  <2> TAKE x \in set
  <2>1. x[1] \in 1 .. n
    BY DEF PartsByParticle
  <2> QED BY <2>1, <1>1
<1>3. ASSUME NEW i \in 1 .. n, NEW j \in 1 .. n, NEW q \in 1 .. num[i], NEW r \in 1 .. num[j],
             parts[i][q] = parts[j][r]
      PROVE  i = j /\ q = r
  <2>1. i = j
    BY <1>1, <1>3
  <2>2. r \in 1 .. num[i] /\ parts[i][q] = parts[i][r]
    BY <2>1, <1>3
  <2> QED BY <1>1, <2>1, <2>2
<1> QED BY <1>1, <1>2, <1>3 DEF PartsOnce

\* An enumeration holds each member once.
LEMMA EnumerationOnce ==
  ASSUME NEW f, NEW n, NEW S, Enumerates(f, n, S)
  PROVE  EachOnce(f, S)
<1>1. /\ DOMAIN f = 1 .. n /\ f \in [1 .. n -> S]
      /\ \A k, l \in 1 .. n : f[k] = f[l] => k = l
      /\ \A x \in S : \E k \in 1 .. n : f[k] = x
  BY DEF Enumerates
<1>2. {f[k] : k \in DOMAIN f} = S
  BY <1>1
<1> QED BY <1>1, <1>2 DEF EachOnce

\* What is left of an enumeration enumerates what is left of the set.
LEMMA CompactedEnumerates ==
  ASSUME NEW f, NEW n, NEW S, Enumerates(f, n, S), NEW kept, \A x \in kept : x \in 1 .. n
  PROVE  Enumerates(Compacted(f, kept), Cardinality(kept), {f[x] : x \in kept})
<1> DEFINE c == Cardinality(kept)
           g == [k \in 1 .. c |-> Source(kept, k)]
           h == Compacted(f, kept)
           T == {f[x] : x \in kept}
<1>1. /\ n \in Nat /\ DOMAIN f = 1 .. n
      /\ \A k, l \in 1 .. n : f[k] = f[l] => k = l
  BY DEF Enumerates
<1>2. Enumerates(g, c, kept)
  BY <1>1, SourceEnumerates
<1>3. /\ c \in Nat /\ \A k \in 1 .. c : g[k] \in kept
      /\ \A k, l \in 1 .. c : g[k] = g[l] => k = l
      /\ \A x \in kept : \E k \in 1 .. c : g[k] = x
  <2> HIDE DEF g, c
  <2> QED BY <1>2 DEF Enumerates
<1>4. h = [k \in 1 .. c |-> f[g[k]]]
  BY DEF Compacted
<1> HIDE DEF c, g, h
<1>5. h \in [1 .. c -> T]
  <2>1. \A k \in 1 .. c : f[g[k]] \in T
    BY <1>3
  <2> HIDE DEF T
  <2> QED BY <2>1, <1>4
<1>6. \A k, l \in 1 .. c : h[k] = h[l] => k = l
  <2> SUFFICES ASSUME NEW k \in 1 .. c, NEW l \in 1 .. c, h[k] = h[l] PROVE k = l
    OBVIOUS
  <2>1. f[g[k]] = f[g[l]] /\ g[k] \in 1 .. n /\ g[l] \in 1 .. n
    BY <1>3, <1>4
  <2>2. g[k] = g[l]
    BY <2>1, <1>1
  <2> QED BY <2>2, <1>3
<1>7. \A y \in T : \E k \in 1 .. c : h[k] = y
  <2> TAKE y \in T
  <2>1. PICK x \in kept : f[x] = y
    OBVIOUS
  <2>2. PICK k \in 1 .. c : g[k] = x
    BY <1>3
  <2> QED BY <2>1, <2>2, <1>4
<1> HIDE DEF T
<1>8. Enumerates(h, c, T)
  BY <1>3, <1>5, <1>6, <1>7 DEF Enumerates
<1> QED BY <1>8 DEF h, c, T

\* The pairs of a particle.
LEMMA SelfEntriesType ==
  ASSUME NEW N \in Nat, NEW lists, ListShape(N, lists), NEW i \in 1 .. N
  PROVE  /\ Len(SelfEntries(lists)[i]) = Len(Others(lists[i]))
         /\ Len(Others(lists[i])) \in Nat
         /\ DOMAIN SelfEntries(lists)[i] = 1 .. Len(Others(lists[i]))
         /\ \A q \in 1 .. Len(Others(lists[i])) :
              /\ Others(lists[i])[q] \in 1 .. N
              /\ SelfEntries(lists)[i][q] = <<i, Others(lists[i])[q]>>
<1> DEFINE o == Others(lists[i])
           l == Len(o)
           e == [n \in 1 .. l |-> <<i, o[n]>>]
<1>1. lists[i] \in Seq(1 .. N) /\ DOMAIN lists = 1 .. N
  BY DEF ListShape
<1>2. o \in Seq(1 .. N) /\ DOMAIN o = 1 .. l /\ l \in Nat /\ \A q \in 1 .. l : o[q] \in 1 .. N
  <2>1. o \in Seq(1 .. N) /\ DOMAIN o = 1 .. l
    BY <1>1, OthersType
  <2> HIDE DEF o
  <2> QED BY <2>1
<1>3. SelfEntries(lists)[i] = e
  <2>1. SelfEntries(lists)[i] = [n \in DOMAIN o |-> <<i, o[n]>>]
    BY <1>1, Zenon DEF SelfEntries
  <2> QED BY <2>1, <1>2
<1> HIDE DEF l, o
<1>4. \A q \in 1 .. l : e[q] = <<i, o[q]>>
  OBVIOUS
<1>5. e = [q \in 1 .. l |-> e[q]]
  OBVIOUS
<1> HIDE DEF e
<1>6. Len(e) = l /\ DOMAIN e = 1 .. l
  BY <1>2, <1>5, LengthOf
<1> QED BY <1>2, <1>3, <1>4, <1>6 DEF l, o

FromOf(c, flag, eps, images) ==
  [coord |-> c, periodic |-> flag, eps |-> eps, images |-> images]

\* Which pairs and triples a table should have.
LEMMA PairsAre ==
  ASSUME NEW N \in Nat, NEW c \in [1 .. N -> Sites], NEW flag, NEW eps, NEW images
  PROVE  /\ \A i, j : <<i, j>> \in PairsOf(FromOf(c, flag, eps, images)) <=>
              i \in 1 .. N /\ j \in Neighbors(c, i, flag, eps)
         /\ \A p \in PairsOf(FromOf(c, flag, eps, images)) :
              p = <<p[1], p[2]>> /\ p[1] \in 1 .. N /\ p[2] \in 1 .. N
<1>1. Len(c) = N /\ DOMAIN c = 1 .. N
  BY ListOf
<1> DEFINE from == FromOf(c, flag, eps, images)
<1>2. from.coord = c /\ from.periodic = flag /\ from.eps = eps
  BY DEF FromOf
<1> HIDE DEF from
<1>3. PairsOf(from) = {p \in (1 .. N) \X (1 .. N) : p[1] # p[2] /\ Near(c, p[1], p[2], flag, eps)}
  BY <1>1, <1>2 DEF PairsOf, NearIn, ParticlesOf
<1>4. ASSUME NEW i, NEW j
      PROVE  <<i, j>> \in PairsOf(from) <=> i \in 1 .. N /\ j \in Neighbors(c, i, flag, eps)
  BY <1>1, <1>3 DEF Neighbors
<1>5. \A p \in PairsOf(from) : p = <<p[1], p[2]>> /\ p[1] \in 1 .. N /\ p[2] \in 1 .. N
  BY <1>3
<1> QED BY <1>4, <1>5 DEF from

LEMMA TriplesAre ==
  ASSUME NEW N \in Nat, NEW c \in [1 .. N -> Sites], NEW flag, NEW eps, NEW images
  PROVE  /\ \A i, j, k : <<i, j, k>> \in TriplesOf(FromOf(c, flag, eps, images)) <=>
              /\ i \in 1 .. N /\ j \in Neighbors(c, i, flag, eps)
              /\ k \in Neighbors(c, j, flag, eps) /\ i # k
         /\ \A t3 \in TriplesOf(FromOf(c, flag, eps, images)) :
              t3 = <<t3[1], t3[2], t3[3]>> /\ t3[1] \in 1 .. N
<1> DEFINE from == FromOf(c, flag, eps, images)
<1>1. Len(c) = N /\ from.coord = c /\ ParticlesOf(from) = 1 .. N /\ DOMAIN c = 1 .. N
  BY ListOf DEF FromOf, ParticlesOf
<1> HIDE DEF from
<1>2. TriplesOf(from) =
        {t3 \in (1 .. N) \X (1 .. N) \X (1 .. N) :
           /\ <<t3[1], t3[2]>> \in PairsOf(from) /\ <<t3[2], t3[3]>> \in PairsOf(from)
           /\ t3[1] # t3[3]}
  BY <1>1 DEF TriplesOf
<1>3. \A x, y : <<x, y>> \in PairsOf(from) <=> x \in 1 .. N /\ y \in Neighbors(c, x, flag, eps)
  BY PairsAre DEF from
<1>4. \A x, y : y \in Neighbors(c, x, flag, eps) => y \in 1 .. N
  BY <1>1 DEF Neighbors
<1>5. ASSUME NEW i, NEW j, NEW k
      PROVE  <<i, j, k>> \in TriplesOf(from) <=>
              /\ i \in 1 .. N /\ j \in Neighbors(c, i, flag, eps)
              /\ k \in Neighbors(c, j, flag, eps) /\ i # k
  BY <1>2, <1>3, <1>4
<1>6. \A t3 \in TriplesOf(from) : t3 = <<t3[1], t3[2], t3[3]>> /\ t3[1] \in 1 .. N
  BY <1>2
<1> QED BY <1>5, <1>6 DEF from

\* The pairs of exact lists are the pairs of near particles.
LEMMA SelfExact ==
  ASSUME NEW N \in Nat, NEW c \in [1 .. N -> Sites], NEW flag \in BOOLEAN, NEW eps \in Nat,
         NEW images, NEW lists, ListShape(N, lists), AllExact(lists, c, flag, eps),
         NEW i \in 1 .. N
  PROVE  EachOnce(SelfEntries(lists)[i],
                  StartingAt(PairsOf(FromOf(c, flag, eps, images)), i))
<1> DEFINE pairs == PairsOf(FromOf(c, flag, eps, images))
           e == SelfEntries(lists)[i]
           o == Others(lists[i])
           B == Neighbors(c, i, flag, eps)
<1>1. lists[i] \in Seq(1 .. N) /\ ExactList(lists[i], i, c, flag, eps)
  BY DEF ListShape, AllExact
<1>2. Enumerates(o, Len(o), B)
  BY <1>1, OthersExact
<1>3. /\ DOMAIN e = 1 .. Len(o)
      /\ \A q \in 1 .. Len(o) : e[q] = <<i, o[q]>>
  BY SelfEntriesType
<1>4. /\ \A j : <<i, j>> \in pairs <=> j \in B
      /\ \A p \in pairs : p = <<p[1], p[2]>>
  <2>1. \A k, j : <<k, j>> \in pairs <=> k \in 1 .. N /\ j \in Neighbors(c, k, flag, eps)
    BY PairsAre
  <2>2. \A p \in pairs : p = <<p[1], p[2]>>
    BY PairsAre
  <2> HIDE DEF pairs
  <2> QED BY <2>1, <2>2
<1> HIDE DEF pairs, e, o, B
<1>5. /\ \A q \in 1 .. Len(o) : o[q] \in B
      /\ \A k, l \in 1 .. Len(o) : o[k] = o[l] => k = l
      /\ \A x \in B : \E k \in 1 .. Len(o) : o[k] = x
  BY <1>2 DEF Enumerates
<1>6. \A q \in 1 .. Len(o) : e[q] \in StartingAt(pairs, i)
  <2> TAKE q \in 1 .. Len(o)
  <2>1. e[q] = <<i, o[q]>> /\ <<i, o[q]>> \in pairs
    BY <1>3, <1>4, <1>5, Zenon
  <2>2. <<i, o[q]>>[1] = i
    OBVIOUS
  <2>3. e[q] \in pairs /\ e[q][1] = i
    BY <2>1, <2>2, Zenon
  <2> QED BY <2>3 DEF StartingAt
<1>7. \A p \in StartingAt(pairs, i) : \E q \in 1 .. Len(o) : e[q] = p
  <2> TAKE p \in StartingAt(pairs, i)
  <2>1. p[1] = i /\ p = <<p[1], p[2]>> /\ p \in pairs
    BY <1>4 DEF StartingAt
  <2>2. p = <<i, p[2]>> /\ p[2] \in B
    BY <2>1, <1>4
  <2>3. PICK q \in 1 .. Len(o) : o[q] = p[2]
    BY <2>2, <1>5
  <2> QED BY <2>2, <2>3, <1>3
<1>8. \A k, l \in 1 .. Len(o) : e[k] = e[l] => k = l
  BY <1>3, <1>5
<1>9. {e[k] : k \in DOMAIN e} = StartingAt(pairs, i)
  BY <1>3, <1>6, <1>7
<1> QED BY <1>3, <1>8, <1>9 DEF EachOnce, e, pairs

\* Without periodic boundaries the second lookup changes nothing.
LEMMA PlainIndex ==
  ASSUME NEW N \in Nat, NEW c \in [1 .. N -> Sites], NEW images, NEW flag \in BOOLEAN, ~flag
  PROVE  \A j \in 1 .. N : SourceSites(c, flag, images)[j].index = j
<1>1. DOMAIN c = 1 .. N
  OBVIOUS
<1> DEFINE sources == SourceSites(c, flag, images)
<1>2. sources = [j \in 1 .. N |-> [site |-> c[j], index |-> j]]
  BY <1>1, Zenon DEF SourceSites
<1> HIDE DEF sources
<1>3. \A j \in 1 .. N : sources[j].index = j
  BY <1>2
<1> QED BY <1>3 DEF sources

LEMMA PairEntriesPlain ==
  ASSUME NEW N \in Nat, NEW lists, ListShape(N, lists), NEW sources,
         \A j \in 1 .. N : sources[j].index = j, NEW i \in 1 .. N
  PROVE  PairEntries(lists, sources)[i] = SelfEntries(lists)[i]
<1> DEFINE o == Others(lists[i])
<1>1. \A j \in 1 .. N : sources[j].index = j
  OBVIOUS
<1>2. lists[i] \in Seq(1 .. N) /\ DOMAIN lists = 1 .. N
  BY DEF ListShape
<1>3. \A n \in DOMAIN o : o[n] \in 1 .. N
  BY <1>2, OthersType
<1>4. PairEntries(lists, sources)[i] = [n \in DOMAIN o |-> <<i, sources[o[n]].index>>]
  BY <1>2, Zenon DEF PairEntries
<1>5. SelfEntries(lists)[i] = [n \in DOMAIN o |-> <<i, o[n]>>]
  BY <1>2, Zenon DEF SelfEntries
<1> HIDE DEF o
<1>6. \A n \in DOMAIN o : <<i, sources[o[n]].index>> = <<i, o[n]>>
  BY <1>1, <1>3
<1> QED BY <1>4, <1>5, <1>6

-----------------------------------------------------------------------------
(* Triples *)

\* The ends of the triples through a neighbour: its list without the first
\* particle.
Beyond(list, i) == {n \in DOMAIN Others(list) : Others(list)[n] # i}
Ends(list, i) == Compacted(Others(list), Beyond(list, i))

LEMMA ThroughType ==
  ASSUME NEW N \in Nat, NEW list \in Seq(1 .. N), NEW i, NEW j
  PROVE  /\ Cardinality(Beyond(list, i)) \in Nat
         /\ Len(Through(list, i, j)) = Cardinality(Beyond(list, i))
         /\ DOMAIN Through(list, i, j) = 1 .. Cardinality(Beyond(list, i))
         /\ \A q \in 1 .. Cardinality(Beyond(list, i)) :
              /\ Ends(list, i)[q] \in 1 .. N
              /\ Through(list, i, j)[q] = <<i, j, Ends(list, i)[q]>>
         /\ \A x \in Beyond(list, i) : x \in 1 .. Len(Others(list))
<1> DEFINE o == Others(list)
           kept == {n \in DOMAIN o : o[n] # i}
           ends == Compacted(o, kept)
           l == Cardinality(kept)
           h == [n \in 1 .. l |-> <<i, j, ends[n]>>]
<1>0. kept = Beyond(list, i) /\ ends = Ends(list, i)
  BY DEF Beyond, Ends
<1>1. /\ o \in Seq(1 .. N) /\ DOMAIN o = 1 .. Len(o)
  BY OthersType
<1>2. Len(o) \in Nat /\ \A n \in 1 .. Len(o) : o[n] \in 1 .. N
  <2> HIDE DEF o
  <2> QED BY <1>1
<1>3. \A x \in kept : x \in 1 .. Len(o)
  BY <1>1
<1> HIDE DEF o, kept
<1>4. Enumerates([k \in 1 .. l |-> Source(kept, k)], l, kept)
  BY <1>2, <1>3, SourceEnumerates
<1>5. l \in Nat /\ \A k \in 1 .. l : Source(kept, k) \in kept
  <2> DEFINE g == [k \in 1 .. l |-> Source(kept, k)]
  <2>1. \A k \in 1 .. l : g[k] = Source(kept, k)
    OBVIOUS
  <2>2. l \in Nat /\ \A k \in 1 .. l : g[k] \in kept
    <3> HIDE DEF g, l
    <3> QED BY <1>4 DEF Enumerates, g, l
  <2> HIDE DEF g
  <2> QED BY <2>1, <2>2
<1>6. ends = [k \in 1 .. l |-> o[Source(kept, k)]]
  BY DEF Compacted
<1> HIDE DEF ends, l
<1>7. \A q \in 1 .. l : ends[q] \in 1 .. N
  BY <1>2, <1>3, <1>5, <1>6
<1>8. Through(list, i, j) = h
  <2>1. Through(list, i, j) = [n \in DOMAIN ends |-> <<i, j, ends[n]>>]
    BY Zenon DEF Through, ends, kept, o
  <2>2. DOMAIN ends = 1 .. l
    BY <1>6
  <2> QED BY <2>1, <2>2
<1>9. \A q \in 1 .. l : h[q] = <<i, j, ends[q]>>
  OBVIOUS
<1>10. h = [q \in 1 .. l |-> h[q]]
  OBVIOUS
<1> HIDE DEF h
<1>11. Len(h) = l /\ DOMAIN h = 1 .. l
  BY <1>5, <1>10, LengthOf
<1> QED BY <1>0, <1>3, <1>5, <1>7, <1>8, <1>9, <1>11 DEF l, o

\* The triples of a particle, neighbour by neighbour.
ThroughAll(lists, i) ==
  [n \in 1 .. Len(Others(lists[i])) |->
     Through(lists[Others(lists[i])[n]], i, Others(lists[i])[n])]
ThroughNum(lists, i) ==
  [n \in 1 .. Len(Others(lists[i])) |-> Len(ThroughAll(lists, i)[n])]

LEMMA TriplesLaidOut ==
  ASSUME NEW N \in Nat, NEW lists, ListShape(N, lists), NEW i \in 1 .. N
  PROVE  /\ Len(Others(lists[i])) \in Nat
         /\ ThroughNum(lists, i) \in [1 .. Len(Others(lists[i])) -> Nat]
         /\ \A n \in 1 .. Len(Others(lists[i])) :
              /\ Others(lists[i])[n] \in 1 .. N
              /\ ThroughAll(lists, i)[n]
                   = Through(lists[Others(lists[i])[n]], i, Others(lists[i])[n])
              /\ ThroughNum(lists, i)[n] = Len(ThroughAll(lists, i)[n])
         /\ LaidOut(Len(Others(lists[i])), ThroughNum(lists, i), ThroughAll(lists, i),
                    TripleEntries(lists)[i])
<1> DEFINE o == Others(lists[i])
           l == Len(o)
           parts == ThroughAll(lists, i)
           num == ThroughNum(lists, i)
<1>1. DOMAIN lists = 1 .. N /\ \A j \in 1 .. N : lists[j] \in Seq(1 .. N)
  BY DEF ListShape
<1>2. o \in Seq(1 .. N) /\ DOMAIN o = 1 .. l /\ l \in Nat /\ \A q \in 1 .. l : o[q] \in 1 .. N
  <2>1. o \in Seq(1 .. N) /\ DOMAIN o = 1 .. l
    BY <1>1, OthersType
  <2> HIDE DEF o
  <2> QED BY <2>1
<1>3. TripleEntries(lists)[i] =
        Joined([n \in DOMAIN o |-> LET j == o[n] IN Through(lists[j], i, j)])
  BY <1>1, Zenon DEF TripleEntries
<1>4. parts = [n \in 1 .. l |-> Through(lists[o[n]], i, o[n])]
  BY DEF ThroughAll
<1>5. num = [n \in 1 .. l |-> Len(parts[n])]
  BY DEF ThroughNum
<1> HIDE DEF o, l, parts, num
<1>6. TripleEntries(lists)[i] = Joined(parts)
  BY <1>2, <1>3, <1>4
<1>7. \A n \in 1 .. l : parts[n] = Through(lists[o[n]], i, o[n]) /\ num[n] = Len(parts[n])
  BY <1>4, <1>5
<1>8. \A n \in 1 .. l : num[n] \in Nat
  <2> TAKE n \in 1 .. l
  <2>1. lists[o[n]] \in Seq(1 .. N)
    BY <1>1, <1>2
  <2>2. Len(Through(lists[o[n]], i, o[n])) \in Nat
    BY <2>1, ThroughType
  <2> QED BY <2>2, <1>7
<1>9. num \in [1 .. l -> Nat]
  BY <1>5, <1>8
<1>10. parts = [n \in 1 .. l |-> parts[n]]
  BY <1>4
<1>11. LaidOut(l, num, parts, Joined(parts))
  BY <1>2, <1>7, <1>9, <1>10, JoinedLaidOut
<1> QED BY <1>2, <1>6, <1>7, <1>9, <1>11 DEF o, l, parts, num

\* The triples through a neighbour lead to each of its neighbours but the first
\* particle.
ThroughIs(B, h, i, j) ==
  /\ Len(h) \in Nat /\ DOMAIN h = 1 .. Len(h)
  /\ \A q \in 1 .. Len(h) : \E k \in B : k # i /\ h[q] = <<i, j, k>>
  /\ \A k \in B : k # i => \E q \in 1 .. Len(h) : h[q] = <<i, j, k>>
  /\ \A q, r \in 1 .. Len(h) : h[q] = h[r] => q = r

LEMMA ThroughExact ==
  ASSUME NEW N \in Nat, NEW c \in [1 .. N -> Sites], NEW flag \in BOOLEAN, NEW eps \in Nat,
         NEW j \in 1 .. N, NEW list \in Seq(1 .. N), ExactList(list, j, c, flag, eps), NEW i
  PROVE  ThroughIs(Neighbors(c, j, flag, eps), Through(list, i, j), i, j)
<1> DEFINE o == Others(list)
           kept == Beyond(list, i)
           ends == Ends(list, i)
           l == Cardinality(kept)
           h == Through(list, i, j)
           B == Neighbors(c, j, flag, eps)
           T == {o[x] : x \in kept}
<1>1. /\ l \in Nat /\ Len(h) = l /\ DOMAIN h = 1 .. l
      /\ \A q \in 1 .. l : h[q] = <<i, j, ends[q]>>
      /\ \A x \in kept : x \in 1 .. Len(o)
  <2>1. l \in Nat /\ Len(h) = l /\ DOMAIN h = 1 .. l
    BY ThroughType
  <2>2. \A q \in 1 .. l : h[q] = <<i, j, ends[q]>>
    BY ThroughType
  <2>3. \A x \in kept : x \in 1 .. Len(o)
    BY ThroughType
  <2> QED BY <2>1, <2>2, <2>3
<1>2. Enumerates(o, Len(o), B)
  BY OthersExact
<1>3. Enumerates(ends, l, T)
  <2>1. ends = Compacted(o, kept)
    BY DEF Ends
  <2> HIDE DEF o, kept, B
  <2> QED BY <1>1, <1>2, <2>1, CompactedEnumerates
<1>4. \A k : k \in T <=> k \in B /\ k # i
  <2>1. /\ DOMAIN o = 1 .. Len(o) /\ \A x \in 1 .. Len(o) : o[x] \in B
        /\ \A k \in B : \E x \in 1 .. Len(o) : o[x] = k
    <3> HIDE DEF o, B
    <3> QED BY <1>2 DEF Enumerates
  <2>2. kept = {n \in DOMAIN o : o[n] # i}
    BY DEF Beyond
  <2> HIDE DEF o, B, kept
  <2> QED BY <2>1, <2>2
<1> HIDE DEF o, kept, ends, l, h, B, T
<1>5. /\ \A k \in 1 .. l : ends[k] \in T
      /\ \A q, r \in 1 .. l : ends[q] = ends[r] => q = r
      /\ \A k \in T : \E q \in 1 .. l : ends[q] = k
  BY <1>3 DEF Enumerates
<1>6. \A q \in 1 .. l : \E k \in B : k # i /\ h[q] = <<i, j, k>>
  BY <1>1, <1>4, <1>5
<1>7. \A k \in B : k # i => \E q \in 1 .. l : h[q] = <<i, j, k>>
  <2> SUFFICES ASSUME NEW k \in B, k # i PROVE \E q \in 1 .. l : h[q] = <<i, j, k>>
    OBVIOUS
  <2>1. PICK q \in 1 .. l : ends[q] = k
    BY <1>4, <1>5
  <2> QED BY <2>1, <1>1
<1>8. \A q, r \in 1 .. l : h[q] = h[r] => q = r
  <2> SUFFICES ASSUME NEW q \in 1 .. l, NEW r \in 1 .. l, h[q] = h[r] PROVE q = r
    OBVIOUS
  <2>1. <<i, j, ends[q]>> = <<i, j, ends[r]>>
    BY <1>1
  <2>2. ends[q] = ends[r]
    BY <2>1
  <2> QED BY <2>2, <1>5
<1> QED BY <1>1, <1>6, <1>7, <1>8 DEF ThroughIs, h, B

\* The triples of exact lists are the triples of near particles.
LEMMA TriplesExact ==
  ASSUME NEW N \in Nat, NEW c \in [1 .. N -> Sites], NEW flag \in BOOLEAN, NEW eps \in Nat,
         NEW images, NEW lists, ListShape(N, lists), AllExact(lists, c, flag, eps),
         NEW i \in 1 .. N
  PROVE  EachOnce(TripleEntries(lists)[i],
                  StartingAt(TriplesOf(FromOf(c, flag, eps, images)), i))
<1> DEFINE triples == TriplesOf(FromOf(c, flag, eps, images))
           set == StartingAt(triples, i)
           o == Others(lists[i])
           l == Len(o)
           num == ThroughNum(lists, i)
           parts == ThroughAll(lists, i)
           Nb(k) == Neighbors(c, k, flag, eps)
<1>1. /\ l \in Nat /\ num \in [1 .. l -> Nat]
      /\ \A n \in 1 .. l : /\ o[n] \in 1 .. N
                           /\ parts[n] = Through(lists[o[n]], i, o[n])
                           /\ num[n] = Len(parts[n])
      /\ LaidOut(l, num, parts, TripleEntries(lists)[i])
  BY TriplesLaidOut
<1>2. \A k \in 1 .. N : lists[k] \in Seq(1 .. N) /\ ExactList(lists[k], k, c, flag, eps)
  <2>1. DOMAIN c = 1 .. N
    OBVIOUS
  <2> QED BY <2>1 DEF ListShape, AllExact
<1>3. /\ \A n \in 1 .. l : o[n] \in Nb(i)
      /\ \A k, m \in 1 .. l : o[k] = o[m] => k = m
      /\ \A x \in Nb(i) : \E k \in 1 .. l : o[k] = x
  <2>1. Enumerates(o, l, Nb(i))
    BY <1>2, OthersExact
  <2> HIDE DEF o, l, Nb
  <2> QED BY <2>1 DEF Enumerates
<1>4. ASSUME NEW n \in 1 .. l
      PROVE  /\ \A q \in 1 .. num[n] : \E k \in Nb(o[n]) : k # i /\ parts[n][q] = <<i, o[n], k>>
             /\ \A k \in Nb(o[n]) : k # i => \E q \in 1 .. num[n] : parts[n][q] = <<i, o[n], k>>
             /\ \A q, r \in 1 .. num[n] : parts[n][q] = parts[n][r] => q = r
  <2>1. /\ lists[o[n]] \in Seq(1 .. N) /\ ExactList(lists[o[n]], o[n], c, flag, eps)
        /\ o[n] \in 1 .. N /\ parts[n] = Through(lists[o[n]], i, o[n]) /\ num[n] = Len(parts[n])
    BY <1>1, <1>2
  <2> DEFINE j == o[n]
  <2> HIDE DEF o, l, num, parts
  <2>2. parts[n] = Through(lists[j], i, j) /\ num[n] = Len(Through(lists[j], i, j)) /\ j \in 1 .. N
        /\ lists[j] \in Seq(1 .. N) /\ ExactList(lists[j], j, c, flag, eps)
    BY <2>1
  <2> HIDE DEF j
  <2>3. /\ \A q \in 1 .. num[n] : \E k \in Nb(j) : k # i /\ parts[n][q] = <<i, j, k>>
        /\ \A k \in Nb(j) : k # i => \E q \in 1 .. num[n] : parts[n][q] = <<i, j, k>>
        /\ \A q, r \in 1 .. num[n] : parts[n][q] = parts[n][r] => q = r
    <3>1. ThroughIs(Nb(j), parts[n], i, j)
      BY <2>2, ThroughExact
    <3>2. num[n] = Len(parts[n])
      BY <2>2
    <3> HIDE DEF Nb
    <3> QED BY <3>1, <3>2 DEF ThroughIs
  <2> QED BY <2>3 DEF j
<1>5. /\ \A x, y, z : <<x, y, z>> \in triples <=>
           x \in 1 .. N /\ y \in Nb(x) /\ z \in Nb(y) /\ x # z
      /\ \A x \in triples : x = <<x[1], x[2], x[3]>>
  <2>1. \A x, y, z : <<x, y, z>> \in triples <=>
           x \in 1 .. N /\ y \in Nb(x) /\ z \in Nb(y) /\ x # z
    <3> TAKE x, y, z
    <3> QED BY TriplesAre
  <2>2. \A x \in triples : x = <<x[1], x[2], x[3]>>
    BY TriplesAre
  <2> QED BY <2>1, <2>2, Zenon
<1>6. TripleEntries(lists)[i] = TripleEntries(lists)[i] /\ l \in Nat
  BY <1>1
<1> HIDE DEF triples, o, l, num, parts, Nb
<1>7. \A n \in 1 .. l : \A q \in 1 .. num[n] : parts[n][q] \in set
  <2> TAKE n \in 1 .. l
  <2> TAKE q \in 1 .. num[n]
  <2>1. PICK k \in Nb(o[n]) : k # i /\ parts[n][q] = <<i, o[n], k>>
    BY <1>4
  <2>2. <<i, o[n], k>> \in triples
    BY <2>1, <1>3, <1>5
  <2>3. <<i, o[n], k>>[1] = i
    OBVIOUS
  <2> QED BY <2>1, <2>2, <2>3 DEF StartingAt
<1>8. \A x \in set : \E n \in 1 .. l : \E q \in 1 .. num[n] : parts[n][q] = x
  <2> TAKE x \in set
  <2>1. x \in triples /\ x[1] = i
    BY DEF StartingAt
  <2>2. x = <<i, x[2], x[3]>>
    BY <2>1, <1>5
  <2>3. x[2] \in Nb(i) /\ x[3] \in Nb(x[2]) /\ x[3] # i
    BY <2>1, <2>2, <1>5
  <2>4. PICK n \in 1 .. l : o[n] = x[2]
    BY <2>3, <1>3
  <2>5. PICK q \in 1 .. num[n] : parts[n][q] = <<i, o[n], x[3]>>
    BY <2>3, <2>4, <1>4
  <2>6. parts[n][q] = x
    BY <2>2, <2>4, <2>5
  <2> QED BY <2>6
<1>9. \A n, m \in 1 .. l : \A q \in 1 .. num[n] : \A r \in 1 .. num[m] :
        parts[n][q] = parts[m][r] => n = m /\ q = r
  <2> SUFFICES ASSUME NEW n \in 1 .. l, NEW m \in 1 .. l, NEW q \in 1 .. num[n],
                      NEW r \in 1 .. num[m], parts[n][q] = parts[m][r]
               PROVE  n = m /\ q = r
    OBVIOUS
  <2>1. PICK k \in Nb(o[n]) : parts[n][q] = <<i, o[n], k>>
    BY <1>4
  <2>2. PICK k2 \in Nb(o[m]) : parts[m][r] = <<i, o[m], k2>>
    BY <1>4
  <2>3. o[n] = o[m]
    <3>1. <<i, o[n], k>> = <<i, o[m], k2>>
      BY <2>1, <2>2
    <3> QED BY <3>1
  <2>4. n = m
    BY <2>3, <1>3
  <2>5. r \in 1 .. num[n] /\ parts[n][q] = parts[n][r]
    BY <2>4
  <2> QED BY <2>4, <2>5, <1>4
<1> HIDE DEF set
<1>10. PartsOnce(l, num, parts, set)
  BY <1>7, <1>8, <1>9 DEF PartsOnce
<1>11. EachOnce(TripleEntries(lists)[i], set)
  BY <1>1, <1>10, LaidOutOnce
<1> QED BY <1>11 DEF set, triples

\* The entries of each particle are rows that start at it.
EntriesType(n, entries, rows) ==
  \A i \in 1 .. n : /\ DOMAIN entries[i] = 1 .. Len(entries[i])
                    /\ \A q \in DOMAIN entries[i] :
                         entries[i][q] \in rows /\ entries[i][q][1] = i

\* What a table keeps: rows behind the offset of the particle they start at.
TableHeld(n, table) ==
  /\ table.num \in [1 .. n -> Nat]
  /\ table.offset = [i \in 1 .. n |-> Starts(table.num)[i - 1]]
  /\ Starts(table.num)[n] <= MaxRows
  /\ DOMAIN table.rows = 1 .. Starts(table.num)[n]
  /\ \A i \in 1 .. n : \A q \in 1 .. table.num[i] :
       table.rows[Starts(table.num)[i - 1] + q][1] = i

LEMMA FilledTable ==
  ASSUME NEW n \in Nat, NEW num \in [1 .. n -> Nat], NEW count, NEW entries, NEW from,
         EntriesFit(num, count, entries), Allocated(count),
         NEW rows, EntriesType(n, entries, rows)
  PROVE  LET table == Filled(num, entries, from)
         IN  /\ TableHeld(n, table)
             /\ Len(table.rows) <= MaxRows
             /\ \A k \in DOMAIN table.rows : table.rows[k] \in rows
<1> DEFINE table == Filled(num, entries, from)
           array == Rows(num, Offsets(num), entries)
           s == Starts(num)
<1>1. /\ table.num = num /\ table.offset = Offsets(num) /\ table.rows = array
  BY DEF Filled
<1>2. /\ s[n] = count /\ count \in Nat
      /\ Offsets(num) = [i \in 1 .. n |-> s[i - 1]]
      /\ LaidOut(n, num, entries, array)
  BY RowsLaidOut
<1>3. count <= MaxRows
  BY DEF Allocated
<1>4. \A i \in 1 .. n : Len(entries[i]) = num[i]
  <2>1. DOMAIN num = 1 .. n
    OBVIOUS
  <2> QED BY <2>1 DEF EntriesFit
<1>5. \A i \in 1 .. n : \A q \in 1 .. num[i] : entries[i][q] \in rows /\ entries[i][q][1] = i
  BY <1>4 DEF EntriesType
<1> HIDE DEF array
<1>6. /\ DOMAIN array = 1 .. s[n] /\ Len(array) = s[n]
  BY <1>2, LaidOutEntries
<1>7. \A k \in DOMAIN array : array[k] \in rows
  <2>1. LaidOut(n, num, entries, array)
    BY <1>2
  <2>2. \A k \in DOMAIN array : \E i \in 1 .. n : \E q \in 1 .. num[i] :
           k = Starts(num)[i - 1] + q /\ array[k] = entries[i][q]
    <3>1. EntriesFrom(n, num, entries, array)
      BY <2>1, LaidOutEntries
    <3> QED BY <3>1, Zenon DEF EntriesFrom
  <2> QED BY <2>2, <1>5
<1>8. \A i \in 1 .. n : \A q \in 1 .. num[i] : array[s[i - 1] + q][1] = i
  BY <1>2, <1>5 DEF LaidOut
<1> HIDE DEF table
<1>9. TableHeld(n, table)
  BY <1>1, <1>2, <1>3, <1>6, <1>8 DEF TableHeld
<1>10. Len(table.rows) <= MaxRows /\ \A k \in DOMAIN table.rows : table.rows[k] \in rows
  BY <1>1, <1>2, <1>3, <1>6, <1>7
<1> QED BY <1>9, <1>10 DEF table

\* The whole table holds once what the parts hold once.
LEMMA TableOnce ==
  ASSUME NEW n \in Nat, NEW num \in [1 .. n -> Nat], NEW count, NEW entries, NEW from,
         EntriesFit(num, count, entries), Allocated(count),
         NEW set, \A x \in set : x[1] \in 1 .. n,
         \A i \in 1 .. n : DOMAIN entries[i] = 1 .. Len(entries[i]),
         \A i \in 1 .. n : EachOnce(entries[i], StartingAt(set, i))
  PROVE  EachOnce(Filled(num, entries, from).rows, set)
<1> DEFINE array == Rows(num, Offsets(num), entries)
<1>1. LaidOut(n, num, entries, array)
  BY RowsLaidOut
<1>2. \A i \in 1 .. n : Len(entries[i]) = num[i]
  <2>1. DOMAIN num = 1 .. n
    OBVIOUS
  <2> QED BY <2>1 DEF EntriesFit
<1>3. PartsByParticle(n, num, entries, set)
  BY <1>2 DEF PartsByParticle
<1>4. PartsOnce(n, num, entries, set)
  BY <1>3, ByParticleOnce
<1>5. Filled(num, entries, from).rows = array
  BY DEF Filled
<1> HIDE DEF array
<1>6. EachOnce(array, set)
  BY <1>1, <1>4, LaidOutOnce
<1> QED BY <1>5, <1>6

-----------------------------------------------------------------------------
(* The rows of some particles *)

\* The rows of a particle lie between its offset and the next.
RowsAt(table, i) == {k \in DOMAIN table.rows : table.rows[k][1] = i}

LEMMA RowsOfParticle ==
  ASSUME NEW n \in Nat, NEW table, TableHeld(n, table), NEW i \in 1 .. n
  PROVE  /\ Starts(table.num)[i - 1] \in Nat /\ table.num[i] \in Nat
         /\ Starts(table.num)[i - 1] + table.num[i] <= MaxRows
         /\ Cardinality(RowsAt(table, i)) = table.num[i]
         /\ \A q \in 1 .. table.num[i] :
              Source(RowsAt(table, i), q) = Starts(table.num)[i - 1] + q
<1> DEFINE num == table.num
           rows == table.rows
           s == Starts(num)
           kept == {k \in DOMAIN rows : rows[k][1] = i}
           a == s[i - 1]
           b == num[i]
<1>1. /\ num \in [1 .. n -> Nat] /\ s[n] <= MaxRows /\ DOMAIN rows = 1 .. s[n]
      /\ \A j \in 1 .. n : \A q \in 1 .. num[j] : rows[s[j - 1] + q][1] = j
  BY DEF TableHeld
<1> HIDE DEF num, rows
<1>2. /\ s \in [0 .. n -> Nat] /\ s[0] = 0 /\ \A j \in 1 .. n : s[j] = s[j - 1] + num[j]
  BY <1>1, StartsType
<1>3. i - 1 \in 0 .. n /\ i \in 0 .. n /\ n \in 0 .. n
  OBVIOUS
<1>4. s[i] <= s[n]
  BY <1>1, <1>3, StartsGrow
<1>5. \A k \in 1 .. s[n] : \E j \in 1 .. n : s[j - 1] < k /\ k <= s[j]
  BY <1>1, PartOf
<1>6. \A q \in 1 .. b : a + q \in 1 .. s[n]
  BY <1>1, PlaceOf
<1> HIDE DEF s
<1>7. a \in Nat /\ b \in Nat /\ s[i] = a + b /\ s[n] \in Nat
  BY <1>1, <1>2, <1>3
<1>8. kept = a + 1 .. a + b
  <2>1. ASSUME NEW k \in kept PROVE k \in a + 1 .. a + b
    <3>1. k \in 1 .. s[n] /\ rows[k][1] = i
      BY <1>1
    <3>2. PICK j \in 1 .. n : s[j - 1] < k /\ k <= s[j]
      BY <3>1, <1>5
    <3>3. s[j - 1] \in Nat /\ s[j] = s[j - 1] + num[j] /\ num[j] \in Nat
      <4>1. j - 1 \in 0 .. n
        OBVIOUS
      <4> QED BY <4>1, <1>1, <1>2
    <3> DEFINE q == k - s[j - 1]
    <3>4. q \in 1 .. num[j] /\ s[j - 1] + q = k
      BY <3>1, <3>2, <3>3, <1>7
    <3> HIDE DEF q, rows
    <3>5. rows[k][1] = j
      BY <3>4, <1>1
    <3>6. j = i
      BY <3>1, <3>5
    <3> QED BY <3>1, <3>2, <3>6, <1>7
  <2>2. ASSUME NEW k \in a + 1 .. a + b PROVE k \in kept
    <3> DEFINE q == k - a
    <3>1. q \in 1 .. b /\ a + q = k
      BY <1>7
    <3> HIDE DEF q
    <3>2. k \in 1 .. s[n] /\ rows[k][1] = i
      BY <3>1, <1>1, <1>6
    <3> QED BY <3>2, <1>1
  <2> QED BY <2>1, <2>2
<1>9. a + b <= MaxRows
  BY <1>1, <1>4, <1>7, Widths
<1> HIDE DEF a, b, kept
<1>10. Cardinality(kept) = b /\ \A q \in 1 .. b : Source(kept, q) = a + q
  <2>1. /\ Cardinality(a + 1 .. a + b) = b
        /\ \A q \in 1 .. b : Source(a + 1 .. a + b, q) = a + q
    <3>1. MaxRows \in Nat
      BY Widths
    <3> QED BY <3>1, <1>7, <1>9, IntervalSource
  <2> QED BY <2>1, <1>8
<1> QED BY <1>7, <1>9, <1>10 DEF a, b, kept, s, num, rows, RowsAt

\* What is given out for some particles are their rows, mirrored.
LEMMA SliceExact ==
  ASSUME NEW n \in Nat, NEW table, TableHeld(n, table),
         NEW m \in 1 .. MaxTargets, NEW targets \in [1 .. m -> 1 .. n]
  PROVE  GetEdgeInfoByIndex(table, targets)
           = [k \in DOMAIN OfTargets(table, targets) |-> Mirrored(OfTargets(table, targets)[k])]
<1> DEFINE s == Starts(table.num)
           num == [x \in 1 .. m |-> table.num[targets[x]]]
           v == Starts(num)
           o == [x \in 1 .. m |-> v[x - 1]]
           rows == table.rows
           kept(i) == RowsAt(table, i)
           parts == [x \in 1 .. m |-> Compacted(rows, kept(targets[x]))]
           whole == OfTargets(table, targets)
<1>0. /\ MaxTargets \in Nat /\ m \in Nat /\ MaxTargets * MaxRows < SizeMod
      /\ UIntMod \in Nat /\ MaxRows \in Nat /\ SizeMod \in Nat /\ MaxRows < UIntMod
  <2>1. MaxTargets \in Nat /\ MaxTargets * MaxRows < SizeMod
    BY ListsAssumption
  <2> QED BY <2>1, Widths
<1>1. /\ table.num \in [1 .. n -> Nat]
      /\ \A i \in 1 .. n : table.offset[i] = s[i - 1]
  BY DEF TableHeld
<1>2. ASSUME NEW i \in 1 .. n
      PROVE  /\ s[i - 1] \in Nat /\ table.num[i] \in Nat
             /\ s[i - 1] + table.num[i] <= MaxRows
             /\ Cardinality(kept(i)) = table.num[i]
             /\ \A q \in 1 .. table.num[i] : Source(kept(i), q) = s[i - 1] + q
  BY RowsOfParticle
<1> HIDE DEF s, rows, kept
<1>3. /\ num \in [1 .. m -> Nat] /\ DOMAIN targets = 1 .. m
      /\ \A x \in 1 .. m : num[x] = table.num[targets[x]] /\ targets[x] \in 1 .. n
  BY <1>1
<1>4. num = [x \in DOMAIN targets |-> table.num[targets[x]]]
  BY <1>3
<1> HIDE DEF num
<1>5. v \in [0 .. m -> Nat] /\ v[0] = 0 /\ \A x \in 1 .. m : v[x] = v[x - 1] + num[x]
  BY <1>0, <1>3, StartsType
\* All the rows asked for are few enough to be counted.
<1>6. v[m] < SizeMod
  <2>1. \A x \in 1 .. m : num[x] <= MaxRows
    <3> TAKE x \in 1 .. m
    <3>1. /\ s[targets[x] - 1] \in Nat /\ table.num[targets[x]] \in Nat
          /\ s[targets[x] - 1] + table.num[targets[x]] <= MaxRows
      BY <1>2, <1>3
    <3> QED BY <3>1, <1>0, <1>3
  <2>2. v[m] <= m * MaxRows
    <3>1. m \in 0 .. m
      BY <1>0
    <3> QED BY <1>0, <1>3, <2>1, <3>1, StartsBound
  <2>3. m * MaxRows <= MaxTargets * MaxRows /\ m * MaxRows \in Nat /\ MaxTargets * MaxRows \in Nat
    <3>1. m <= MaxTargets
      BY <1>0
    <3> QED BY <1>0, <3>1
  <2>4. v[m] \in Nat
    <3>1. m \in 0 .. m
      BY <1>0
    <3> HIDE DEF v
    <3> QED BY <1>5, <3>1
  <2> HIDE DEF v
  <2> DEFINE mr == m * MaxRows
             tr == MaxTargets * MaxRows
  <2>5. v[m] <= mr /\ mr <= tr /\ tr < SizeMod /\ mr \in Nat /\ tr \in Nat
    BY <2>2, <2>3, <1>0
  <2> HIDE DEF mr, tr
  <2> QED BY <2>4, <2>5, <1>0
<1>7. /\ TotalOf(num) = v[m] /\ Offsets(num) = o
  <2>1. Len(num) = m /\ DOMAIN num = 1 .. m
    BY <1>0, <1>3, ListOf
  <2>2. \A x \in 0 .. m : Scan(num)[x] = v[x]
    BY <1>0, <1>3, <1>6, ScanIsStarts
  <2>3. m \in 0 .. m /\ \A x \in 1 .. m : x - 1 \in 0 .. m
    BY <1>0
  <2> HIDE DEF v
  <2>4. TotalOf(num) = v[m]
    BY <2>1, <2>2, <2>3 DEF TotalOf
  <2>5. \A x \in 1 .. m : Scan(num)[x - 1] = v[x - 1]
    BY <2>2, <2>3
  <2>6. Offsets(num) = o
    BY <2>1, <2>5 DEF Offsets
  <2> QED BY <2>4, <2>6
\* The rows of the particles, one particle after another.
<1>8. whole = Joined(parts)
  <2>1. \A x \in 1 .. m : kept(targets[x]) = {k \in DOMAIN table.rows : table.rows[k][1] = targets[x]}
    BY DEF kept, RowsAt
  <2>2. OfTargets(table, targets) = Joined([x \in DOMAIN targets |->
          Compacted(table.rows, {k \in DOMAIN table.rows : table.rows[k][1] = targets[x]})])
    BY Zenon DEF OfTargets
  <2> QED BY <2>1, <2>2, <1>3 DEF rows
<1>9. ASSUME NEW x \in 1 .. m
      PROVE  /\ Len(parts[x]) = num[x]
             /\ \A q \in 1 .. num[x] : parts[x][q] = rows[s[targets[x] - 1] + q]
  <2> DEFINE K == kept(targets[x])
             P == [q \in 1 .. num[x] |-> rows[Source(K, q)]]
  <2>1. Cardinality(K) = num[x] /\ num[x] \in Nat
        /\ \A q \in 1 .. num[x] : Source(K, q) = s[targets[x] - 1] + q
    BY <1>2, <1>3
  <2>2. parts[x] = Compacted(rows, K)
    OBVIOUS
  <2> HIDE DEF K, parts
  <2>3. parts[x] = P
    BY <2>1, <2>2 DEF Compacted
  <2>4. P = [q \in 1 .. num[x] |-> P[q]]
    OBVIOUS
  <2>5. \A q \in 1 .. num[x] : P[q] = rows[s[targets[x] - 1] + q]
    BY <2>1
  <2> HIDE DEF P
  <2>6. Len(P) = num[x]
    BY <2>1, <2>4, LengthOf
  <2> QED BY <2>3, <2>5, <2>6
<1>10. parts = [x \in 1 .. m |-> parts[x]]
  OBVIOUS
<1> HIDE DEF parts, whole
<1>11. LaidOut(m, num, parts, whole)
  BY <1>0, <1>3, <1>8, <1>9, <1>10, JoinedLaidOut
<1>12. DOMAIN whole = 1 .. v[m]
  BY <1>0, <1>3, <1>11, LaidOutEntries
\* The row the getter writes for each place.
<1> DEFINE row(k) == LET x == CHOOSE x \in 1 .. m : k \in o[x] + 1 .. o[x] + AsUnsigned(num[x])
                     IN  Mirrored(rows[AsUnsigned(table.offset[targets[x]]) + k - o[x]])
<1>13. GetEdgeInfoByIndex(table, targets) = [k \in 1 .. v[m] |-> row(k)]
  <2> DEFINE R(u, w, k) == LET x == CHOOSE x \in DOMAIN targets : k \in w[x] + 1 .. w[x] + AsUnsigned(u[x])
                           IN  Mirrored(table.rows[AsUnsigned(table.offset[targets[x]]) + k - w[x]])
             F(u, w) == [k \in 1 .. TotalOf(u) |-> R(u, w, k)]
             u0 == [x \in DOMAIN targets |-> table.num[targets[x]]]
  <2>1. GetEdgeInfoByIndex(table, targets) = F(u0, Offsets(u0))
    BY Zenon DEF GetEdgeInfoByIndex
  <2>2. u0 = num /\ Offsets(u0) = o
    BY <1>4, <1>7
  <2>3. F(u0, Offsets(u0)) = F(num, o)
    <3> HIDE DEF u0, o, F
    <3> QED BY <2>2
  <2>4. F(num, o) = [k \in 1 .. v[m] |-> R(num, o, k)]
    <3> HIDE DEF R, o, v
    <3> QED BY <1>7
  <2>5. \A k : R(num, o, k) = row(k)
    BY <1>3 DEF rows
  <2> HIDE DEF F, R, row, o, v
  <2> QED BY <2>1, <2>3, <2>4, <2>5
<1>14. ASSUME NEW k \in 1 .. v[m] PROVE row(k) = Mirrored(whole[k])
  <2>1. PICK x \in 1 .. m : v[x - 1] < k /\ k <= v[x]
    BY <1>0, <1>3, PartOf
  <2> HIDE DEF v
  <2>2. \A y \in 1 .. m : /\ o[y] = v[y - 1] /\ v[y - 1] \in Nat /\ num[y] \in Nat
                          /\ v[y] = v[y - 1] + num[y] /\ v[y] \in Nat
                          /\ AsUnsigned(num[y]) = num[y]
    <3> TAKE y \in 1 .. m
    <3>1. y - 1 \in 0 .. m /\ y \in 0 .. m
      BY <1>0
    <3>2. v[y - 1] \in Nat /\ num[y] \in Nat /\ v[y] = v[y - 1] + num[y] /\ v[y] \in Nat
      BY <3>1, <1>3, <1>5
    <3>3. num[y] < UIntMod
      <4>1. /\ s[targets[y] - 1] \in Nat /\ table.num[targets[y]] \in Nat
            /\ s[targets[y] - 1] + table.num[targets[y]] <= MaxRows
        BY <1>2, <1>3
      <4> QED BY <4>1, <1>0, <1>3
    <3>4. AsUnsigned(num[y]) = num[y]
      BY <3>2, <3>3, <1>0, SmallMod DEF AsUnsigned
    <3> QED BY <3>2, <3>4
  <2> DEFINE q == k - v[x - 1]
  <2>3. q \in 1 .. num[x] /\ k = v[x - 1] + q /\ k \in Nat
    BY <2>1, <2>2
  <2>4. \A y \in 1 .. m : v[y - 1] < v[x - 1] + q /\ v[x - 1] + q <= v[y] => y = x
    <3> HIDE DEF q
    <3> QED BY <1>0, <1>3, <2>3, PlaceOf DEF v
  <2> HIDE DEF q, o
  <2>5. \A y \in 1 .. m : k \in o[y] + 1 .. o[y] + AsUnsigned(num[y]) <=> y = x
    <3> TAKE y \in 1 .. m
    <3>0. /\ o[y] = v[y - 1] /\ v[y - 1] \in Nat /\ num[y] \in Nat
          /\ v[y] = v[y - 1] + num[y] /\ AsUnsigned(num[y]) = num[y]
      BY <2>2
    <3>1. k \in o[y] + 1 .. o[y] + AsUnsigned(num[y]) <=> v[y - 1] < k /\ k <= v[y]
      BY <2>3, <3>0
    <3> QED BY <3>1, <2>1, <2>3, <2>4
  <2>6. (CHOOSE y \in 1 .. m : k \in o[y] + 1 .. o[y] + AsUnsigned(num[y])) = x
    BY <2>5
  <2>7. row(k) = Mirrored(rows[AsUnsigned(table.offset[targets[x]]) + k - o[x]])
    BY <2>6
  <2> HIDE DEF row
  <2>8. AsUnsigned(table.offset[targets[x]]) = s[targets[x] - 1] /\ s[targets[x] - 1] \in Nat
    <3>1. /\ s[targets[x] - 1] \in Nat /\ table.num[targets[x]] \in Nat
          /\ s[targets[x] - 1] + table.num[targets[x]] <= MaxRows
          /\ table.offset[targets[x]] = s[targets[x] - 1]
      BY <1>1, <1>2, <1>3
    <3>2. s[targets[x] - 1] < UIntMod
      BY <3>1, <1>0
    <3> QED BY <3>1, <3>2, <1>0, SmallMod DEF AsUnsigned
  <2>9. AsUnsigned(table.offset[targets[x]]) + k - o[x] = s[targets[x] - 1] + q
    BY <2>2, <2>3, <2>8
  <2>10. whole[k] = parts[x][q]
    BY <2>3, <1>11 DEF LaidOut, v
  <2>11. parts[x][q] = rows[s[targets[x] - 1] + q]
    BY <2>3, <1>9
  <2> QED BY <2>7, <2>9, <2>10, <2>11
<1> HIDE DEF row, v
<1>15. GetEdgeInfoByIndex(table, targets) = [k \in 1 .. v[m] |-> Mirrored(whole[k])]
  BY <1>13, <1>14
<1> QED BY <1>12, <1>15 DEF whole

-----------------------------------------------------------------------------
(* What the builds write *)

LEMMA PairRow ==
  ASSUME NEW S, NEW i \in S, NEW j \in S, NEW x, x = <<i, j>>
  PROVE  x \in S \X S /\ x[1] = i
<1>1. <<i, j>> \in S \X S
  OBVIOUS
<1>2. <<i, j>>[1] = i
  OBVIOUS
<1> QED BY <1>1, <1>2, Zenon

LEMMA TripleRow ==
  ASSUME NEW S, NEW i \in S, NEW j \in S, NEW h \in S, NEW x, x = <<i, j, h>>
  PROVE  x \in S \X S \X S /\ x[1] = i
<1>1. <<i, j, h>> \in S \X S \X S
  OBVIOUS
<1>2. <<i, j, h>>[1] = i
  OBVIOUS
<1> QED BY <1>1, <1>2, Zenon

LEMMA ModType ==
  ASSUME NEW x \in Int
  PROVE  x % SizeMod \in 0 .. SizeMod - 1 /\ x % SizeMod \in Nat
<1>1. SizeMod \in Nat /\ SizeMod > 0
  BY Widths
<1> QED BY <1>1

LEMMA SelfEntriesRows ==
  ASSUME NEW N \in Nat, NEW lists, ListShape(N, lists)
  PROVE  EntriesType(N, SelfEntries(lists), (1 .. N) \X (1 .. N))
<1> SUFFICES ASSUME NEW i \in 1 .. N
             PROVE  /\ DOMAIN SelfEntries(lists)[i] = 1 .. Len(SelfEntries(lists)[i])
                    /\ \A q \in DOMAIN SelfEntries(lists)[i] :
                         /\ SelfEntries(lists)[i][q] \in (1 .. N) \X (1 .. N)
                         /\ SelfEntries(lists)[i][q][1] = i
  BY DEF EntriesType
<1>1. /\ Len(SelfEntries(lists)[i]) = Len(Others(lists[i]))
      /\ DOMAIN SelfEntries(lists)[i] = 1 .. Len(Others(lists[i]))
      /\ \A q \in 1 .. Len(Others(lists[i])) :
              /\ Others(lists[i])[q] \in 1 .. N
              /\ SelfEntries(lists)[i][q] = <<i, Others(lists[i])[q]>>
  BY SelfEntriesType
<1> DEFINE e == SelfEntries(lists)[i]
           o == Others(lists[i])
<1> HIDE DEF e, o
<1>2. /\ Len(e) = Len(o) /\ DOMAIN e = 1 .. Len(o)
      /\ \A q \in 1 .. Len(o) : o[q] \in 1 .. N /\ e[q] = <<i, o[q]>>
  BY <1>1, Zenon DEF e, o
<1>3. \A q \in DOMAIN e : e[q] \in (1 .. N) \X (1 .. N) /\ e[q][1] = i
  <2> TAKE q \in DOMAIN e
  <2>1. o[q] \in 1 .. N /\ e[q] = <<i, o[q]>>
    BY <1>2, Zenon
  <2> HIDE DEF e, o
  <2> QED BY <2>1, PairRow
<1>4. DOMAIN e = 1 .. Len(e)
  BY <1>2, Zenon
<1> QED BY <1>3, <1>4, Zenon DEF e

LEMMA PairEntriesRows ==
  ASSUME NEW N \in Nat, NEW lists, ListShape(N, lists), NEW m, NEW sources,
         SourcesOf(N, m, sources)
  PROVE  /\ EntriesType(N, PairEntries(lists, sources), (1 .. N) \X (1 .. N))
         /\ \A i \in 1 .. N : Len(PairEntries(lists, sources)[i]) = Len(Others(lists[i]))
<1>1. ASSUME NEW i \in 1 .. N
      PROVE  /\ DOMAIN PairEntries(lists, sources)[i] = 1 .. Len(PairEntries(lists, sources)[i])
             /\ Len(PairEntries(lists, sources)[i]) = Len(Others(lists[i]))
             /\ \A q \in DOMAIN PairEntries(lists, sources)[i] :
                         /\ PairEntries(lists, sources)[i][q] \in (1 .. N) \X (1 .. N)
                         /\ PairEntries(lists, sources)[i][q][1] = i
  <2> DEFINE o == Others(lists[i])
             l == Len(o)
             e == [n \in 1 .. l |-> <<i, sources[o[n]].index>>]
  <2>1. lists[i] \in Seq(1 .. N) /\ DOMAIN lists = 1 .. N
    BY DEF ListShape
  <2>2. o \in Seq(1 .. N) /\ DOMAIN o = 1 .. l /\ l \in Nat /\ \A q \in 1 .. l : o[q] \in 1 .. N
    <3>1. o \in Seq(1 .. N) /\ DOMAIN o = 1 .. l
      BY <2>1, OthersType
    <3> HIDE DEF o
    <3> QED BY <3>1
  <2>3. PairEntries(lists, sources)[i] = e
    <3>1. PairEntries(lists, sources)[i] = [n \in DOMAIN o |-> <<i, sources[o[n]].index>>]
      BY <2>1, Zenon DEF PairEntries
    <3> QED BY <3>1, <2>2
  <2> HIDE DEF l, o
  <2>4. \A q \in 1 .. l : e[q] = <<i, sources[o[q]].index>> /\ sources[o[q]].index \in 1 .. N
    <3>1. \A x \in 1 .. N : sources[x].index \in 1 .. N
      BY DEF SourcesOf
    <3> QED BY <3>1, <2>2
  <2>5. e = [q \in 1 .. l |-> e[q]]
    OBVIOUS
  <2> HIDE DEF e
  <2>6. Len(e) = l /\ DOMAIN e = 1 .. l
    BY <2>2, <2>5, LengthOf
  <2>7. \A q \in DOMAIN e : e[q] \in (1 .. N) \X (1 .. N) /\ e[q][1] = i
    <3> TAKE q \in DOMAIN e
    <3>1. sources[o[q]].index \in 1 .. N /\ e[q] = <<i, sources[o[q]].index>>
      BY <2>4, <2>6, Zenon
    <3> QED BY <3>1, PairRow
  <2>8. DOMAIN e = 1 .. Len(e)
    BY <2>6, Zenon
  <2> QED BY <2>3, <2>6, <2>7, <2>8, Zenon DEF l, o
<1> QED BY <1>1 DEF EntriesType

LEMMA TripleEntriesRows ==
  ASSUME NEW N \in Nat, NEW lists, ListShape(N, lists)
  PROVE  /\ EntriesType(N, TripleEntries(lists), (1 .. N) \X (1 .. N) \X (1 .. N))
         /\ \A i \in 1 .. N : Len(TripleEntries(lists)[i])
                                = Starts(ThroughNum(lists, i))[Len(Others(lists[i]))]
<1>1. ASSUME NEW i \in 1 .. N
      PROVE  /\ DOMAIN TripleEntries(lists)[i] = 1 .. Len(TripleEntries(lists)[i])
             /\ Len(TripleEntries(lists)[i])
                  = Starts(ThroughNum(lists, i))[Len(Others(lists[i]))]
             /\ \A k \in DOMAIN TripleEntries(lists)[i] :
                         /\ TripleEntries(lists)[i][k] \in (1 .. N) \X (1 .. N) \X (1 .. N)
                         /\ TripleEntries(lists)[i][k][1] = i
  <2> DEFINE o == Others(lists[i])
             l == Len(o)
             num == ThroughNum(lists, i)
             parts == ThroughAll(lists, i)
             whole == TripleEntries(lists)[i]
  <2>1. /\ l \in Nat /\ num \in [1 .. l -> Nat]
        /\ \A n \in 1 .. l : /\ o[n] \in 1 .. N
                             /\ parts[n] = Through(lists[o[n]], i, o[n])
                             /\ num[n] = Len(parts[n])
        /\ LaidOut(l, num, parts, whole)
    BY TriplesLaidOut
  <2>2. \A j \in 1 .. N : lists[j] \in Seq(1 .. N)
    BY DEF ListShape
  <2> HIDE DEF o, l, num, parts, whole
  <2>3. /\ DOMAIN whole = 1 .. Starts(num)[l] /\ Len(whole) = Starts(num)[l]
    BY <2>1, LaidOutEntries
  <2>4. \A k \in DOMAIN whole : \E n \in 1 .. l : \E q \in 1 .. num[n] :
              k = Starts(num)[n - 1] + q /\ whole[k] = parts[n][q]
    <3>1. EntriesFrom(l, num, parts, whole)
      BY <2>1, LaidOutEntries
    <3> QED BY <3>1, Zenon DEF EntriesFrom
  <2>5. ASSUME NEW n \in 1 .. l, NEW q \in 1 .. num[n]
        PROVE  parts[n][q] \in (1 .. N) \X (1 .. N) \X (1 .. N) /\ parts[n][q][1] = i
    <3> DEFINE j == o[n]
               c == Cardinality(Beyond(lists[j], i))
    <3>1. j \in 1 .. N /\ lists[j] \in Seq(1 .. N) /\ parts[n] = Through(lists[j], i, j)
          /\ num[n] = Len(Through(lists[j], i, j))
      BY <2>1, <2>2
    <3> HIDE DEF j
    <3>2. Len(Through(lists[j], i, j)) = c
      BY <3>1, ThroughType
    <3>3. \A r \in 1 .. c : Ends(lists[j], i)[r] \in 1 .. N
      BY <3>1, ThroughType
    <3>4. \A r \in 1 .. c : Through(lists[j], i, j)[r] = <<i, j, Ends(lists[j], i)[r]>>
      BY <3>1, ThroughType
    <3> HIDE DEF c
    <3>5. q \in 1 .. c
      BY <3>1, <3>2, Zenon
    <3>6. parts[n][q] = <<i, j, Ends(lists[j], i)[q]>> /\ Ends(lists[j], i)[q] \in 1 .. N
      BY <3>1, <3>3, <3>4, <3>5, Zenon
    <3> QED BY <3>1, <3>6, TripleRow
  <2>6. \A k \in DOMAIN whole : whole[k] \in (1 .. N) \X (1 .. N) \X (1 .. N) /\ whole[k][1] = i
    <3> TAKE k \in DOMAIN whole
    <3>1. PICK n \in 1 .. l : \E q \in 1 .. num[n] :
              k = Starts(num)[n - 1] + q /\ whole[k] = parts[n][q]
      BY <2>4
    <3>2. PICK q \in 1 .. num[n] : whole[k] = parts[n][q]
      BY <3>1
    <3> QED BY <3>2, <2>5
  <2> QED BY <2>3, <2>6 DEF whole, num, l, o
<1> QED BY <1>1 DEF EntriesType

\* The counts are numbers a size_t can hold.
LEMMA PairNumType ==
  ASSUME NEW N \in Nat, NEW lists, ListShape(N, lists)
  PROVE  /\ PairNum(lists) \in [1 .. N -> 0 .. SizeMod - 1]
         /\ PairNum(lists) \in [1 .. N -> Nat]
         /\ \A i \in 1 .. N : PairNum(lists)[i] = (Len(lists[i]) - 1) % SizeMod
<1>1. DOMAIN lists = 1 .. N /\ \A i \in 1 .. N : Len(lists[i]) \in Nat
  BY DEF ListShape
<1>2. PairNum(lists) = [i \in 1 .. N |-> (Len(lists[i]) - 1) % SizeMod]
  BY <1>1 DEF PairNum, Less
<1>3. \A i \in 1 .. N : (Len(lists[i]) - 1) % SizeMod \in 0 .. SizeMod - 1
  <2> TAKE i \in 1 .. N
  <2>1. Len(lists[i]) - 1 \in Int
    BY <1>1
  <2> QED BY <2>1, ModType, Zenon
<1> QED BY <1>2, <1>3

\* The counts of triples through the neighbours of a particle.
TripleCounts(lists, i) ==
  [n \in 1 .. Len(Others(lists[i])) |-> (Len(lists[Others(lists[i])[n]]) - 2) % SizeMod]

LEMMA TripleNumType ==
  ASSUME NEW N \in Nat, NEW lists, ListShape(N, lists)
  PROVE  /\ TripleNum(lists) \in [1 .. N -> 0 .. SizeMod - 1]
         /\ TripleNum(lists) \in [1 .. N -> Nat]
         /\ \A i \in 1 .. N : /\ Len(Others(lists[i])) \in Nat
                              /\ TripleCounts(lists, i) \in [1 .. Len(Others(lists[i])) -> Nat]
                              /\ TripleNum(lists)[i] = TotalOf(TripleCounts(lists, i))
<1>1. DOMAIN lists = 1 .. N /\ \A i \in 1 .. N : lists[i] \in Seq(1 .. N)
  BY DEF ListShape
<1>2. ASSUME NEW i \in 1 .. N
      PROVE  /\ Len(Others(lists[i])) \in Nat
             /\ TripleCounts(lists, i) \in [1 .. Len(Others(lists[i])) -> Nat]
             /\ TripleCounts(lists, i) = [n \in DOMAIN Others(lists[i]) |->
                                            Less(Len(lists[Others(lists[i])[n]]), 2)]
  <2> DEFINE o == Others(lists[i])
             l == Len(o)
  <2>1. o \in Seq(1 .. N) /\ DOMAIN o = 1 .. l /\ l \in Nat /\ \A q \in 1 .. l : o[q] \in 1 .. N
    <3>1. o \in Seq(1 .. N) /\ DOMAIN o = 1 .. l
      BY <1>1, OthersType
    <3> HIDE DEF o
    <3> QED BY <3>1
  <2>2. TripleCounts(lists, i) = [n \in 1 .. l |-> (Len(lists[o[n]]) - 2) % SizeMod]
    BY DEF TripleCounts
  <2> HIDE DEF o, l
  <2>3. \A n \in 1 .. l : (Len(lists[o[n]]) - 2) % SizeMod \in Nat
    <3> TAKE n \in 1 .. l
    <3>1. lists[o[n]] \in Seq(1 .. N)
      BY <1>1, <2>1
    <3>2. Len(lists[o[n]]) - 2 \in Int
      BY <3>1
    <3> QED BY <3>2, ModType, Zenon
  <2>4. TripleCounts(lists, i) \in [1 .. l -> Nat]
    BY <2>2, <2>3
  <2>5. TripleCounts(lists, i) = [n \in DOMAIN o |-> Less(Len(lists[o[n]]), 2)]
    BY <2>1, <2>2 DEF Less
  <2> QED BY <2>1, <2>4, <2>5 DEF o, l
<1>3. TripleNum(lists) = [i \in 1 .. N |-> TotalOf([n \in DOMAIN Others(lists[i]) |->
                                             Less(Len(lists[Others(lists[i])[n]]), 2)])]
  BY <1>1, Zenon DEF TripleNum
<1>4. \A i \in 1 .. N : TripleNum(lists)[i] = TotalOf(TripleCounts(lists, i))
  BY <1>2, <1>3
<1>5. \A i \in 1 .. N : TotalOf(TripleCounts(lists, i)) \in 0 .. SizeMod - 1
  BY <1>2, OffsetsType
<1>6. \A i \in 1 .. N : TripleNum(lists)[i] \in 0 .. SizeMod - 1 /\ TripleNum(lists)[i] \in Nat
  BY <1>4, <1>5, Widths
<1>7. TripleNum(lists) = [i \in 1 .. N |-> TripleNum(lists)[i]]
  BY <1>3
<1> QED BY <1>2, <1>4, <1>6, <1>7

-----------------------------------------------------------------------------
(* How many there are *)

\* Different particles are no more than all.
LEMMA EnumerationBound ==
  ASSUME NEW f, NEW n, NEW S, Enumerates(f, n, S), NEW N \in Nat, \A x \in S : x \in 1 .. N
  PROVE  n <= N
<1>1. n \in Nat /\ f \in [1 .. n -> S] /\ \A k, l \in 1 .. n : f[k] = f[l] => k = l
  BY DEF Enumerates
<1>2. f \in [1 .. n -> 1 .. N]
  BY <1>1
<1>3. f \in Injection(1 .. n, 1 .. N)
  <2>1. DOMAIN f = 1 .. n
    BY <1>2
  <2> QED BY <1>1, <1>2, <2>1, Zenon DEF Injection, IsInjective
<1>4. /\ IsFiniteSet(1 .. N) /\ Cardinality(1 .. N) = N /\ Cardinality(1 .. n) = n
  BY <1>1, IntervalCount
<1>5. Cardinality(1 .. n) <= Cardinality(1 .. N)
  BY <1>3, <1>4, FS_Injection
<1> QED BY <1>4, <1>5

LEMMA Powers ==
  ASSUME NEW n \in Nat, n >= 1
  PROVE  n <= n * n /\ n * n <= n * n * n /\ n * n \in Nat /\ n * n * n \in Nat
<1>1. n * n \in Nat
  OBVIOUS
<1>2. n <= n * n
  OBVIOUS
<1>3. \A x \in Nat : x <= x * n /\ x * n \in Nat
  <2> TAKE x \in Nat
  <2>1. PICK d \in Nat : n = d + 1
    <3>1. n - 1 \in Nat /\ n = (n - 1) + 1
      OBVIOUS
    <3> QED BY <3>1
  <2>2. x * n = x * d + x /\ x * d \in Nat
    BY <2>1
  <2> QED BY <2>2
<1> QED BY <1>1, <1>2, <1>3

\* So few particles that their triples can be counted and held.
Few(n) == n \in Nat /\ n >= 1 /\ n * n * n <= MaxRows /\ n * n * n <= IntMax

LEMMA FewBounds ==
  ASSUME NEW n, Few(n)
  PROVE  /\ n \in Nat /\ n >= 1 /\ n <= MaxRows /\ n <= IntMax
         /\ n * n \in Nat /\ n * n <= MaxRows /\ n * n <= IntMax
         /\ n * n * n \in Nat /\ n * n * n <= MaxRows /\ n * n * n <= IntMax
<1>1. n \in Nat /\ n >= 1 /\ n * n * n <= MaxRows /\ n * n * n <= IntMax
  BY DEF Few
<1>2. n <= n * n /\ n * n <= n * n * n /\ n * n \in Nat /\ n * n * n \in Nat
  BY <1>1, Powers
<1>3. MaxRows \in Nat /\ IntMax \in Nat
  BY Widths
<1> DEFINE p == n * n
           q == p * n
<1>4. n <= p /\ p <= q /\ p \in Nat /\ q \in Nat /\ q <= MaxRows /\ q <= IntMax
  BY <1>1, <1>2
<1> HIDE DEF p, q
<1>5. n <= MaxRows /\ n <= IntMax /\ p <= MaxRows /\ p <= IntMax
  BY <1>1, <1>3, <1>4
<1> QED BY <1>1, <1>4, <1>5 DEF p, q

LEMMA AsIntSmall ==
  ASSUME NEW x \in Nat, x <= IntMax
  PROVE  AsInt(x) = x
<1>1. x + IntMax + 1 \in Nat /\ UIntMod \in Nat /\ x + IntMax + 1 < UIntMod
  BY Widths
<1>2. (x + IntMax + 1) % UIntMod = x + IntMax + 1
  BY <1>1, SmallMod
<1> QED BY <1>1, <1>2, Widths DEF AsInt

\* Counts no larger than b each, of few particles, are added up exactly.
LEMMA TotalExact ==
  ASSUME NEW n \in Nat, NEW num \in [1 .. n -> Nat], NEW b \in Nat,
         \A i \in 1 .. n : num[i] <= b, n * b <= MaxRows
  PROVE  /\ TotalOf(num) = Starts(num)[n] /\ TotalOf(num) \in Nat
         /\ TotalOf(num) <= n * b /\ Allocated(TotalOf(num))
<1>1. \A i \in 0 .. n : Starts(num)[i] <= i * b
  BY StartsBound
<1>2. Starts(num)[n] <= n * b /\ Starts(num)[n] \in Nat
  BY <1>1, StartsType
<1> DEFINE total == Starts(num)[n]
           bound == n * b
<1>3. bound \in Nat /\ total \in Nat /\ total <= bound /\ bound <= MaxRows
  BY <1>2
<1> HIDE DEF bound
<1>4. total < SizeMod /\ total <= MaxRows
  <2> HIDE DEF total
  <2> QED BY <1>3, Widths
<1>5. \A i \in 0 .. n : Scan(num)[i] = Starts(num)[i]
  BY <1>4, ScanIsStarts
<1>6. Len(num) = n
  BY ListOf
<1>7. TotalOf(num) = total
  BY <1>5, <1>6 DEF TotalOf
<1> HIDE DEF total
<1> QED BY <1>3, <1>4, <1>7 DEF total, bound, Allocated

\* The pairs of few particles that find themselves are counted exactly.
LEMMA PairsCounted ==
  ASSUME NEW N, Few(N), NEW c \in [1 .. N -> Sites], NEW flag \in BOOLEAN, NEW eps \in Nat,
         eps > 0, NEW lists, ListShape(N, lists), AllExact(lists, c, flag, eps)
  PROVE  /\ \A i \in 1 .. N : /\ PairNum(lists)[i] = Len(Others(lists[i]))
                              /\ Len(Others(lists[i])) \in Nat
                              /\ Len(Others(lists[i])) <= N
         /\ TotalOf(PairNum(lists)) = Starts(PairNum(lists))[N]
         /\ Allocated(TotalOf(PairNum(lists)))
         /\ PairCount(lists) = TotalOf(PairNum(lists))
<1>1. N \in Nat /\ N <= MaxRows /\ N * N \in Nat /\ N * N <= MaxRows /\ N * N <= IntMax
  BY FewBounds
<1>2. ASSUME NEW i \in 1 .. N
      PROVE  /\ PairNum(lists)[i] = Len(Others(lists[i]))
             /\ Len(Others(lists[i])) \in Nat
             /\ Len(Others(lists[i])) <= N
  <2> DEFINE o == Others(lists[i])
  <2>1. lists[i] \in Seq(1 .. N)
    BY DEF ListShape
  <2>2. ExactList(lists[i], i, c, flag, eps)
    BY DEF AllExact
  <2>3. /\ Enumerates(o, Len(o), Neighbors(c, i, flag, eps))
        /\ Len(lists[i]) = Len(o) + 1
    <3>1. N \in Nat
      BY <1>1
    <3>2. Enumerates(o, Len(o), Neighbors(c, i, flag, eps))
      BY <2>1, <2>2, <3>1, OthersExact
    <3>3. Len(lists[i]) = Len(o) + 1
      BY <2>1, <2>2, <3>1, OthersExact
    <3> QED BY <3>2, <3>3
  <2>4. \A x \in Neighbors(c, i, flag, eps) : x \in 1 .. N
    BY DEF Neighbors
  <2> DEFINE l == Len(o)
  <2> HIDE DEF o
  <2>5. l \in Nat
    BY <2>3 DEF Enumerates
  <2>6. l <= N
    BY <1>1, <2>3, <2>4, EnumerationBound
  <2>7. PairNum(lists)[i] = (Len(lists[i]) - 1) % SizeMod
    BY <1>1, PairNumType
  <2>8. Len(lists[i]) - 1 = l
    BY <2>3, <2>5
  <2> HIDE DEF l
  <2>9. l < SizeMod
    BY <1>1, <2>5, <2>6, Widths
  <2>10. l % SizeMod = l
    BY <2>5, <2>9, SmallMod, Widths
  <2>11. PairNum(lists)[i] = l
    BY <2>7, <2>8, <2>10
  <2> QED BY <2>5, <2>6, <2>11 DEF l, o
<1>3. PairNum(lists) \in [1 .. N -> Nat]
  BY <1>1, PairNumType
<1> DEFINE num == PairNum(lists)
<1>4. \A i \in 1 .. N : num[i] <= N
  BY <1>2
<1>5. num \in [1 .. N -> Nat]
  BY <1>3
<1>6. PairCount(lists) = AsInt(TotalOf(num))
  BY DEF PairCount
<1> HIDE DEF num
<1>7. /\ TotalOf(num) = Starts(num)[N] /\ TotalOf(num) \in Nat
      /\ TotalOf(num) <= N * N /\ Allocated(TotalOf(num))
  BY <1>1, <1>4, <1>5, TotalExact
<1> DEFINE total == TotalOf(num)
           square == N * N
<1>8. total \in Nat /\ total <= square /\ square \in Nat /\ square <= IntMax
  BY <1>1, <1>7
<1> HIDE DEF total, square
<1>9. total <= IntMax
  BY <1>8, Widths
<1>10. AsInt(total) = total
  BY <1>8, <1>9, AsIntSmall
<1> QED BY <1>2, <1>6, <1>7, <1>10 DEF num, total

LEMMA NeighborsSymmetric ==
  ASSUME NEW N \in Nat, NEW c \in [1 .. N -> Sites], NEW flag \in BOOLEAN, NEW eps \in Nat,
         NEW i \in 1 .. N, NEW j \in Neighbors(c, i, flag, eps)
  PROVE  j \in 1 .. N /\ i # j /\ i \in Neighbors(c, j, flag, eps)
<1>1. j \in 1 .. N /\ j # i /\ Near(c, i, j, flag, eps)
  BY DEF Neighbors
<1>2. Near(c, j, i, flag, eps)
  BY <1>1, NearSymmetric
<1> QED BY <1>1, <1>2 DEF Neighbors

\* A particle leads on to all of its neighbours but the one it was come from.
LEMMA BeyondCount ==
  ASSUME NEW N \in Nat, NEW c \in [1 .. N -> Sites], NEW flag \in BOOLEAN, NEW eps \in Nat,
         eps > 0, NEW lists, ListShape(N, lists), AllExact(lists, c, flag, eps),
         NEW i \in 1 .. N, NEW j \in Neighbors(c, i, flag, eps)
  PROVE  /\ j \in 1 .. N /\ Len(lists[j]) - 2 \in Nat /\ Len(lists[j]) - 2 <= N
         /\ Cardinality(Beyond(lists[j], i)) = Len(lists[j]) - 2
<1> DEFINE o == Others(lists[j])
           l == Len(o)
           B == Neighbors(c, j, flag, eps)
<1>1. j \in 1 .. N /\ i \in B
  BY NeighborsSymmetric
<1>2. lists[j] \in Seq(1 .. N) /\ ExactList(lists[j], j, c, flag, eps)
  BY <1>1 DEF ListShape, AllExact
<1>3. Enumerates(o, l, B)
  BY <1>1, <1>2, OthersExact
<1>4. Len(lists[j]) = l + 1
  BY <1>1, <1>2, OthersExact
<1>5. Beyond(lists[j], i) = {n \in DOMAIN o : o[n] # i}
  BY DEF Beyond
<1>6. \A x \in B : x \in 1 .. N
  BY DEF Neighbors
<1> HIDE DEF o, l, B
<1>7. l \in Nat /\ l <= N
  BY <1>3, <1>6, EnumerationBound DEF Enumerates
<1>8. DOMAIN o = 1 .. l /\ \A k, m \in 1 .. l : o[k] = o[m] => k = m
  BY <1>3 DEF Enumerates
<1>9. PICK k \in 1 .. l : o[k] = i
  BY <1>1, <1>3 DEF Enumerates
<1>10. Beyond(lists[j], i) = (1 .. l) \ {k}
  BY <1>5, <1>8, <1>9
<1>11. IsFiniteSet(1 .. l) /\ Cardinality(1 .. l) = l
  BY <1>7, IntervalCount
<1>12. Cardinality((1 .. l) \ {k}) = l - 1
  BY <1>9, <1>11, FS_RemoveElement
<1>13. Len(lists[j]) - 2 = l - 1 /\ l - 1 \in Nat /\ l - 1 <= N
  BY <1>4, <1>7, <1>9
<1> QED BY <1>1, <1>10, <1>12, <1>13

LEMMA CountsAgree ==
  ASSUME NEW N, Few(N), NEW c \in [1 .. N -> Sites], NEW flag \in BOOLEAN, NEW eps \in Nat,
         eps > 0, NEW lists, ListShape(N, lists), AllExact(lists, c, flag, eps),
         NEW i \in 1 .. N
  PROVE  /\ TripleCounts(lists, i) = ThroughNum(lists, i)
         /\ \A n \in 1 .. Len(Others(lists[i])) : ThroughNum(lists, i)[n] <= N
<1> DEFINE o == Others(lists[i])
           l == Len(o)
<1>1. N \in Nat /\ N <= MaxRows
  BY FewBounds
<1>2. lists[i] \in Seq(1 .. N) /\ ExactList(lists[i], i, c, flag, eps)
  BY DEF ListShape, AllExact
<1>3. Enumerates(o, l, Neighbors(c, i, flag, eps))
  BY <1>1, <1>2, OthersExact
<1>4. TripleCounts(lists, i) = [n \in 1 .. l |-> (Len(lists[o[n]]) - 2) % SizeMod]
  BY DEF TripleCounts
<1>5. ThroughNum(lists, i) = [n \in 1 .. l |-> Len(ThroughAll(lists, i)[n])]
  BY DEF ThroughNum
<1>6. ASSUME NEW n \in 1 .. l
      PROVE  /\ (Len(lists[o[n]]) - 2) % SizeMod = Len(ThroughAll(lists, i)[n])
             /\ Len(ThroughAll(lists, i)[n]) <= N
  <2> DEFINE j == o[n]
  <2>1. ThroughAll(lists, i)[n] = Through(lists[j], i, j)
    BY <1>1, TriplesLaidOut
  <2> HIDE DEF o, l
  <2>2. j \in Neighbors(c, i, flag, eps)
    BY <1>3 DEF Enumerates
  <2> HIDE DEF j
  <2>3. /\ j \in 1 .. N /\ Len(lists[j]) - 2 \in Nat /\ Len(lists[j]) - 2 <= N
        /\ Cardinality(Beyond(lists[j], i)) = Len(lists[j]) - 2
    BY <1>1, <2>2, BeyondCount
  <2>4. lists[j] \in Seq(1 .. N)
    BY <2>3 DEF ListShape
  <2>5. Len(Through(lists[j], i, j)) = Cardinality(Beyond(lists[j], i))
    BY <1>1, <2>4, ThroughType
  <2> DEFINE x == Len(lists[j]) - 2
  <2>6. x \in Nat /\ x <= N
    BY <2>3
  <2>7. Len(ThroughAll(lists, i)[n]) = x
    BY <2>1, <2>3, <2>5
  <2> HIDE DEF x
  <2>8. x < SizeMod
    BY <1>1, <2>6, Widths
  <2>9. x % SizeMod = x
    BY <2>6, <2>8, SmallMod, Widths
  <2>10. (Len(lists[o[n]]) - 2) % SizeMod = x % SizeMod
    BY DEF x, j
  <2> QED BY <2>6, <2>7, <2>9, <2>10
<1> HIDE DEF o
<1>7. TripleCounts(lists, i) = ThroughNum(lists, i)
  BY <1>4, <1>5, <1>6
<1>8. \A n \in 1 .. l : ThroughNum(lists, i)[n] <= N
  BY <1>5, <1>6
<1> QED BY <1>7, <1>8 DEF o

\* The triples of few particles that find themselves are counted exactly.
LEMMA TriplesCounted ==
  ASSUME NEW N, Few(N), NEW c \in [1 .. N -> Sites], NEW flag \in BOOLEAN, NEW eps \in Nat,
         eps > 0, NEW lists, ListShape(N, lists), AllExact(lists, c, flag, eps)
  PROVE  /\ \A i \in 1 .. N : TripleNum(lists)[i] = Len(TripleEntries(lists)[i])
         /\ TotalOf(TripleNum(lists)) = Starts(TripleNum(lists))[N]
         /\ Allocated(TotalOf(TripleNum(lists)))
<1>1. N \in Nat /\ N <= MaxRows /\ N * N \in Nat /\ N * N <= MaxRows
  BY FewBounds
<1>2. ASSUME NEW i \in 1 .. N
      PROVE  TripleNum(lists)[i] = Len(TripleEntries(lists)[i]) /\ TripleNum(lists)[i] <= N * N
  <2> DEFINE num == ThroughNum(lists, i)
             l == Len(Others(lists[i]))
  <2>1. TripleCounts(lists, i) = num /\ \A n \in 1 .. l : num[n] <= N
    BY CountsAgree
  <2>2. l \in Nat /\ num \in [1 .. l -> Nat]
    BY <1>1, TriplesLaidOut
  <2>3. l <= N
    BY PairsCounted
  <2>4. TripleNum(lists)[i] = TotalOf(TripleCounts(lists, i))
    BY <1>1, TripleNumType
  <2>5. Len(TripleEntries(lists)[i]) = Starts(num)[l]
    BY <1>1, TripleEntriesRows
  <2> HIDE DEF num, l
  <2>6. l * N \in Nat /\ l * N <= N * N
    <3>1. PICK d \in Nat : N = l + d
      <4>1. N - l \in Nat /\ N = l + (N - l)
        BY <1>1, <2>2, <2>3
      <4> QED BY <4>1
    <3>2. N * N = l * N + d * N /\ d * N \in Nat /\ l * N \in Nat
      BY <1>1, <2>2, <3>1
    <3> QED BY <3>2
  <2>7. l * N <= MaxRows
    BY <1>1, <2>6, Widths
  <2>8. /\ TotalOf(num) = Starts(num)[l] /\ TotalOf(num) \in Nat
        /\ TotalOf(num) <= l * N
    BY <1>1, <2>1, <2>2, <2>7, TotalExact
  <2>9. TotalOf(num) <= N * N
    BY <1>1, <2>6, <2>8
  <2> QED BY <2>1, <2>4, <2>5, <2>8, <2>9
<1> DEFINE num == TripleNum(lists)
           square == N * N
<1>3. num \in [1 .. N -> Nat]
  BY <1>1, TripleNumType
<1>4. \A i \in 1 .. N : num[i] <= square
  BY <1>2
<1>5. square \in Nat /\ N * square <= MaxRows
  <2>1. N * N * N <= MaxRows
    BY FewBounds
  <2>2. N * (N * N) = N * N * N
    BY <1>1
  <2> QED BY <1>1, <2>1, <2>2
<1> HIDE DEF num, square
<1>6. TotalOf(num) = Starts(num)[N] /\ Allocated(TotalOf(num))
  BY <1>1, <1>3, <1>4, <1>5, TotalExact
<1> QED BY <1>2, <1>6 DEF num

-----------------------------------------------------------------------------
(* The radius that the constructor leaves *)

LEMMA ScanOfOnes ==
  ASSUME NEW n \in Nat, n < SizeMod, NEW num \in [1 .. n -> Nat],
         \A i \in 1 .. n : num[i] = SizeMod - 1
  PROVE  \A i \in 1 .. n : Scan(num)[i] = SizeMod - i
<1>1. SizeMod \in Nat /\ SizeMod > 0
  BY Widths
<1>2. /\ Scan(num)[0] = 0
      /\ \A i \in 1 .. n : Scan(num)[i] = (Scan(num)[i - 1] + num[i]) % SizeMod
  BY ScanType
<1> DEFINE good == {i \in Nat : i = 0 \/ Scan(num)[i] = SizeMod - i}
<1>3. ASSUME NEW i \in Nat, i < n, i \in good
      PROVE  i + 1 \in good
  <2>1. i + 1 \in 1 .. n /\ (i + 1) - 1 = i
    BY <1>3
  <2>2. Scan(num)[i + 1] = (Scan(num)[i] + (SizeMod - 1)) % SizeMod
    BY <1>2, <2>1
  <2>3. CASE i = 0
    <3>1. (0 + (SizeMod - 1)) % SizeMod = SizeMod - 1
      <4>1. SizeMod - 1 \in Nat /\ SizeMod - 1 < SizeMod /\ 0 + (SizeMod - 1) = SizeMod - 1
        BY <1>1
      <4> QED BY <1>1, <4>1, SmallMod
    <3> QED BY <1>2, <2>2, <2>3, <3>1
  <2>4. CASE i # 0
    <3>1. Scan(num)[i] = SizeMod - i
      BY <1>3, <2>4
    <3> DEFINE x == SizeMod - (i + 1)
    <3>2. x \in Nat /\ x < SizeMod /\ (SizeMod - i) + (SizeMod - 1) = x + SizeMod
      BY <1>1, <1>3
    <3> HIDE DEF x
    <3>3. (x + SizeMod) % SizeMod = x
      BY <1>1, <3>2
    <3> QED BY <2>2, <3>1, <3>2, <3>3 DEF x
  <2> QED BY <2>3, <2>4
<1>4. 0 \in good
  OBVIOUS
<1>5. good \in SUBSET Nat
  OBVIOUS
<1> HIDE DEF good
<1>6. \A i \in 0 .. n : i \in good
  BY <1>3, <1>4, <1>5, UpToBound
<1> QED BY <1>6 DEF good

LEMMA MultipleMod ==
  ASSUME NEW x \in Nat, x < UIntMod
  PROVE  (SizeMod + x) % UIntMod = x
<1>1. SizeMod \in Nat /\ UIntMod \in Nat /\ UIntMod > 0 /\ SizeMod % UIntMod = 0
  BY Widths
<1>2. PICK q \in Nat : SizeMod = UIntMod * q
  <2> DEFINE q == SizeMod \div UIntMod
             r == SizeMod % UIntMod
             p == UIntMod * q
  <2>1. q \in Int /\ SizeMod = UIntMod * q + r
    BY <1>1
  <2>2. r = 0
    BY <1>1
  <2>3. q \in Nat
    BY <1>1
  <2>4. p \in Int
    BY <1>1, <2>1
  <2> HIDE DEF r
  <2>5. SizeMod = p
    <3>1. SizeMod = p + r
      BY <2>1
    <3> HIDE DEF p
    <3> QED BY <2>2, <2>4, <3>1
  <2> QED BY <2>3, <2>5
<1>3. (UIntMod * q + x) % UIntMod = x
  BY <1>1, <1>2
<1> QED BY <1>2, <1>3

\* Without a radius no particle finds itself, each counts one pair less than
\* none, and the table has an impossible number of rows.
LEMMA NothingCounted ==
  ASSUME NEW N, Few(N), NEW c \in [1 .. N -> Sites], NEW flag \in BOOLEAN,
         NEW lists, ListShape(N, lists), AllExact(lists, c, flag, 0)
  PROVE  ~Allocated(PairCount(lists)) /\ ~Allocated(TotalOf(PairNum(lists)))
<1>1. N \in Nat /\ N >= 1 /\ N <= MaxRows /\ N <= IntMax
  BY FewBounds
<1>2. SizeMod \in Nat /\ SizeMod >= 2 * UIntMod /\ UIntMod = 2 * (IntMax + 1)
      /\ MaxRows \in Nat /\ MaxRows < UIntMod /\ IntMax \in Nat /\ UIntMod \in Nat
  BY Widths
<1>3. \A i \in 1 .. N : PairNum(lists)[i] = SizeMod - 1
  <2> TAKE i \in 1 .. N
  <2>1. lists[i] \in Seq(1 .. N) /\ ExactList(lists[i], i, c, flag, 0)
    BY DEF ListShape, AllExact
  <2>2. lists[i] = <<>>
    BY <1>1, <2>1, OthersExact
  <2>3. PairNum(lists)[i] = (Len(lists[i]) - 1) % SizeMod
    BY <1>1, PairNumType
  <2>4. Len(lists[i]) = 0
    BY <2>2
  <2>5. (0 - 1) % SizeMod = SizeMod - 1
    BY <1>2
  <2> QED BY <2>3, <2>4, <2>5
<1>4. PairNum(lists) \in [1 .. N -> Nat]
  BY <1>1, PairNumType
<1> DEFINE num == PairNum(lists)
<1>5. N < SizeMod
  BY <1>1, <1>2
<1> HIDE DEF num
<1>6. Scan(num)[N] = SizeMod - N
  <2>1. \A i \in 1 .. N : Scan(num)[i] = SizeMod - i
    BY <1>1, <1>3, <1>4, <1>5, ScanOfOnes DEF num
  <2> QED BY <1>1, <2>1
<1>7. TotalOf(num) = SizeMod - N
  <2>1. Len(num) = N
    BY <1>1, <1>4, ListOf DEF num
  <2> QED BY <1>6, <2>1 DEF TotalOf
<1>8. ~Allocated(SizeMod - N)
  BY <1>1, <1>2 DEF Allocated
<1>9. AsInt(SizeMod - N) = -N
  <2> DEFINE x == IntMax + 1 - N
  <2>1. x \in Nat /\ x < UIntMod /\ SizeMod - N + IntMax + 1 = SizeMod + x
    BY <1>1, <1>2
  <2> HIDE DEF x
  <2>2. (SizeMod - N + IntMax + 1) % UIntMod = x
    BY <2>1, MultipleMod
  <2>3. x - (IntMax + 1) = -N
    BY <1>1, <1>2 DEF x
  <2> QED BY <2>2, <2>3 DEF AsInt
<1>10. ~Allocated(-N)
  BY <1>1 DEF Allocated
<1>11. PairCount(lists) = AsInt(TotalOf(num))
  BY DEF PairCount, num
<1> QED BY <1>7, <1>8, <1>9, <1>10, <1>11 DEF num

-----------------------------------------------------------------------------
(* How a build ends *)

PairsFit(lists, entries) ==
  EntriesFit(PairNum(lists), PairCount(lists), entries)

LEMMA PairOutcome ==
  ASSUME NEW N, Few(N), NEW c \in [1 .. N -> Sites], NEW flag \in BOOLEAN, NEW eps \in Nat,
         NEW lists, ListShape(N, lists), AllExact(lists, c, flag, eps),
         NEW m, NEW sources, SourcesOf(N, m, sources)
  PROVE  /\ eps > 0 => Allocated(PairCount(lists)) /\ PairsFit(lists, PairEntries(lists, sources))
         /\ eps = 0 => ~Allocated(PairCount(lists))
<1>1. N \in Nat
  BY FewBounds
<1>2. ASSUME eps > 0
      PROVE  Allocated(PairCount(lists)) /\ PairsFit(lists, PairEntries(lists, sources))
  <2>1. /\ \A i \in 1 .. N : PairNum(lists)[i] = Len(Others(lists[i]))
        /\ TotalOf(PairNum(lists)) = Starts(PairNum(lists))[N]
        /\ Allocated(TotalOf(PairNum(lists)))
        /\ PairCount(lists) = TotalOf(PairNum(lists))
    BY <1>2, PairsCounted
  <2>2. \A i \in 1 .. N : Len(PairEntries(lists, sources)[i]) = Len(Others(lists[i]))
    BY <1>1, PairEntriesRows
  <2>3. DOMAIN PairNum(lists) = 1 .. N /\ Len(PairNum(lists)) = N
    BY <1>1, PairNumType, ListOf
  <2> QED BY <2>1, <2>2, <2>3 DEF PairsFit, EntriesFit
<1>3. ASSUME eps = 0
      PROVE  ~Allocated(PairCount(lists))
  BY <1>3, NothingCounted
<1> QED BY <1>2, <1>3

LEMMA TripleOutcome ==
  ASSUME NEW N, Few(N), NEW c \in [1 .. N -> Sites], NEW flag \in BOOLEAN, NEW eps \in Nat,
         NEW lists, ListShape(N, lists), AllExact(lists, c, flag, eps)
  PROVE  /\ eps > 0 =>
              /\ Allocated(TotalOf(TripleNum(lists))) /\ Allocated(TotalOf(PairNum(lists)))
              /\ EntriesFit(TripleNum(lists), TotalOf(TripleNum(lists)), TripleEntries(lists))
              /\ EntriesFit(PairNum(lists), TotalOf(PairNum(lists)), SelfEntries(lists))
         /\ eps = 0 => ~Allocated(TotalOf(PairNum(lists)))
<1>1. N \in Nat
  BY FewBounds
<1>2. ASSUME eps > 0
      PROVE  /\ Allocated(TotalOf(PairNum(lists)))
             /\ EntriesFit(PairNum(lists), TotalOf(PairNum(lists)), SelfEntries(lists))
  <2>1. /\ \A i \in 1 .. N : PairNum(lists)[i] = Len(Others(lists[i]))
        /\ TotalOf(PairNum(lists)) = Starts(PairNum(lists))[N]
        /\ Allocated(TotalOf(PairNum(lists)))
    BY <1>2, PairsCounted
  <2>2. \A i \in 1 .. N : Len(SelfEntries(lists)[i]) = Len(Others(lists[i]))
    BY <1>1, SelfEntriesType
  <2>3. DOMAIN PairNum(lists) = 1 .. N /\ Len(PairNum(lists)) = N
    BY <1>1, PairNumType, ListOf
  <2> QED BY <2>1, <2>2, <2>3 DEF EntriesFit
<1>3. ASSUME eps > 0
      PROVE  /\ Allocated(TotalOf(TripleNum(lists)))
             /\ EntriesFit(TripleNum(lists), TotalOf(TripleNum(lists)), TripleEntries(lists))
  <2>1. /\ \A i \in 1 .. N : TripleNum(lists)[i] = Len(TripleEntries(lists)[i])
        /\ TotalOf(TripleNum(lists)) = Starts(TripleNum(lists))[N]
        /\ Allocated(TotalOf(TripleNum(lists)))
    BY <1>3, TriplesCounted
  <2>2. DOMAIN TripleNum(lists) = 1 .. N /\ Len(TripleNum(lists)) = N
    BY <1>1, TripleNumType, ListOf
  <2> QED BY <2>1, <2>2 DEF EntriesFit
<1>4. ASSUME eps = 0
      PROVE  ~Allocated(TotalOf(PairNum(lists)))
  BY <1>4, NothingCounted
<1> QED BY <1>2, <1>3, <1>4

-----------------------------------------------------------------------------
(* Tables *)

LEMMA CountedType ==
  ASSUME NEW n \in Nat, NEW num \in [1 .. n -> Nat], num \in [1 .. n -> 0 .. SizeMod - 1],
         NEW table, NEW rows
  PROVE  TableType(Counted(table, num), rows) /\ ~Counted(table, num).built
<1>1. Offsets(num) \in [1 .. n -> 0 .. SizeMod - 1]
  BY OffsetsType
<1>2. num \in Seq(0 .. SizeMod - 1) /\ Offsets(num) \in Seq(0 .. SizeMod - 1)
      /\ DOMAIN num = DOMAIN Offsets(num)
  BY <1>1, ListOf
<1> DEFINE whole == Counted(table, num)
<1>3. ~whole.built /\ whole.built \in BOOLEAN /\ whole.num = num /\ whole.offset = Offsets(num)
  BY DEF Counted
<1> HIDE DEF whole
<1>4. TableType(whole, rows)
  BY <1>2, <1>3 DEF TableType
<1> QED BY <1>3, <1>4 DEF whole

LEMMA FilledType ==
  ASSUME NEW n \in Nat, NEW num \in [1 .. n -> Nat], num \in [1 .. n -> 0 .. SizeMod - 1],
         NEW count, NEW entries, NEW from,
         EntriesFit(num, count, entries), Allocated(count),
         NEW rows, EntriesType(n, entries, rows)
  PROVE  TableType(Filled(num, entries, from), rows) /\ TableHeld(n, Filled(num, entries, from))
         /\ Filled(num, entries, from).from = from
<1>1. Offsets(num) \in [1 .. n -> 0 .. SizeMod - 1]
  BY OffsetsType
<1>2. num \in Seq(0 .. SizeMod - 1) /\ Offsets(num) \in Seq(0 .. SizeMod - 1)
      /\ DOMAIN num = DOMAIN Offsets(num)
  BY <1>1, ListOf
<1> DEFINE whole == Filled(num, entries, from)
<1>3. /\ whole.built \in BOOLEAN /\ whole.num = num /\ whole.offset = Offsets(num)
      /\ whole.from = from
  BY DEF Filled
<1>4. TableHeld(n, whole)
  BY FilledTable
<1>5. Len(whole.rows) <= MaxRows /\ \A k \in DOMAIN whole.rows : whole.rows[k] \in rows
  BY FilledTable
<1> HIDE DEF whole
<1>6. TableType(whole, rows)
  BY <1>2, <1>3, <1>5 DEF TableType
<1> QED BY <1>3, <1>4, <1>6 DEF whole

SlicesOf(table) ==
  \A targets \in TargetLists(table) :
    GetEdgeInfoByIndex(table, targets)
      = [k \in DOMAIN OfTargets(table, targets) |-> Mirrored(OfTargets(table, targets)[k])]

LEMMA SlicesHold ==
  ASSUME NEW n \in Nat, NEW table, TableHeld(n, table)
  PROVE  SlicesOf(table)
<1> SUFFICES ASSUME NEW targets \in TargetLists(table)
             PROVE  GetEdgeInfoByIndex(table, targets)
      = [k \in DOMAIN OfTargets(table, targets) |-> Mirrored(OfTargets(table, targets)[k])]
  BY DEF SlicesOf
<1>1. DOMAIN table.num = 1 .. n
  BY DEF TableHeld
<1>2. PICK m \in 1 .. MaxTargets : targets \in [1 .. m -> 1 .. n]
  BY <1>1 DEF TargetLists
<1> QED BY <1>2, SliceExact

LEMMA CoordsType ==
  ASSUME NEW c \in Coords
  PROVE  /\ Len(c) \in Nat /\ Len(c) >= 1 /\ DOMAIN c = 1 .. Len(c)
         /\ c \in [1 .. Len(c) -> Sites] /\ c # <<>>
<1>1. c \in Seq(Sites) /\ c # <<>>
  BY ListsAssumption
<1>2. Len(c) # 0
  BY <1>1
<1> QED BY <1>1, <1>2, SeqIsList

LEMMA PairsStart ==
  ASSUME NEW N \in Nat, NEW c \in [1 .. N -> Sites], NEW flag, NEW eps, NEW images
  PROVE  /\ \A x \in PairsOf(FromOf(c, flag, eps, images)) : x[1] \in 1 .. N
         /\ \A x \in TriplesOf(FromOf(c, flag, eps, images)) : x[1] \in 1 .. N
<1>1. \A x \in PairsOf(FromOf(c, flag, eps, images)) : x[1] \in 1 .. N
  BY PairsAre
<1>2. \A x \in TriplesOf(FromOf(c, flag, eps, images)) : x[1] \in 1 .. N
  BY TriplesAre
<1> QED BY <1>1, <1>2
-----------------------------------------------------------------------------
(* What a build leaves behind *)

LEMMA PairsFilled ==
  ASSUME NEW N \in Nat, NEW c \in [1 .. N -> Sites], NEW flag \in BOOLEAN, NEW eps \in Nat,
         NEW images \in Nat, NEW lists, ListShape(N, lists),
         Reach(c, flag, images, eps) => AllExact(lists, c, flag, eps),
         NEW sources, sources = SourceSites(c, flag, images), NEW count,
         EntriesFit(PairNum(lists), count, PairEntries(lists, sources)), Allocated(count),
         NEW table,
         table = Filled(PairNum(lists), PairEntries(lists, sources), FromOf(c, flag, eps, images))
  PROVE  /\ TableType(table, (1 .. N) \X (1 .. N))
         /\ table.from = FromOf(c, flag, eps, images)
         /\ ~flag => EachOnce(table.rows, PairsOf(FromOf(c, flag, eps, images)))
<1> DEFINE num == PairNum(lists)
           entries == PairEntries(lists, sources)
           from == FromOf(c, flag, eps, images)
           set == PairsOf(from)
<1>1. PICK m : SourcesOf(N, m, sources)
  BY SourcesShape
<1>2. EntriesType(N, entries, (1 .. N) \X (1 .. N))
  BY <1>1, PairEntriesRows
<1>3. num \in [1 .. N -> Nat] /\ num \in [1 .. N -> 0 .. SizeMod - 1]
  BY PairNumType
<1>4. \A x \in set : x[1] \in 1 .. N
  BY PairsStart
<1>5. ASSUME ~flag PROVE \A i \in 1 .. N : EachOnce(entries[i], StartingAt(set, i))
  <2>1. flag = FALSE /\ AllExact(lists, c, flag, eps)
    BY <1>5 DEF Reach
  <2> TAKE i \in 1 .. N
  <2>2. EachOnce(SelfEntries(lists)[i], StartingAt(set, i))
    BY <2>1, SelfExact
  <2>3. \A j \in 1 .. N : sources[j].index = j
    BY <1>5, PlainIndex
  <2>4. entries[i] = SelfEntries(lists)[i]
    BY <2>3, PairEntriesPlain
  <2> QED BY <2>2, <2>4, Zenon
<1> HIDE DEF num, entries, from, set
<1>6. TableType(table, (1 .. N) \X (1 .. N)) /\ table.from = from
  BY <1>2, <1>3, FilledType DEF num, entries, from
<1>7. ASSUME ~flag PROVE EachOnce(table.rows, set)
  <2>1. \A i \in 1 .. N : DOMAIN entries[i] = 1 .. Len(entries[i])
    BY <1>2 DEF EntriesType
  <2>2. EntriesFit(num, count, entries) /\ table = Filled(num, entries, from)
    BY DEF num, entries, from
  <2>3. \A i \in 1 .. N : EachOnce(entries[i], StartingAt(set, i))
    BY <1>5, <1>7
  <2> QED BY <1>3, <1>4, <2>1, <2>2, <2>3, TableOnce
<1> QED BY <1>6, <1>7 DEF set, from

LEMMA SelvesFilled ==
  ASSUME NEW N \in Nat, NEW c \in [1 .. N -> Sites], NEW flag \in BOOLEAN, NEW eps \in Nat,
         NEW images \in Nat, NEW lists, ListShape(N, lists),
         Reach(c, flag, images, eps) => AllExact(lists, c, flag, eps), NEW count,
         EntriesFit(PairNum(lists), count, SelfEntries(lists)), Allocated(count),
         NEW table,
         table = Filled(PairNum(lists), SelfEntries(lists), FromOf(c, flag, eps, images))
  PROVE  /\ TableType(table, (1 .. N) \X (1 .. N)) /\ TableHeld(N, table)
         /\ table.from = FromOf(c, flag, eps, images)
         /\ Reach(c, flag, images, eps) =>
              EachOnce(table.rows, PairsOf(FromOf(c, flag, eps, images)))
<1> DEFINE num == PairNum(lists)
           entries == SelfEntries(lists)
           from == FromOf(c, flag, eps, images)
           set == PairsOf(from)
<1>1. EntriesType(N, entries, (1 .. N) \X (1 .. N))
  BY SelfEntriesRows
<1>2. num \in [1 .. N -> Nat] /\ num \in [1 .. N -> 0 .. SizeMod - 1]
  BY PairNumType
<1>3. \A x \in set : x[1] \in 1 .. N
  BY PairsStart
<1>4. ASSUME Reach(c, flag, images, eps)
      PROVE  \A i \in 1 .. N : EachOnce(entries[i], StartingAt(set, i))
  BY <1>4, SelfExact
<1> HIDE DEF num, entries, from, set
<1>5. TableType(table, (1 .. N) \X (1 .. N)) /\ TableHeld(N, table) /\ table.from = from
  BY <1>1, <1>2, FilledType DEF num, entries, from
<1>6. ASSUME Reach(c, flag, images, eps) PROVE EachOnce(table.rows, set)
  <2>1. \A i \in 1 .. N : DOMAIN entries[i] = 1 .. Len(entries[i])
    BY <1>1 DEF EntriesType
  <2>2. EntriesFit(num, count, entries) /\ table = Filled(num, entries, from)
    BY DEF num, entries, from
  <2>3. \A i \in 1 .. N : EachOnce(entries[i], StartingAt(set, i))
    BY <1>4, <1>6
  <2> QED BY <1>2, <1>3, <2>1, <2>2, <2>3, TableOnce
<1> QED BY <1>5, <1>6 DEF set, from

LEMMA TriplesFilled ==
  ASSUME NEW N \in Nat, NEW c \in [1 .. N -> Sites], NEW flag \in BOOLEAN, NEW eps \in Nat,
         NEW images \in Nat, NEW lists, ListShape(N, lists),
         Reach(c, flag, images, eps) => AllExact(lists, c, flag, eps), NEW count,
         EntriesFit(TripleNum(lists), count, TripleEntries(lists)), Allocated(count),
         NEW table,
         table = Filled(TripleNum(lists), TripleEntries(lists), FromOf(c, flag, eps, images))
  PROVE  /\ TableType(table, (1 .. N) \X (1 .. N) \X (1 .. N)) /\ TableHeld(N, table)
         /\ table.from = FromOf(c, flag, eps, images)
         /\ Reach(c, flag, images, eps) =>
              EachOnce(table.rows, TriplesOf(FromOf(c, flag, eps, images)))
<1> DEFINE num == TripleNum(lists)
           entries == TripleEntries(lists)
           from == FromOf(c, flag, eps, images)
           set == TriplesOf(from)
<1>1. EntriesType(N, entries, (1 .. N) \X (1 .. N) \X (1 .. N))
  BY TripleEntriesRows
<1>2. num \in [1 .. N -> Nat] /\ num \in [1 .. N -> 0 .. SizeMod - 1]
  BY TripleNumType
<1>3. \A x \in set : x[1] \in 1 .. N
  BY PairsStart
<1>4. ASSUME Reach(c, flag, images, eps)
      PROVE  \A i \in 1 .. N : EachOnce(entries[i], StartingAt(set, i))
  BY <1>4, TriplesExact
<1> HIDE DEF num, entries, from, set
<1>5. TableType(table, (1 .. N) \X (1 .. N) \X (1 .. N)) /\ TableHeld(N, table)
      /\ table.from = from
  BY <1>1, <1>2, FilledType DEF num, entries, from
<1>6. ASSUME Reach(c, flag, images, eps) PROVE EachOnce(table.rows, set)
  <2>1. \A i \in 1 .. N : DOMAIN entries[i] = 1 .. Len(entries[i])
    BY <1>1 DEF EntriesType
  <2>2. EntriesFit(num, count, entries) /\ table = Filled(num, entries, from)
    BY DEF num, entries, from
  <2>3. \A i \in 1 .. N : EachOnce(entries[i], StartingAt(set, i))
    BY <1>4, <1>6
  <2> QED BY <1>2, <1>3, <2>1, <2>2, <2>3, TableOnce
<1> QED BY <1>5, <1>6 DEF set, from

-----------------------------------------------------------------------------
(* Forces *)

ForceExact(f) ==
  f.built /\ ~f.from.periodic =>
    \A i \in ParticlesOf(f.from) :
      \E attracting \in [DOMAIN f.terms[i] -> Attracting(f.from, i)] :
        /\ EachOnce(attracting, Attracting(f.from, i))
        /\ \A n \in DOMAIN f.terms[i] :
             f.terms[i][n] = Separation(f.from.coord, i, attracting[n], FALSE)

\* The separations that a particle's force is summed over.
TermsAre(term, near, c, i, flag) ==
  \E attracting \in [DOMAIN term -> near] :
    /\ EachOnce(attracting, near)
    /\ \A n \in DOMAIN term : term[n] = Separation(c, i, attracting[n], flag)

LEMMA TermsExact ==
  ASSUME NEW N \in Nat, NEW c \in [1 .. N -> Sites], NEW eps \in Nat, NEW images \in Nat,
         NEW flag \in BOOLEAN, ~flag, NEW lists, ListShape(N, lists), AllExact(lists, c, flag, eps),
         NEW sources, sources = SourceSites(c, flag, images), NEW i \in 1 .. N,
         NEW term, term = ForceTerms(c, lists, sources)[i],
         NEW near, near = {j \in 1 .. N : j \in Neighbors(c, i, flag, eps) /\ c[i] # c[j]}
  PROVE  TermsAre(term, near, c, i, flag)
<1> DEFINE o == Others(lists[i])
           l == Len(o)
           B == Neighbors(c, i, flag, eps)
           separations == SeparationsFrom(c[i], o, sources)
           kept == {n \in DOMAIN separations : separations[n] # [a \in Axes |-> 0]}
           attracting == Compacted(o, kept)
<1>1. lists[i] \in Seq(1 .. N) /\ ExactList(lists[i], i, c, flag, eps) /\ DOMAIN lists = 1 .. N
  BY DEF ListShape, AllExact
<1>2. Enumerates(o, l, B)
  BY <1>1, OthersExact
<1>3. \A j \in B : j \in 1 .. N
  BY DEF Neighbors
<1>4. term = Compacted(separations, kept)
  BY <1>1, Zenon DEF ForceTerms
<1>5. separations = [n \in DOMAIN o |-> [a \in Axes |-> c[i][a] - sources[o[n]].site[a]]]
  BY DEF SeparationsFrom
<1>6. \A j \in 1 .. N : sources[j].site = c[j]
  <2>1. DOMAIN c = 1 .. N
    OBVIOUS
  <2>2. sources = [j \in 1 .. N |-> [site |-> c[j], index |-> j]]
    BY <2>1, Zenon DEF SourceSites
  <2> QED BY <2>2
<1>7. near = {j \in B : c[i] # c[j]}
  BY <1>3
<1> HIDE DEF o, l, B, separations
<1>8. l \in Nat /\ DOMAIN o = 1 .. l /\ \A n \in 1 .. l : o[n] \in B /\ o[n] \in 1 .. N
  BY <1>2, <1>3 DEF Enumerates
<1>9. \A n \in 1 .. l : separations[n] = Separation(c, i, o[n], flag)
  <2> TAKE n \in 1 .. l
  <2> DEFINE j == o[n]
  <2>1. j \in 1 .. N /\ sources[j].site = c[j]
    BY <1>6, <1>8
  <2>2. separations[n] = [a \in Axes |-> c[i][a] - sources[j].site[a]]
    BY <1>5, <1>8
  <2> HIDE DEF j
  <2>3. Separation(c, i, j, flag) = [a \in Axes |-> c[i][a] - c[j][a]]
    BY Zenon DEF Separation
  <2>4. separations[n] = Separation(c, i, j, flag)
    BY <2>1, <2>2, <2>3
  <2> QED BY <2>4 DEF j
<1>10. DOMAIN separations = 1 .. l
  BY <1>5, <1>8
<1>11. \A n \in 1 .. l : n \in kept <=> c[i] # c[o[n]]
  <2> TAKE n \in 1 .. l
  <2> DEFINE j == o[n]
  <2>1. j \in 1 .. N /\ c[j] \in Sites /\ c[i] \in Sites
    BY <1>8
  <2>2. separations[n] = [a \in Axes |-> c[i][a] - c[j][a]]
    BY <1>5, <1>6, <1>8
  <2>3. n \in kept <=> separations[n] # [a \in Axes |-> 0]
    BY <1>10
  <2> HIDE DEF j, kept
  <2>4. (separations[n] = [a \in Axes |-> 0]) <=> \A a \in Axes : c[i][a] - c[j][a] = 0
    BY <2>2
  <2>5. (\A a \in Axes : c[i][a] - c[j][a] = 0) <=> \A a \in Axes : c[i][a] = c[j][a]
    <3>1. \A a \in Axes : c[i][a] \in Int /\ c[j][a] \in Int
      BY <2>1 DEF Sites
    <3> QED BY <3>1
  <2>6. (\A a \in Axes : c[i][a] = c[j][a]) <=> c[i] = c[j]
    BY <2>1 DEF Sites
  <2> QED BY <2>3, <2>4, <2>5, <2>6 DEF j
<1>12. \A n \in kept : n \in 1 .. l
  BY <1>10
<1> HIDE DEF kept
<1>13. Enumerates(attracting, Cardinality(kept), {o[n] : n \in kept})
  BY <1>2, <1>12, CompactedEnumerates
<1>14. {o[n] : n \in kept} = near
  <2>1. \A n \in kept : o[n] \in near
    BY <1>7, <1>8, <1>11, <1>12
  <2>2. ASSUME NEW j \in near PROVE \E n \in kept : o[n] = j
    <3>1. j \in B /\ c[i] # c[j]
      BY <1>7
    <3>2. PICK n \in 1 .. l : o[n] = j
      BY <1>2, <3>1 DEF Enumerates
    <3> QED BY <1>11, <3>1, <3>2
  <2> QED BY <2>1, <2>2
<1>15. Enumerates(attracting, Cardinality(kept), near)
  BY <1>13, <1>14
<1> DEFINE count == Cardinality(kept)
<1>16. term = [k \in 1 .. count |-> separations[Source(kept, k)]]
  BY <1>4 DEF Compacted
<1>17. attracting = [k \in 1 .. count |-> o[Source(kept, k)]]
  BY DEF Compacted
<1>18. \A k \in 1 .. count : Source(kept, k) \in 1 .. l
  BY <1>8, <1>12, SourceFound
<1> HIDE DEF attracting, count
<1>19. EachOnce(attracting, near)
  BY <1>15, EnumerationOnce
<1>20. attracting \in [1 .. count -> near]
  BY <1>15, EnumerationType DEF count
<1>21. DOMAIN term = 1 .. count
  BY <1>16
<1>22. \A n \in 1 .. count : term[n] = Separation(c, i, attracting[n], flag)
  BY <1>9, <1>16, <1>17, <1>18
<1> QED BY <1>19, <1>20, <1>21, <1>22 DEF TermsAre

LEMMA FromFields ==
  ASSUME NEW N \in Nat, NEW c \in [1 .. N -> Sites], NEW flag, NEW eps, NEW images,
         NEW from, from = FromOf(c, flag, eps, images)
  PROVE  /\ from.coord = c /\ from.periodic = flag /\ from.eps = eps /\ from.images = images
         /\ ParticlesOf(from) = 1 .. N
<1>1. Len(c) = N
  BY ListOf
<1>2. from.coord = c /\ from.periodic = flag /\ from.eps = eps /\ from.images = images
  BY DEF FromOf
<1> QED BY <1>1, <1>2 DEF ParticlesOf

LEMMA ForcesFilled ==
  ASSUME NEW N \in Nat, NEW c \in [1 .. N -> Sites], NEW eps \in Nat, NEW images \in Nat,
         NEW flag \in BOOLEAN, NEW lists, ListShape(N, lists),
         Reach(c, flag, images, eps) => AllExact(lists, c, flag, eps),
         NEW sources, sources = SourceSites(c, flag, images), NEW f,
         f.terms = ForceTerms(c, lists, sources), f.from = FromOf(c, flag, eps, images)
  PROVE  ForceExact(f)
<1> DEFINE from == f.from
<1>1. /\ from.coord = c /\ from.periodic = flag /\ from.eps = eps /\ from.images = images
      /\ ParticlesOf(from) = 1 .. N
  BY FromFields
<1> SUFFICES ASSUME ~flag, NEW i \in 1 .. N
             PROVE  \E attracting \in [DOMAIN f.terms[i] -> Attracting(f.from, i)] :
        /\ EachOnce(attracting, Attracting(f.from, i))
        /\ \A n \in DOMAIN f.terms[i] :
             f.terms[i][n] = Separation(f.from.coord, i, attracting[n], FALSE)
  BY <1>1, Zenon DEF ForceExact
<1> DEFINE near == {j \in 1 .. N : j \in Neighbors(c, i, flag, eps) /\ c[i] # c[j]}
           term == f.terms[i]
<1>2. AllExact(lists, c, flag, eps)
  BY DEF Reach
<1>3. Attracting(from, i) = near
  <2>1. \A j : <<i, j>> \in PairsOf(from) <=> i \in 1 .. N /\ j \in Neighbors(c, i, flag, eps)
    BY PairsAre
  <2>2. Attracting(from, i) = {j \in 1 .. N : <<i, j>> \in PairsOf(from) /\ c[i] # c[j]}
    BY <1>1, Zenon DEF Attracting
  <2> HIDE DEF from
  <2> QED BY <2>1, <2>2
<1>4. term = ForceTerms(c, lists, sources)[i]
  OBVIOUS
<1> HIDE DEF near, term
<1>5. TermsAre(term, near, c, i, flag)
  <2>1. near = {j \in 1 .. N : j \in Neighbors(c, i, flag, eps) /\ c[i] # c[j]}
    BY DEF near
  <2> QED BY <1>2, <1>4, <2>1, TermsExact
<1>6. flag = FALSE
  OBVIOUS
<1>7. \E attracting \in [DOMAIN term -> near] :
           /\ EachOnce(attracting, near)
           /\ \A n \in DOMAIN term : term[n] = Separation(c, i, attracting[n], FALSE)
  BY <1>5, <1>6, Zenon DEF TermsAre
<1> QED BY <1>1, <1>3, <1>7, Zenon DEF term

-----------------------------------------------------------------------------
(* The two-body rows that are given out for a particle *)

LEMMA OthersGiven ==
  ASSUME NEW N \in Nat, DOMAIN coord = 1 .. N,
         NEW p \in 1 .. N, NEW q \in 1 .. N, p # q
  PROVE  \E k \in DOMAIN GetTwoBodyEdgeInfoByIndex(<<p>>) :
           GetTwoBodyEdgeInfoByIndex(<<p>>)[k] = <<q, p>>
<1> DEFINE targets == <<p>>
           part(n) == LET others == DOMAIN coord \ {targets[n]}
                      IN  [m \in 1 .. Cardinality(others) |-> <<Source(others, m), targets[n]>>]
           others == (1 .. N) \ {p}
           count == Cardinality(others)
           first == [m \in 1 .. count |-> <<Source(others, m), p>>]
           parts == [n \in DOMAIN targets |-> part(n)]
           num == [n \in 1 .. 1 |-> count]
           given == GetTwoBodyEdgeInfoByIndex(targets)
<1>1. given = Joined(parts)
  BY Zenon DEF GetTwoBodyEdgeInfoByIndex
<1>2. DOMAIN targets = 1 .. 1 /\ targets[1] = p
  OBVIOUS
<1>3. part(1) = first
  <2>1. DOMAIN coord \ {targets[1]} = others
    BY <1>2
  <2> HIDE DEF targets, others
  <2> QED BY <1>2, <2>1
<1>4. parts = [n \in 1 .. 1 |-> part(n)]
  BY <1>2
<1>5. \A j \in others : j \in 1 .. N
  OBVIOUS
<1> HIDE DEF targets, part, others
<1>6. count \in Nat
  BY <1>5, UpToType
<1>7. first = [m \in 1 .. count |-> first[m]]
  OBVIOUS
<1>8. PICK k \in 1 .. count : Source(others, k) = q
  BY <1>5, SourceOnto DEF others
<1>9. first[k] = <<q, p>>
  BY <1>8
<1> HIDE DEF count, first
<1>10. Len(first) = count
  BY <1>6, <1>7, LengthOf
<1>11. parts = [n \in 1 .. 1 |-> parts[n]] /\ parts[1] = first
  BY <1>3, <1>4
<1>12. num \in [1 .. 1 -> Nat] /\ num[1] = count
  BY <1>6
<1> HIDE DEF parts, num
<1>13. \A n \in 1 .. 1 : Len(parts[n]) = num[n]
  BY <1>10, <1>11, <1>12
<1>14. LaidOut(1, num, parts, Joined(parts))
  BY <1>11, <1>12, <1>13, JoinedLaidOut
<1>15. /\ Starts(num)[0] = 0 /\ Starts(num)[1] = Starts(num)[1 - 1] + num[1]
  <2>1. Starts(num)[0] = 0
    BY <1>12, StartsType
  <2>2. \A i \in 1 .. 1 : Starts(num)[i] = Starts(num)[i - 1] + num[i]
    BY <1>12, StartsType
  <2> QED BY <2>1, <2>2
<1>16. DOMAIN given = 1 .. Starts(num)[1]
  <2>1. DOMAIN Joined(parts) = 1 .. Starts(num)[1]
    BY <1>12, <1>14, LaidOutEntries
  <2> QED BY <1>1, <2>1, Zenon
<1>17. Starts(num)[1] = count
  BY <1>6, <1>12, <1>15
<1>18. given[k] = first[k]
  <2>1. Joined(parts)[Starts(num)[1 - 1] + k] = parts[1][k]
    BY <1>8, <1>12, <1>14 DEF LaidOut
  <2>2. Starts(num)[1 - 1] + k = k
    BY <1>15
  <2> QED BY <1>1, <1>11, <2>1, <2>2
<1> QED BY <1>8, <1>9, <1>16, <1>17, <1>18 DEF targets

LEMMA MirroredPair ==
  ASSUME NEW S, NEW row \in S \X S
  PROVE  row[1] \in S /\ row[2] \in S /\ Mirrored(row) = <<row[2], row[1]>>
<1>1. PICK p \in S, q \in S : row = <<p, q>>
  OBVIOUS
<1>2. row[1] = p /\ row[2] = q /\ Len(row) = 2
  BY <1>1
<1>3. Mirrored(row) = [c \in 1 .. 2 |-> row[3 - c]]
  <2>1. Mirrored(row) = [c \in 1 .. 2 |-> row[2 + 1 - c]]
    BY <1>2 DEF Mirrored
  <2> QED BY <2>1
<1> DEFINE r == Mirrored(row)
<1>4. DOMAIN r = 1 .. 2 /\ r[1] = q /\ r[2] = p /\ r \in Seq(S) /\ Len(r) = 2
  BY <1>2, <1>3
<1> HIDE DEF r
<1>5. r = <<q, p>>
  BY <1>4
<1> QED BY <1>2, <1>5 DEF r

LEMMA PairsGiven ==
  ASSUME ListsTypeOK
  PROVE  twoBody.built /\ coord = twoBody.from.coord =>
      \A row \in {twoBody.rows[k] : k \in DOMAIN twoBody.rows} :
        row[1] # row[2] =>
          LET given == GetTwoBodyEdgeInfoByIndex(<<row[1]>>)
          IN  \E k \in DOMAIN given : given[k] = Mirrored(row)
<1> SUFFICES ASSUME twoBody.built, coord = twoBody.from.coord,
                    NEW x \in DOMAIN twoBody.rows,
                    twoBody.rows[x][1] # twoBody.rows[x][2]
             PROVE  \E k \in DOMAIN GetTwoBodyEdgeInfoByIndex(<<twoBody.rows[x][1]>>) :
                      GetTwoBodyEdgeInfoByIndex(<<twoBody.rows[x][1]>>)[k]
                        = Mirrored(twoBody.rows[x])
  BY Zenon
<1> DEFINE row == twoBody.rows[x]
           S == DOMAIN coord
<1>1. row \in S \X S
  BY Zenon DEF ListsTypeOK, TableType
<1>2. PICK N \in Nat : S = 1 .. N
  <2>1. CASE coord = <<>>
    <3>1. DOMAIN coord = 1 .. 0
      BY <2>1
    <3> QED BY <3>1
  <2>2. CASE coord \in Coords
    BY <2>2, CoordsType
  <2> QED BY <2>1, <2>2 DEF ListsTypeOK
<1> HIDE DEF row
<1>3. row[1] \in S /\ row[2] \in S /\ Mirrored(row) = <<row[2], row[1]>>
  BY <1>1, MirroredPair
<1>4. row[1] # row[2]
  BY DEF row
<1>5. \E k \in DOMAIN GetTwoBodyEdgeInfoByIndex(<<row[1]>>) :
        GetTwoBodyEdgeInfoByIndex(<<row[1]>>)[k] = <<row[2], row[1]>>
  BY <1>2, <1>3, <1>4, OthersGiven
<1> QED BY <1>3, <1>5, Zenon DEF row

-----------------------------------------------------------------------------
(* One build *)

Particles(table) == DOMAIN table.from.coord

PairTable(table) ==
  /\ TableType(table, Particles(table) \X Particles(table))
  /\ table.built /\ ~table.from.periodic => EachOnce(table.rows, PairsOf(table.from))

SelfTable(table) ==
  /\ TableType(table, Particles(table) \X Particles(table))
  /\ table.built => SlicesOf(table)
  /\ table.built /\ Covered(table.from) => EachOnce(table.rows, PairsOf(table.from))

TripleTable(table) ==
  /\ TableType(table, Particles(table) \X Particles(table) \X Particles(table))
  /\ table.built => SlicesOf(table)
  /\ table.built /\ Covered(table.from) => EachOnce(table.rows, TriplesOf(table.from))

LEMMA CountedTables ==
  ASSUME NEW n \in Nat, NEW num \in [1 .. n -> Nat], num \in [1 .. n -> 0 .. SizeMod - 1],
         NEW old, NEW table, table = Counted(old, num)
  PROVE  PairTable(table) /\ SelfTable(table) /\ TripleTable(table)
<1>1. ~table.built
  BY CountedType
<1>2. \A rows : TableType(table, rows)
  BY CountedType
<1> QED BY <1>1, <1>2, Zenon DEF PairTable, SelfTable, TripleTable

LEMMA FewOrCrowded ==
  ASSUME NEW c \in Coords, ~Crowded(c)
  PROVE  Few(Len(c))
<1>1. Len(c) \in Nat /\ Len(c) >= 1
  BY CoordsType
<1> DEFINE q == Len(c) * Len(c) * Len(c)
<1>2. q \in Nat
  BY <1>1, Powers
<1>3. ~(q > MaxRows) /\ ~(q > IntMax)
  BY DEF Crowded
<1> HIDE DEF q
<1>4. q <= MaxRows /\ q <= IntMax
  BY <1>2, <1>3, Widths
<1> QED BY <1>1, <1>4 DEF Few, q

LEMMA ReachIsCovered ==
  ASSUME NEW N \in Nat, NEW c \in [1 .. N -> Sites], NEW flag \in BOOLEAN, NEW eps, NEW images
  PROVE  Covered(FromOf(c, flag, eps, images)) <=> Reach(c, flag, images, eps)
<1> DEFINE from == FromOf(c, flag, eps, images)
<1>1. /\ from.coord = c /\ from.periodic = flag /\ from.eps = eps /\ from.images = images
  BY FromFields
<1> HIDE DEF from
<1>2. Covered(from) <=> (flag => eps <= images /\ FitsDomain(c, images))
  BY <1>1 DEF Covered
<1> QED BY <1>2 DEF Reach, from

\* What a search with these settings leads to: pairs, of either class, and
\* triples, both tables or none.
PairsBuilt(c, flag, images, eps, lists) ==
  LET sources == SourceSites(c, flag, images)
      from == FromOf(c, flag, eps, images)
      entries == PairEntries(lists, sources)
  IN  /\ \A old : PairTable(Counted(old, PairNum(lists)))
      /\ Allocated(PairCount(lists)) /\ PairsFit(lists, entries) =>
           PairTable(Filled(PairNum(lists), entries, from))
      /\ Reach(c, flag, images, eps) /\ ~Crowded(c) =>
           /\ eps > 0 => Allocated(PairCount(lists)) /\ PairsFit(lists, entries)
           /\ eps = 0 => ~Allocated(PairCount(lists))
      /\ \A f : f.terms = ForceTerms(c, lists, sources) /\ f.from = from => ForceExact(f)

TriplesBuilt(c, flag, images, eps, lists) ==
  LET from == FromOf(c, flag, eps, images)
      num == TripleNum(lists)
      selfNum == PairNum(lists)
      entries == TripleEntries(lists)
      selves == SelfEntries(lists)
  IN  /\ \A old : TripleTable(Counted(old, num)) /\ SelfTable(Counted(old, selfNum))
      /\ Allocated(TotalOf(num)) /\ EntriesFit(num, TotalOf(num), entries) =>
           TripleTable(Filled(num, entries, from))
      /\ Allocated(TotalOf(selfNum)) /\ EntriesFit(selfNum, TotalOf(selfNum), selves) =>
           SelfTable(Filled(selfNum, selves, from))
      /\ Reach(c, flag, images, eps) /\ ~Crowded(c) =>
           /\ eps > 0 => /\ Allocated(TotalOf(num)) /\ Allocated(TotalOf(selfNum))
                         /\ EntriesFit(num, TotalOf(num), entries)
                         /\ EntriesFit(selfNum, TotalOf(selfNum), selves)
           /\ eps = 0 => ~Allocated(TotalOf(selfNum))

LEMMA PairBuild ==
  ASSUME NEW c \in Coords, NEW flag \in BOOLEAN, NEW images \in Nat, NEW eps \in Nat,
         NEW ascending \in BOOLEAN, NEW columns \in Nat, NEW search,
         search = TargetNeighborLists(c, SourceSites(c, flag, images), eps, ascending, columns)
  PROVE  /\ search.width \in Nat /\ ~search.overrun
         /\ PairsBuilt(c, flag, images, eps, search.lists)
<1> DEFINE N == Len(c)
           lists == search.lists
           sources == SourceSites(c, flag, images)
           from == FromOf(c, flag, eps, images)
           entries == PairEntries(lists, sources)
<1>1. N \in Nat /\ N >= 1 /\ DOMAIN c = 1 .. N /\ c \in [1 .. N -> Sites]
  BY CoordsType
<1> HIDE DEF N
<1>2. ~search.overrun /\ search.width \in Nat /\ ListShape(N, lists)
  <2>1. ~search.overrun
    BY <1>1, SearchLists
  <2>2. search.width \in Nat
    BY <1>1, SearchLists
  <2>3. ListShape(N, lists)
    BY <1>1, SearchLists
  <2> QED BY <2>1, <2>2, <2>3
<1>3. Reach(c, flag, images, eps) => AllExact(lists, c, flag, eps)
  BY <1>1, SearchLists
<1>4. PICK m : SourcesOf(N, m, sources)
  BY <1>1, SourcesShape
<1> HIDE DEF lists, sources, from, entries
<1>5. PairNum(lists) \in [1 .. N -> Nat] /\ PairNum(lists) \in [1 .. N -> 0 .. SizeMod - 1]
  BY <1>1, <1>2, PairNumType
<1>6. \A old : PairTable(Counted(old, PairNum(lists)))
  BY <1>1, <1>5, CountedTables
<1>7. ASSUME Allocated(PairCount(lists)), PairsFit(lists, entries)
      PROVE  PairTable(Filled(PairNum(lists), entries, from))
  <2> DEFINE table == Filled(PairNum(lists), entries, from)
  <2>1. EntriesFit(PairNum(lists), PairCount(lists), PairEntries(lists, sources))
    BY <1>7 DEF PairsFit, entries
  <2>2. table = Filled(PairNum(lists), PairEntries(lists, sources), FromOf(c, flag, eps, images))
    BY DEF entries, from
  <2> HIDE DEF table
  <2>3. /\ TableType(table, (1 .. N) \X (1 .. N))
        /\ table.from = FromOf(c, flag, eps, images)
        /\ ~flag => EachOnce(table.rows, PairsOf(FromOf(c, flag, eps, images)))
    <3>1. TableType(table, (1 .. N) \X (1 .. N))
      BY <1>1, <1>2, <1>3, <1>7, <2>1, <2>2, PairsFilled DEF sources
    <3>2. table.from = FromOf(c, flag, eps, images)
      BY <2>2 DEF Filled
    <3>3. ~flag => EachOnce(table.rows, PairsOf(FromOf(c, flag, eps, images)))
      BY <1>1, <1>2, <1>3, <1>7, <2>1, <2>2, PairsFilled DEF sources
    <3> QED BY <3>1, <3>2, <3>3
  <2>4. table.from.coord = c /\ table.from.periodic = flag
    BY <1>1, <2>3, FromFields
  <2>5. Particles(table) = 1 .. N
    BY <1>1, <2>4 DEF Particles
  <2>6. PairTable(table)
    BY <2>3, <2>4, <2>5, Zenon DEF PairTable
  <2> QED BY <2>6 DEF table
<1>8. ASSUME Reach(c, flag, images, eps), ~Crowded(c)
      PROVE  /\ eps > 0 => Allocated(PairCount(lists)) /\ PairsFit(lists, entries)
             /\ eps = 0 => ~Allocated(PairCount(lists))
  <2>1. Few(N)
    BY <1>8, FewOrCrowded DEF N
  <2>2. AllExact(lists, c, flag, eps)
    BY <1>3, <1>8
  <2>3. entries = PairEntries(lists, sources)
    BY DEF entries
  <2>4. eps > 0 => Allocated(PairCount(lists)) /\ PairsFit(lists, entries)
    BY <1>1, <1>2, <1>4, <2>1, <2>2, <2>3, PairOutcome
  <2>5. eps = 0 => ~Allocated(PairCount(lists))
    BY <1>1, <1>2, <1>4, <2>1, <2>2, PairOutcome
  <2> QED BY <2>4, <2>5
<1>9. \A f : f.terms = ForceTerms(c, lists, sources) /\ f.from = from => ForceExact(f)
  BY <1>1, <1>2, <1>3, ForcesFilled DEF sources, from
<1>10. PairsBuilt(c, flag, images, eps, lists)
  BY <1>6, <1>7, <1>8, <1>9, Zenon DEF PairsBuilt, sources, from, entries
<1> QED BY <1>2, <1>10 DEF lists

LEMMA TripleBuild ==
  ASSUME NEW c \in Coords, NEW flag \in BOOLEAN, NEW images \in Nat, NEW eps \in Nat,
         NEW ascending \in BOOLEAN, NEW columns \in Nat, NEW search,
         search = TargetNeighborLists(c, SourceSites(c, flag, images), eps, ascending, columns)
  PROVE  /\ search.width \in Nat /\ ~search.overrun
         /\ TriplesBuilt(c, flag, images, eps, search.lists)
<1> DEFINE N == Len(c)
           lists == search.lists
           from == FromOf(c, flag, eps, images)
           num == TripleNum(lists)
           selfNum == PairNum(lists)
           entries == TripleEntries(lists)
           selves == SelfEntries(lists)
<1>1. N \in Nat /\ N >= 1 /\ DOMAIN c = 1 .. N /\ c \in [1 .. N -> Sites]
  BY CoordsType
<1> HIDE DEF N
<1>2. ~search.overrun /\ search.width \in Nat /\ ListShape(N, lists)
  <2>1. ~search.overrun
    BY <1>1, SearchLists
  <2>2. search.width \in Nat
    BY <1>1, SearchLists
  <2>3. ListShape(N, lists)
    BY <1>1, SearchLists
  <2> QED BY <2>1, <2>2, <2>3
<1>3. Reach(c, flag, images, eps) => AllExact(lists, c, flag, eps)
  BY <1>1, SearchLists
<1> HIDE DEF lists
<1>4. /\ num = TripleNum(lists) /\ selfNum = PairNum(lists)
      /\ entries = TripleEntries(lists) /\ selves = SelfEntries(lists)
  OBVIOUS
<1> HIDE DEF from, num, selfNum, entries, selves
<1>5. selfNum \in [1 .. N -> Nat] /\ selfNum \in [1 .. N -> 0 .. SizeMod - 1]
  BY <1>1, <1>2, <1>4, PairNumType
<1>6. num \in [1 .. N -> Nat] /\ num \in [1 .. N -> 0 .. SizeMod - 1]
  BY <1>1, <1>2, <1>4, TripleNumType
<1>7. \A old : TripleTable(Counted(old, num)) /\ SelfTable(Counted(old, selfNum))
  BY <1>1, <1>5, <1>6, CountedTables
<1>8. from.coord = c /\ from.periodic = flag
  BY <1>1, FromFields DEF from
<1>9. Covered(from) <=> Reach(c, flag, images, eps)
  BY <1>1, ReachIsCovered DEF from
<1>10. ASSUME Allocated(TotalOf(num)), EntriesFit(num, TotalOf(num), entries)
       PROVE  TripleTable(Filled(num, entries, from))
  <2> DEFINE table == Filled(num, entries, from)
  <2>1. table = Filled(TripleNum(lists), TripleEntries(lists), FromOf(c, flag, eps, images))
    BY <1>4 DEF from
  <2>2. EntriesFit(TripleNum(lists), TotalOf(num), TripleEntries(lists))
    BY <1>4, <1>10
  <2> HIDE DEF table
  <2>3. /\ TableType(table, (1 .. N) \X (1 .. N) \X (1 .. N)) /\ TableHeld(N, table)
        /\ table.from = FromOf(c, flag, eps, images)
        /\ Reach(c, flag, images, eps) =>
             EachOnce(table.rows, TriplesOf(FromOf(c, flag, eps, images)))
    <3>1. TableType(table, (1 .. N) \X (1 .. N) \X (1 .. N))
      BY <1>1, <1>2, <1>3, <1>10, <2>1, <2>2, TriplesFilled
    <3>2. TableHeld(N, table)
      BY <1>1, <1>2, <1>3, <1>10, <2>1, <2>2, TriplesFilled
    <3>3. table.from = FromOf(c, flag, eps, images)
      BY <2>1 DEF Filled
    <3>4. Reach(c, flag, images, eps) =>
            EachOnce(table.rows, TriplesOf(FromOf(c, flag, eps, images)))
      BY <1>1, <1>2, <1>3, <1>10, <2>1, <2>2, TriplesFilled
    <3> QED BY <3>1, <3>2, <3>3, <3>4
  <2>4. table.from = from
    BY <2>3 DEF from
  <2>5. Particles(table) = 1 .. N
    BY <1>1, <1>8, <2>4 DEF Particles
  <2>6. SlicesOf(table)
    BY <1>1, <2>3, SlicesHold
  <2>7. TripleTable(table)
    BY <1>9, <2>3, <2>4, <2>5, <2>6, Zenon DEF TripleTable, from
  <2> QED BY <2>7 DEF table
<1>11. ASSUME Allocated(TotalOf(selfNum)), EntriesFit(selfNum, TotalOf(selfNum), selves)
       PROVE  SelfTable(Filled(selfNum, selves, from))
  <2> DEFINE table == Filled(selfNum, selves, from)
  <2>1. table = Filled(PairNum(lists), SelfEntries(lists), FromOf(c, flag, eps, images))
    BY <1>4 DEF from
  <2>2. EntriesFit(PairNum(lists), TotalOf(selfNum), SelfEntries(lists))
    BY <1>4, <1>11
  <2> HIDE DEF table
  <2>3. /\ TableType(table, (1 .. N) \X (1 .. N)) /\ TableHeld(N, table)
        /\ table.from = FromOf(c, flag, eps, images)
        /\ Reach(c, flag, images, eps) =>
             EachOnce(table.rows, PairsOf(FromOf(c, flag, eps, images)))
    <3>1. TableType(table, (1 .. N) \X (1 .. N))
      BY <1>1, <1>2, <1>3, <1>11, <2>1, <2>2, SelvesFilled
    <3>2. TableHeld(N, table)
      BY <1>1, <1>2, <1>3, <1>11, <2>1, <2>2, SelvesFilled
    <3>3. table.from = FromOf(c, flag, eps, images)
      BY <2>1 DEF Filled
    <3>4. Reach(c, flag, images, eps) =>
            EachOnce(table.rows, PairsOf(FromOf(c, flag, eps, images)))
      BY <1>1, <1>2, <1>3, <1>11, <2>1, <2>2, SelvesFilled
    <3> QED BY <3>1, <3>2, <3>3, <3>4
  <2>4. table.from = from
    BY <2>3 DEF from
  <2>5. Particles(table) = 1 .. N
    BY <1>1, <1>8, <2>4 DEF Particles
  <2>6. SlicesOf(table)
    BY <1>1, <2>3, SlicesHold
  <2>7. SelfTable(table)
    BY <1>9, <2>3, <2>4, <2>5, <2>6, Zenon DEF SelfTable, from
  <2> QED BY <2>7 DEF table
<1>12. ASSUME Reach(c, flag, images, eps), ~Crowded(c)
       PROVE  /\ eps > 0 => /\ Allocated(TotalOf(num)) /\ Allocated(TotalOf(selfNum))
                            /\ EntriesFit(num, TotalOf(num), entries)
                            /\ EntriesFit(selfNum, TotalOf(selfNum), selves)
              /\ eps = 0 => ~Allocated(TotalOf(selfNum))
  <2>1. Few(N)
    BY <1>12, FewOrCrowded DEF N
  <2>2. AllExact(lists, c, flag, eps)
    BY <1>3, <1>12
  <2>3. eps > 0 =>
              /\ Allocated(TotalOf(TripleNum(lists))) /\ Allocated(TotalOf(PairNum(lists)))
              /\ EntriesFit(TripleNum(lists), TotalOf(TripleNum(lists)), TripleEntries(lists))
              /\ EntriesFit(PairNum(lists), TotalOf(PairNum(lists)), SelfEntries(lists))
    BY <1>1, <1>2, <2>1, <2>2, TripleOutcome
  <2>4. eps = 0 => ~Allocated(TotalOf(PairNum(lists)))
    BY <1>1, <1>2, <2>1, <2>2, TripleOutcome
  <2> QED BY <1>4, <2>3, <2>4, Zenon
<1>13. TriplesBuilt(c, flag, images, eps, lists)
  BY <1>7, <1>10, <1>11, <1>12, Zenon
     DEF TriplesBuilt, from, num, selfNum, entries, selves
<1> QED BY <1>2, <1>13 DEF lists

-----------------------------------------------------------------------------
(* The invariant *)

SettingsOK ==
  /\ object \in {"NeighborLists", "PotentialForce"}
  /\ periodic \in BOOLEAN /\ domainSet \in BOOLEAN
  /\ epsilon2 \in Radii \cup {0} /\ epsilon3 \in Radii \cup {0}
  /\ coord \in Coords \cup {<<>>}
  /\ width \in Nat
  /\ force.built \in BOOLEAN
  /\ status \in {"ok", "failed", "undefined"}
  /\ calls \in 0 .. MaxCalls

TablesHold ==
  PairTable(twoBody) /\ SelfTable(threeSelf) /\ TripleTable(threeBody) /\ ForceExact(force)

ListsInv == SettingsOK /\ TablesHold /\ StaysDefined

LEMMA ListsInvTypes ==
  ASSUME SettingsOK, TablesHold
  PROVE  ListsTypeOK
<1>1. /\ TableType(twoBody, Particles(twoBody) \X Particles(twoBody))
      /\ TableType(threeSelf, Particles(threeSelf) \X Particles(threeSelf))
      /\ TableType(threeBody, Particles(threeBody) \X Particles(threeBody)
                                \X Particles(threeBody))
  BY Zenon DEF TablesHold, PairTable, SelfTable, TripleTable
<1> QED BY <1>1, Zenon DEF SettingsOK, ListsTypeOK, Particles

LEMMA ListsInvEdges ==
  ASSUME SettingsOK, TablesHold
  PROVE  EdgesExact
<1>1. ListsTypeOK
  BY ListsInvTypes
<1>2. WholeTables
  BY Zenon DEF TablesHold, PairTable, SelfTable, TripleTable, WholeTables, GetEdgeInfo
<1>3. \A table \in {threeBody, threeSelf} :
       table.built =>
       \A targets \in TargetLists(table) :
        LET slice == GetEdgeInfoByIndex(table, targets)
            rows  == OfTargets(table, targets)
        IN  slice = [k \in DOMAIN rows |-> Mirrored(rows[k])]
  <2>1. \A table \in {threeBody, threeSelf} : table.built => SlicesOf(table)
    BY Zenon DEF TablesHold, SelfTable, TripleTable
  <2> QED BY <2>1, Zenon DEF SlicesOf
<1>4. SlicesMatch
  BY <1>1, <1>3, PairsGiven, Zenon DEF SlicesMatch
<1> QED BY <1>2, <1>4 DEF EdgesExact

LEMMA ListsInvForces ==
  ASSUME TablesHold
  PROVE  ForcesExact
BY Zenon DEF TablesHold, ForceExact, ForcesExact

LEMMA EpsilonType ==
  ASSUME SettingsOK
  PROVE  epsilon2 \in Nat /\ epsilon3 \in Nat
BY ListsAssumption DEF SettingsOK

LEMMA NoTableHolds == PairTable(NoTable) /\ SelfTable(NoTable) /\ TripleTable(NoTable)
<1>1. ~NoTable.built /\ NoTable.built \in BOOLEAN /\ NoTable.num = <<>> /\ NoTable.offset = <<>>
  BY DEF NoTable
<1>2. <<>> \in Seq(0 .. SizeMod - 1)
  OBVIOUS
<1>3. \A rows : TableType(NoTable, rows)
  BY <1>1, <1>2 DEF TableType
<1> QED BY <1>1, <1>3, Zenon DEF PairTable, SelfTable, TripleTable

LEMMA ListsInvInit ==
  ASSUME ListsInit
  PROVE  ListsInv
<1>1. TablesHold
  <2>1. PairTable(twoBody) /\ SelfTable(threeSelf) /\ TripleTable(threeBody)
    BY NoTableHolds, Zenon DEF ListsInit
  <2>2. ~force.built
    BY DEF ListsInit, NoForce
  <2>3. ForceExact(force)
    BY <2>2, Zenon DEF ForceExact
  <2> QED BY <2>1, <2>3 DEF TablesHold
<1>2. SettingsOK
  <2>1. periodic \in BOOLEAN /\ domainSet \in BOOLEAN /\ force.built \in BOOLEAN
    BY DEF ListsInit, NoForce
  <2>2. width \in Nat /\ calls \in 0 .. MaxCalls
    BY ListsAssumption DEF ListsInit
  <2> QED BY <2>1, <2>2, Zenon DEF ListsInit, SettingsOK
<1>3. StaysDefined
  BY DEF ListsInit, StaysDefined
<1> QED BY <1>1, <1>2, <1>3 DEF ListsInv

-----------------------------------------------------------------------------
(* The steps *)

LEMMA CallCounts ==
  ASSUME SettingsOK, Call
  PROVE  object' \in {"NeighborLists", "PotentialForce"} /\ calls' \in 0 .. MaxCalls
BY ListsAssumption DEF SettingsOK, Call

LEMMA TablesKept ==
  ASSUME TablesHold, UNCHANGED tables
  PROVE  TablesHold'
BY DEF TablesHold, tables

SettingsNext ==
  \/ \E flag \in BOOLEAN : SetPeriodic(flag)
  \/ SetDomain
  \/ \E eps \in Radii : SetTwoBodyEpsilon(eps)
  \/ \E eps \in Radii : SetThreeBodyEpsilon(eps)
  \/ \E c \in Coords : UpdateCoord(c)

LEMMA SettingsKeep ==
  ASSUME ListsInv, SettingsNext
  PROVE  ListsInv'
<1> USE DEF ListsInv
<1>1. UNCHANGED tables /\ status' = "ok" /\ Call
  BY DEF SettingsNext, SetPeriodic, SetDomain, SetTwoBodyEpsilon, SetThreeBodyEpsilon, UpdateCoord, tables
<1>2. TablesHold'
  BY <1>1, TablesKept
<1>3. object' \in {"NeighborLists", "PotentialForce"} /\ calls' \in 0 .. MaxCalls
  BY <1>1, CallCounts
<1>4. force'.built = force.built
  BY <1>1 DEF tables
<1>5. SettingsOK'
  <2> USE DEF SettingsNext, SetPeriodic, SetDomain, SetTwoBodyEpsilon, SetThreeBodyEpsilon, UpdateCoord,
              settings
  <2>1. periodic' \in BOOLEAN /\ domainSet' \in BOOLEAN
    <3>1. periodic \in BOOLEAN /\ domainSet \in BOOLEAN
      BY DEF SettingsOK
    <3>2. (periodic' \in BOOLEAN \/ periodic' = periodic) /\ domainSet' \in {domainSet, TRUE}
      <4>1. TRUE \in BOOLEAN
        OBVIOUS
      <4> QED BY <4>1, Zenon
    <3> QED BY <3>1, <3>2
  <2>2. epsilon2' \in Radii \cup {0} /\ epsilon3' \in Radii \cup {0}
    BY DEF SettingsOK
  <2>3. coord' \in Coords \cup {<<>>} /\ width' \in Nat
    BY DEF SettingsOK
  <2>4. force'.built \in BOOLEAN
    BY <1>4 DEF SettingsOK
  <2> QED BY <1>1, <1>3, <2>1, <2>2, <2>3, <2>4, Zenon DEF SettingsOK
<1>6. StaysDefined'
  BY <1>1 DEF StaysDefined
<1> QED BY <1>2, <1>5, <1>6

\* A search without coordinates or without a domain.
LEMMA UndefinedSearch ==
  ASSUME NEW c \in Coords \cup {<<>>}, ~SearchDefined(c), settings' = settings, coord' = c,
         status' = "undefined"
  PROVE  StaysDefined'
<1>1. c = <<>> \/ (periodic /\ ~domainSet)
  BY DEF SearchDefined
<1>2. coord' = <<>> \/ (periodic' /\ ~domainSet')
  BY <1>1 DEF settings
<1> QED BY <1>2 DEF StaysDefined

\* The last part of a build: what it may end in.
LEMMA DefinedBuild ==
  ASSUME NEW c \in Coords, SettingsOK, settings' = settings, coord' = c, NEW eps \in Nat,
         eps = epsilon2 \/ (eps = epsilon3 /\ object' = "NeighborLists"),
         status' = "undefined" =>
           ~(Reach(c, periodic, epsilon2, eps) /\ ~Crowded(c)),
         status' = "failed" =>
           ~(Reach(c, periodic, epsilon2, eps) /\ ~Crowded(c)) \/ eps = 0
  PROVE  StaysDefined'
<1>1. /\ periodic' = periodic /\ epsilon2' = epsilon2 /\ epsilon3' = epsilon3
      /\ domainSet' = domainSet
  BY DEF settings
<1>2. epsilon2 \in Nat /\ epsilon3 \in Nat /\ periodic \in BOOLEAN
  BY EpsilonType DEF SettingsOK
<1>3. ASSUME ~(Reach(c, periodic, epsilon2, eps) /\ ~Crowded(c))
      PROVE  Crowded(c) \/ (periodic /\ (epsilon3 > epsilon2 \/ ~FitsDomain(c, epsilon2)))
  <2>1. Reach(c, periodic, epsilon2, eps)
          <=> (periodic => eps <= epsilon2 /\ FitsDomain(c, epsilon2))
    BY Zenon DEF Reach
  <2> QED BY <1>2, <1>3, <2>1
<1>4. status' = "undefined" =>
        Crowded(c) \/ (periodic /\ (epsilon3 > epsilon2 \/ ~FitsDomain(c, epsilon2)))
  BY <1>3
<1>5. status' = "failed" =>
        \/ Crowded(c) \/ epsilon2 = 0 \/ (object' = "NeighborLists" /\ epsilon3 = 0)
        \/ (periodic /\ (epsilon3 > epsilon2 \/ ~FitsDomain(c, epsilon2)))
  BY <1>3
<1>6. (Crowded(coord))' <=> Crowded(c)
  BY Zenon DEF Crowded
<1>7. (FitsDomain(coord, epsilon2))' <=> FitsDomain(c, epsilon2)
  BY <1>1, Zenon DEF FitsDomain
<1> QED BY <1>1, <1>4, <1>5, <1>6, <1>7, Zenon DEF StaysDefined

LEMMA FromIs ==
  ASSUME NEW c, NEW eps
  PROVE  From(c, eps) = FromOf(c, periodic, eps, epsilon2)
BY Zenon DEF From, FromOf

LEMMA TwoBodyKeeps ==
  ASSUME ListsInv, NEW ascending \in BOOLEAN, BuildTwoBodyInfo(ascending)
  PROVE  ListsInv'
<1>1. SettingsOK /\ TablesHold /\ Call /\ settings' = settings /\ coord' = coord
  BY DEF ListsInv, BuildTwoBodyInfo
<1>2. object' \in {"NeighborLists", "PotentialForce"} /\ calls' \in 0 .. MaxCalls
      /\ object' = "NeighborLists"
  <2>1. object' = object /\ object = "NeighborLists"
    BY DEF BuildTwoBodyInfo, Call
  <2> QED BY <1>1, <2>1, CallCounts
<1>3. /\ periodic' \in BOOLEAN /\ domainSet' \in BOOLEAN
      /\ epsilon2' \in Radii \cup {0} /\ epsilon3' \in Radii \cup {0}
      /\ coord' \in Coords \cup {<<>>}
  BY <1>1 DEF SettingsOK, settings
<1>4. CASE ~SearchDefined(coord)
  <2>1. status' = "undefined" /\ width' = width /\ tables' = tables
    BY <1>4, Zenon DEF BuildTwoBodyInfo
  <2>2. TablesHold'
    BY <1>1, <2>1, TablesKept
  <2>3. force' = force
    BY <2>1 DEF tables
  <2>4. SettingsOK'
    BY <1>1, <1>2, <1>3, <2>1, <2>3 DEF SettingsOK
  <2>5. coord \in Coords \cup {<<>>}
    BY <1>1 DEF SettingsOK
  <2>6. StaysDefined'
    BY <1>1, <1>4, <2>1, <2>5, UndefinedSearch
  <2> QED BY <2>2, <2>4, <2>6 DEF ListsInv
<1>5. CASE SearchDefined(coord)
  <2>1. PICK search \in {Search(coord, epsilon2, ascending, width)} :
          LET num     == PairNum(search.lists)
              count   == PairCount(search.lists)
              entries == PairEntries(search.lists, Sources(coord))
              fit     == ~search.overrun /\ EntriesFit(num, count, entries)
          IN  /\ width' = search.width
              /\ twoBody' = IF Allocated(count) /\ fit
                            THEN Filled(num, entries, From(coord, epsilon2))
                            ELSE Counted(twoBody, num)
              /\ status' = Outcome(Allocated(count), fit)
              /\ UNCHANGED <<threeBody, threeSelf, force>>
    BY <1>5, Zenon DEF BuildTwoBodyInfo
  <2> DEFINE lists == search.lists
             entries == PairEntries(lists, Sources(coord))
             from == From(coord, epsilon2)
             num == PairNum(lists)
             count == PairCount(lists)
  <2>2. /\ coord \in Coords /\ periodic \in BOOLEAN /\ epsilon2 \in Nat /\ width \in Nat
        /\ force.built \in BOOLEAN
    BY <1>1, <1>5, EpsilonType DEF SettingsOK, SearchDefined
  <2>3. Sources(coord) = SourceSites(coord, periodic, epsilon2)
    BY DEF Sources
  <2>4. search = TargetNeighborLists(coord, Sources(coord), epsilon2, ascending, width)
    BY DEF Search
  <2>5. from = FromOf(coord, periodic, epsilon2, epsilon2)
    BY FromIs
  <2>6. /\ search.width \in Nat /\ ~search.overrun
        /\ \A old : PairTable(Counted(old, num))
        /\ Allocated(count) /\ PairsFit(lists, entries) => PairTable(Filled(num, entries, from))
        /\ Reach(coord, periodic, epsilon2, epsilon2) /\ ~Crowded(coord) =>
              /\ epsilon2 > 0 => Allocated(count) /\ PairsFit(lists, entries)
              /\ epsilon2 = 0 => ~Allocated(count)
    <3>1. search.width \in Nat /\ ~search.overrun
      BY <2>2, <2>3, <2>4, PairBuild
    <3>2. PairsBuilt(coord, periodic, epsilon2, epsilon2, lists)
      BY <2>2, <2>3, <2>4, PairBuild
    <3>3. Sources(coord) = SourceSites(coord, periodic, epsilon2)
          /\ From(coord, epsilon2) = FromOf(coord, periodic, epsilon2, epsilon2)
      BY <2>3, FromIs
    <3> HIDE DEF lists
    <3> QED BY <3>1, <3>2, <3>3, Zenon DEF PairsBuilt
  <2>7. PairsFit(lists, entries) <=> EntriesFit(num, count, entries)
    BY Zenon DEF PairsFit
  <2>8. /\ width' = search.width
        /\ twoBody' = IF Allocated(count) /\ PairsFit(lists, entries)
                      THEN Filled(num, entries, from) ELSE Counted(twoBody, num)
        /\ UNCHANGED <<threeBody, threeSelf, force>>
    BY <2>1, <2>6, <2>7
  <2>9. status' = IF ~Allocated(count) THEN "failed"
                  ELSE IF PairsFit(lists, entries) THEN "ok" ELSE "undefined"
    BY <2>1, <2>6, <2>7, Zenon DEF Outcome
  <2> HIDE DEF lists, entries, from, num, count
  <2>10. PairTable(twoBody')
    BY <2>6, <2>8
  <2>11. TablesHold'
    BY <1>1, <2>8, <2>10 DEF TablesHold
  <2>12. SettingsOK'
    BY <1>2, <1>3, <2>2, <2>6, <2>8, <2>9 DEF SettingsOK
  <2>13. StaysDefined'
    <3>1. status' = "undefined" =>
            ~(Reach(coord, periodic, epsilon2, epsilon2) /\ ~Crowded(coord))
      BY <2>2, <2>6, <2>9
    <3>2. status' = "failed" =>
            ~(Reach(coord, periodic, epsilon2, epsilon2) /\ ~Crowded(coord)) \/ epsilon2 = 0
      BY <2>2, <2>6, <2>9
    <3> QED BY <1>1, <2>2, <3>1, <3>2, DefinedBuild
  <2> QED BY <2>11, <2>12, <2>13 DEF ListsInv
<1> QED BY <1>4, <1>5

LEMMA ThreeBodyKeeps ==
  ASSUME ListsInv, NEW ascending \in BOOLEAN, BuildThreeBodyInfo(ascending)
  PROVE  ListsInv'
<1>1. SettingsOK /\ TablesHold /\ Call /\ settings' = settings /\ coord' = coord
  BY DEF ListsInv, BuildThreeBodyInfo
<1>2. object' \in {"NeighborLists", "PotentialForce"} /\ calls' \in 0 .. MaxCalls
      /\ object' = "NeighborLists"
  <2>1. object' = object /\ object = "NeighborLists"
    BY DEF BuildThreeBodyInfo, Call
  <2> QED BY <1>1, <2>1, CallCounts
<1>3. /\ periodic' \in BOOLEAN /\ domainSet' \in BOOLEAN
      /\ epsilon2' \in Radii \cup {0} /\ epsilon3' \in Radii \cup {0}
      /\ coord' \in Coords \cup {<<>>}
  BY <1>1 DEF SettingsOK, settings
<1>4. CASE ~SearchDefined(coord)
  <2>1. status' = "undefined" /\ width' = width /\ tables' = tables
    BY <1>4, Zenon DEF BuildThreeBodyInfo
  <2>2. TablesHold'
    BY <1>1, <2>1, TablesKept
  <2>3. force' = force
    BY <2>1 DEF tables
  <2>4. SettingsOK'
    BY <1>1, <1>2, <1>3, <2>1, <2>3 DEF SettingsOK
  <2>5. coord \in Coords \cup {<<>>}
    BY <1>1 DEF SettingsOK
  <2>6. StaysDefined'
    BY <1>1, <1>4, <2>1, <2>5, UndefinedSearch
  <2> QED BY <2>2, <2>4, <2>6 DEF ListsInv
<1>5. CASE SearchDefined(coord)
  <2>1. PICK search \in {Search(coord, epsilon3, ascending, width)} :
          LET num       == TripleNum(search.lists)
              selfNum   == PairNum(search.lists)
              entries   == TripleEntries(search.lists)
              selves    == SelfEntries(search.lists)
              allocated == Allocated(TotalOf(num)) /\ Allocated(TotalOf(selfNum))
              fit       == /\ ~search.overrun
                           /\ EntriesFit(num, TotalOf(num), entries)
                           /\ EntriesFit(selfNum, TotalOf(selfNum), selves)
          IN  /\ width' = search.width
              /\ threeBody' = IF allocated /\ fit
                              THEN Filled(num, entries, From(coord, epsilon3))
                              ELSE Counted(threeBody, num)
              /\ threeSelf' = IF allocated /\ fit
                              THEN Filled(selfNum, selves, From(coord, epsilon3))
                              ELSE Counted(threeSelf, selfNum)
              /\ status' = Outcome(allocated, fit)
              /\ UNCHANGED <<twoBody, force>>
    BY <1>5, Zenon DEF BuildThreeBodyInfo
  <2> DEFINE lists == search.lists
             num == TripleNum(lists)
             selfNum == PairNum(lists)
             entries == TripleEntries(lists)
             selves == SelfEntries(lists)
             from == From(coord, epsilon3)
             room == Allocated(TotalOf(num))
             roomSelf == Allocated(TotalOf(selfNum))
             fit == EntriesFit(num, TotalOf(num), entries)
             fitSelf == EntriesFit(selfNum, TotalOf(selfNum), selves)
             reach == Reach(coord, periodic, epsilon2, epsilon3) /\ ~Crowded(coord)
  <2>2. /\ coord \in Coords /\ periodic \in BOOLEAN /\ epsilon2 \in Nat /\ epsilon3 \in Nat
        /\ width \in Nat /\ force.built \in BOOLEAN
    BY <1>1, <1>5, EpsilonType DEF SettingsOK, SearchDefined
  <2>3. search = TargetNeighborLists(coord, SourceSites(coord, periodic, epsilon2), epsilon3,
                                     ascending, width)
    BY DEF Search, Sources
  <2>4. from = FromOf(coord, periodic, epsilon3, epsilon2)
    BY FromIs
  <2>5. /\ search.width \in Nat /\ ~search.overrun
        /\ \A old : TripleTable(Counted(old, num)) /\ SelfTable(Counted(old, selfNum))
        /\ room /\ fit => TripleTable(Filled(num, entries, from))
        /\ roomSelf /\ fitSelf => SelfTable(Filled(selfNum, selves, from))
        /\ reach => /\ epsilon3 > 0 => room /\ roomSelf /\ fit /\ fitSelf
                    /\ epsilon3 = 0 => ~roomSelf
    <3>1. search.width \in Nat /\ ~search.overrun
      BY <2>2, <2>3, TripleBuild
    <3>2. TriplesBuilt(coord, periodic, epsilon2, epsilon3, lists)
      BY <2>2, <2>3, TripleBuild
    <3> HIDE DEF lists
    <3> QED BY <2>4, <3>1, <3>2, Zenon DEF TriplesBuilt
  <2>6. /\ width' = search.width
        /\ threeBody' = IF room /\ roomSelf /\ fit /\ fitSelf
                        THEN Filled(num, entries, from) ELSE Counted(threeBody, num)
        /\ threeSelf' = IF room /\ roomSelf /\ fit /\ fitSelf
                        THEN Filled(selfNum, selves, from) ELSE Counted(threeSelf, selfNum)
        /\ UNCHANGED <<twoBody, force>>
    BY <2>1, <2>5, Zenon
  <2>7. status' = IF ~(room /\ roomSelf) THEN "failed"
                  ELSE IF fit /\ fitSelf THEN "ok" ELSE "undefined"
    BY <2>1, <2>5, Zenon DEF Outcome
  <2> HIDE DEF lists, num, selfNum, entries, selves, from, room, roomSelf, fit, fitSelf
  <2>8. TripleTable(threeBody') /\ SelfTable(threeSelf')
    BY <2>5, <2>6
  <2>9. TablesHold'
    BY <1>1, <2>6, <2>8 DEF TablesHold
  <2>10. SettingsOK'
    BY <1>2, <1>3, <2>2, <2>5, <2>6, <2>7 DEF SettingsOK
  <2>11. StaysDefined'
    <3>1. status' = "undefined" => ~reach
      BY <2>2, <2>5, <2>7
    <3>2. status' = "failed" => ~reach \/ epsilon3 = 0
      BY <2>2, <2>5, <2>7
    <3> QED BY <1>1, <1>2, <2>2, <3>1, <3>2, DefinedBuild
  <2> QED BY <2>9, <2>10, <2>11 DEF ListsInv
<1> QED BY <1>4, <1>5

LEMMA ForceKeeps ==
  ASSUME ListsInv, NEW c \in Coords, NEW ascending \in BOOLEAN, GetPotentialForce(c, ascending)
  PROVE  ListsInv'
<1>1. SettingsOK /\ TablesHold /\ Call /\ settings' = settings /\ coord' = c
  BY DEF ListsInv, GetPotentialForce
<1>2. object' \in {"NeighborLists", "PotentialForce"} /\ calls' \in 0 .. MaxCalls
  BY <1>1, CallCounts
<1>3. /\ periodic' \in BOOLEAN /\ domainSet' \in BOOLEAN
      /\ epsilon2' \in Radii \cup {0} /\ epsilon3' \in Radii \cup {0}
      /\ coord' \in Coords \cup {<<>>}
  BY <1>1 DEF SettingsOK, settings
<1>4. CASE ~SearchDefined(c)
  <2>1. status' = "undefined" /\ width' = 2 /\ tables' = tables
    BY <1>4, Zenon DEF GetPotentialForce
  <2>2. TablesHold'
    BY <1>1, <2>1, TablesKept
  <2>3. force' = force
    BY <2>1 DEF tables
  <2>4. SettingsOK'
    BY <1>1, <1>2, <1>3, <2>1, <2>3 DEF SettingsOK
  <2>5. StaysDefined'
    BY <1>1, <1>4, <2>1, UndefinedSearch
  <2> QED BY <2>2, <2>4, <2>5 DEF ListsInv
<1>5. CASE SearchDefined(c)
  <2>1. PICK search \in {Search(c, epsilon2, ascending, 2)} :
          LET num     == PairNum(search.lists)
              count   == PairCount(search.lists)
              entries == PairEntries(search.lists, Sources(c))
              fit     == ~search.overrun /\ EntriesFit(num, count, entries)
          IN  /\ width' = search.width
              /\ twoBody' = IF Allocated(count) /\ fit
                            THEN Filled(num, entries, From(c, epsilon2))
                            ELSE Counted(twoBody, num)
              /\ force' = IF Allocated(count)
                          THEN [built |-> fit,
                                terms |-> ForceTerms(c, search.lists, Sources(c)),
                                from |-> From(c, epsilon2)]
                          ELSE force
              /\ status' = Outcome(Allocated(count), fit)
              /\ UNCHANGED <<threeBody, threeSelf>>
    BY <1>5, Zenon DEF GetPotentialForce
  <2> DEFINE lists == search.lists
             entries == PairEntries(lists, Sources(c))
             from == From(c, epsilon2)
             num == PairNum(lists)
             count == PairCount(lists)
             terms == ForceTerms(c, lists, Sources(c))
  <2>2. periodic \in BOOLEAN /\ epsilon2 \in Nat /\ force.built \in BOOLEAN
    BY <1>1, EpsilonType DEF SettingsOK
  <2>3. Sources(c) = SourceSites(c, periodic, epsilon2)
    BY DEF Sources
  <2>4. search = TargetNeighborLists(c, Sources(c), epsilon2, ascending, 2)
    BY DEF Search
  <2>5. from = FromOf(c, periodic, epsilon2, epsilon2)
    BY FromIs
  <2>6. /\ search.width \in Nat /\ ~search.overrun
        /\ \A old : PairTable(Counted(old, num))
        /\ Allocated(count) /\ PairsFit(lists, entries) => PairTable(Filled(num, entries, from))
        /\ Reach(c, periodic, epsilon2, epsilon2) /\ ~Crowded(c) =>
              /\ epsilon2 > 0 => Allocated(count) /\ PairsFit(lists, entries)
              /\ epsilon2 = 0 => ~Allocated(count)
        /\ \A f : f.terms = terms /\ f.from = from => ForceExact(f)
    <3>1. search.width \in Nat /\ ~search.overrun
      BY <2>2, <2>3, <2>4, PairBuild
    <3>2. PairsBuilt(c, periodic, epsilon2, epsilon2, lists)
      BY <2>2, <2>3, <2>4, PairBuild
    <3>3. Sources(c) = SourceSites(c, periodic, epsilon2)
          /\ From(c, epsilon2) = FromOf(c, periodic, epsilon2, epsilon2)
      BY <2>3, FromIs
    <3> HIDE DEF lists
    <3> QED BY <3>1, <3>2, <3>3, Zenon DEF PairsBuilt
  <2>7. PairsFit(lists, entries) <=> EntriesFit(num, count, entries)
    BY Zenon DEF PairsFit
  <2>8. /\ width' = search.width
        /\ twoBody' = IF Allocated(count) /\ PairsFit(lists, entries)
                      THEN Filled(num, entries, from) ELSE Counted(twoBody, num)
        /\ UNCHANGED <<threeBody, threeSelf>>
    BY <2>1, <2>6, <2>7
  <2>9. status' = IF ~Allocated(count) THEN "failed"
                  ELSE IF PairsFit(lists, entries) THEN "ok" ELSE "undefined"
    BY <2>1, <2>6, <2>7, Zenon DEF Outcome
  <2>10. ForceExact(force') /\ force'.built \in BOOLEAN
    <3> DEFINE fit == ~search.overrun /\ EntriesFit(num, count, entries)
               new == [built |-> fit, terms |-> terms, from |-> from]
    <3>1. force' = new \/ force' = force
      BY <2>1, Zenon
    <3>2. new.terms = terms /\ new.from = from /\ new.built \in BOOLEAN
      <4>1. fit \in BOOLEAN
        BY Zenon
      <4> HIDE DEF fit, terms, from
      <4>2. new.terms = terms /\ new.from = from /\ new.built = fit
        BY Zenon
      <4> QED BY <4>1, <4>2, Zenon
    <3> HIDE DEF new
    <3>3. ForceExact(new)
      BY <2>6, <3>2
    <3>4. ForceExact(force) /\ force.built \in BOOLEAN
      BY <1>1, <2>2 DEF TablesHold
    <3> QED BY <3>1, <3>2, <3>3, <3>4, Zenon
  <2> HIDE DEF lists, entries, from, num, count, terms
  <2>11. PairTable(twoBody')
    BY <2>6, <2>8
  <2>12. TablesHold'
    BY <1>1, <2>8, <2>10, <2>11 DEF TablesHold
  <2>13. SettingsOK'
    BY <1>2, <1>3, <2>2, <2>6, <2>8, <2>9, <2>10 DEF SettingsOK
  <2>14. StaysDefined'
    <3>1. status' = "undefined" =>
            ~(Reach(c, periodic, epsilon2, epsilon2) /\ ~Crowded(c))
      BY <2>2, <2>6, <2>9
    <3>2. status' = "failed" =>
            ~(Reach(c, periodic, epsilon2, epsilon2) /\ ~Crowded(c)) \/ epsilon2 = 0
      BY <2>2, <2>6, <2>9
    <3> QED BY <1>1, <2>2, <3>1, <3>2, DefinedBuild
  <2> QED BY <2>12, <2>13, <2>14 DEF ListsInv
<1> QED BY <1>4, <1>5

LEMMA ListsInvKept ==
  ASSUME ListsInv, [ListsNext]_listVars
  PROVE  ListsInv'
<1>1. CASE UNCHANGED listVars
  <2>1. TablesHold'
    BY <1>1, TablesKept DEF ListsInv, listVars
  <2>2. SettingsOK'
    BY <1>1 DEF ListsInv, SettingsOK, listVars, settings, tables
  <2>3. StaysDefined'
    BY <1>1 DEF ListsInv, StaysDefined, listVars, settings, Crowded, FitsDomain
  <2> QED BY <2>1, <2>2, <2>3 DEF ListsInv
<1>2. CASE SettingsNext
  BY <1>2, SettingsKeep
<1>3. ASSUME NEW ascending \in BOOLEAN, BuildTwoBodyInfo(ascending) PROVE ListsInv'
  BY <1>3, TwoBodyKeeps
<1>4. ASSUME NEW ascending \in BOOLEAN, BuildThreeBodyInfo(ascending) PROVE ListsInv'
  BY <1>4, ThreeBodyKeeps
<1>5. ASSUME NEW c \in Coords, NEW ascending \in BOOLEAN, GetPotentialForce(c, ascending)
      PROVE  ListsInv'
  BY <1>5, ForceKeeps
<1>6. CASE Stop
  BY <1>1, <1>6 DEF Stop
<1> QED BY <1>1, <1>2, <1>3, <1>4, <1>5, <1>6 DEF ListsNext, SettingsNext

-----------------------------------------------------------------------------
(* The theorems about NeighborLists *)

\* Whatever is called in whatever order: the settings have their types, the
\* tables hold what they should, and builds end as they should.
THEOREM ListsInvariant == ListsSpec => []ListsInv
<1>1. ListsInit => ListsInv
  BY ListsInvInit
<1>2. ListsInv /\ [ListsNext]_listVars => ListsInv'
  BY ListsInvKept
<1> QED BY <1>1, <1>2, PTL DEF ListsSpec

\* Every count and offset fits a size_t, and the rows of a finished table name
\* particles of the coordinates it was built from.
THEOREM ListsTypeCorrect == ListsSpec => []ListsTypeOK
<1>1. ListsInv => ListsTypeOK
  BY ListsInvTypes DEF ListsInv
<1> QED BY <1>1, ListsInvariant, PTL

\* A finished three-body table holds every triple and every pair of particles
\* within its radius exactly once, across periodic boundaries too where images
\* were made for that radius; a finished two-body table holds every such pair
\* where there are no periodic boundaries.  The rows given out for some
\* particles are those of the table.
THEOREM ListsEdgesExact == ListsSpec => []EdgesExact
<1>1. ListsInv => EdgesExact
  BY ListsInvEdges DEF ListsInv
<1> QED BY <1>1, ListsInvariant, PTL

\* Without periodic boundaries the force on a particle is summed over each near
\* particle at another place exactly once.
THEOREM ListsForcesExact == ListsSpec => []ForcesExact
<1>1. ListsInv => ForcesExact
  BY ListsInvForces DEF ListsInv
<1> QED BY <1>1, ListsInvariant, PTL

\* A build writes past no table and throws at none, unless it has no
\* coordinates, domain or radius, images that are too few, or too many
\* particles.
THEOREM ListsStayDefined == ListsSpec => []StaysDefined
<1>1. ListsInv => StaysDefined
  BY DEF ListsInv
<1> QED BY <1>1, ListsInvariant, PTL
=============================================================================
