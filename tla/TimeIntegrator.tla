--------------------------- MODULE TimeIntegrator ---------------------------
(***************************************************************************)
(* The time loops ExplicitEuler::Run and ExplicitRk4::Run, run by every    *)
(* rank.  The velocities come from a Python callback, which calls          *)
(* HignnModel::UpdateCoord and Dot: collectives, so that no rank gets its  *)
(* velocities before all ranks have asked for theirs.                      *)
(*                                                                         *)
(* Time is counted in ticks.  Positions are symbols: a place says from     *)
(* which time, by a step of which size and at which stage of that step it  *)
(* was reached.  A velocity is the place it was evaluated at.              *)
(***************************************************************************)
EXTENDS Integers

CONSTANTS
  Ranks,         \* the ranks of MPI_COMM_WORLD
  TimeSteps,     \* the values of mTimeStep
  FinalTime,     \* mFinalTime
  EndTolerance,  \* 1e-5, in ticks
  MinStep,       \* 1e-6, in ticks
  Threshold,     \* mThreshold
  ErrorRates,    \* the error estimates of an attempt, per tick of its size
  Rounding       \* how far the error sum of a rank can be off by its order

ASSUME IntegratorAssumption ==
  /\ TimeSteps \subseteq Nat \ {0}
  /\ FinalTime \in Nat /\ EndTolerance \in Nat
  /\ MinStep \in Nat \ {0} /\ MinStep <= EndTolerance
  /\ Threshold \in Nat \ {0} /\ ErrorRates \subseteq Nat /\ Rounding \in Nat

Stages == 0 .. 6
Smaller(a, b) == IF a < b THEN a ELSE b
Larger(a, b) == IF a > b THEN a ELSE b

\* Where a stage of the step from time "from" of size "size" leads.
Place(from, size, stage) == [from |-> from, size |-> size, stage |-> stage]
Places == [from : Nat, size : Nat, stage : Stages]
Origin == Place(0, 0, 0)

\* A slope buffer that was resized and never written: all zero.
Zero == [zero |-> 0]

VARIABLES
  setup,     \* which integrator runs, with which boundary and mTimeStep
  pc,        \* pc[r]: where rank r is in Run
  t,         \* t[r]
  dt,        \* dt[r]
  stage,     \* stage[r]: i, the stage whose velocity is asked for
  base,      \* base[r]: mPosition0 of ExplicitRk4, mPosition of ExplicitEuler
             \* at the head of the loop
  position,  \* position[r]: mPosition
  offset,    \* offset[r]: the place mPositionOffset was computed for
  shift,     \* shift[r]: the place whose offset the last wrap added
  velocity,  \* velocity[r]: the place mVelocity was evaluated at
  slope,     \* slope[r][k]: mVelocityKk of ExplicitRk4
  err,       \* err[r]: the error estimate of the attempt, as rank r sums it
  apart      \* history: the sums of some attempt led two ranks to
             \* different outcomes

vars == <<setup, pc, t, dt, stage, base, position, offset, shift, velocity,
          slope, err, apart>>

Rk4 == setup.scheme = "rk4"

Init ==
  /\ setup \in [scheme : {"euler", "rk4"}, periodic : BOOLEAN,
                timeStep : TimeSteps]
  /\ pc = [r \in Ranks |-> IF Rk4 THEN "call" ELSE "head"]
  /\ t = [r \in Ranks |-> 0]
  /\ dt = [r \in Ranks |-> 0]
  /\ stage = [r \in Ranks |-> 0]
  /\ base = [r \in Ranks |-> Origin]
  /\ position = [r \in Ranks |-> Origin]
  /\ offset = [r \in Ranks |-> Origin]
  /\ shift = [r \in Ranks |-> Origin]
  /\ velocity = [r \in Ranks |-> Zero]
  /\ slope = [r \in Ranks |-> [k \in 1 .. 7 |-> Zero]]
  /\ err = [r \in Ranks |-> 0]
  /\ apart = FALSE

\* The head of the loop: the size of the step, and where it starts.
FirstSizeUnclipped(r) == setup.timeStep
FirstSize(r) == Smaller(setup.timeStep, FinalTime - t[r])

Running(r) == t[r] < FinalTime - EndTolerance

Begin(r) ==
  /\ pc[r] = "head" /\ Running(r)
  /\ dt' = [dt EXCEPT ![r] = FirstSize(r)]
  /\ pc' = [pc EXCEPT ![r] = "call"]
  /\ base' = [base EXCEPT ![r] = position[r]]
  /\ IF Rk4
     THEN /\ stage' = [stage EXCEPT ![r] = 1]
          /\ position' = [position EXCEPT ![r] = Place(t[r], FirstSize(r), 1)]
          /\ shift' = IF setup.periodic
                      THEN [shift EXCEPT ![r] = offset[r]] ELSE shift
     ELSE UNCHANGED <<stage, position, shift>>
  /\ UNCHANGED <<setup, t, offset, velocity, slope, err, apart>>

End(r) ==
  /\ pc[r] = "head" /\ ~Running(r)
  /\ pc' = [pc EXCEPT ![r] = "done"]
  /\ UNCHANGED <<setup, t, dt, stage, base, position, offset, shift, velocity,
                 slope, err, apart>>

\* The offsets a callback leaves, for the positions it was asked about.
AskedOffsetsLate == offset
AskedOffsets == IF setup.periodic THEN position ELSE offset

\* dt * max(0.8 * (err / threshold)^(-1/5), 0.1), the factor in tenths, but
\* not below MinStep.
Factor(sum) ==
  LET Fits == {f \in 1 .. 8 : f ^ 5 * sum <= 8 ^ 5 * Threshold}
  IN  IF Fits = {} THEN 1 ELSE CHOOSE f \in Fits : \A g \in Fits : g <= f

Reduced(size, sum) == Larger((size * Factor(sum)) \div 10, MinStep)

\* What an attempt of this size with this sum leads to: the size it is repeated
\* with, or no repetition.
NextAttempt(size, sum) == IF sum > Threshold THEN Reduced(size, sum) ELSE 0

\* All ranks are in the callback: it returns the velocities.  What it returns
\* at the last stage also settles the error estimate.  Each rank sums it
\* itself, in an order that is left open.
VelocityUpdate ==
  /\ \A r \in Ranks : pc[r] = "call"
  /\ offset' = AskedOffsets
  /\ velocity' = position
  /\ pc' = [r \in Ranks |-> "return"]
  /\ \E rate \in ErrorRates, rounding \in [Ranks -> -Rounding .. Rounding] :
       err' = [r \in Ranks |-> IF stage[r] = 6
                              THEN Larger(rate * dt[r] + rounding[r], 0) ELSE 0]
  /\ apart' = (apart \/ \E r, s \in Ranks :
                           NextAttempt(dt[r], err'[r]) # NextAttempt(dt[s], err'[s]))
  /\ UNCHANGED <<setup, t, dt, stage, base, position, shift, slope>>

\* The velocities before the loop of ExplicitRk4: no slope takes them.
FirstVelocity(r) ==
  /\ pc[r] = "return" /\ Rk4 /\ stage[r] = 0
  /\ pc' = [pc EXCEPT ![r] = "head"]
  /\ UNCHANGED <<setup, t, dt, stage, base, position, offset, shift, velocity,
                 slope, err, apart>>

\* Stage i stores its velocity as slope i + 1, and the next one is formed.
StoredSlope(i) == i + 1

MoreStagesAfterLast(r) == stage[r] <= 6
MoreStages(r) == stage[r] < 6

NextStage(r) ==
  /\ pc[r] = "return" /\ Rk4 /\ stage[r] \in 1 .. 6
  /\ slope' = [slope EXCEPT ![r][StoredSlope(stage[r])] = velocity[r]]
  /\ IF MoreStages(r)
     THEN /\ stage' = [stage EXCEPT ![r] = stage[r] + 1]
          /\ position' =
               [position EXCEPT ![r] = Place(t[r], dt[r], stage[r] + 1)]
          /\ pc' = [pc EXCEPT ![r] = "call"]
     ELSE pc' = [pc EXCEPT ![r] = "check"] /\ UNCHANGED <<stage, position>>
  /\ UNCHANGED <<setup, t, dt, base, offset, shift, velocity, err, apart>>

\* Every rank compares its own sum with the threshold.
RejectedByFirst(r) == r = (CHOOSE s \in Ranks : TRUE) /\ err[r] > Threshold
Rejected(r) == err[r] > Threshold

\* The attempt was too coarse: it is repeated with a smaller step.
Reject(r) ==
  /\ pc[r] = "check" /\ Rejected(r)
  /\ dt' = [dt EXCEPT ![r] = Reduced(dt[r], err[r])]
  /\ stage' = [stage EXCEPT ![r] = 1]
  /\ position' =
       [position EXCEPT ![r] = Place(t[r], Reduced(dt[r], err[r]), 1)]
  /\ pc' = [pc EXCEPT ![r] = "call"]
  /\ UNCHANGED <<setup, t, base, offset, shift, velocity, slope, err, apart>>

\* The slopes the next step starts with: the last one of this step.
CarriedNone(r) == slope[r]
Carried(r) == [slope[r] EXCEPT ![1] = slope[r][7]]

\* The step counts.  The size the code computes for the next step is not
\* used: the head of the loop takes mTimeStep again.
Accept(r) ==
  /\ pc[r] = "check" /\ ~Rejected(r)
  /\ t' = [t EXCEPT ![r] = t[r] + dt[r]]
  /\ slope' = [slope EXCEPT ![r] = Carried(r)]
  /\ pc' = [pc EXCEPT ![r] = "head"]
  /\ UNCHANGED <<setup, dt, stage, base, position, offset, shift, velocity,
                 err, apart>>

\* One step of ExplicitEuler, with the wrap that ends it.
EulerStep(r) ==
  /\ pc[r] = "return" /\ ~Rk4
  /\ position' = [position EXCEPT ![r] = Place(t[r], dt[r], 6)]
  /\ IF setup.periodic
     THEN /\ offset' = [offset EXCEPT ![r] = position'[r]]
          /\ shift' = [shift EXCEPT ![r] = offset'[r]]
     ELSE UNCHANGED <<offset, shift>>
  /\ t' = [t EXCEPT ![r] = t[r] + dt[r]]
  /\ pc' = [pc EXCEPT ![r] = "head"]
  /\ UNCHANGED <<setup, dt, stage, base, velocity, slope, err, apart>>

\* Every rank has left Run.
Finished == (\A r \in Ranks : pc[r] = "done") /\ UNCHANGED vars

\* Some have left Run, and the others wait in the callback for them.
Waiting ==
  /\ \A r \in Ranks : pc[r] \in {"call", "done"}
  /\ \E r, s \in Ranks : pc[r] = "call" /\ pc[s] = "done"
  /\ UNCHANGED vars

Local(r) == Begin(r) \/ End(r) \/ FirstVelocity(r) \/ NextStage(r)
              \/ Reject(r) \/ Accept(r) \/ EulerStep(r)
Next == VelocityUpdate \/ (\E r \in Ranks : Local(r)) \/ Finished \/ Waiting

Fairness == WF_vars(VelocityUpdate) /\ \A r \in Ranks : WF_vars(Local(r))
Spec == Init /\ [][Next]_vars /\ Fairness

-----------------------------------------------------------------------------
(* Properties *)

InStep(r) == pc[r] \in {"call", "return", "check"}

\* Every variable holds a value of its kind.
TypeOK ==
  /\ setup \in [scheme : {"euler", "rk4"}, periodic : BOOLEAN,
                timeStep : TimeSteps]
  /\ pc \in [Ranks -> {"head", "call", "return", "check", "done"}]
  /\ t \in [Ranks -> Nat] /\ dt \in [Ranks -> Nat]
  /\ stage \in [Ranks -> Stages]
  /\ base \in [Ranks -> Places] /\ position \in [Ranks -> Places]
  /\ offset \in [Ranks -> Places] /\ shift \in [Ranks -> Places]
  /\ velocity \in [Ranks -> Places \cup {Zero}]
  /\ slope \in [Ranks -> [1 .. 7 -> Places \cup {Zero}]]
  /\ err \in [Ranks -> Nat] /\ apart \in BOOLEAN

\* The slopes an attempt has stored so far, from the second on.
Stored(r) == IF pc[r] = "check" THEN 2 .. 7 ELSE 2 .. stage[r]

\* ExplicitRk4 combines slopes of this attempt only, also after an attempt of
\* another size was rejected; the first slope is that of the place the step
\* starts from.  Only the first step starts with a first slope of zero: the
\* velocities asked for before the loop are stored in no slope.
SlopesCurrent ==
  \A r \in Ranks : Rk4 /\ InStep(r) /\ stage[r] > 0 =>
    /\ slope[r][1] = IF base[r] = Origin THEN Zero ELSE base[r]
    /\ \A k \in Stored(r) : slope[r][k] = Place(t[r], dt[r], k - 1)

\* With a periodic boundary, the positions a step starts from were put back
\* into the domain by the offsets of these very positions, and not by those
\* of an earlier stage or step.
WrappedByOwnOffset ==
  \A r \in Ranks : setup.periodic /\ InStep(r) => shift[r] = base[r]

\* Ranks that are in the callback ask about the same places, and none of them
\* waits there for a rank that has left Run, although each sums the error in an
\* order of its own: the ranks part only through an attempt that one counts and
\* another repeats, or that two repeat with different sizes.  Nothing else that
\* depends on the sum, as the size computed for the next step, may matter.
CollectivesAgree ==
  ~apart => \A r, s \in Ranks : pc[r] = "call" =>
              /\ pc[s] # "done"
              /\ pc[s] = "call" => position[r] = position[s] /\ stage[r] = stage[s]

\* A step never leads past the final time.
NeverPastEnd ==
  \A r \in Ranks : t[r] <= FinalTime /\ (InStep(r) => t[r] + dt[r] <= FinalTime)

\* Run returns on every rank, at the final time or less than EndTolerance
\* before it, unless the ranks part.
EndsOnTime ==
  <>[](~apart => \A r \in Ranks : /\ pc[r] = "done"
                                  /\ FinalTime - EndTolerance <= t[r]
                                  /\ t[r] <= FinalTime)
=============================================================================
