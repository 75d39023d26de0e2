-------------------------- MODULE MCTimeIntegrator --------------------------
(* Small instances of TimeIntegrator. *)
EXTENDS TimeIntegrator

\* The smallest step is accepted whatever the estimate, as for velocities
\* whose variation over MinStep is below the threshold.
ASSUME SmallStepsAccepted ==
  \A e \in ErrorRates : e * MinStep + Rounding <= Threshold
=============================================================================
