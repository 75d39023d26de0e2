\* Two ranks.  Steps of 20 ticks are rejected at two of the three rates, and
\* steps of 8 at the second of them if a rank rounds up: its sum is then the
\* threshold.  At the highest rate only a step of the smallest size is accepted,
\* and the step before it is raised to that size.
CONSTANTS
  Ranks = {r1, r2}
  TimeSteps = {8, 20}
  FinalTime = 20
  EndTolerance = 4
  MinStep = 3
  Threshold = 32
  ErrorRates = {0, 4, 10}
  Rounding = 1
SPECIFICATION Spec
INVARIANTS TypeOK SlopesCurrent WrappedByOwnOffset CollectivesAgree
PROPERTIES EndsOnTime
