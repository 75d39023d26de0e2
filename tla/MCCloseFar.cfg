SPECIFICATION Spec
CONSTANTS
  P = 2
  Inputs <- PassInputs
  VerdictsMirror = TRUE
INVARIANTS
  TypeOK
  FrontierCovers
  EachEntryOnce
  FarBlocksFit
