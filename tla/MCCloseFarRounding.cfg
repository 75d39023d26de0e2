SPECIFICATION Spec
CONSTANTS
  P = 2
  Inputs <- Whole
  VerdictsMirror = FALSE
INVARIANT EachEntryOnce
