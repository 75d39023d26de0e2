SPECIFICATION BoxesSpec
CONSTANTS
  P = 3
  N = 7
  BlockSize = 1
  Axes <- MixedAxes
  Layout = "left"
INVARIANTS
  BoxesTypeOK
  TreeWellFormed
  RanksAgree
  BoxesBound
PROPERTIES
  BoxesEnd
