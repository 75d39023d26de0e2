SPECIFICATION BoxesSpec
CONSTANTS
  P = 2
  N = 6
  BlockSize = 1
  Axes <- EvenAxes
  Layout = "right"
INVARIANT RanksAgree
