------------------------------ MODULE MCFarDot ------------------------------
(* Small instances of FarDot. *)
EXTENDS FarDot

\* The running totals of the sizes in s.
RunningTotals(s) ==
  LET T[k \in 0 .. PairCount] == IF k = 0 THEN 0 ELSE T[k - 1] + s[k] IN T

Shape(r, c) == [rows |-> RunningTotals(r), cols |-> RunningTotals(c)]

\* Blocks of one to four rows and columns, wide and tall ones in a batch, and
\* a list with a block of seven columns, which do not fit in a pool of six.
MixedShapes ==
  {Shape(<<2, 2, 1, 3>>, <<3, 2, 1, 2>>), Shape(<<1, 3, 2, 1>>, <<2, 3, 3, 1>>),
   Shape(<<3, 3, 2, 2>>, <<3, 4, 2, 2>>), Shape(<<2, 1, 1, 2>>, <<2, 7, 1, 2>>)}

\* One batch of two blocks.
TwoBlocks == {Shape(<<2, 3>>, <<3, 2>>)}
=============================================================================
