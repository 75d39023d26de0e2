----------------------------- MODULE MCDenseDot -----------------------------
(* Small instances of DenseDot and of PostCheckDot, which begins as DenseDot. *)
EXTENDS PostCheckDot

\* Leaves that fit in blocks of two, and a leaf of coincident particles that
\* is larger than a block.
MixedSizes ==
  {[i \in Leaves |-> 2], [i \in Leaves |-> (i % 2) + 1],
   [i \in Leaves |-> IF i = 2 THEN 3 ELSE 2]}

\* A right product, and one in which a block is missing.
RightAndWrong ==
  {[b \in Blocks |-> 1], [b \in Blocks |-> IF b = <<2, 5>> THEN 0 ELSE 1]}
=============================================================================
