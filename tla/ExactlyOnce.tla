----------------------------- MODULE ExactlyOnce ----------------------------
(***************************************************************************)
(* What CloseDot, FarDot and DenseDot promise of the blocks a rank was     *)
(* dealt: each block of the mobility matrix is multiplied with the forces  *)
(* and added to the velocities once, in batches of the function's own      *)
(* choosing.  Velocities are sums (Kokkos::atomic_add), so the order of    *)
(* the additions does not matter but their number does.                    *)
(***************************************************************************)
EXTENDS Naturals

CONSTANT Blocks

VARIABLE added  \* added[b]: how often block b was added to the velocities

Init == added = [b \in Blocks |-> 0]

\* A batch of blocks that were not added yet; the others stay as they are.
AddBatch ==
  /\ added' \in [Blocks -> {0, 1}]
  /\ \A b \in Blocks : added[b] <= added'[b]

Next == AddBatch

Spec == Init /\ [][Next]_added

\* All blocks are added in the end.
Complete == <>(\A b \in Blocks : added[b] = 1)
=============================================================================
