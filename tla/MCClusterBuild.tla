--------------------------- MODULE MCClusterBuild ---------------------------
(* Small instances of ClusterBuild and of the boxes computed after it. *)
EXTENDS BoundingBoxes

\* Evenly spaced particles along two different directions, and one direction
\* along which the cut is uneven.
Ascending == [p \in Particles |-> p]
Shuffled == [p \in Particles |-> (5 * p + 3) % (N + 1)]
Uneven == [p \in Particles |-> p * p]

EvenAxes == {Ascending, Shuffled}
MixedAxes == {Ascending, Shuffled, Uneven}
=============================================================================
