-------------------------- MODULE MCNeighborLists --------------------------
(* A domain of 8 by 8 by 8 with particles at its corners and edges, all at half
   its height. *)
EXTENDS NeighborLists

Origin == <<0, 0, 0>>
FarCorner == <<8, 8, 8>>

Corners == <<<<1, 1, 4>>, <<7, 7, 4>>, <<4, 4, 4>>>>
Edges == <<<<2, 4, 4>>, <<7, 4, 4>>, <<0, 4, 4>>>>
Coincident == <<<<0, 4, 4>>, <<6, 4, 4>>, <<6, 4, 4>>>>
Pair == <<<<3, 3, 4>>, <<4, 4, 4>>>>
Outside == <<<<-4, 4, 4>>, <<3, 4, 4>>>>

Samples == {Corners, Edges, Coincident, Pair, Outside}
=============================================================================
