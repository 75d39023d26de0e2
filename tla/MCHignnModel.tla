---------------------------- MODULE MCHignnModel ----------------------------
(* Small programs of HignnModel. *)
EXTENDS HignnModel

Call(name, flag, size) == [op |-> name, flag |-> flag, size |-> size]
Symmetry(flag) == Call("useSymmetry", flag, 0)
PostCheck == Call("postCheckFlag", TRUE, 0)
Pool(size) == Call("maxRelativeCoord", FALSE, size)
UpdateCoordCall == Call("update_coord", FALSE, 0)
DotCall == Call("dot", FALSE, 0)
DenseDotCall == Call("dense_dot", FALSE, 0)

\* A time step with the defaults and one without symmetry; setters after the
\* update; calls before it; pools too small for a block and for a leaf.
SmallPrograms ==
  {<<PostCheck, UpdateCoordCall, DotCall, UpdateCoordCall, DotCall>>,
   <<Symmetry(FALSE), UpdateCoordCall, DotCall, PostCheck, DotCall, DenseDotCall>>,
   <<UpdateCoordCall, Symmetry(FALSE), PostCheck, DotCall>>,
   <<Symmetry(FALSE), UpdateCoordCall, Symmetry(TRUE), PostCheck, DotCall>>,
   <<DotCall>>, <<DenseDotCall>>,
   <<UpdateCoordCall, Pool(1), DotCall>>,
   <<Pool(1), UpdateCoordCall, DotCall>>,
   <<Pool(4), PostCheck, UpdateCoordCall, DotCall, DenseDotCall>>}
=============================================================================
