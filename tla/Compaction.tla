----------------------------- MODULE Compaction -----------------------------
(***************************************************************************)
(* How DenseDot and FarDot shrink their batches: a batch is an array of    *)
(* slots, each slot has a flag, and when some flags are down the slots     *)
(* whose flag is up move to the front in their order (workingNodeOffset is *)
(* the slot each one comes from).                                          *)
(***************************************************************************)
EXTENDS Integers, FiniteSets

\* How many flagged slots there are up to slot i.
UpTo(kept, i) == Cardinality({j \in kept : j <= i})

\* The slot that moves to slot k: the k-th flagged one.
SourceLast(kept, k) == CHOOSE i \in kept : \A j \in kept : j <= i
Source(kept, k) == CHOOSE i \in kept : UpTo(kept, i) = k

\* The array after the move.
Compacted(array, kept) ==
  [k \in 1 .. Cardinality(kept) |-> array[Source(kept, k)]]
=============================================================================
