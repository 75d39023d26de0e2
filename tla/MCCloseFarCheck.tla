--------------------------- MODULE MCCloseFarCheck --------------------------
(* Small instances of CloseFarCheck: trees as ClusterBuild numbers them. *)
EXTENDS CloseFarCheck, TLC

Row(l, r, f, t, v) == [left |-> l, right |-> r, first |-> f, last |-> t, level |-> v]

\* One rank, leaves on two levels.  Rows 1 and 2 are left over from the top of
\* the tree; the rank split the root again.
OneRankTree ==
  LET rows == <<Row(0, 0, 0, 7, 1), Row(0, 0, 7, 12, 1),
                Row(5, 6, 0, 7, 1), Row(7, 8, 7, 12, 1),
                Row(9, 10, 0, 4, 2), Row(0, 0, 4, 7, 2),
                Row(0, 0, 7, 9, 2), Row(0, 0, 9, 12, 2),
                Row(0, 0, 0, 2, 3), Row(0, 0, 2, 4, 3)>>
  IN  [i \in 0 .. 10 |-> IF i = 0 THEN Row(3, 4, 0, 12, 0) ELSE rows[i]]

\* One rank, a leaf beside a subtree of three leaves.
LopsidedTree ==
  LET rows == <<Row(0, 0, 0, 7, 1), Row(0, 0, 7, 9, 1),
                Row(5, 6, 0, 7, 1), Row(0, 0, 7, 9, 1),
                Row(7, 8, 0, 4, 2), Row(0, 0, 4, 7, 2),
                Row(0, 0, 0, 2, 3), Row(0, 0, 2, 4, 3)>>
  IN  [i \in 0 .. 8 |-> IF i = 0 THEN Row(3, 4, 0, 9, 0) ELSE rows[i]]

Input(tree, maxSize, symmetry) ==
  [tree |-> tree, maxSize |-> maxSize, symmetry |-> symmetry]

\* Two ranks: rows 3 to 6 are left over, rank 0's rows come before rank 1's.
TwoRankTree ==
  LET at == 0 :> Row(1, 2, 0, 8, 0) @@ 1 :> Row(7, 8, 0, 5, 1) @@ 2 :> Row(9, 10, 5, 8, 1)
            @@ 7 :> Row(0, 0, 0, 3, 2) @@ 8 :> Row(0, 0, 3, 5, 2)
            @@ 9 :> Row(0, 0, 5, 7, 2) @@ 10 :> Row(0, 0, 7, 8, 2)
  IN  [i \in 0 .. 10 |-> IF i \in DOMAIN at THEN at[i] ELSE Row(0, 0, 0, 0, 0)]

\* The default, with all far blocks small enough; and pools so small that far
\* columns are cut down, with and without symmetry.
PassInputs ==
  {Input(OneRankTree, 100, TRUE), Input(TwoRankTree, 4, TRUE)}
    \cup {Input(LopsidedTree, 5, symmetry) : symmetry \in BOOLEAN}
Whole == {Input(LopsidedTree, 100, TRUE)}
=============================================================================
