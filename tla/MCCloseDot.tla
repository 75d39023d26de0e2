----------------------------- MODULE MCCloseDot -----------------------------
(* Small instances of CloseDot: all lists of pairs with the given sizes.    *)
EXTENDS CloseDot

\* The running totals of the pair sizes in s.
RunningTotals(s) ==
  LET T[k \in 0 .. PairCount] == IF k = 0 THEN 0 ELSE T[k - 1] + s[k] IN T

\* Pairs of 9 do not fit in the pool of 8, not even alone.
MixedLists == {RunningTotals(s) : s \in [Pairs -> {1, 3, 9}]}
=============================================================================
