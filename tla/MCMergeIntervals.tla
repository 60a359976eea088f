-------------------------- MODULE MCMergeIntervals --------------------------
(* MergeIntervals for TLC: every sorted slice of a short year, with two shares *)
(* of the keys and, for zones, intervals of one zone and of two.               *)
EXTENDS MergeIntervals

CONSTANT MostIntervals   \* intervals in a slice

One == [beg : 0..MAXSECS - 1, end : 1..MAXSECS, cnt : {1, 2}, ratio : {1, 2}]
SortedSlices ==
  {s \in UNION {[1..n -> One] : n \in 0..MostIntervals} : Sorted(s)}
=============================================================================
