--------------------------- MODULE MCRouteSearch ---------------------------
(* RouteSearch for TLC: a graph of four nodes. *)
EXTENDS RouteSearch, TLC

\* Direct routes in both directions, as NewBenchGraph adds them.
BothWays(direct) ==
  FlattenSeq([k \in DOMAIN direct |->
    LET from == direct[k][1]  to == direct[k][2]  weight == direct[k][3]
    IN  << [from |-> from, to |-> to, weight |-> weight],
           [from |-> to, to |-> from, weight |-> weight] >>])

\* From 0 to 3: three routes of equal weight and a heavier one.
SmallEdge == BothWays(<< <<0, 1, 1>>, <<1, 2, 1>>, <<0, 2, 2>>, <<1, 3, 4>>, <<2, 3, 3>> >>)
OneQuery == << <<0, 3>> >>
TwoQueries == << <<0, 3>>, <<3, 1>> >>

Symmetry == Permutations(Searchers) \cup Permutations(Objects)
=============================================================================
