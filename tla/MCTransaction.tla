--------------------------- MODULE MCTransaction ----------------------------
(* Transaction for TLC: the distances of the code's cities, in kilometres,   *)
(* and data that has the shapes of the code's.                               *)
EXTENDS Transaction

Table == <<
  << 0, 8245, 344, 5833, 8040, 430, 7931, 0 >>,
  << 8245, 0, 7904, 3930, 233, 8035, 2625, 8245 >>,
  << 344, 7904, 0, 5566, 7698, 357, 7638, 344 >>,
  << 5833, 3930, 5566, 0, 3872, 5859, 2208, 5833 >>,
  << 8040, 233, 7698, 3872, 0, 7823, 2704, 8040 >>,
  << 430, 8035, 357, 5859, 7823, 0, 7897, 430 >>,
  << 7931, 2625, 7638, 2208, 2704, 7897, 0, 7931 >>,
  << 0, 8245, 344, 5833, 8040, 430, 7931, 0 >> >>

Cities == [p \in (0..7) \X (0..7) |-> Table[p[1] + 1][p[2] + 1]]

Chunks == <<"header", "population">>

\* Two of the items have the same name.
First == <<2, 1, 2>>
Last3 == <<3, 1, 2>>

\* Users share values; others share keys.
Item(key, val) == [key |-> key, val |-> val]
SomeUsers == <<Item(3, 2), Item(1, 4), Item(5, 2), Item(2, 3), Item(4, 4)>>
SomeOthers == <<Item(2, 1), Item(1, 2), Item(2, 3), Item(3, 4)>>
NoUser == Item(9, 9)

SomeShuffles == {<<2, 3, 1>>, <<2, 1, 3>>}
=============================================================================
