------------------------------- MODULE Memory -------------------------------
(***************************************************************************)
(* The memory benchmark (memory.go): blocks of a large array are gathered  *)
(* in an order that is shuffled again at each call, from the order of the  *)
(* call before.                                                            *)
(***************************************************************************)
EXTENDS Naturals, Sequences, Functions, FiniteSets

CONSTANTS Length,   \* of the input
          Stride,   \* 1023 in the code
          Block,    \* MEM_BLOCK, 13 in the code
          Shuffles  \* permutations that the random generator makes

\* The offsets that NewBenchMemory lists.
Offsets == {i \in 0..Length - 1 : i % Stride = 0 /\ i + Block < Length}
Indices == 1..Cardinality(Offsets)

MemoryAssumption ==
  /\ Length \in Nat /\ Stride \in Nat \ {0} /\ Block \in Nat \ {0}
  /\ Block < Length
  /\ Shuffles # {} /\ \A p \in Shuffles : p \in [Indices -> Indices] /\ IsInjective(p)

VARIABLE b   \* the object: [pc, idx, res, buf], k of the loop

\* NewBenchMemory.
Init == b = [pc |-> "idle", idx |-> [j \in Indices |-> (j - 1) * Stride], res |-> <<>>,
             buf |-> [i \in 1..Block |-> 0], k |-> 1]

\* Run.
Shuffle ==
  /\ b.pc = "idle"
  /\ \E p \in Shuffles :
       b' = [b EXCEPT !.pc = "copy", !.k = 1, !.idx = [j \in Indices |-> b.idx[p[j]]]]

\* readBlock fills buf with the bytes (known by their places) from an offset
\* on, or panics beyond the input; res takes them.
ReadBlock ==
  /\ b.pc = "copy" /\ b.k <= Len(b.idx)
  /\ LET offset == b.idx[b.k]
         buf == [i \in 1..Block |-> offset + i]
     IN  b' = IF offset + Block <= Length
                THEN [b EXCEPT !.k = @ + 1, !.buf = buf, !.res = @ \o buf]
                ELSE [b EXCEPT !.pc = "fatal"]

Reset ==
  /\ b.pc = "copy" /\ b.k > Len(b.idx)
  /\ b' = [b EXCEPT !.pc = "idle", !.res = <<>>]

Step == Shuffle \/ ReadBlock \/ Reset

\* When a call is about to reset res, it has gathered each block once, whole.
Product ==
  b.pc = "copy" /\ b.k > Len(b.idx) =>
    /\ Len(b.res) = Block * Cardinality(Offsets)
    /\ \A o \in Offsets : \E j \in 0..Cardinality(Offsets) - 1 :
         SubSeq(b.res, j * Block + 1, j * Block + Block) = [i \in 1..Block |-> o + i]
=============================================================================
