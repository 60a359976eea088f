------------------------------ MODULE Sorting -------------------------------
(***************************************************************************)
(* The sorting benchmark (sort.go).  The array holds a permutation of the  *)
(* items, known by their ids; the shuffle and sort.Sort, which is not      *)
(* stable, are libraries: any permutation, any one in order.               *)
(***************************************************************************)
EXTENDS Naturals, Sequences, Functions

CONSTANTS Firstname, Lastname   \* of each id, as ranks

Ids == DOMAIN Firstname

SortingAssumption ==
  /\ Firstname \in Seq(Nat) /\ Len(Firstname) > 0
  /\ Lastname \in [Ids -> Nat]

VARIABLE b   \* the object: [pc, array]

InOrder == [k \in Ids |-> k]

\* The arrays that hold the items of array.
Permuted(array) ==
  {[k \in Ids |-> array[p[k]]] : p \in {q \in [Ids -> Ids] : IsInjective(q)}}
Sorted(array, key) ==
  {s \in Permuted(array) : \A j, k \in Ids : j < k => key[s[j]] <= key[s[k]]}

\* NewBenchSort: the items are made in the order of their ids, and hashed.
Init == b = [pc |-> "idle", array |-> InOrder]

\* Run.
Shuffle ==
  /\ b.pc = "idle"
  /\ \E s \in Permuted(b.array) : b' = [pc |-> "first", array |-> s]

ByFirst ==
  /\ b.pc = "first"
  /\ \E s \in Sorted(b.array, Firstname) : b' = [pc |-> "last", array |-> s]

ByLast ==
  /\ b.pc = "last"
  /\ \E s \in Sorted(b.array, Lastname) : b' = [pc |-> "id", array |-> s]

ById ==
  /\ b.pc = "id"
  /\ \E s \in Sorted(b.array, InOrder) : b' = [pc |-> "hash", array |-> s]

\* sortHash must be that of the array in the order of the ids.
Check ==
  /\ b.pc = "hash"
  /\ b' = [b EXCEPT !.pc = IF b.array = InOrder THEN "idle" ELSE "fatal"]

Step == Shuffle \/ ByFirst \/ ByLast \/ ById \/ Check

\* The last sort has undone the shuffle and the other two, whatever they did: the
\* array that is hashed is in the order it was made in, and stays so between calls.
Product == b.pc \in {"hash", "idle"} => b.array = InOrder
=============================================================================
