----------------------------- MODULE Haversine ------------------------------
(***************************************************************************)
(* The travelling salesman benchmark (haversine.go): Heap's algorithm      *)
(* permutes the cities between the first and the last, and the shortest    *)
(* journey is kept.  The calls of heap are the frames of a stack.  The     *)
(* spherical distances are numbers, any that Distance gives.               *)
(***************************************************************************)
EXTENDS Integers, Sequences, SequencesExt

CONSTANTS NbCities,   \* len(b.cities), 8 in the code
          Distance,   \* Distance[i, j], from city i to city j
          MaxFloat64  \* longer than any journey

City == 0..NbCities - 1

\* The sum of the distances of a journey.
Length(j) ==
  LET sum[k \in 0..NbCities - 1] == IF k = 0 THEN 0 ELSE sum[k - 1] + Distance[j[k], j[k + 1]]
  IN  sum[NbCities - 1]

\* The journeys from the first city to the last through each other one.
Journeys ==
  {[k \in 1..NbCities |-> IF k \in {1, NbCities} THEN k - 1 ELSE p[k - 1]] :
     p \in Bijection(1..NbCities - 2, 1..NbCities - 2)}

HaversineAssumption ==
  /\ NbCities \in Nat \ 0..2 /\ Distance \in [City \X City -> Nat]
  /\ MaxFloat64 \in Nat /\ \A j \in Journeys : Length(j) < MaxFloat64

VARIABLES idx,      \* b.idx
          journey,  \* b.journey
          best,     \* length of the shortest journey so far
          stack,    \* calls of heap, the last one last
          pc,       \* "idle" or "heap"
          seen      \* history: the journeys yielded by this run, in order

\* A call of heap for the first k cities of the subset: calls is the number of
\* calls it has made to itself.
Frame(k) == [k |-> k, calls |-> 0]
Top == Last(stack)

Default == [k \in 1..NbCities |-> k - 1]
Nowhere == [k \in 1..NbCities |-> 0]

TypeOK ==
  /\ {idx, journey} \subseteq [1..NbCities -> City]
  /\ best \in 0..MaxFloat64
  /\ stack \in Seq([k : 1..NbCities - 2, calls : 0..NbCities])
  /\ pc \in {"idle", "heap"}

\* NewBenchHaversine.
Init == idx = Nowhere /\ journey = Nowhere /\ best = 0 /\ stack = <<>> /\ pc = "idle" /\ seen = <<>>

\* Run is called.
Run ==
  /\ pc = "idle"
  /\ idx' = Default /\ journey' = Nowhere /\ best' = MaxFloat64
  /\ stack' = <<Frame(NbCities - 2)>> /\ pc' = "heap" /\ seen' = <<>>

\* yield: the journey is kept when it is the shortest.
Yield ==
  /\ pc = "heap" /\ stack # <<>> /\ Top.k = 1
  /\ IF Length(idx) < best THEN best' = Length(idx) /\ journey' = idx
     ELSE UNCHANGED <<best, journey>>
  /\ seen' = Append(seen, idx)
  /\ stack' = Front(stack)
  /\ UNCHANGED <<idx, pc>>

Call == stack' = Append([stack EXCEPT ![Len(stack)].calls = @ + 1], Frame(Top.k - 1))

\* The permutations that leave the last city of the subset alone.
Generate ==
  /\ pc = "heap" /\ stack # <<>> /\ Top.k > 1 /\ Top.calls = 0
  /\ Call
  /\ UNCHANGED <<idx, journey, best, pc, seen>>

Swapped(s, x, y) == [s EXCEPT ![x] = s[y], ![y] = s[x]]

\* Mutant: the parities are confused.
ChoiceOdd(k, i) == IF k % 2 = 1 THEN i ELSE 0

\* The city swapped with the last one of the subset, in turn i of the loop.
Choice(k, i) == IF k % 2 = 0 THEN i ELSE 0

\* A turn of the loop.  The subset begins at b.idx[1], which is idx[2] here.
SwapAndGenerate ==
  /\ pc = "heap" /\ stack # <<>> /\ Top.k > 1 /\ Top.calls \in 1..Top.k - 1
  /\ idx' = Swapped(idx, 2 + Choice(Top.k, Top.calls - 1), 2 + Top.k - 1)
  /\ Call
  /\ UNCHANGED <<journey, best, pc, seen>>

\* The loop ends and the call returns.
Return ==
  /\ pc = "heap" /\ stack # <<>> /\ Top.k > 1 /\ Top.calls = Top.k
  /\ stack' = Front(stack)
  /\ UNCHANGED <<idx, journey, best, pc, seen>>

\* The first call returned to Run, which formats the result.
Format ==
  /\ pc = "heap" /\ stack = <<>>
  /\ pc' = "idle" /\ seen' = <<>>
  /\ UNCHANGED <<idx, journey, best, stack>>

Step == Run \/ Yield \/ Generate \/ SwapAndGenerate \/ Return \/ Format

-----------------------------------------------------------------------------
(* Properties. *)

Done == pc = "heap" /\ stack = <<>>

\* Each journey is tried, once only, and the result is a shortest of them.
ShortestOfAll ==
  Done => /\ Range(seen) = Journeys /\ IsInjective(seen)
          /\ \A j \in Journeys : Length(journey) <= Length(j)
          /\ journey \in Journeys
=============================================================================
