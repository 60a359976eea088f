--------------------------- MODULE MergeIntervals ---------------------------
(***************************************************************************)
(* Intervals.merge (simulation.go), one turn of its loop at a time, for    *)
(* any two sorted slices.  It cuts its arguments in place while it reads   *)
(* them.                                                                   *)
(***************************************************************************)
EXTENDS Intervals

CONSTANT Slices   \* the slices to merge

\* Sorted, without overlap, and no interval empty.
Sorted(s) ==
  /\ \A k \in DOMAIN s : s[k].beg < s[k].end
  /\ \A j, k \in DOMAIN s : j < k => s[j].end <= s[k].beg

ASSUME SlicesAssumption == \A s \in Slices : s \in Seq(Interval) /\ Sorted(s)

VARIABLES kind,   \* which of MergeNodes and MergeZones was called
          left,   \* the slices before the merge
          m,      \* the merge: out, a, b
          pc

vars == <<kind, left, m, pc>>

TypeOK ==
  /\ kind \in {"nodes", "zones"} /\ pc \in {"loop", "done"}
  /\ left.a \in Slices /\ left.b \in Slices
  /\ m \in [out : Seq(Interval), a : Seq(Interval), b : Seq(Interval)]

\* MergeNodes is called with nodes of one zone (normalize sets cnt).
OneZone(s) == \A k \in DOMAIN s : s[k].cnt = 1

Init ==
  /\ kind \in {"nodes", "zones"}
  /\ \E a, b \in Slices :
       /\ kind = "nodes" => OneZone(a) /\ OneZone(b)
       /\ left = [a |-> a, b |-> b] /\ m = [out |-> <<>>, a |-> a, b |-> b]
  /\ pc = "loop"

Turn ==
  /\ pc = "loop" /\ Merging(m)
  /\ m' = MergeStep(kind, m)
  /\ UNCHANGED <<kind, left, pc>>

Rest ==
  /\ pc = "loop" /\ ~Merging(m)
  /\ m' = MergeRest(m)
  /\ pc' = "done"
  /\ UNCHANGED <<kind, left>>

Terminated == pc = "done" /\ UNCHANGED vars

Next == Turn \/ Rest \/ Terminated

Spec == Init /\ [][Next]_vars /\ WF_vars(Turn \/ Rest)

-----------------------------------------------------------------------------
(* Properties. *)

\* What a slice says of second t: the [cnt, ratio] of its intervals there.
At(s, t) == {[cnt |-> s[k].cnt, ratio |-> s[k].ratio] : k \in {j \in DOMAIN s : s[j].beg <= t /\ t < s[j].end}}

\* What the merge of two slices must say of second t.
Combined(a, b, t) ==
  IF At(a, t) = {} THEN At(b, t)
  ELSE IF At(b, t) = {} THEN At(a, t)
  ELSE {Gen(kind, x, y) : x \in At(a, t), y \in At(b, t)}

\* No second is lost, counted twice or given a wrong share: at every turn the
\* result so far, with the merge of what is left, says of every second what the
\* merge of the two slices must say.
SecondsMerged ==
  \A t \in 0..MAXSECS : At(m.out, t) \cup Combined(m.a, m.b, t) = Combined(left.a, left.b, t)

\* The result is sorted and without overlap, and ends where what is left begins.
OutputSorted ==
  /\ Sorted(m.out)
  /\ \A k \in DOMAIN m.out :
       /\ \A j \in DOMAIN m.a : m.out[k].end <= m.a[j].beg
       /\ \A j \in DOMAIN m.b : m.out[k].end <= m.b[j].beg

\* The loop ends: each turn consumes an interval or cuts one.
Completion == <>(pc = "done")
=============================================================================
