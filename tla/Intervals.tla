----------------------------- MODULE Intervals -----------------------------
(***************************************************************************)
(* Lists of unavailability intervals (simulation.go).  An interval covers  *)
(* the seconds beg <= t < end.  cnt is a number of zones.  ratio is the    *)
(* share of the keys that are lost, in units of one node of a zone: the    *)
(* float of the code times ZONE_SIZE, once per zone.                       *)
(***************************************************************************)
EXTENDS Integers, Sequences, SequencesExt

CONSTANT MAXSECS   \* seconds of a year

ASSUME YearAssumption == MAXSECS \in Nat \ {0}

Interval == [beg : Nat, end : Nat, cnt : Nat, ratio : Nat]

Overlap(i, o) == i.end > o.beg /\ i.beg < o.end
Contiguous(i, o) == i.end = o.beg \/ i.beg = o.end
Include(i, t) == i.beg <= t /\ t <= i.end

\* The interval AddFailure adds: Normalize bounds its end, not its beginning.
Failure(t, mttr) ==
  [beg |-> t, end |-> IF t + mttr > MAXSECS THEN MAXSECS ELSE t + mttr, cnt |-> 0, ratio |-> 0]

CheckCollision(s, x) == \E k \in DOMAIN s : Overlap(s[k], x)
CheckCollisionTime(s, t) == \E k \in DOMAIN s : Include(s[k], t)

-----------------------------------------------------------------------------
(* Intervals.Normalize: sort by beginning, then join an interval to the one *)
(* before it when they overlap or touch.                                    *)

Joined(s, end) == Append(Front(s), [Last(s) EXCEPT !.end = end])

Absorb(s, x) ==
  IF s = <<>> THEN <<x>>
  ELSE IF Overlap(x, Last(s)) THEN Joined(s, IF Last(s).end < x.end THEN x.end ELSE Last(s).end)
  ELSE IF Contiguous(x, Last(s)) THEN Joined(s, x.end)
  ELSE Append(s, x)

Canonical(s) == FoldLeft(Absorb, <<>>, SortSeq(s, LAMBDA x, y : x.beg < y.beg))

-----------------------------------------------------------------------------
(* Intervals.merge.  A merge is a record: what is left of the two slices,   *)
(* and the result so far.                                                   *)

\* The function that combines two intervals: nodes of a zone add their shares
\* of the keys, zones add up and multiply theirs.
Gen(kind, x, y) ==
  CASE kind = "nodes" -> [x EXCEPT !.ratio = x.ratio + y.ratio]
    [] kind = "zones" -> [x EXCEPT !.cnt = x.cnt + y.cnt, !.ratio = x.ratio * y.ratio]

A(m) == Head(m.a)
B(m) == Head(m.b)

TakeA(m) == [m EXCEPT !.out = Append(@, A(m)), !.a = Tail(@)]
TakeB(m) == [m EXCEPT !.out = Append(@, B(m)), !.b = Tail(@)]

\* The first interval of a slice now begins at t.
From(s, t) == <<[Head(s) EXCEPT !.beg = t]>> \o Tail(s)

CutA(m) == [m EXCEPT !.out = Append(@, [A(m) EXCEPT !.end = B(m).beg]), !.a = From(@, B(m).beg)]

\* Mutant: the last case of the switch is missing.
CutBMissing(m) == m

CutB(m) == [m EXCEPT !.out = Append(@, [B(m) EXCEPT !.end = A(m).beg]), !.b = From(@, A(m).beg)]

Both(kind, m) == [out |-> Append(m.out, Gen(kind, A(m), B(m))), a |-> Tail(m.a), b |-> Tail(m.b)]

\* Mutant: the longer of two intervals is dropped with the shorter one.
BothADropsB(kind, m) == Both(kind, m)

BothA(kind, m) == [out |-> Append(m.out, Gen(kind, A(m), B(m))), a |-> Tail(m.a), b |-> From(m.b, A(m).end)]

\* Mutant: the longer of two intervals gives its end to the result.
BothBLong(kind, m) ==
  [out |-> Append(m.out, Gen(kind, A(m), B(m))), a |-> From(m.a, B(m).end), b |-> Tail(m.b)]

BothB(kind, m) == [out |-> Append(m.out, Gen(kind, B(m), A(m))), a |-> From(m.a, B(m).end), b |-> Tail(m.b)]

Merging(m) == m.a # <<>> /\ m.b # <<>>

\* One turn of the loop.
MergeStep(kind, m) ==
  CASE A(m).end <= B(m).beg -> TakeA(m)
    [] A(m).end > B(m).beg /\ B(m).end <= A(m).beg -> TakeB(m)
    [] A(m).end > B(m).beg /\ B(m).end > A(m).beg ->
         CASE A(m).beg = B(m).beg /\ A(m).end = B(m).end -> Both(kind, m)
           [] A(m).beg = B(m).beg /\ A(m).end < B(m).end -> BothA(kind, m)
           [] A(m).beg = B(m).beg /\ A(m).end > B(m).end -> BothB(kind, m)
           [] A(m).beg < B(m).beg -> CutA(m)
           [] A(m).beg > B(m).beg -> CutB(m)

\* After the loop: what is left of one slice.
MergeRest(m) == [out |-> m.out \o m.a \o m.b, a |-> <<>>, b |-> <<>>]

\* The whole of it.  Every turn consumes an interval or the part of one that is
\* before the other: three turns for each interval are enough.
Merge(kind, a, b) ==
  LET turn(m, k) == IF Merging(m) THEN MergeStep(kind, m) ELSE m
      turns == 3 * (Len(a) + Len(b))
  IN  MergeRest(FoldLeft(turn, [out |-> <<>>, a |-> a, b |-> b], [k \in 1..turns |-> k])).out
=============================================================================
