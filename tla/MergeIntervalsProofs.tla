----------------------- MODULE MergeIntervalsProofs -----------------------
(***************************************************************************)
(* Proofs about MergeIntervals: for a year of any length and any two       *)
(* sorted slices, of any number of intervals with any counts and shares,   *)
(* every turn keeps the result sorted and changes nothing of what the      *)
(* result and the two slices say together of any second.                   *)
(*                                                                         *)
(* The lemmas speak of an interval by what it says of one second (Span),   *)
(* of a slice by its first interval and the others.  There is one lemma    *)
(* for each case of the switch.                                            *)
(***************************************************************************)
EXTENDS MergeIntervals, TLAPS, SequenceTheorems

\* The bounds of an interval, what it says of its seconds, and what it says of
\* second t.
Begin(x) == x.beg
Until(x) == x.end
Cell(x) == [cnt |-> x.cnt, ratio |-> x.ratio]
Span(b, e, c, t) == IF b <= t /\ t < e THEN {c} ELSE {}

Piece(x) == x \in Interval /\ Begin(x) < Until(x)

\* The slice begins at time e or later; the slice ends at time t or before.
After(e, s) == \A j \in DOMAIN s : e <= Begin(s[j])
Upto(s, t) == \A j \in DOMAIN s : Until(s[j]) <= t

\* A slice merge can be given.
Slice(k, s) == s \in Seq(Interval) /\ Sorted(s) /\ (k = "nodes" => OneZone(s))

Facts(x) ==
  Begin(x) \in Nat /\ Until(x) \in Nat /\ x.cnt \in Nat /\ x.ratio \in Nat

\* An interval is made of numbers.
LEMMA IntervalFacts ==
  ASSUME NEW x \in Interval
  PROVE  Facts(x) /\ Cell(x) \in [cnt : Nat, ratio : Nat]
  BY DEF Interval, Facts, Cell, Begin, Until

\* An interval whose beginning is moved (From, in the code a[i].beg = ...).
LEMMA WithBegin ==
  ASSUME NEW x \in Interval, NEW t \in Nat
  PROVE  /\ [x EXCEPT !.beg = t] \in Interval /\ Begin([x EXCEPT !.beg = t]) = t
         /\ Until([x EXCEPT !.beg = t]) = Until(x) /\ Cell([x EXCEPT !.beg = t]) = Cell(x)
         /\ [x EXCEPT !.beg = t].cnt = x.cnt
  BY DEF Interval, Cell, Begin, Until

\* An interval whose end is moved: the part before a cut.
LEMMA WithEnd ==
  ASSUME NEW x \in Interval, NEW t \in Nat
  PROVE  /\ [x EXCEPT !.end = t] \in Interval /\ Until([x EXCEPT !.end = t]) = t
         /\ Begin([x EXCEPT !.end = t]) = Begin(x) /\ Cell([x EXCEPT !.end = t]) = Cell(x)
  BY DEF Interval, Cell, Begin, Until

\* The combination of two intervals covers the seconds of its first argument, and says the
\* same whichever comes first: for nodes because both count for one zone.
LEMMA GenFacts ==
  ASSUME NEW k \in {"nodes", "zones"}, NEW x \in Interval, NEW y \in Interval,
         k = "nodes" => x.cnt = 1 /\ y.cnt = 1
  PROVE  /\ Gen(k, x, y) \in Interval
         /\ Begin(Gen(k, x, y)) = Begin(x) /\ Until(Gen(k, x, y)) = Until(x)
         /\ Cell(Gen(k, x, y)) = Gen(k, Cell(x), Cell(y))
         /\ Cell(Gen(k, y, x)) = Gen(k, Cell(x), Cell(y))
<1>1. \A i, j \in Nat : i + j \in Nat /\ i * j \in Nat /\ i + j = j + i /\ i * j = j * i
  OBVIOUS
<1>2. CASE k = "nodes"
  BY <1>1, <1>2 DEF Gen, Interval, Cell, Begin, Until
<1>3. CASE k = "zones"
  BY <1>1, <1>3 DEF Gen, Interval, Cell, Begin, Until
<1> QED
  BY <1>2, <1>3

\* What a slice says, from its elements.
LEMMA AtFacts ==
  ASSUME NEW s \in Seq(Interval), NEW t \in Nat, NEW c
  PROVE  c \in At(s, t) <=> \E j \in DOMAIN s : c \in Span(Begin(s[j]), Until(s[j]), Cell(s[j]), t)
<1>1. c \in At(s, t) <=> \E j \in {i \in DOMAIN s : s[i].beg <= t /\ t < s[i].end} : c = Cell(s[j])
  BY DEF At, Cell
<1>2. \A j : c \in Span(Begin(s[j]), Until(s[j]), Cell(s[j]), t)
               <=> c = Cell(s[j]) /\ s[j].beg <= t /\ t < s[j].end
  BY DEF Span, Begin, Until
<1> QED
  BY <1>1, <1>2

\* Nothing says nothing.
LEMMA AtEmpty ==
  ASSUME NEW t
  PROVE  At(<<>>, t) = {}
  BY DEF At

\* A slice says nothing of the seconds before it begins.
LEMMA AtAfter ==
  ASSUME NEW s \in Seq(Interval), NEW e \in Nat, NEW t \in Nat, t < e, After(e, s)
  PROVE  At(s, t) = {}
<1>1. ASSUME NEW c, NEW j \in DOMAIN s, c \in Span(Begin(s[j]), Until(s[j]), Cell(s[j]), t)
      PROVE  FALSE
  <2>1. e <= Begin(s[j]) /\ Begin(s[j]) \in Nat
    BY ElementOfSeq, LenProperties, IntervalFacts DEF After, Facts
  <2> QED
    BY <1>1, <2>1 DEF Span
<1>2. \A c : c \notin At(s, t)
  BY <1>1, AtFacts
<1> QED
  BY <1>2

IsUnion(all, one, other) == all = one \cup other

\* A slice of two parts says what both say.
LEMMA AtConcat ==
  ASSUME NEW s \in Seq(Interval), NEW u \in Seq(Interval), NEW t \in Nat
  PROVE  IsUnion(At(s \o u, t), At(s, t), At(u, t))
<1> DEFINE w == s \o u
<1>1. /\ w \in Seq(Interval) /\ DOMAIN s = 1..Len(s) /\ DOMAIN u = 1..Len(u)
      /\ DOMAIN w = 1..Len(s) + Len(u) /\ Len(s) \in Nat /\ Len(u) \in Nat
      /\ \A j \in 1..Len(s) + Len(u) : w[j] = IF j <= Len(s) THEN s[j] ELSE u[j - Len(s)]
  BY ConcatProperties, LenProperties
<1> HIDE DEF w
<1> DEFINE Hits(r, j, c) == c \in Span(Begin(r[j]), Until(r[j]), Cell(r[j]), t)
<1>2. ASSUME NEW c
      PROVE  (\E j \in DOMAIN w : Hits(w, j, c))
               <=> (\E j \in DOMAIN s : Hits(s, j, c)) \/ (\E j \in DOMAIN u : Hits(u, j, c))
  <2>1. ASSUME NEW j \in DOMAIN s, Hits(s, j, c) PROVE \E i \in DOMAIN w : Hits(w, i, c)
    <3>1. j \in DOMAIN w /\ w[j] = s[j]
      BY <1>1
    <3> QED
      BY <2>1, <3>1
  <2>2. ASSUME NEW j \in DOMAIN u, Hits(u, j, c) PROVE \E i \in DOMAIN w : Hits(w, i, c)
    <3>1. Len(s) + j \in DOMAIN w /\ w[Len(s) + j] = u[j]
      BY <1>1
    <3> QED
      BY <2>2, <3>1
  <2>3. ASSUME NEW j \in DOMAIN w, Hits(w, j, c)
        PROVE  (\E i \in DOMAIN s : Hits(s, i, c)) \/ (\E i \in DOMAIN u : Hits(u, i, c))
    <3>1. CASE j <= Len(s)
      <4>1. j \in DOMAIN s /\ w[j] = s[j]
        BY <1>1, <3>1
      <4> QED
        BY <2>3, <4>1
    <3>2. CASE ~(j <= Len(s))
      <4>1. j - Len(s) \in DOMAIN u /\ w[j] = u[j - Len(s)]
        BY <1>1, <3>2
      <4> QED
        BY <2>3, <4>1
    <3> QED
      BY <3>1, <3>2
  <2> QED
    BY <2>1, <2>2, <2>3
<1>3. ASSUME NEW c PROVE c \in At(w, t) <=> c \in At(s, t) \/ c \in At(u, t)
  BY <1>1, <1>2, AtFacts
<1> QED
  BY <1>3 DEF w, IsUnion

\* A slice of one interval.
LEMMA AtOne ==
  ASSUME NEW x \in Interval, NEW t \in Nat
  PROVE  At(<<x>>, t) = Span(Begin(x), Until(x), Cell(x), t)
<1>1. <<x>> \in Seq(Interval) /\ DOMAIN <<x>> = {1} /\ <<x>>[1] = x
  OBVIOUS
<1>2. ASSUME NEW c PROVE c \in At(<<x>>, t) <=> c \in Span(Begin(x), Until(x), Cell(x), t)
  BY <1>1, AtFacts
<1> QED
  BY <1>2

\* Sorted, in the terms above.
LEMMA SortedFacts ==
  ASSUME NEW s \in Seq(Interval)
  PROVE  /\ Sorted(s) <=> /\ \A j \in DOMAIN s : Begin(s[j]) < Until(s[j])
                          /\ \A i, j \in DOMAIN s : i < j => Until(s[i]) <= Begin(s[j])
         /\ \A j \in DOMAIN s : s[j] \in Interval /\ Begin(s[j]) \in Nat /\ Until(s[j]) \in Nat
         /\ Len(s) \in Nat /\ DOMAIN s = 1..Len(s)
<1>1. Len(s) \in Nat /\ DOMAIN s = 1..Len(s) /\ \A j \in DOMAIN s : s[j] \in Interval
  BY LenProperties, ElementOfSeq
<1>2. \A j \in DOMAIN s : Begin(s[j]) \in Nat /\ Until(s[j]) \in Nat
  BY <1>1, IntervalFacts DEF Facts
<1>3. Sorted(s) <=> /\ \A j \in DOMAIN s : Begin(s[j]) < Until(s[j])
                    /\ \A i, j \in DOMAIN s : i < j => Until(s[i]) <= Begin(s[j])
  BY DEF Sorted, Begin, Until
<1> QED
  BY <1>1, <1>2, <1>3

\* The first interval of a slice and the others.
LEMMA SplitSlice ==
  ASSUME NEW k, NEW s, Slice(k, s), s # <<>>
  PROVE  /\ Piece(Head(s)) /\ Slice(k, Tail(s)) /\ After(Until(Head(s)), Tail(s))
         /\ k = "nodes" => Head(s).cnt = 1
         /\ s = <<Head(s)>> \o Tail(s)
<1> DEFINE x == Head(s)
           r == Tail(s)
<1>1. s \in Seq(Interval) /\ Sorted(s) /\ (k = "nodes" => OneZone(s))
  BY DEF Slice
<1>2. /\ x = s[1] /\ r \in Seq(Interval) /\ Len(r) = Len(s) - 1
      /\ \A j \in 1..Len(r) : r[j] = s[j + 1]
  BY <1>1, HeadTailProperties
<1>3. s = <<x>> \o r
  BY <1>1, HeadTailProperties, ConcatProperties
<1>4. /\ \A j \in DOMAIN s : Begin(s[j]) < Until(s[j])
      /\ \A i, j \in DOMAIN s : i < j => Until(s[i]) <= Begin(s[j])
      /\ \A j \in DOMAIN s : s[j] \in Interval
      /\ Len(s) \in Nat \ {0} /\ DOMAIN s = 1..Len(s)
  BY <1>1, SortedFacts, EmptySeq
<1>5. /\ DOMAIN r = 1..Len(s) - 1 /\ 1 \in DOMAIN s
      /\ \A j \in DOMAIN r : j + 1 \in DOMAIN s /\ r[j] = s[j + 1]
  BY <1>2, <1>4, LenProperties
<1> HIDE DEF x, r
<1>6. Piece(x)
  BY <1>2, <1>4, <1>5 DEF Piece
<1>7. Sorted(r)
  <2>1. \A j \in DOMAIN r : Begin(r[j]) < Until(r[j])
    BY <1>4, <1>5
  <2>2. ASSUME NEW i \in DOMAIN r, NEW j \in DOMAIN r, i < j PROVE Until(r[i]) <= Begin(r[j])
    <3>1. i + 1 < j + 1
      BY <1>5, <2>2
    <3> QED
      BY <1>4, <1>5, <3>1
  <2> QED
    BY <1>2, <2>1, <2>2, SortedFacts
<1>8. After(Until(x), r)
  <2>1. ASSUME NEW j \in DOMAIN r PROVE Until(s[1]) <= Begin(s[j + 1])
    <3>1. 1 < j + 1
      BY <1>5
    <3> QED
      BY <1>4, <1>5, <3>1
  <2> QED
    BY <1>2, <1>5, <2>1 DEF After
<1>9. k = "nodes" => OneZone(r) /\ x.cnt = 1
  BY <1>1, <1>2, <1>5 DEF OneZone
<1> QED
  BY <1>2, <1>3, <1>6, <1>7, <1>8, <1>9 DEF Slice, x, r

\* An interval put before a slice.
LEMMA ConsSlice ==
  ASSUME NEW k, NEW r, Slice(k, r), NEW x, Piece(x), After(Until(x), r),
         k = "nodes" => x.cnt = 1
  PROVE  Slice(k, <<x>> \o r) /\ After(Begin(x), <<x>> \o r)
<1> DEFINE s == <<x>> \o r
<1>1. r \in Seq(Interval) /\ Sorted(r) /\ (k = "nodes" => OneZone(r)) /\ x \in Interval
  BY DEF Slice, Piece
<1>2. <<x>> \in Seq(Interval) /\ Len(<<x>>) = 1 /\ <<x>>[1] = x
  BY <1>1
<1>3. /\ s \in Seq(Interval) /\ Len(s) = 1 + Len(r)
      /\ \A j \in 1..1 + Len(r) : s[j] = IF j <= 1 THEN <<x>>[j] ELSE r[j - 1]
  BY <1>1, <1>2, ConcatProperties
<1> HIDE DEF s
<1>4. /\ \A j \in DOMAIN r : Begin(r[j]) < Until(r[j])
      /\ \A i, j \in DOMAIN r : i < j => Until(r[i]) <= Begin(r[j])
      /\ \A j \in DOMAIN r : Begin(r[j]) \in Nat /\ Until(r[j]) \in Nat
      /\ Len(r) \in Nat /\ DOMAIN r = 1..Len(r)
  BY <1>1, SortedFacts
<1>5. DOMAIN s = 1..1 + Len(r)
  BY <1>3, LenProperties
<1>6. s[1] = x /\ \A j \in DOMAIN s : j # 1 => j - 1 \in DOMAIN r /\ s[j] = r[j - 1]
  BY <1>2, <1>3, <1>4, <1>5
<1>7. Begin(x) < Until(x) /\ Begin(x) \in Nat /\ Until(x) \in Nat
      /\ \A j \in DOMAIN r : Until(x) <= Begin(r[j])
  BY <1>1, IntervalFacts DEF Piece, After, Facts
<1>8. \A j \in DOMAIN s : Begin(s[j]) < Until(s[j])
  BY <1>4, <1>6, <1>7
<1>9. ASSUME NEW i \in DOMAIN s, NEW j \in DOMAIN s, i < j PROVE Until(s[i]) <= Begin(s[j])
  <2>1. j # 1 /\ j - 1 \in DOMAIN r /\ s[j] = r[j - 1]
    BY <1>5, <1>6, <1>9
  <2>2. CASE i = 1
    BY <1>6, <1>7, <2>1, <2>2
  <2>3. CASE i # 1
    <3>1. i - 1 \in DOMAIN r /\ s[i] = r[i - 1] /\ i - 1 < j - 1
      BY <1>5, <1>6, <1>9, <2>3
    <3> QED
      BY <1>4, <2>1, <3>1
  <2> QED
    BY <2>2, <2>3
<1>10. Sorted(s)
  BY <1>3, <1>8, <1>9, SortedFacts
<1>11. ASSUME NEW j \in DOMAIN s PROVE Begin(x) <= Begin(s[j])
  BY <1>4, <1>6, <1>7
<1>12. k = "nodes" => OneZone(s)
  BY <1>1, <1>6 DEF OneZone
<1> QED
  BY <1>3, <1>10, <1>11, <1>12 DEF Slice, After, s

\* What a slice with a first interval says.
LEMMA AtCons ==
  ASSUME NEW r \in Seq(Interval), NEW x \in Interval, NEW t \in Nat
  PROVE  IsUnion(At(<<x>> \o r, t), Span(Begin(x), Until(x), Cell(x), t), At(r, t))
<1>1. <<x>> \in Seq(Interval)
  OBVIOUS
<1> QED
  BY <1>1, AtConcat, AtOne

\* The merge so far: sorted, and ends where what is left begins.
Result(out, a, b) ==
  /\ out \in Seq(Interval) /\ Sorted(out)
  /\ \A j \in DOMAIN a : Upto(out, Begin(a[j]))
  /\ \A j \in DOMAIN b : Upto(out, Begin(b[j]))

\* An interval is added to the result.
LEMMA Emit ==
  ASSUME NEW out \in Seq(Interval), Sorted(out), NEW z, Piece(z), Upto(out, Begin(z)),
         NEW a \in Seq(Interval), NEW b \in Seq(Interval), After(Until(z), a), After(Until(z), b)
  PROVE  Result(Append(out, z), a, b)
<1> DEFINE o1 == Append(out, z)
<1>1. z \in Interval /\ Begin(z) < Until(z) /\ Begin(z) \in Nat /\ Until(z) \in Nat
  BY IntervalFacts DEF Piece, Facts
<1>2. /\ o1 \in Seq(Interval) /\ Len(o1) = Len(out) + 1 /\ o1[Len(out) + 1] = z
      /\ \A j \in 1..Len(out) : o1[j] = out[j]
  BY <1>1, AppendProperties
<1>3. o1 = out \o <<z>> /\ <<z>> \in Seq(Interval)
  BY <1>1, AppendIsConcat
<1> HIDE DEF o1
<1>4. /\ \A j \in DOMAIN out : Begin(out[j]) < Until(out[j])
      /\ \A i, j \in DOMAIN out : i < j => Until(out[i]) <= Begin(out[j])
      /\ \A j \in DOMAIN out : Begin(out[j]) \in Nat /\ Until(out[j]) \in Nat
      /\ Len(out) \in Nat /\ DOMAIN out = 1..Len(out)
  BY SortedFacts
<1>5. DOMAIN o1 = 1..Len(out) + 1 /\ \A j \in DOMAIN o1 : j = Len(out) + 1 \/ j \in DOMAIN out
  BY <1>2, <1>4, LenProperties
<1>6. \A j \in DOMAIN out : Until(out[j]) <= Begin(z)
  BY DEF Upto
<1>7. \A j \in DOMAIN o1 : Begin(o1[j]) < Until(o1[j]) /\ Until(o1[j]) <= Until(z)
  BY <1>1, <1>2, <1>4, <1>5, <1>6
<1>8. ASSUME NEW i \in DOMAIN o1, NEW j \in DOMAIN o1, i < j PROVE Until(o1[i]) <= Begin(o1[j])
  <2>1. i \in DOMAIN out /\ o1[i] = out[i]
    BY <1>2, <1>4, <1>5, <1>8
  <2>2. CASE j = Len(out) + 1
    BY <1>2, <1>6, <2>1, <2>2
  <2>3. CASE j \in DOMAIN out
    BY <1>2, <1>4, <1>8, <2>1, <2>3
  <2> QED
    BY <1>5, <2>2, <2>3
<1>9. Sorted(o1)
  BY <1>2, <1>7, <1>8, SortedFacts
<1>10. ASSUME NEW s \in Seq(Interval), After(Until(z), s), NEW j \in DOMAIN s
       PROVE  Upto(o1, Begin(s[j]))
  <2>1. Until(z) <= Begin(s[j]) /\ Begin(s[j]) \in Nat
    BY <1>10, SortedFacts DEF After
  <2>2. \A i \in DOMAIN o1 : Until(o1[i]) \in Nat
    BY <1>2, SortedFacts
  <2> QED
    BY <1>1, <1>7, <2>1, <2>2 DEF Upto
<1>11. Result(o1, a, b)
  BY <1>2, <1>9, <1>10 DEF Result
<1> QED
  BY <1>11 DEF o1

\* What the result says with it.
LEMMA AtEmit ==
  ASSUME NEW out \in Seq(Interval), NEW z \in Interval, NEW t \in Nat
  PROVE  IsUnion(At(Append(out, z), t), At(out, t), Span(Begin(z), Until(z), Cell(z), t))
<1>1. Append(out, z) = out \o <<z>> /\ <<z>> \in Seq(Interval)
  BY AppendIsConcat
<1> QED
  BY <1>1, AtConcat, AtOne

\* A merge in progress, and what it says of second t with the merge of what is left.
Good(k, out, a, b) ==
  k \in {"nodes", "zones"} /\ Slice(k, a) /\ Slice(k, b) /\ Result(out, a, b)

Mix(k, P, Q) ==
  IF P = {} THEN Q ELSE IF Q = {} THEN P ELSE {Gen(k, x, y) : x \in P, y \in Q}

Says(k, out, a, b, t) == At(out, t) \cup Mix(k, At(a, t), At(b, t))

\* A turn that adds z to the result and leaves a1 and b1.
Turned(k, out, a, b, z, a1, b1) ==
  /\ Good(k, Append(out, z), a1, b1)
  /\ \A t \in Nat : Says(k, Append(out, z), a1, b1, t) = Says(k, out, a, b, t)

\* A slice that begins after a time begins after an earlier one.
LEMMA AfterLess ==
  ASSUME NEW s \in Seq(Interval), NEW e \in Nat, NEW f \in Nat, f <= e, After(e, s)
  PROVE  After(f, s)
  BY SortedFacts DEF After

\* What is known of the first intervals of the two slices.
Heads(k, out, x, r, y, u) ==
  /\ Piece(x) /\ Slice(k, r) /\ After(Until(x), r) /\ Upto(out, Begin(x))
  /\ Piece(y) /\ Slice(k, u) /\ After(Until(y), u) /\ Upto(out, Begin(y))
  /\ k = "nodes" => x.cnt = 1 /\ y.cnt = 1
  /\ out \in Seq(Interval) /\ Sorted(out) /\ k \in {"nodes", "zones"}

\* They are those of the two slices of a merge in progress.
LEMMA HeadsFacts ==
  ASSUME NEW k, NEW out, NEW a, NEW b, Good(k, out, a, b), a # <<>>, b # <<>>
  PROVE  /\ Heads(k, out, Head(a), Tail(a), Head(b), Tail(b))
         /\ a = <<Head(a)>> \o Tail(a) /\ b = <<Head(b)>> \o Tail(b)
<1>1. /\ Slice(k, a) /\ Slice(k, b) /\ Result(out, a, b) /\ k \in {"nodes", "zones"}
  BY DEF Good
<1>2. /\ Piece(Head(a)) /\ Slice(k, Tail(a)) /\ After(Until(Head(a)), Tail(a))
      /\ k = "nodes" => Head(a).cnt = 1
      /\ a = <<Head(a)>> \o Tail(a)
  BY <1>1, SplitSlice
<1>3. /\ Piece(Head(b)) /\ Slice(k, Tail(b)) /\ After(Until(Head(b)), Tail(b))
      /\ k = "nodes" => Head(b).cnt = 1
      /\ b = <<Head(b)>> \o Tail(b)
  BY <1>1, SplitSlice
<1>4. ASSUME NEW s \in Seq(Interval), s # <<>> PROVE 1 \in DOMAIN s /\ s[1] = Head(s)
  BY <1>4, LenProperties, EmptySeq, HeadTailProperties
<1>5. Upto(out, Begin(Head(a))) /\ Upto(out, Begin(Head(b)))
  BY <1>1, <1>4 DEF Result, Slice
<1>6. out \in Seq(Interval) /\ Sorted(out)
  BY <1>1 DEF Result
<1> QED
  BY <1>1, <1>2, <1>3, <1>5, <1>6 DEF Heads

\* The spans of a merge, at one second: the names are those of Heads.
LEMMA HeadsNumbers ==
  ASSUME NEW k, NEW out, NEW x, NEW r, NEW y, NEW u, Heads(k, out, x, r, y, u)
  PROVE  /\ Begin(x) \in Nat /\ Until(x) \in Nat /\ Begin(x) < Until(x)
         /\ Begin(y) \in Nat /\ Until(y) \in Nat /\ Begin(y) < Until(y)
         /\ x \in Interval /\ y \in Interval
         /\ r \in Seq(Interval) /\ u \in Seq(Interval)
  BY IntervalFacts DEF Heads, Piece, Facts, Slice

\* What the two slices say of second t; before the first interval ends, the others say nothing.
LEMMA HeadsAt ==
  ASSUME NEW k, NEW out, NEW x, NEW r, NEW y, NEW u, Heads(k, out, x, r, y, u), NEW t \in Nat
  PROVE  /\ IsUnion(At(<<x>> \o r, t), Span(Begin(x), Until(x), Cell(x), t), At(r, t))
         /\ IsUnion(At(<<y>> \o u, t), Span(Begin(y), Until(y), Cell(y), t), At(u, t))
         /\ t < Until(x) => At(r, t) = {}
         /\ t < Until(y) => At(u, t) = {}
<1>1. /\ Until(x) \in Nat /\ Until(y) \in Nat /\ x \in Interval /\ y \in Interval
      /\ r \in Seq(Interval) /\ u \in Seq(Interval)
      /\ After(Until(x), r) /\ After(Until(y), u)
  BY HeadsNumbers DEF Heads
<1> QED
  BY <1>1, AtCons, AtAfter

\* An interval is before the other: it is added to the result.
LEMMA TurnTakeA ==
  ASSUME NEW k, NEW out, NEW x, NEW r, NEW y, NEW u, Heads(k, out, x, r, y, u),
         Until(x) <= Begin(y)
  PROVE  Turned(k, out, <<x>> \o r, <<y>> \o u, x, r, <<y>> \o u)
<1>1. /\ Begin(x) \in Nat /\ Until(x) \in Nat /\ Begin(x) < Until(x)
      /\ Begin(y) \in Nat /\ Until(y) \in Nat /\ Begin(y) < Until(y)
      /\ x \in Interval /\ y \in Interval /\ r \in Seq(Interval) /\ u \in Seq(Interval)
  BY HeadsNumbers
<1>2. PICK b : b = <<y>> \o u
  OBVIOUS
<1>3. Slice(k, b) /\ After(Begin(y), b)
  BY <1>2, ConsSlice DEF Heads
<1>4. b \in Seq(Interval) /\ After(Until(x), b)
  BY <1>1, <1>3, AfterLess DEF Slice
<1>5. Result(Append(out, x), r, b)
  BY <1>1, <1>4, Emit DEF Heads
<1>6. Good(k, Append(out, x), r, b)
  BY <1>3, <1>5 DEF Good, Heads
<1>7. ASSUME NEW t \in Nat
      PROVE  Says(k, Append(out, x), r, b, t) = Says(k, out, <<x>> \o r, b, t)
  <2>1. /\ IsUnion(At(<<x>> \o r, t), Span(Begin(x), Until(x), Cell(x), t), At(r, t))
        /\ IsUnion(At(b, t), Span(Begin(y), Until(y), Cell(y), t), At(u, t))
        /\ t < Until(x) => At(r, t) = {}
        /\ t < Until(y) => At(u, t) = {}
    BY <1>2, HeadsAt
  <2>2. IsUnion(At(Append(out, x), t), At(out, t), Span(Begin(x), Until(x), Cell(x), t))
    BY <1>1, AtEmit DEF Heads
  <2>3. CASE t < Until(x)
    <3>1. At(b, t) = {} /\ At(r, t) = {}
      BY <1>1, <2>1, <2>3 DEF Span, IsUnion
    <3> QED
      BY <2>1, <2>2, <3>1 DEF Says, Mix, IsUnion
  <2>4. CASE ~(t < Until(x))
    <3>1. Span(Begin(x), Until(x), Cell(x), t) = {}
      BY <2>4 DEF Span
    <3> QED
      BY <2>1, <2>2, <3>1 DEF Says, IsUnion
  <2> QED
    BY <2>3, <2>4
<1>8. Turned(k, out, <<x>> \o r, b, x, r, b)
  BY <1>6, <1>7 DEF Turned
<1> QED
  BY <1>2, <1>8

\* ... from the second slice.
LEMMA TurnTakeB ==
  ASSUME NEW k, NEW out, NEW x, NEW r, NEW y, NEW u, Heads(k, out, x, r, y, u),
         Until(y) <= Begin(x)
  PROVE  Turned(k, out, <<x>> \o r, <<y>> \o u, y, <<x>> \o r, u)
<1>1. /\ Begin(x) \in Nat /\ Until(x) \in Nat /\ Begin(x) < Until(x)
      /\ Begin(y) \in Nat /\ Until(y) \in Nat /\ Begin(y) < Until(y)
      /\ x \in Interval /\ y \in Interval /\ r \in Seq(Interval) /\ u \in Seq(Interval)
  BY HeadsNumbers
<1>2. PICK a : a = <<x>> \o r
  OBVIOUS
<1>3. Slice(k, a) /\ After(Begin(x), a)
  BY <1>2, ConsSlice DEF Heads
<1>4. a \in Seq(Interval) /\ After(Until(y), a)
  BY <1>1, <1>3, AfterLess DEF Slice
<1>5. Result(Append(out, y), a, u)
  BY <1>1, <1>4, Emit DEF Heads
<1>6. Good(k, Append(out, y), a, u)
  BY <1>3, <1>5 DEF Good, Heads
<1>7. ASSUME NEW t \in Nat
      PROVE  Says(k, Append(out, y), a, u, t) = Says(k, out, a, <<y>> \o u, t)
  <2>1. /\ IsUnion(At(a, t), Span(Begin(x), Until(x), Cell(x), t), At(r, t))
        /\ IsUnion(At(<<y>> \o u, t), Span(Begin(y), Until(y), Cell(y), t), At(u, t))
        /\ t < Until(x) => At(r, t) = {}
        /\ t < Until(y) => At(u, t) = {}
    BY <1>2, HeadsAt
  <2>2. IsUnion(At(Append(out, y), t), At(out, t), Span(Begin(y), Until(y), Cell(y), t))
    BY <1>1, AtEmit DEF Heads
  <2>3. CASE t < Until(y)
    <3>1. At(a, t) = {} /\ At(u, t) = {}
      BY <1>1, <2>1, <2>3 DEF Span, IsUnion
    <3> QED
      BY <2>1, <2>2, <3>1 DEF Says, Mix, IsUnion
  <2>4. CASE ~(t < Until(y))
    <3>1. Span(Begin(y), Until(y), Cell(y), t) = {}
      BY <2>4 DEF Span
    <3> QED
      BY <2>1, <2>2, <3>1 DEF Says, IsUnion
  <2> QED
    BY <2>3, <2>4
<1>8. Turned(k, out, a, <<y>> \o u, y, a, u)
  BY <1>6, <1>7 DEF Turned
<1> QED
  BY <1>2, <1>8

\* An interval begins before the other and ends in it: its first part is added.
LEMMA TurnCutA ==
  ASSUME NEW k, NEW out, NEW x, NEW r, NEW y, NEW u, Heads(k, out, x, r, y, u),
         Begin(x) < Begin(y), Begin(y) < Until(x),
         NEW z, z = [x EXCEPT !.end = Begin(y)], NEW w, w = [x EXCEPT !.beg = Begin(y)]
  PROVE  Turned(k, out, <<x>> \o r, <<y>> \o u, z, <<w>> \o r, <<y>> \o u)
<1>1. /\ Begin(x) \in Nat /\ Until(x) \in Nat /\ Begin(x) < Until(x)
      /\ Begin(y) \in Nat /\ Until(y) \in Nat /\ Begin(y) < Until(y)
      /\ x \in Interval /\ y \in Interval /\ r \in Seq(Interval) /\ u \in Seq(Interval)
  BY HeadsNumbers
<1>2. /\ z \in Interval /\ Begin(z) = Begin(x) /\ Until(z) = Begin(y) /\ Cell(z) = Cell(x)
      /\ w \in Interval /\ Begin(w) = Begin(y) /\ Until(w) = Until(x) /\ Cell(w) = Cell(x)
      /\ w.cnt = x.cnt
  BY <1>1, WithBegin, WithEnd
<1>3. Piece(z) /\ Piece(w)
  BY <1>1, <1>2 DEF Piece
<1>4. Slice(k, <<w>> \o r) /\ After(Until(z), <<w>> \o r)
  <2>1. Slice(k, r) /\ After(Until(w), r) /\ (k = "nodes" => w.cnt = 1)
    BY <1>2 DEF Heads
  <2> QED
    BY <1>2, <1>3, <2>1, ConsSlice
<1>5. Slice(k, <<y>> \o u) /\ After(Until(z), <<y>> \o u)
  BY <1>2, ConsSlice DEF Heads
<1>6. PICK s, v : s = <<w>> \o r /\ v = <<y>> \o u
  OBVIOUS
<1>7. s \in Seq(Interval) /\ v \in Seq(Interval)
  BY <1>4, <1>5, <1>6 DEF Slice
<1>8. Result(Append(out, z), s, v)
  BY <1>2, <1>3, <1>4, <1>5, <1>6, <1>7, Emit DEF Heads
<1>9. Good(k, Append(out, z), s, v)
  BY <1>4, <1>5, <1>6, <1>8 DEF Good, Heads
<1>10. ASSUME NEW t \in Nat
       PROVE  Says(k, Append(out, z), s, v, t) = Says(k, out, <<x>> \o r, v, t)
  <2>1. /\ IsUnion(At(<<x>> \o r, t), Span(Begin(x), Until(x), Cell(x), t), At(r, t))
        /\ IsUnion(At(v, t), Span(Begin(y), Until(y), Cell(y), t), At(u, t))
        /\ t < Until(x) => At(r, t) = {}
        /\ t < Until(y) => At(u, t) = {}
    BY <1>6, HeadsAt
  <2>2. IsUnion(At(Append(out, z), t), At(out, t), Span(Begin(x), Begin(y), Cell(x), t))
    BY <1>2, AtEmit DEF Heads
  <2>3. IsUnion(At(s, t), Span(Begin(y), Until(x), Cell(x), t), At(r, t))
    BY <1>1, <1>2, <1>6, AtCons
  <2>4. CASE t < Begin(y)
    <3>1. At(r, t) = {} /\ At(u, t) = {}
      BY <1>1, <2>1, <2>4
    <3>2. /\ Span(Begin(y), Until(y), Cell(y), t) = {}
          /\ Span(Begin(y), Until(x), Cell(x), t) = {}
          /\ Span(Begin(x), Until(x), Cell(x), t) = Span(Begin(x), Begin(y), Cell(x), t)
      BY <1>1, <2>4 DEF Span
    <3>3. /\ At(v, t) = {} /\ At(s, t) = {}
          /\ At(<<x>> \o r, t) = Span(Begin(x), Begin(y), Cell(x), t)
      BY <2>1, <2>3, <3>1, <3>2 DEF IsUnion
    <3> QED
      BY <2>2, <3>3 DEF Says, Mix, IsUnion
  <2>5. CASE ~(t < Begin(y))
    <3>1. /\ Span(Begin(x), Begin(y), Cell(x), t) = {}
          /\ Span(Begin(y), Until(x), Cell(x), t) = Span(Begin(x), Until(x), Cell(x), t)
      BY <1>1, <2>5 DEF Span
    <3>2. At(Append(out, z), t) = At(out, t) /\ At(s, t) = At(<<x>> \o r, t)
      BY <2>1, <2>2, <2>3, <3>1 DEF IsUnion
    <3> QED
      BY <3>2 DEF Says
  <2> QED
    BY <2>4, <2>5
<1>11. Turned(k, out, <<x>> \o r, v, z, s, v)
  BY <1>9, <1>10 DEF Turned
<1> QED
  BY <1>6, <1>11

\* An interval begins before the other and ends in it: its first part is added.
LEMMA TurnCutB ==
  ASSUME NEW k, NEW out, NEW x, NEW r, NEW y, NEW u, Heads(k, out, x, r, y, u),
         Begin(y) < Begin(x), Begin(x) < Until(y),
         NEW z, z = [y EXCEPT !.end = Begin(x)], NEW w, w = [y EXCEPT !.beg = Begin(x)]
  PROVE  Turned(k, out, <<x>> \o r, <<y>> \o u, z, <<x>> \o r, <<w>> \o u)
<1>1. /\ Begin(x) \in Nat /\ Until(x) \in Nat /\ Begin(x) < Until(x)
      /\ Begin(y) \in Nat /\ Until(y) \in Nat /\ Begin(y) < Until(y)
      /\ x \in Interval /\ y \in Interval /\ r \in Seq(Interval) /\ u \in Seq(Interval)
  BY HeadsNumbers
<1>2. /\ z \in Interval /\ Begin(z) = Begin(y) /\ Until(z) = Begin(x) /\ Cell(z) = Cell(y)
      /\ w \in Interval /\ Begin(w) = Begin(x) /\ Until(w) = Until(y) /\ Cell(w) = Cell(y)
      /\ w.cnt = y.cnt
  BY <1>1, WithBegin, WithEnd
<1>3. Piece(z) /\ Piece(w)
  BY <1>1, <1>2 DEF Piece
<1>4. Slice(k, <<w>> \o u) /\ After(Until(z), <<w>> \o u)
  <2>1. Slice(k, u) /\ After(Until(w), u) /\ (k = "nodes" => w.cnt = 1)
    BY <1>2 DEF Heads
  <2> QED
    BY <1>2, <1>3, <2>1, ConsSlice
<1>5. Slice(k, <<x>> \o r) /\ After(Until(z), <<x>> \o r)
  BY <1>2, ConsSlice DEF Heads
<1>6. PICK s, v : s = <<w>> \o u /\ v = <<x>> \o r
  OBVIOUS
<1>7. s \in Seq(Interval) /\ v \in Seq(Interval)
  BY <1>4, <1>5, <1>6 DEF Slice
<1>8. Result(Append(out, z), v, s)
  BY <1>2, <1>3, <1>4, <1>5, <1>6, <1>7, Emit DEF Heads
<1>9. Good(k, Append(out, z), v, s)
  BY <1>4, <1>5, <1>6, <1>8 DEF Good, Heads
<1>10. ASSUME NEW t \in Nat
       PROVE  Says(k, Append(out, z), v, s, t) = Says(k, out, v, <<y>> \o u, t)
  <2>1. /\ IsUnion(At(v, t), Span(Begin(x), Until(x), Cell(x), t), At(r, t))
        /\ IsUnion(At(<<y>> \o u, t), Span(Begin(y), Until(y), Cell(y), t), At(u, t))
        /\ t < Until(x) => At(r, t) = {}
        /\ t < Until(y) => At(u, t) = {}
    BY <1>6, HeadsAt
  <2>2. IsUnion(At(Append(out, z), t), At(out, t), Span(Begin(y), Begin(x), Cell(y), t))
    BY <1>2, AtEmit DEF Heads
  <2>3. IsUnion(At(s, t), Span(Begin(x), Until(y), Cell(y), t), At(u, t))
    BY <1>1, <1>2, <1>6, AtCons
  <2>4. CASE t < Begin(x)
    <3>1. At(u, t) = {} /\ At(r, t) = {}
      BY <1>1, <2>1, <2>4
    <3>2. /\ Span(Begin(x), Until(x), Cell(x), t) = {}
          /\ Span(Begin(x), Until(y), Cell(y), t) = {}
          /\ Span(Begin(y), Until(y), Cell(y), t) = Span(Begin(y), Begin(x), Cell(y), t)
      BY <1>1, <2>4 DEF Span
    <3>3. /\ At(v, t) = {} /\ At(s, t) = {}
          /\ At(<<y>> \o u, t) = Span(Begin(y), Begin(x), Cell(y), t)
      BY <2>1, <2>3, <3>1, <3>2 DEF IsUnion
    <3> QED
      BY <2>2, <3>3 DEF Says, Mix, IsUnion
  <2>5. CASE ~(t < Begin(x))
    <3>1. /\ Span(Begin(y), Begin(x), Cell(y), t) = {}
          /\ Span(Begin(x), Until(y), Cell(y), t) = Span(Begin(y), Until(y), Cell(y), t)
      BY <1>1, <2>5 DEF Span
    <3>2. At(Append(out, z), t) = At(out, t) /\ At(s, t) = At(<<y>> \o u, t)
      BY <2>1, <2>2, <2>3, <3>1 DEF IsUnion
    <3> QED
      BY <3>2 DEF Says
  <2> QED
    BY <2>4, <2>5
<1>11. Turned(k, out, v, <<y>> \o u, z, v, s)
  BY <1>9, <1>10 DEF Turned
<1> QED
  BY <1>6, <1>11

\* Two intervals are the same seconds.
LEMMA TurnBoth ==
  ASSUME NEW k, NEW out, NEW x, NEW r, NEW y, NEW u, Heads(k, out, x, r, y, u),
         Begin(x) = Begin(y), Until(x) = Until(y), NEW z, z = Gen(k, x, y)
  PROVE  Turned(k, out, <<x>> \o r, <<y>> \o u, z, r, u)
<1>1. /\ Begin(x) \in Nat /\ Until(x) \in Nat /\ Begin(x) < Until(x)
      /\ Begin(y) \in Nat /\ Until(y) \in Nat /\ Begin(y) < Until(y)
      /\ x \in Interval /\ y \in Interval /\ r \in Seq(Interval) /\ u \in Seq(Interval)
  BY HeadsNumbers
<1>2. /\ z \in Interval /\ Begin(z) = Begin(x) /\ Until(z) = Until(x)
      /\ Cell(z) = Gen(k, Cell(x), Cell(y))
  BY <1>1, GenFacts DEF Heads
<1>3. Piece(z) /\ After(Until(z), r) /\ After(Until(z), u)
  BY <1>1, <1>2 DEF Piece, Heads
<1>4. PICK s, v : s = r /\ v = u
  OBVIOUS
<1>5. Slice(k, s) /\ Slice(k, v) /\ After(Until(z), s) /\ After(Until(z), v)
  BY <1>3, <1>4 DEF Heads
<1>6. s \in Seq(Interval) /\ v \in Seq(Interval) /\ Piece(z)
  BY <1>1, <1>2, <1>5 DEF Slice, Piece
<1>7. Result(Append(out, z), s, v)
  BY <1>2, <1>5, <1>6, Emit DEF Heads
<1>8. Good(k, Append(out, z), s, v)
  BY <1>5, <1>7 DEF Good, Heads
<1>9. ASSUME NEW t \in Nat
      PROVE  Says(k, Append(out, z), s, v, t) = Says(k, out, <<x>> \o r, <<y>> \o u, t)
  <2>1. /\ IsUnion(At(<<x>> \o r, t), Span(Begin(x), Until(x), Cell(x), t), At(r, t))
        /\ IsUnion(At(<<y>> \o u, t), Span(Begin(y), Until(y), Cell(y), t), At(u, t))
        /\ t < Until(x) => At(r, t) = {}
        /\ t < Until(y) => At(u, t) = {}
    BY HeadsAt
  <2>2. PICK g : g = Gen(k, Cell(x), Cell(y))
    OBVIOUS
  <2>3. IsUnion(At(Append(out, z), t), At(out, t), Span(Begin(x), Until(x), g, t))
    BY <1>2, <2>2, AtEmit DEF Heads
  <2>4. At(s, t) = At(r, t) /\ At(v, t) = At(u, t)
    BY <1>4
  <2>5. CASE t < Begin(x)
    <3>1. /\ At(s, t) = {} /\ At(v, t) = {} /\ At(Append(out, z), t) = At(out, t)
          /\ At(<<x>> \o r, t) = {} /\ At(<<y>> \o u, t) = {}
      BY <1>1, <2>1, <2>3, <2>4, <2>5 DEF Span, IsUnion
    <3> QED
      BY <3>1 DEF Says
  <2>6. CASE Begin(x) <= t /\ t < Until(x)
    <3>1. /\ At(s, t) = {} /\ At(v, t) = {} /\ At(Append(out, z), t) = At(out, t) \cup {g}
          /\ At(<<x>> \o r, t) = {Cell(x)} /\ At(<<y>> \o u, t) = {Cell(y)}
      BY <1>1, <2>1, <2>3, <2>4, <2>6 DEF Span, IsUnion
    <3>2. Mix(k, {Cell(x)}, {Cell(y)}) = {g} /\ Mix(k, {}, {}) = {}
      BY <2>2 DEF Mix
    <3> QED
      BY <3>1, <3>2 DEF Says
  <2>7. CASE ~(t < Until(x))
    <3>1. /\ Span(Begin(x), Until(x), Cell(x), t) = {}
          /\ Span(Begin(x), Until(x), g, t) = {}
          /\ Span(Begin(y), Until(y), Cell(y), t) = {}
      BY <1>1, <2>7 DEF Span
    <3>2. /\ At(s, t) = At(<<x>> \o r, t) /\ At(v, t) = At(<<y>> \o u, t)
          /\ At(Append(out, z), t) = At(out, t)
      BY <2>1, <2>3, <2>4, <3>1 DEF IsUnion
    <3> QED
      BY <3>2 DEF Says
  <2> QED
    BY <1>1, <2>5, <2>6, <2>7
<1>10. Turned(k, out, <<x>> \o r, <<y>> \o u, z, s, v)
  BY <1>8, <1>9 DEF Turned
<1> QED
  BY <1>4, <1>10

\* Two intervals begin together and the first ends first.
LEMMA TurnBothA ==
  ASSUME NEW k, NEW out, NEW x, NEW r, NEW y, NEW u, Heads(k, out, x, r, y, u),
         Begin(x) = Begin(y), Until(x) < Until(y), NEW z, z = Gen(k, x, y),
         NEW w, w = [y EXCEPT !.beg = Until(x)]
  PROVE  Turned(k, out, <<x>> \o r, <<y>> \o u, z, r, <<w>> \o u)
<1>1. /\ Begin(x) \in Nat /\ Until(x) \in Nat /\ Begin(x) < Until(x)
      /\ Begin(y) \in Nat /\ Until(y) \in Nat /\ Begin(y) < Until(y)
      /\ x \in Interval /\ y \in Interval /\ r \in Seq(Interval) /\ u \in Seq(Interval)
  BY HeadsNumbers
<1>2. /\ z \in Interval /\ Begin(z) = Begin(x) /\ Until(z) = Until(x)
      /\ Cell(z) = Gen(k, Cell(x), Cell(y))
  BY <1>1, GenFacts DEF Heads
<1>3. /\ w \in Interval /\ Begin(w) = Until(x) /\ Until(w) = Until(y)
      /\ Cell(w) = Cell(y) /\ w.cnt = y.cnt
  BY <1>1, WithBegin
<1>4. PICK s, v : s = r /\ v = <<w>> \o u
  OBVIOUS
<1>5. Slice(k, s) /\ Slice(k, v) /\ After(Until(z), s) /\ After(Until(z), v)
  <2>1. Piece(w)
    BY <1>1, <1>3 DEF Piece
  <2>2. Slice(k, u) /\ After(Until(w), u) /\ (k = "nodes" => w.cnt = 1)
    BY <1>3 DEF Heads
  <2>3. Slice(k, <<w>> \o u) /\ After(Until(z), <<w>> \o u)
    BY <1>2, <1>3, <2>1, <2>2, ConsSlice
  <2>4. Slice(k, r) /\ After(Until(z), r)
    BY <1>2 DEF Heads
  <2> QED
    BY <1>4, <2>3, <2>4
<1>6. s \in Seq(Interval) /\ v \in Seq(Interval) /\ Piece(z)
  BY <1>1, <1>2, <1>5 DEF Slice, Piece
<1>7. Result(Append(out, z), s, v)
  BY <1>2, <1>5, <1>6, Emit DEF Heads
<1>8. Good(k, Append(out, z), s, v)
  BY <1>5, <1>7 DEF Good, Heads
<1>9. ASSUME NEW t \in Nat
      PROVE  Says(k, Append(out, z), s, v, t) = Says(k, out, <<x>> \o r, <<y>> \o u, t)
  <2>1. /\ IsUnion(At(<<x>> \o r, t), Span(Begin(x), Until(x), Cell(x), t), At(r, t))
        /\ IsUnion(At(<<y>> \o u, t), Span(Begin(y), Until(y), Cell(y), t), At(u, t))
        /\ t < Until(x) => At(r, t) = {}
        /\ t < Until(y) => At(u, t) = {}
    BY HeadsAt
  <2>2. PICK g : g = Gen(k, Cell(x), Cell(y))
    OBVIOUS
  <2>3. IsUnion(At(Append(out, z), t), At(out, t), Span(Begin(x), Until(x), g, t))
    BY <1>2, <2>2, AtEmit DEF Heads
  <2>4. /\ IsUnion(At(v, t), Span(Until(x), Until(y), Cell(y), t), At(u, t))
        /\ At(s, t) = At(r, t)
    BY <1>1, <1>3, <1>4, AtCons
  <2>5. CASE t < Begin(x)
    <3>1. /\ At(s, t) = {} /\ At(v, t) = {} /\ At(Append(out, z), t) = At(out, t)
          /\ At(<<x>> \o r, t) = {} /\ At(<<y>> \o u, t) = {}
      BY <1>1, <2>1, <2>3, <2>4, <2>5 DEF Span, IsUnion
    <3> QED
      BY <3>1 DEF Says
  <2>6. CASE Begin(x) <= t /\ t < Until(x)
    <3>1. /\ At(s, t) = {} /\ At(v, t) = {} /\ At(Append(out, z), t) = At(out, t) \cup {g}
          /\ At(<<x>> \o r, t) = {Cell(x)} /\ At(<<y>> \o u, t) = {Cell(y)}
      BY <1>1, <2>1, <2>3, <2>4, <2>6 DEF Span, IsUnion
    <3>2. Mix(k, {Cell(x)}, {Cell(y)}) = {g} /\ Mix(k, {}, {}) = {}
      BY <2>2 DEF Mix
    <3> QED
      BY <3>1, <3>2 DEF Says
  <2>7. CASE ~(t < Until(x))
    <3>1. /\ Span(Begin(x), Until(x), Cell(x), t) = {}
          /\ Span(Begin(x), Until(x), g, t) = {}
          /\ Span(Until(x), Until(y), Cell(y), t)
               = Span(Begin(y), Until(y), Cell(y), t)
      BY <1>1, <2>7 DEF Span
    <3>2. /\ At(s, t) = At(<<x>> \o r, t) /\ At(v, t) = At(<<y>> \o u, t)
          /\ At(Append(out, z), t) = At(out, t)
      BY <2>1, <2>3, <2>4, <3>1 DEF IsUnion
    <3> QED
      BY <3>2 DEF Says
  <2> QED
    BY <1>1, <2>5, <2>6, <2>7
<1>10. Turned(k, out, <<x>> \o r, <<y>> \o u, z, s, v)
  BY <1>8, <1>9 DEF Turned
<1> QED
  BY <1>4, <1>10

\* Two intervals begin together and the second ends first.
LEMMA TurnBothB ==
  ASSUME NEW k, NEW out, NEW x, NEW r, NEW y, NEW u, Heads(k, out, x, r, y, u),
         Begin(x) = Begin(y), Until(y) < Until(x), NEW z, z = Gen(k, y, x),
         NEW w, w = [x EXCEPT !.beg = Until(y)]
  PROVE  Turned(k, out, <<x>> \o r, <<y>> \o u, z, <<w>> \o r, u)
<1>1. /\ Begin(x) \in Nat /\ Until(x) \in Nat /\ Begin(x) < Until(x)
      /\ Begin(y) \in Nat /\ Until(y) \in Nat /\ Begin(y) < Until(y)
      /\ x \in Interval /\ y \in Interval /\ r \in Seq(Interval) /\ u \in Seq(Interval)
  BY HeadsNumbers
<1>2. /\ z \in Interval /\ Begin(z) = Begin(y) /\ Until(z) = Until(y)
      /\ Cell(z) = Gen(k, Cell(x), Cell(y))
  BY <1>1, GenFacts DEF Heads
<1>3. /\ w \in Interval /\ Begin(w) = Until(y) /\ Until(w) = Until(x)
      /\ Cell(w) = Cell(x) /\ w.cnt = x.cnt
  BY <1>1, WithBegin
<1>4. PICK s, v : s = <<w>> \o r /\ v = u
  OBVIOUS
<1>5. Slice(k, s) /\ Slice(k, v) /\ After(Until(z), s) /\ After(Until(z), v)
  <2>1. Piece(w)
    BY <1>1, <1>3 DEF Piece
  <2>2. Slice(k, r) /\ After(Until(w), r) /\ (k = "nodes" => w.cnt = 1)
    BY <1>3 DEF Heads
  <2>3. Slice(k, <<w>> \o r) /\ After(Until(z), <<w>> \o r)
    BY <1>2, <1>3, <2>1, <2>2, ConsSlice
  <2>4. Slice(k, u) /\ After(Until(z), u)
    BY <1>2 DEF Heads
  <2> QED
    BY <1>4, <2>3, <2>4
<1>6. s \in Seq(Interval) /\ v \in Seq(Interval) /\ Piece(z)
  BY <1>1, <1>2, <1>5 DEF Slice, Piece
<1>7. Result(Append(out, z), s, v)
  BY <1>2, <1>5, <1>6, Emit DEF Heads
<1>8. Good(k, Append(out, z), s, v)
  BY <1>5, <1>7 DEF Good, Heads
<1>9. ASSUME NEW t \in Nat
      PROVE  Says(k, Append(out, z), s, v, t) = Says(k, out, <<x>> \o r, <<y>> \o u, t)
  <2>1. /\ IsUnion(At(<<x>> \o r, t), Span(Begin(x), Until(x), Cell(x), t), At(r, t))
        /\ IsUnion(At(<<y>> \o u, t), Span(Begin(y), Until(y), Cell(y), t), At(u, t))
        /\ t < Until(x) => At(r, t) = {}
        /\ t < Until(y) => At(u, t) = {}
    BY HeadsAt
  <2>2. PICK g : g = Gen(k, Cell(x), Cell(y))
    OBVIOUS
  <2>3. IsUnion(At(Append(out, z), t), At(out, t), Span(Begin(y), Until(y), g, t))
    BY <1>2, <2>2, AtEmit DEF Heads
  <2>4. /\ IsUnion(At(s, t), Span(Until(y), Until(x), Cell(x), t), At(r, t))
        /\ At(v, t) = At(u, t)
    BY <1>1, <1>3, <1>4, AtCons
  <2>5. CASE t < Begin(x)
    <3>1. /\ At(s, t) = {} /\ At(v, t) = {} /\ At(Append(out, z), t) = At(out, t)
          /\ At(<<x>> \o r, t) = {} /\ At(<<y>> \o u, t) = {}
      BY <1>1, <2>1, <2>3, <2>4, <2>5 DEF Span, IsUnion
    <3> QED
      BY <3>1 DEF Says
  <2>6. CASE Begin(x) <= t /\ t < Until(y)
    <3>1. /\ At(s, t) = {} /\ At(v, t) = {} /\ At(Append(out, z), t) = At(out, t) \cup {g}
          /\ At(<<x>> \o r, t) = {Cell(x)} /\ At(<<y>> \o u, t) = {Cell(y)}
      BY <1>1, <2>1, <2>3, <2>4, <2>6 DEF Span, IsUnion
    <3>2. Mix(k, {Cell(x)}, {Cell(y)}) = {g} /\ Mix(k, {}, {}) = {}
      BY <2>2 DEF Mix
    <3> QED
      BY <3>1, <3>2 DEF Says
  <2>7. CASE ~(t < Until(y))
    <3>1. /\ Span(Begin(y), Until(y), Cell(y), t) = {}
          /\ Span(Begin(y), Until(y), g, t) = {}
          /\ Span(Until(y), Until(x), Cell(x), t)
               = Span(Begin(x), Until(x), Cell(x), t)
      BY <1>1, <2>7 DEF Span
    <3>2. /\ At(s, t) = At(<<x>> \o r, t) /\ At(v, t) = At(<<y>> \o u, t)
          /\ At(Append(out, z), t) = At(out, t)
      BY <2>1, <2>3, <2>4, <3>1 DEF IsUnion
    <3> QED
      BY <3>2 DEF Says
  <2> QED
    BY <1>1, <2>5, <2>6, <2>7
<1>10. Turned(k, out, <<x>> \o r, <<y>> \o u, z, s, v)
  BY <1>8, <1>9 DEF Turned
<1> QED
  BY <1>4, <1>10

Merge3 == [out : Seq(Interval), a : Seq(Interval), b : Seq(Interval)]

\* A merge in progress, in the model's record.
Holds(k, g) == g \in Merge3 /\ Good(k, g.out, g.a, g.b)

Means(k, g, t) == Says(k, g.out, g.a, g.b, t)

Of(o, a, b) == [out |-> o, a |-> a, b |-> b]

\* A merge is its result and its two slices.
LEMMA OfFacts ==
  ASSUME NEW k, NEW o, NEW a, NEW b, Good(k, o, a, b)
  PROVE  Holds(k, Of(o, a, b)) /\ \A t : Means(k, Of(o, a, b), t) = Says(k, o, a, b, t)
  BY DEF Holds, Means, Of, Merge3, Good, Slice, Result

\* The result and one of the slices replaced.
WithA(g, o, s) == [g EXCEPT !.out = o, !.a = s]
WithB(g, o, s) == [g EXCEPT !.out = o, !.b = s]

\* Each of them, written in full.
LEMMA OfWith ==
  ASSUME NEW g \in Merge3, NEW o, NEW s
  PROVE  WithA(g, o, s) = Of(o, s, g.b) /\ WithB(g, o, s) = Of(o, g.a, s)
<1>1. PICK p, q, r : p = g.out /\ q = g.a /\ r = g.b
  OBVIOUS
<1>2. g = [out |-> p, a |-> q, b |-> r]
  BY <1>1 DEF Merge3
<1>3. PICK h : h = [out |-> o, a |-> q, b |-> r]
  OBVIOUS
<1>4. h = [g EXCEPT !.out = o]
  BY <1>2, <1>3
<1>5. [h EXCEPT !.a = s] = Of(o, s, r) /\ [h EXCEPT !.b = s] = Of(o, q, s)
  BY <1>3 DEF Of
<1>6. WithA(g, o, s) = [h EXCEPT !.a = s] /\ WithB(g, o, s) = [h EXCEPT !.b = s]
  BY <1>4 DEF WithA, WithB
<1> QED
  BY <1>1, <1>5, <1>6

\* What each turn does to the first intervals x and y.
Forms(k, g, x, r, y, u) ==
  /\ TakeA(g) = Of(Append(g.out, x), r, g.b)
  /\ TakeB(g) = Of(Append(g.out, y), g.a, u)
  /\ CutA(g) = Of(Append(g.out, [x EXCEPT !.end = Begin(y)]),
                  <<[x EXCEPT !.beg = Begin(y)]>> \o r, g.b)
  /\ CutB(g) = Of(Append(g.out, [y EXCEPT !.end = Begin(x)]), g.a,
                  <<[y EXCEPT !.beg = Begin(x)]>> \o u)
  /\ Both(k, g) = Of(Append(g.out, Gen(k, x, y)), r, u)
  /\ BothA(k, g) = Of(Append(g.out, Gen(k, x, y)), r, <<[y EXCEPT !.beg = Until(x)]>> \o u)
  /\ BothB(k, g) = Of(Append(g.out, Gen(k, y, x)), <<[x EXCEPT !.beg = Until(y)]>> \o r, u)

\* The seven results of a turn (MergeStep), in those terms.
LEMMA StepForms ==
  ASSUME NEW k, NEW g \in Merge3, NEW x, NEW r, NEW y, NEW u,
         x = Head(g.a), r = Tail(g.a), y = Head(g.b), u = Tail(g.b)
  PROVE  Forms(k, g, x, r, y, u)
<1>1. A(g) = x /\ B(g) = y
  BY DEF A, B
<1>2. x.beg = Begin(x) /\ x.end = Until(x) /\ y.beg = Begin(y) /\ y.end = Until(y)
  BY DEF Begin, Until
<1>3. \A e : /\ From(g.a, e) = <<[x EXCEPT !.beg = e]>> \o r
              /\ From(g.b, e) = <<[y EXCEPT !.beg = e]>> \o u
  BY DEF From
<1>4. TakeA(g) = Of(Append(g.out, x), r, g.b) /\ TakeB(g) = Of(Append(g.out, y), g.a, u)
  <2>1. /\ TakeA(g) = WithA(g, Append(g.out, x), r)
        /\ TakeB(g) = WithB(g, Append(g.out, y), u)
    BY <1>1 DEF TakeA, TakeB, WithA, WithB
  <2> QED
    BY <2>1, OfWith
<1>5. CutA(g) = Of(Append(g.out, [x EXCEPT !.end = Begin(y)]),
                   <<[x EXCEPT !.beg = Begin(y)]>> \o r, g.b)
  <2>1. PICK o, s : o = Append(g.out, [x EXCEPT !.end = Begin(y)]) /\ s = From(g.a, Begin(y))
    OBVIOUS
  <2>2. CutA(g) = WithA(g, o, s)
    BY <1>1, <1>2, <2>1 DEF CutA, WithA
  <2> QED
    BY <1>3, <2>1, <2>2, OfWith
<1>6. CutB(g) = Of(Append(g.out, [y EXCEPT !.end = Begin(x)]), g.a,
                   <<[y EXCEPT !.beg = Begin(x)]>> \o u)
  <2>1. PICK o, s : o = Append(g.out, [y EXCEPT !.end = Begin(x)]) /\ s = From(g.b, Begin(x))
    OBVIOUS
  <2>2. CutB(g) = WithB(g, o, s)
    BY <1>1, <1>2, <2>1 DEF CutB, WithB
  <2>3. CutB(g) = Of(o, g.a, s)
    BY <2>2, OfWith
  <2> QED
    BY <1>3, <2>1, <2>3
<1>7. Both(k, g) = Of(Append(g.out, Gen(k, x, y)), r, u)
  BY <1>1 DEF Both, Of
<1>8. BothA(k, g) = Of(Append(g.out, Gen(k, x, y)), r, <<[y EXCEPT !.beg = Until(x)]>> \o u)
  BY <1>1, <1>2, <1>3 DEF BothA, Of
<1>9. BothB(k, g) = Of(Append(g.out, Gen(k, y, x)), <<[x EXCEPT !.beg = Until(y)]>> \o r, u)
  BY <1>1, <1>2, <1>3 DEF BothB, Of
<1> QED
  BY <1>4, <1>5, <1>6, <1>7, <1>8, <1>9 DEF Forms

\* The cases of the switch.
LEMMA StepCases ==
  ASSUME NEW k, NEW g, NEW x \in Interval, NEW y \in Interval, x = A(g), y = B(g)
  PROVE  \/ Until(x) <= Begin(y) /\ MergeStep(k, g) = TakeA(g)
         \/ Until(y) <= Begin(x) /\ MergeStep(k, g) = TakeB(g)
         \/ Begin(x) = Begin(y) /\ Until(x) = Until(y) /\ MergeStep(k, g) = Both(k, g)
         \/ Begin(x) = Begin(y) /\ Until(x) < Until(y) /\ MergeStep(k, g) = BothA(k, g)
         \/ Begin(x) = Begin(y) /\ Until(y) < Until(x) /\ MergeStep(k, g) = BothB(k, g)
         \/ Begin(x) < Begin(y) /\ Begin(y) < Until(x) /\ MergeStep(k, g) = CutA(g)
         \/ Begin(y) < Begin(x) /\ Begin(x) < Until(y) /\ MergeStep(k, g) = CutB(g)
<1>1. /\ Begin(x) \in Nat /\ Until(x) \in Nat /\ Begin(y) \in Nat /\ Until(y) \in Nat
  BY IntervalFacts DEF Facts
<1>2. /\ A(g).beg = Begin(x) /\ A(g).end = Until(x) /\ B(g).beg = Begin(y) /\ B(g).end = Until(y)
  BY DEF Begin, Until
<1>3. PICK bx, ex, by, ey : bx = Begin(x) /\ ex = Until(x) /\ by = Begin(y) /\ ey = Until(y)
  OBVIOUS
<1>4. MergeStep(k, g) =
        CASE ex <= by -> TakeA(g)
          [] ex > by /\ ey <= bx -> TakeB(g)
          [] ex > by /\ ey > bx ->
               CASE bx = by /\ ex = ey -> Both(k, g)
                 [] bx = by /\ ex < ey -> BothA(k, g)
                 [] bx = by /\ ex > ey -> BothB(k, g)
                 [] bx < by -> CutA(g)
                 [] bx > by -> CutB(g)
  BY <1>2, <1>3 DEF MergeStep
<1>5. bx \in Nat /\ ex \in Nat /\ by \in Nat /\ ey \in Nat
  BY <1>1, <1>3
<1> QED
  BY <1>3, <1>4, <1>5

\* A turn of the loop keeps the merge in order and changes no second.
LEMMA StepTurned ==
  ASSUME NEW k, NEW g, Holds(k, g), Merging(g)
  PROVE  Holds(k, MergeStep(k, g)) /\ \A t \in Nat : Means(k, MergeStep(k, g), t) = Means(k, g, t)
<1>1. g \in Merge3 /\ Good(k, g.out, g.a, g.b) /\ g.a # <<>> /\ g.b # <<>>
  BY DEF Holds, Merging
<1>2. PICK o, a, b : o = g.out /\ a = g.a /\ b = g.b
  OBVIOUS
<1>3. PICK x, r, y, u : x = Head(a) /\ r = Tail(a) /\ y = Head(b) /\ u = Tail(b)
  OBVIOUS
<1>4. Heads(k, o, x, r, y, u) /\ a = <<x>> \o r /\ b = <<y>> \o u
  <2>1. Good(k, o, a, b) /\ a # <<>> /\ b # <<>>
    BY <1>1, <1>2
  <2> QED
    BY <1>3, <2>1, HeadsFacts
<1>5. x \in Interval /\ y \in Interval
  BY <1>4, HeadsNumbers
<1>6. /\ TakeA(g) = Of(Append(o, x), r, b)
      /\ TakeB(g) = Of(Append(o, y), a, u)
      /\ CutA(g) = Of(Append(o, [x EXCEPT !.end = Begin(y)]),
                      <<[x EXCEPT !.beg = Begin(y)]>> \o r, b)
      /\ CutB(g) = Of(Append(o, [y EXCEPT !.end = Begin(x)]), a,
                      <<[y EXCEPT !.beg = Begin(x)]>> \o u)
      /\ Both(k, g) = Of(Append(o, Gen(k, x, y)), r, u)
      /\ BothA(k, g) = Of(Append(o, Gen(k, x, y)), r, <<[y EXCEPT !.beg = Until(x)]>> \o u)
      /\ BothB(k, g) = Of(Append(o, Gen(k, y, x)), <<[x EXCEPT !.beg = Until(y)]>> \o r, u)
  <2>1. /\ x = Head(g.a) /\ r = Tail(g.a) /\ y = Head(g.b) /\ u = Tail(g.b)
    BY <1>2, <1>3
  <2>2. Forms(k, g, x, r, y, u)
    BY <1>1, <2>1, StepForms
  <2> QED
    BY <1>2, <2>2 DEF Forms
<1>7. A(g) = x /\ B(g) = y
  BY <1>2, <1>3 DEF A, B
<1> DEFINE Fine(h) == Holds(k, h) /\ \A t \in Nat : Means(k, h, t) = Means(k, g, t)
<1>8. ASSUME NEW z, NEW c, NEW d, Turned(k, o, a, b, z, c, d)
      PROVE  Fine(Of(Append(o, z), c, d))
  <2>1. /\ Good(k, Append(o, z), c, d)
        /\ \A t \in Nat : Says(k, Append(o, z), c, d, t) = Says(k, o, a, b, t)
    BY <1>8 DEF Turned
  <2>2. PICK h : h = Of(Append(o, z), c, d)
    OBVIOUS
  <2>3. Holds(k, h) /\ \A t : Means(k, h, t) = Says(k, Append(o, z), c, d, t)
    BY <2>1, <2>2, OfFacts
  <2>4. \A t \in Nat : Means(k, g, t) = Says(k, o, a, b, t)
    BY <1>2 DEF Means
  <2> QED
    BY <2>1, <2>2, <2>3, <2>4
<1> HIDE DEF Fine
<1>9. CASE Until(x) <= Begin(y) /\ MergeStep(k, g) = TakeA(g)
  <2>1. Turned(k, o, a, b, x, r, b)
    BY <1>4, <1>9, TurnTakeA
  <2> QED
    BY <1>6, <1>8, <1>9, <2>1 DEF Fine
<1>10. CASE Until(y) <= Begin(x) /\ MergeStep(k, g) = TakeB(g)
  <2>1. Turned(k, o, a, b, y, a, u)
    BY <1>4, <1>10, TurnTakeB
  <2> QED
    BY <1>6, <1>8, <1>10, <2>1 DEF Fine
<1>11. CASE Begin(x) = Begin(y) /\ Until(x) = Until(y) /\ MergeStep(k, g) = Both(k, g)
  <2>1. Turned(k, o, a, b, Gen(k, x, y), r, u)
    BY <1>4, <1>11, TurnBoth
  <2> QED
    BY <1>6, <1>8, <1>11, <2>1 DEF Fine
<1>12. CASE Begin(x) = Begin(y) /\ Until(x) < Until(y) /\ MergeStep(k, g) = BothA(k, g)
  <2>1. Turned(k, o, a, b, Gen(k, x, y), r, <<[y EXCEPT !.beg = Until(x)]>> \o u)
    BY <1>4, <1>12, TurnBothA
  <2> QED
    BY <1>6, <1>8, <1>12, <2>1 DEF Fine
<1>13. CASE Begin(x) = Begin(y) /\ Until(y) < Until(x) /\ MergeStep(k, g) = BothB(k, g)
  <2>1. Turned(k, o, a, b, Gen(k, y, x), <<[x EXCEPT !.beg = Until(y)]>> \o r, u)
    BY <1>4, <1>13, TurnBothB
  <2> QED
    BY <1>6, <1>8, <1>13, <2>1 DEF Fine
<1>14. CASE Begin(x) < Begin(y) /\ Begin(y) < Until(x) /\ MergeStep(k, g) = CutA(g)
  <2>1. Turned(k, o, a, b, [x EXCEPT !.end = Begin(y)], <<[x EXCEPT !.beg = Begin(y)]>> \o r, b)
    BY <1>4, <1>14, TurnCutA
  <2> QED
    BY <1>6, <1>8, <1>14, <2>1 DEF Fine
<1>15. CASE Begin(y) < Begin(x) /\ Begin(x) < Until(y) /\ MergeStep(k, g) = CutB(g)
  <2>1. Turned(k, o, a, b, [y EXCEPT !.end = Begin(x)], a, <<[y EXCEPT !.beg = Begin(x)]>> \o u)
    BY <1>4, <1>15, TurnCutB
  <2> QED
    BY <1>6, <1>8, <1>15, <2>1 DEF Fine
<1> QED
  BY <1>5, <1>7, <1>9, <1>10, <1>11, <1>12, <1>13, <1>14, <1>15, StepCases DEF Fine

\* A slice added to a result that ends before it.
LEMMA SortedConcat ==
  ASSUME NEW out \in Seq(Interval), Sorted(out), NEW s \in Seq(Interval), Sorted(s),
         \A j \in DOMAIN s : Upto(out, Begin(s[j]))
  PROVE  out \o s \in Seq(Interval) /\ Sorted(out \o s)
<1> DEFINE w == out \o s
<1>1. /\ w \in Seq(Interval) /\ DOMAIN out = 1..Len(out) /\ DOMAIN s = 1..Len(s)
      /\ DOMAIN w = 1..Len(out) + Len(s) /\ Len(out) \in Nat /\ Len(s) \in Nat
      /\ \A j \in 1..Len(out) + Len(s) : w[j] = IF j <= Len(out) THEN out[j] ELSE s[j - Len(out)]
  BY ConcatProperties
<1> HIDE DEF w
<1>2. /\ \A j \in DOMAIN out : Begin(out[j]) < Until(out[j])
      /\ \A i, j \in DOMAIN out : i < j => Until(out[i]) <= Begin(out[j])
  BY SortedFacts
<1>3. /\ \A j \in DOMAIN s : Begin(s[j]) < Until(s[j])
      /\ \A i, j \in DOMAIN s : i < j => Until(s[i]) <= Begin(s[j])
  BY SortedFacts
<1>4. \A j \in DOMAIN w : \/ j \in DOMAIN out /\ w[j] = out[j]
                          \/ j > Len(out) /\ j - Len(out) \in DOMAIN s /\ w[j] = s[j - Len(out)]
  BY <1>1
<1>5. \A j \in DOMAIN w : Begin(w[j]) < Until(w[j])
  BY <1>2, <1>3, <1>4
<1>6. ASSUME NEW i \in DOMAIN w, NEW j \in DOMAIN w, i < j PROVE Until(w[i]) <= Begin(w[j])
  <2>1. CASE j \in DOMAIN out /\ w[j] = out[j]
    <3>1. i \in DOMAIN out /\ w[i] = out[i]
      BY <1>1, <1>4, <1>6, <2>1
    <3> QED
      BY <1>2, <1>6, <2>1, <3>1
  <2>2. CASE j > Len(out) /\ j - Len(out) \in DOMAIN s /\ w[j] = s[j - Len(out)]
    <3>1. CASE i \in DOMAIN out /\ w[i] = out[i]
      BY <2>2, <3>1 DEF Upto
    <3>2. CASE i > Len(out) /\ i - Len(out) \in DOMAIN s /\ w[i] = s[i - Len(out)]
      <4>1. i - Len(out) < j - Len(out)
        BY <1>1, <1>6
      <4> QED
        BY <1>3, <2>2, <3>2, <4>1
    <3> QED
      BY <1>4, <3>1, <3>2
  <2> QED
    BY <1>4, <2>1, <2>2
<1>7. Sorted(w)
  BY <1>1, <1>5, <1>6, SortedFacts
<1> QED
  BY <1>1, <1>7 DEF w

\* What is left of one slice is added after the loop.
LEMMA RestKept ==
  ASSUME NEW k, NEW g, Holds(k, g), ~Merging(g)
  PROVE  Holds(k, MergeRest(g)) /\ \A t \in Nat : Means(k, MergeRest(g), t) = Means(k, g, t)
<1>1. PICK o, a, b : o = g.out /\ a = g.a /\ b = g.b
  OBVIOUS
<1>2. Good(k, o, a, b) /\ (a = <<>> \/ b = <<>>)
  BY <1>1 DEF Holds, Merging
<1>3. /\ a \in Seq(Interval) /\ Sorted(a) /\ b \in Seq(Interval) /\ Sorted(b)
      /\ o \in Seq(Interval) /\ Sorted(o) /\ k \in {"nodes", "zones"}
      /\ \A j \in DOMAIN a : Upto(o, Begin(a[j]))
      /\ \A j \in DOMAIN b : Upto(o, Begin(b[j]))
  BY <1>2 DEF Good, Slice, Result
<1>4. PICK s : s = IF a = <<>> THEN b ELSE a
  OBVIOUS
<1>5. s \in Seq(Interval) /\ Sorted(s) /\ \A j \in DOMAIN s : Upto(o, Begin(s[j]))
  BY <1>3, <1>4
<1>6. PICK w : w = o \o s
  OBVIOUS
<1>7. w \in Seq(Interval) /\ Sorted(w)
  BY <1>3, <1>5, <1>6, SortedConcat
<1>8. MergeRest(g) = Of(w, <<>>, <<>>)
  <2>1. CASE a = <<>>
    <3>1. o \o a = o
      BY <1>3, <2>1
    <3> QED
      BY <1>1, <1>4, <1>6, <2>1, <3>1 DEF MergeRest, Of
  <2>2. CASE a # <<>>
    <3>1. b = <<>> /\ o \o a \in Seq(Interval)
      BY <1>2, <1>3, <2>2
    <3>2. (o \o a) \o b = o \o a
      BY <3>1
    <3> QED
      BY <1>1, <1>4, <1>6, <2>2, <3>2 DEF MergeRest, Of
  <2> QED
    BY <2>1, <2>2
<1>9. Slice(k, <<>>)
  BY EmptySeq DEF Slice, Sorted, OneZone
<1>10. Result(w, <<>>, <<>>)
  BY <1>7 DEF Result
<1>11. Good(k, w, <<>>, <<>>)
  BY <1>3, <1>9, <1>10 DEF Good
<1>12. Holds(k, MergeRest(g)) /\ \A t : Means(k, MergeRest(g), t) = Says(k, w, <<>>, <<>>, t)
  BY <1>8, <1>11, OfFacts
<1>13. ASSUME NEW t \in Nat PROVE Says(k, w, <<>>, <<>>, t) = Says(k, o, a, b, t)
  <2>1. IsUnion(At(w, t), At(o, t), At(s, t))
    BY <1>3, <1>5, <1>6, AtConcat
  <2>2. At(<<>>, t) = {}
    BY AtEmpty
  <2>3. Mix(k, At(a, t), At(b, t)) = At(s, t)
    <3>1. CASE a = <<>>
      <4>1. At(a, t) = {} /\ s = b
        BY <1>4, <2>2, <3>1
      <4> QED
        BY <4>1 DEF Mix
    <3>2. CASE a # <<>>
      <4>1. At(b, t) = {} /\ s = a
        BY <1>2, <1>4, <2>2, <3>2
      <4>2. PICK P : P = At(a, t)
        OBVIOUS
      <4>3. Mix(k, P, {}) = P
        BY DEF Mix
      <4> QED
        BY <4>1, <4>2, <4>3
    <3> QED
      BY <3>1, <3>2
  <2>4. Mix(k, {}, {}) = {}
    BY DEF Mix
  <2> QED
    BY <2>1, <2>2, <2>3, <2>4 DEF Says, IsUnion
<1>14. \A t \in Nat : Means(k, g, t) = Says(k, o, a, b, t)
  BY <1>1 DEF Means
<1> QED
  BY <1>12, <1>13, <1>14

-----------------------------------------------------------------------------
(* The invariant.                                                          *)

Meant == \A t \in Nat : Means(kind, m, t) = Mix(kind, At(left.a, t), At(left.b, t))

IInv == TypeOK /\ Holds(kind, m) /\ Meant

\* The invariant contains the typing.
LEMMA Types == IInv => TypeOK
  BY DEF IInv

\* The invariant holds when merge is called.
LEMMA Begins == Init => IInv
<1> SUFFICES ASSUME Init PROVE IInv
  OBVIOUS
<1>1. PICK a \in Slices, b \in Slices :
        /\ kind = "nodes" => OneZone(a) /\ OneZone(b)
        /\ left = [a |-> a, b |-> b] /\ m = [out |-> <<>>, a |-> a, b |-> b]
  BY DEF Init
<1>2. kind \in {"nodes", "zones"} /\ pc = "loop"
  BY DEF Init
<1>3. /\ a \in Seq(Interval) /\ Sorted(a) /\ b \in Seq(Interval) /\ Sorted(b)
  BY SlicesAssumption
<1>4. Slice(kind, a) /\ Slice(kind, b)
  BY <1>1, <1>3 DEF Slice
<1>5. Result(<<>>, a, b)
  BY EmptySeq DEF Result, Sorted, Upto
<1>6. Good(kind, <<>>, a, b)
  BY <1>2, <1>4, <1>5 DEF Good
<1>7. m = Of(<<>>, a, b) /\ left.a = a /\ left.b = b
  BY <1>1 DEF Of
<1>8. Holds(kind, m) /\ \A t : Means(kind, m, t) = Says(kind, <<>>, a, b, t)
  BY <1>6, <1>7, OfFacts
<1>9. \A t : Says(kind, <<>>, a, b, t) = Mix(kind, At(a, t), At(b, t))
  BY AtEmpty DEF Says
<1>10. Meant
  BY <1>7, <1>8, <1>9 DEF Meant
<1>11. TypeOK
  BY <1>1, <1>2, <1>7, <1>8 DEF TypeOK, Holds, Merge3
<1> QED
  BY <1>8, <1>10, <1>11 DEF IInv

\* Each turn of the loop and the end of it keep the invariant.
LEMMA Keeps == IInv /\ [Next]_vars => IInv'
<1> SUFFICES ASSUME IInv, [Next]_vars PROVE IInv'
  OBVIOUS
<1>1. TypeOK /\ Holds(kind, m) /\ Meant
  BY DEF IInv
<1>2. ASSUME kind' = kind, left' = left, pc' \in {"loop", "done"}, Holds(kind, m'),
             \A t \in Nat : Means(kind, m', t) = Means(kind, m, t)
      PROVE  IInv'
  <2>1. TypeOK'
    BY <1>1, <1>2 DEF TypeOK, Holds, Merge3
  <2>2. Meant'
    BY <1>1, <1>2 DEF Meant
  <2>3. Holds(kind, m)'
    BY <1>2
  <2> QED
    BY <2>1, <2>2, <2>3 DEF IInv
<1>3. CASE Turn
  <2>1. /\ m' = MergeStep(kind, m) /\ Merging(m)
        /\ kind' = kind /\ left' = left /\ pc' = "loop"
    BY <1>3 DEF Turn
  <2>2. /\ Holds(kind, MergeStep(kind, m))
        /\ \A t \in Nat : Means(kind, MergeStep(kind, m), t) = Means(kind, m, t)
    BY <1>1, <2>1, StepTurned
  <2> QED
    BY <1>2, <2>1, <2>2
<1>4. CASE Rest
  <2>1. /\ m' = MergeRest(m) /\ ~Merging(m)
        /\ kind' = kind /\ left' = left /\ pc' = "done"
    BY <1>4 DEF Rest
  <2>2. /\ Holds(kind, MergeRest(m))
        /\ \A t \in Nat : Means(kind, MergeRest(m), t) = Means(kind, m, t)
    BY <1>1, <2>1, RestKept
  <2> QED
    BY <1>2, <2>1, <2>2
<1>5. CASE UNCHANGED vars
  <2>1. m' = m /\ kind' = kind /\ left' = left /\ pc' = pc /\ pc \in {"loop", "done"}
    BY <1>1, <1>5 DEF vars, TypeOK
  <2> QED
    BY <1>1, <1>2, <2>1
<1> QED
  BY <1>3, <1>4, <1>5 DEF Next, Terminated

\* The invariant holds in every state.
LEMMA Invariance == Spec => []IInv
  BY Begins, Keeps, PTL DEF Spec

\* Typing, for every set of sorted slices: the result and the slices stay lists of intervals.
THEOREM TypesOK == Spec => []TypeOK
  BY Types, Invariance, PTL

\* The result of merge is sorted, without overlap or empty interval, and ends where what is left
\* of both slices begins, at every turn.
THEOREM MergeSorted == Spec => []OutputSorted
<1>1. IInv => OutputSorted
  <2> SUFFICES ASSUME IInv PROVE OutputSorted
    OBVIOUS
  <2>1. Result(m.out, m.a, m.b) /\ Slice(kind, m.a) /\ Slice(kind, m.b)
    BY DEF IInv, Holds, Good
  <2>2. Sorted(m.out)
    BY <2>1 DEF Result
  <2>3. ASSUME NEW i \in DOMAIN m.out
        PROVE  /\ \A j \in DOMAIN m.a : m.out[i].end <= m.a[j].beg
               /\ \A j \in DOMAIN m.b : m.out[i].end <= m.b[j].beg
    BY <2>1 DEF Result, Upto, Begin, Until
  <2> QED
    BY <2>2, <2>3 DEF OutputSorted
<1> QED
  BY <1>1, Invariance, PTL

\* No second is lost, counted twice or given a wrong share by a turn of merge: the result so far
\* and the merge of what is left say of it what the merge of the two arguments says.
THEOREM MergeFaithful == Spec => []SecondsMerged
<1>1. IInv => SecondsMerged
  <2> SUFFICES ASSUME IInv, NEW t \in 0..MAXSECS
               PROVE  At(m.out, t) \cup Combined(m.a, m.b, t) = Combined(left.a, left.b, t)
    BY DEF SecondsMerged
  <2>1. t \in Nat
    BY YearAssumption
  <2>2. Means(kind, m, t) = Mix(kind, At(left.a, t), At(left.b, t))
    BY <2>1 DEF IInv, Meant
  <2>3. \A a, b : Combined(a, b, t) = Mix(kind, At(a, t), At(b, t))
    BY DEF Combined, Mix
  <2> QED
    BY <2>2, <2>3 DEF Means, Says
<1> QED
  BY <1>1, Invariance, PTL
===========================================================================
