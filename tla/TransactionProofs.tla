-------------------------- MODULE TransactionProofs --------------------------
(***************************************************************************)
(* Theorems about the benchmarks that Worker.Step runs, for every value of *)
(* their constants and any number of transactions.                         *)
(***************************************************************************)
EXTENDS Transaction, TLAPS, SequenceTheorems, WellFoundedInduction, FiniteSetTheorems

\* A set of natural numbers that has a bound and an element has a greatest one.
LEMMA Greatest ==
  ASSUME NEW n \in Nat, NEW A \in SUBSET (0..n), A # {}
  PROVE  \E x \in A : \A y \in A : x >= y
<1> DEFINE T == {y \in Nat : n - y \in A}
<1>1. T \subseteq Nat /\ T # {}
  <2>1. PICK x \in A : TRUE
    OBVIOUS
  <2>2. n - x \in Nat /\ n - (n - x) = x
    BY <2>1
  <2> QED
    BY <2>1, <2>2
<1> HIDE DEF T
<1>2. PICK y \in T : \A z \in T : ~(<<z, y>> \in OpToRel(<, Nat))
  BY <1>1, NatLessThanWellFounded, WFMin
<1>3. y \in Nat /\ n - y \in A
  BY <1>2 DEF T
<1>4. ASSUME NEW x \in A PROVE n - y >= x
  <2>1. n - x \in T
    <3>1. x \in 0..n
      OBVIOUS
    <3>2. n - x \in Nat /\ n - (n - x) = x
      BY <3>1
    <3> QED
      BY <3>2 DEF T
  <2>2. ~(n - x < y)
    BY <1>1, <1>2, <1>3, <2>1 DEF OpToRel
  <2>3. x \in Int
    OBVIOUS
  <2> QED
    BY <1>3, <2>2, <2>3
<1> QED
  BY <1>3, <1>4

-----------------------------------------------------------------------------
(* Dijkstra's pearls. *)

\* The beads, as a type.
Bead == 0..2

\* The beginning of a string is a string.
LEMMA Beginning ==
  ASSUME NEW s \in Seq(Bead), NEW m \in Nat, m <= Len(s)
  PROVE  SubSeq(s, 1, m) \in Seq(Bead) /\ Len(SubSeq(s, 1, m)) = m
OBVIOUS

\* The beginning of a valid string is valid.
LEMMA SquareFreePrefix ==
  ASSUME NEW s \in Seq(Bead), P!SquareFree(s), NEW m \in Int, m <= Len(s)
  PROVE  P!SquareFree(SubSeq(s, 1, m))
<1> DEFINE r == SubSeq(s, 1, m)
<1>1. CASE m < 1
  <2>1. DOMAIN r = {}
    BY <1>1
  <2> HIDE DEF r
  <2>2. P!SquareFree(r)
    BY <2>1 DEF P!SquareFree
  <2> QED
    BY <2>2 DEF r
<1>2. CASE m >= 1
  <2>1. Len(r) = m /\ \A j \in 1..m : r[j] = s[j]
    BY <1>2
  <2> SUFFICES ASSUME NEW k \in DOMAIN r,
                      NEW h \in 1..(IF k < Len(r) - k THEN k ELSE Len(r) - k)
               PROVE  \E j \in 1..h : r[k - h + j] # r[k + j]
    BY DEF P!SquareFree
  <2>2. Len(s) \in Nat /\ k \in 1..m /\ k \in DOMAIN s /\ h \in 1..(IF k < Len(s) - k THEN k ELSE Len(s) - k)
    BY <2>1
  <2>3. PICK j \in 1..h : s[k - h + j] # s[k + j]
    BY <2>2 DEF P!SquareFree
  <2>4. k - h + j \in 1..m /\ k + j \in 1..m
    BY <2>1, <2>2
  <2> QED
    BY <2>1, <2>3, <2>4
<1> QED
  BY <1>1, <1>2

\* The end of a square that lies in a string of n + 1 beads.
LEMMA EndOrBefore ==
  ASSUME NEW n \in Int, NEW k \in Int, NEW h \in Int, h <= n + 1 - k
  PROVE  k + h = n + 1 \/ k + h <= n
OBVIOUS

\* check is enough: a string is valid when it is valid without its last bead and
\* no square ends it.
LEMMA CheckEnough ==
  ASSUME NEW s \in Seq(Bead), NEW c \in Bead,
         P!SquareFree(s), P!Check(Append(s, c))
  PROVE  P!SquareFree(Append(s, c))
<1> DEFINE t == Append(s, c)
           n == Len(s)
<1>1. n \in Nat /\ Len(t) = n + 1 /\ DOMAIN t = 1..n + 1 /\ \A j \in 1..n : t[j] = s[j]
  OBVIOUS
<1>c. P!Check(t)
  OBVIOUS
<1> HIDE DEF t, n
<1> SUFFICES ASSUME NEW k \in DOMAIN t,
                    NEW h \in 1..(IF k < Len(t) - k THEN k ELSE Len(t) - k)
             PROVE  \E j \in 1..h : t[k - h + j] # t[k + j]
  BY DEF P!SquareFree, t
<1>2. k \in 1..n + 1 /\ h \in Nat /\ 1 <= h /\ h <= k /\ h <= n + 1 - k
  BY <1>1
<1>3. CASE k + h = n + 1
  <2>1. h \in 1..Len(t) \div 2
    BY <1>1, <1>2, <1>3
  <2>2. PICK j \in 1..h : t[Len(t) - h - h + j] # t[Len(t) - h + j]
    BY <1>c, <2>1 DEF P!Check, P!EndDiffers
  <2>3. Len(t) - h - h + j = k - h + j /\ Len(t) - h + j = k + j
    <3>1. n \in Int /\ Len(t) = n + 1 /\ k \in Int /\ h \in Int /\ j \in Int /\ k + h = n + 1
      BY <1>1, <1>2, <1>3
    <3> QED
      BY <3>1
  <2> QED
    BY <2>2, <2>3
<1>4. CASE k + h <= n
  <2>1. k \in DOMAIN s /\ h \in 1..(IF k < Len(s) - k THEN k ELSE Len(s) - k)
    BY <1>1, <1>2, <1>4 DEF n
  <2>2. PICK j \in 1..h : s[k - h + j] # s[k + j]
    BY <2>1 DEF P!SquareFree
  <2>3. k - h + j \in 1..n /\ k + j \in 1..n
    BY <1>1, <1>2, <1>4
  <2> QED
    BY <1>1, <2>2, <2>3
<1>5. k + h = n + 1 \/ k + h <= n
  <2>1. n \in Int /\ k \in Int /\ h \in Int /\ h <= n + 1 - k
    BY <1>1, <1>2
  <2> QED
    BY <2>1, EndOrBefore
<1> QED
  BY <1>3, <1>4, <1>5

\* backtrack keeps the beads before the one it changes.
LEMMA PivotType ==
  ASSUME NEW s \in Seq(Bead), \E k \in DOMAIN s : s[k] # 2
  PROVE  \E k \in DOMAIN s : /\ P!Max({j \in DOMAIN s : s[j] # 2}) = k
                             /\ s[k] # 2
<1> DEFINE A == {j \in DOMAIN s : s[j] # 2}
<1>1. A \subseteq 1..Len(s) /\ A # {} /\ Len(s) \in Nat
  OBVIOUS
<1>2. \E x \in A : \A y \in A : x >= y
  <2>1. A \subseteq 0..Len(s)
    BY <1>1
  <2> HIDE DEF A
  <2> QED
    BY <1>1, <2>1, Greatest
<1>3. P!Max(A) \in A
  BY <1>2 DEF P!Max
<1> QED
  BY <1>3

\* The string is one of beads, and valid but for its last one while it backtracks.
PearlsInv ==
  /\ buf \in Seq(Bead) /\ color \in Bead
  /\ ppc \in {"add", "try"} => P!SquareFree(buf)
  /\ ppc = "backtrack" => P!SquareFree(SubSeq(buf, 1, Len(buf) - 1))

\* A step of the search keeps it.
LEMMA PearlsStep ==
  ASSUME PearlsInv, P!Step
  PROVE  PearlsInv'
<1>1. CASE P!Run
  BY <1>1, EmptySeq DEF P!Run, PearlsInv, P!SquareFree
<1>2. CASE P!AddPearls
  BY <1>2 DEF P!AddPearls, P!Returned, PearlsInv, Bead
<1>3. CASE P!Try
  <2>1. ppc = "try" /\ P!SquareFree(buf) /\ buf \in Seq(Bead) /\ color \in Bead
    BY <1>3 DEF P!Try, PearlsInv
  <2>2. CASE P!Check(Append(buf, color))
    <3>1. buf' = Append(buf, color) /\ ppc' = "add" /\ color' = color
      BY <1>3, <2>2 DEF P!Try
    <3>2. P!SquareFree(buf')
      BY <2>1, <2>2, <3>1, CheckEnough
    <3> QED
      BY <2>1, <3>1, <3>2, AppendProperties DEF PearlsInv
  <2>3. CASE ~P!Check(Append(buf, color))
    <3>1. buf' = buf /\ ppc' \in {"try", "backtrack"} /\ color' \in Bead
      BY <1>3, <2>1, <2>3 DEF P!Try, Bead
    <3>2. P!SquareFree(SubSeq(buf, 1, Len(buf) - 1))
      BY <2>1, SquareFreePrefix
    <3> QED
      BY <2>1, <3>1, <3>2 DEF PearlsInv
  <2> QED
    BY <2>2, <2>3
<1>4. CASE P!Backtrack
  <2>1. ppc = "backtrack" /\ buf \in Seq(Bead) /\ color \in Bead /\ color' = color
        /\ P!SquareFree(SubSeq(buf, 1, Len(buf) - 1))
    BY <1>4 DEF P!Backtrack, PearlsInv
  <2>2. CASE ~ \E k \in DOMAIN buf : buf[k] # 2
    BY <1>4, <2>1, <2>2, EmptySeq DEF P!Backtrack, PearlsInv
  <2>3. CASE \E k \in DOMAIN buf : buf[k] # 2
    <3>1. PICK k \in DOMAIN buf : P!Pivot = k /\ buf[k] # 2
      BY <2>1, <2>3, PivotType DEF P!Pivot
    <3> DEFINE r == SubSeq(buf, 1, k - 1)
               c == buf[k] + 1
    <3>2. k \in 1..Len(buf) /\ Len(buf) \in Nat /\ c \in Bead /\ r \in Seq(Bead) /\ Len(r) = k - 1
      BY <2>1, <3>1 DEF Bead
    <3>3. P!SquareFree(r)
      <4>1. r = SubSeq(SubSeq(buf, 1, Len(buf) - 1), 1, k - 1)
        BY <2>1, <3>2
      <4>2. SubSeq(buf, 1, Len(buf) - 1) \in Seq(Bead) /\ Len(SubSeq(buf, 1, Len(buf) - 1)) = Len(buf) - 1
        <5>1. Len(buf) - 1 \in Nat /\ Len(buf) - 1 <= Len(buf)
          BY <2>1, <3>2
        <5> QED
          BY <2>1, <5>1, Beginning
      <4> HIDE DEF r
      <4>3. k - 1 \in Int /\ k - 1 <= Len(buf) - 1
        BY <3>2
      <4> QED
        BY <2>1, <4>1, <4>2, <4>3, SquareFreePrefix
    <3>4. buf' = Append(r, c) /\ ppc' = IF P!Check(buf') THEN "add" ELSE "backtrack"
      BY <1>4, <2>3, <3>1 DEF P!Backtrack, P!Backtracked
    <3> HIDE DEF r, c
    <3>5. buf' \in Seq(Bead) /\ SubSeq(buf', 1, Len(buf') - 1) = r
      BY <3>2, <3>4
    <3>6. P!Check(buf') => P!SquareFree(buf')
      BY <3>2, <3>3, <3>4, CheckEnough
    <3> QED
      BY <2>1, <3>3, <3>4, <3>5, <3>6 DEF PearlsInv
  <2> QED
    BY <2>2, <2>3
<1> QED
  BY <1>1, <1>2, <1>3, <1>4 DEF P!Step

\* The other benchmarks of the transaction leave the string alone.
LEMMA PearlsAlone ==
  ASSUME [Next]_vars
  PROVE  (At("pearls") /\ P!Step) \/ UNCHANGED pearls
<1> USE DEF At, To
<1>1. CASE Pearls
  BY <1>1 DEF Pearls
<1>2. CASE \/ Compression \/ Sorting \/ Documents \/ Btree \/ Queens \/ Memory
           \/ Image \/ Crypto \/ Haversine \/ Elsewhere
  BY <1>2 DEF Compression, Sorting, Documents, Btree, Queens, Memory, Image, Crypto, Haversine, Elsewhere
<1>3. CASE FinishStep \/ Terminated \/ UNCHANGED vars
  BY <1>3 DEF FinishStep, Terminated, vars
<1> QED
  BY <1>1, <1>2, <1>3 DEF Next

\* check looks at the end of the string only, and yet the whole string is valid
\* whenever addPearls begins (pearls.go), in every transaction and however
\* many beads are asked for.
THEOREM PearlsValid == Spec => []StringValid
<1>1. Init => PearlsInv
  BY EmptySeq DEF Init, P!Init, PearlsInv, Bead
<1>2. PearlsInv /\ [Next]_vars => PearlsInv'
  <2>1. PearlsInv /\ UNCHANGED pearls => PearlsInv'
    BY DEF PearlsInv, pearls
  <2> QED
    BY <2>1, PearlsStep, PearlsAlone
<1>3. PearlsInv => StringValid
  BY DEF PearlsInv, StringValid, P!StringValid
<1> QED
  BY <1>1, <1>2, <1>3, PTL DEF Spec

\* A bead added makes a string that goes on after the one before.
LEMMA AppendAfter ==
  ASSUME NEW s \in Seq(Bead), NEW c \in Bead
  PROVE  P!After(Append(s, c), s)
<1> DEFINE t == Append(s, c)
<1>1. Len(t) = Len(s) + 1 /\ Len(s) \in Nat /\ \A k \in 1..Len(s) : t[k] = s[k]
  OBVIOUS
<1>2. SubSeq(s, 1, Len(s)) = SubSeq(t, 1, Len(s))
  OBVIOUS
<1>3. t # s
  BY <1>1
<1> HIDE DEF t
<1>4. P!IsStrictPrefix(s, t)
  BY <1>1, <1>2, <1>3 DEF P!IsStrictPrefix, P!IsPrefix
<1>5. P!After(t, s)
  BY <1>4 DEF P!After
<1> QED
  BY <1>5 DEF t

\* No string is tried twice within a transaction, because they come in the
\* order of a dictionary (addPearls and backtrack, pearls.go).
THEOREM PearlsAdvance == Spec => SearchAdvances
<1> DEFINE Advance == ppc # "idle" /\ ppc' # "fatal" /\ buf' # buf => P!After(buf', buf)
<1>1. Init => PearlsInv
  BY EmptySeq DEF Init, P!Init, PearlsInv, Bead
<1>2. PearlsInv /\ [Next]_vars => PearlsInv'
  <2>1. PearlsInv /\ UNCHANGED pearls => PearlsInv'
    BY DEF PearlsInv, pearls
  <2> QED
    BY <2>1, PearlsStep, PearlsAlone
<1>3. PearlsInv /\ [Next]_vars => [Advance]_(P!vars)
  <2> SUFFICES ASSUME PearlsInv, P!Step, ppc # "idle", ppc' # "fatal", buf' # buf
               PROVE  P!After(buf', buf)
    BY PearlsAlone DEF pearls, P!vars
  <2>1. CASE P!Run \/ P!AddPearls
    BY <2>1 DEF P!Run, P!AddPearls
  <2>2. CASE P!Try
    BY <2>2, AppendAfter DEF P!Try, PearlsInv
  <2>3. CASE P!Backtrack
    <3>1. buf \in Seq(Bead) /\ \E k \in DOMAIN buf : buf[k] # 2
      BY <2>3 DEF P!Backtrack, PearlsInv
    <3>2. PICK k \in DOMAIN buf : P!Pivot = k /\ buf[k] # 2
      BY <3>1, PivotType DEF P!Pivot
    <3>3. k \in 1..Len(buf) /\ Len(buf) \in Nat /\ buf[k] \in Int
      BY <3>1, <3>2 DEF Bead
    <3>4. buf' = Append(SubSeq(buf, 1, k - 1), buf[k] + 1)
      BY <2>3, <3>1, <3>2 DEF P!Backtrack, P!Backtracked
    <3>5. SubSeq(buf, 1, k - 1) \in Seq(Int) /\ Len(SubSeq(buf, 1, k - 1)) = k - 1
      BY <3>1, <3>3 DEF Bead
    <3>6. k \in DOMAIN buf' /\ buf'[k] = buf[k] + 1 /\ SubSeq(buf', 1, k - 1) = SubSeq(buf, 1, k - 1)
      <4> DEFINE r == SubSeq(buf, 1, k - 1)
      <4> HIDE DEF r
      <4>1. r \in Seq(Int) /\ Len(r) = k - 1 /\ buf' = Append(r, buf[k] + 1)
        BY <3>4, <3>5 DEF r
      <4>2. k \in DOMAIN buf' /\ buf'[k] = buf[k] + 1 /\ SubSeq(buf', 1, k - 1) = r
        BY <3>3, <4>1
      <4> QED
        BY <4>2 DEF r
    <3> QED
      BY <3>3, <3>6 DEF P!After
  <2> QED
    BY <2>1, <2>2, <2>3 DEF P!Step
<1> QED
  BY <1>1, <1>2, <1>3, PTL DEF Spec, SearchAdvances, P!SearchAdvances


-----------------------------------------------------------------------------
(* The eight queens. *)

Apart(c) == \A p, q \in c : ~Q!Attack(p, q)

LEMMA SizeType == Size \in Nat \ {0} /\ Q!Line = 0..Size - 1
BY TransactionAssumption DEF Q!QueensAssumption, Q!Line

\* A square is the pair of its line and its column.
LEMMA SquareType ==
  /\ \A p \in Q!Square : p[1] \in Q!Line /\ p[2] \in Q!Line /\ p = <<p[1], p[2]>>
  /\ \A x, y \in Q!Line : <<x, y>> \in Q!Square
  /\ \A x \in Q!Line : x \in Int /\ x >= 0 /\ x < Size
<1>1. \A x \in Q!Line : x \in Int /\ x >= 0 /\ x < Size
  BY SizeType
<1> QED
  BY <1>1 DEF Q!Square

\* The solutions are the boards with a queen on each line where none attacks
\* another: the columns come all.
LEMMA SolutionType ==
  ASSUME NEW c
  PROVE  c \in Q!Solutions <=>
           c \subseteq Q!Square /\ Apart(c) /\ \A x \in Q!Line : \E y \in Q!Line : <<x, y>> \in c
<1> DEFINE Board(p) == {<<x, p[x]>> : x \in Q!Line}
           Columns == {p \in [Q!Line -> Q!Line] : \A v, w \in Q!Line : p[v] = p[w] => v = w}
<1>1. c \in Q!Solutions <=> Apart(c) /\ \E p \in Columns : c = Board(p)
  BY DEF Q!Solutions, Apart, Q!Injection, Q!IsInjective
<1>2. ASSUME NEW p \in Columns, c = Board(p)
      PROVE  c \subseteq Q!Square /\ \A x \in Q!Line : \E y \in Q!Line : <<x, y>> \in c
  BY <1>2, SquareType
<1>3. ASSUME c \subseteq Q!Square, Apart(c), \A x \in Q!Line : \E y \in Q!Line : <<x, y>> \in c
      PROVE  \E p \in Columns : c = Board(p)
  <2> DEFINE p == [x \in Q!Line |-> CHOOSE y \in Q!Line : <<x, y>> \in c]
  <2>1. \A x \in Q!Line : p[x] \in Q!Line /\ <<x, p[x]>> \in c
    BY <1>3
  <2>2. p \in [Q!Line -> Q!Line]
    BY <2>1
  <2> HIDE DEF p
  <2>3. ASSUME NEW v \in Q!Line, NEW w \in Q!Line, p[v] = p[w] PROVE v = w
    <3>1. <<v, p[v]>> \in c /\ <<w, p[v]>> \in c
      BY <2>1, <2>3
    <3>2. ~Q!Attack(<<v, p[v]>>, <<w, p[v]>>)
      BY <1>3, <3>1 DEF Apart
    <3>3. <<v, p[v]>> = <<w, p[v]>>
      BY <3>2 DEF Q!Attack
    <3> QED
      BY <3>3
  <2>4. p \in Columns
    BY <2>2, <2>3
  <2>5. ASSUME NEW q \in c PROVE q \in Board(p)
    <3>1. q \in Q!Square /\ q[1] \in Q!Line /\ q[2] \in Q!Line /\ q = <<q[1], q[2]>>
      BY <1>3, SquareType
    <3> DEFINE r == <<q[1], p[q[1]]>>
    <3>2. r \in c /\ r \in Board(p)
      BY <2>1, <3>1
    <3>3. ~Q!Attack(q, r)
      BY <1>3, <3>2 DEF Apart
    <3>4. q = r
      BY <3>1, <3>3 DEF Q!Attack
    <3> QED
      BY <3>2, <3>4
  <2>6. Board(p) \subseteq c
    BY <2>1
  <2> QED
    BY <2>4, <2>5, <2>6
<1> HIDE DEF Board, Columns
<1> QED
  BY <1>1, <1>2, <1>3

\* The squares that a queen marks below its line are those that it attacks there.
LEMMA MarkedIsAttacked ==
  ASSUME NEW x \in Q!Line, NEW y \in Q!Line, NEW p \in Q!Square, p[1] > x
  PROVE  p \in Q!XYLines(x, y) <=> Q!Attack(<<x, y>>, p)
<1> DEFINE a == p[1]
           b == p[2]
           W(i) == {<<x, i>>, <<i, y>>, <<x + i, y + i>>, <<x + i, y - i>>, <<x - i, y + i>>, <<x - i, y - i>>}
<1>1. a \in 0..Size - 1 /\ b \in 0..Size - 1 /\ p = <<a, b>> /\ x \in 0..Size - 1 /\ y \in 0..Size - 1
  BY SquareType, SizeType
<1>2. p \in Q!XYLines(x, y) <=> \E i \in Q!Line : p \in W(i)
  BY DEF Q!XYLines
<1>3. \A i \in Q!Line : p \in W(i) <=> \/ i = a /\ b = y
                                       \/ a = x + i /\ b = y + i
                                       \/ a = x + i /\ b = y - i
  BY <1>1, SizeType
<1>4. (\E i \in Q!Line : p \in W(i)) <=> b = y \/ a - x = b - y \/ a - x = y - b
  <2> HIDE DEF W
  <2>1. a - x \in Q!Line /\ a = x + (a - x) /\ a \in Q!Line
    BY <1>1, SizeType
  <2>2. ASSUME a - x = b - y PROVE b = y + (a - x)
    BY <1>1, <2>2
  <2>3. ASSUME a - x = y - b PROVE b = y - (a - x)
    BY <1>1, <2>3
  <2>4. ASSUME NEW i \in Q!Line, p \in W(i) PROVE b = y \/ a - x = b - y \/ a - x = y - b
    BY <1>1, <1>3, <2>4, SizeType
  <2> QED
    BY <1>3, <2>1, <2>2, <2>3, <2>4
<1>5. Q!Attack(<<x, y>>, p) <=> b = y \/ a - x = b - y \/ a - x = y - b
  BY <1>1 DEF Q!Attack
<1> QED
  BY <1>2, <1>4, <1>5


-----------------------------------------------------------------------------
(* A call of rowIterate. *)

FrameType == [c : SUBSET Q!Square, mask : SUBSET Q!Square, y : 0..Size]

\* A call for line x: a queen on each line before, none attacks another, and the mask
\* has, from line x on, the squares that they attack.
FrameOK(f, x) ==
  /\ f \in FrameType
  /\ \A p \in f.c : p[1] < x
  /\ \A r \in Q!Line : r < x => \E y \in Q!Line : <<r, y>> \in f.c
  /\ Apart(f.c)
  /\ \A p \in Q!Square : p[1] >= x => (p \in f.mask <=> \E q \in f.c : Q!Attack(q, p))

\* The solution s is still to be found by the rest of that call, not by those it made.
Ahead(f, x, s) ==
  f.c \subseteq s /\ (x < Size => \E y \in Q!Line : y >= f.y /\ <<x, y>> \in s)

LEMMA AttackBoth ==
  ASSUME NEW p \in Q!Square, NEW q \in Q!Square
  PROVE  Q!Attack(p, q) <=> Q!Attack(q, p)
<1>1. p[1] \in Int /\ p[2] \in Int /\ q[1] \in Int /\ q[2] \in Int
  BY SquareType
<1> QED
  BY <1>1 DEF Q!Attack

\* The first call finds every solution.
LEMMA FirstFrame ==
  LET f == Q!Frame({}, {}) IN
  /\ FrameOK(f, 0) /\ f.y = 0
  /\ \A s \in Q!Solutions : Ahead(f, 0, s)
<1> DEFINE f == Q!Frame({}, {})
<1>1. f \in FrameType /\ f.c = {} /\ f.mask = {} /\ f.y = 0
  BY SizeType DEF FrameType, Q!Frame
<1> HIDE DEF f
<1>2. FrameOK(f, 0)
  BY <1>1, SquareType DEF FrameOK, Apart
<1>3. ASSUME NEW s \in Q!Solutions PROVE Ahead(f, 0, s)
  <2>1. 0 \in Q!Line
    BY SizeType
  <2>2. \E y \in Q!Line : <<0, y>> \in s
    BY <2>1, SolutionType
  <2> QED
    BY <1>1, <2>2, SquareType DEF Ahead
<1> QED
  BY <1>1, <1>2, <1>3 DEF f

\* The column that the loop is at, and the one it goes to.
LEMMA NextColumn ==
  ASSUME NEW x \in Q!Line, NEW f, FrameOK(f, x), f.y < Size
  PROVE  LET g == [f EXCEPT !.y = @ + 1] IN
         /\ f.y \in Q!Line /\ <<x, f.y>> \in Q!Square
         /\ FrameOK(g, x) /\ g.y > 0 /\ g.y = f.y + 1
         /\ \A s \in Q!Solutions :
              Ahead(f, x, s) <=> Ahead(g, x, s) \/ (f.c \subseteq s /\ <<x, f.y>> \in s)
<1> DEFINE g == [f EXCEPT !.y = @ + 1]
<1>1. f = [c |-> f.c, mask |-> f.mask, y |-> f.y] /\ f.y \in 0..Size /\ f \in FrameType
  BY DEF FrameOK, FrameType
<1>2. f.y \in Q!Line /\ f.y \in Int /\ f.y + 1 \in 0..Size /\ f.y + 1 > 0
  BY <1>1, SizeType
<1>3. g.c = f.c /\ g.mask = f.mask /\ g.y = f.y + 1 /\ g \in FrameType
  BY <1>1, <1>2 DEF FrameType
<1> HIDE DEF g
<1>4. FrameOK(g, x)
  BY <1>3 DEF FrameOK
<1>5. \A y \in Q!Line : y >= f.y <=> y >= g.y \/ y = f.y
  BY <1>2, <1>3, SquareType
<1>6. x < Size
  BY SquareType
<1>7. ASSUME NEW s
      PROVE  Ahead(f, x, s) <=> Ahead(g, x, s) \/ (f.c \subseteq s /\ <<x, f.y>> \in s)
  BY <1>2, <1>3, <1>5, <1>6 DEF Ahead
<1>8. <<x, f.y>> \in Q!Square
  BY <1>2, SquareType
<1> QED
  BY <1>2, <1>3, <1>4, <1>7, <1>8 DEF g

\* The call for the next line finds the solutions with this queen.
LEMMA PlaceFrame ==
  ASSUME NEW x \in Q!Line, NEW f, FrameOK(f, x), f.y < Size, <<x, f.y>> \notin f.mask
  PROVE  LET g == Q!Frame(f.c \cup {<<x, f.y>>}, f.mask \cup Q!XYLines(x, f.y)) IN
         /\ FrameOK(g, x + 1) /\ g.c = f.c \cup {<<x, f.y>>}
         /\ \A s \in Q!Solutions : Ahead(g, x + 1, s) <=> f.c \subseteq s /\ <<x, f.y>> \in s
<1> DEFINE q == <<x, f.y>>
           g == Q!Frame(f.c \cup {q}, f.mask \cup Q!XYLines(x, f.y))
<1>1. f.y \in Q!Line /\ q \in Q!Square /\ q[1] = x /\ q[2] = f.y /\ x \in Int
  BY NextColumn, SquareType
<1>2. f.c \subseteq Q!Square /\ f.mask \subseteq Q!Square
  BY DEF FrameOK, FrameType
<1>3. Q!XYLines(x, f.y) \subseteq Q!Square
  BY DEF Q!XYLines
<1>4. g.c = f.c \cup {q} /\ g.mask = f.mask \cup Q!XYLines(x, f.y) /\ g.y = 0
  BY DEF Q!Frame
<1>5. g \in FrameType
  BY <1>1, <1>2, <1>3, SizeType DEF FrameType, Q!Frame
<1>6. \A p \in Q!XYLines(x, f.y) : p \in Q!Square
  BY <1>3
<1> HIDE DEF g, q
<1>7. \A p \in g.c : p[1] < x + 1
  <2>1. ASSUME NEW p \in f.c PROVE p[1] < x + 1
    <3>1. p[1] \in Int /\ p[1] < x
      BY <1>2, SquareType DEF FrameOK
    <3> QED
      BY <1>1, <3>1
  <2>2. q[1] < x + 1
    BY <1>1
  <2> QED
    BY <1>4, <2>1, <2>2
<1>8. \A r \in Q!Line : r < x + 1 => \E y \in Q!Line : <<r, y>> \in g.c
  <2> SUFFICES ASSUME NEW r \in Q!Line, r < x + 1 PROVE \E y \in Q!Line : <<r, y>> \in g.c
    OBVIOUS
  <2>1. r < x \/ r = x
    BY <1>1, SquareType
  <2>2. CASE r < x
    BY <1>4, <2>2 DEF FrameOK
  <2>3. CASE r = x
    BY <1>1, <1>4, <2>3 DEF q
  <2> QED
    BY <2>1, <2>2, <2>3
<1>9. \A p \in f.c : ~Q!Attack(p, q)
  <2>1. q[1] >= x /\ q \notin f.mask
    BY <1>1 DEF q
  <2> QED
    BY <1>1, <2>1 DEF FrameOK
<1>10. Apart(g.c)
  <2>1. ~Q!Attack(q, q)
    BY DEF Q!Attack
  <2>2. \A p \in f.c : ~Q!Attack(q, p)
    BY <1>1, <1>2, <1>9, AttackBoth
  <2> QED
    BY <1>4, <1>9, <2>1, <2>2 DEF FrameOK, Apart
<1>11. ASSUME NEW p \in Q!Square, p[1] >= x + 1
       PROVE  p \in g.mask <=> \E r \in g.c : Q!Attack(r, p)
  <2>1. p[1] > x /\ p[1] >= x
    BY <1>1, <1>11, SquareType
  <2>2. p \in f.mask <=> \E r \in f.c : Q!Attack(r, p)
    BY <2>1 DEF FrameOK
  <2>3. p \in Q!XYLines(x, f.y) <=> Q!Attack(q, p)
    BY <1>1, <2>1, MarkedIsAttacked DEF q
  <2> QED
    BY <1>4, <2>2, <2>3
<1>12. FrameOK(g, x + 1)
  BY <1>5, <1>7, <1>8, <1>10, <1>11 DEF FrameOK
<1>13. ASSUME NEW s \in Q!Solutions
       PROVE  Ahead(g, x + 1, s) <=> f.c \subseteq s /\ q \in s
  <2>1. x + 1 < Size => \E y \in Q!Line : y >= 0 /\ <<x + 1, y>> \in s
    <3> SUFFICES ASSUME x + 1 < Size PROVE \E y \in Q!Line : y >= 0 /\ <<x + 1, y>> \in s
      OBVIOUS
    <3>1. x + 1 \in Q!Line
      BY <1>1, SizeType
    <3> QED
      BY <3>1, SolutionType, SquareType
  <2> QED
    BY <1>4, <2>1 DEF Ahead
<1> QED
  BY <1>4, <1>12, <1>13 DEF g, q

\* No solution has a queen on a marked square.
LEMMA SkipFrame ==
  ASSUME NEW x \in Q!Line, NEW f, FrameOK(f, x), f.y < Size, <<x, f.y>> \in f.mask,
         NEW s \in Q!Solutions
  PROVE  ~(f.c \subseteq s /\ <<x, f.y>> \in s)
<1>1. <<x, f.y>> \in Q!Square /\ <<x, f.y>>[1] >= x
  <2>1. <<x, f.y>> \in Q!Square
    BY NextColumn
  <2>2. <<x, f.y>>[1] = x /\ x \in Int
    BY SquareType
  <2> QED
    BY <2>1, <2>2
<1>2. \E q \in f.c : Q!Attack(q, <<x, f.y>>)
  BY <1>1 DEF FrameOK
<1> QED
  BY <1>2, SolutionType DEF Apart

\* A board with a queen on each line is the only solution that has them.
LEMMA SolveFrame ==
  ASSUME NEW f, FrameOK(f, Size)
  PROVE  f.c \in Q!Solutions /\ \A s \in Q!Solutions : Ahead(f, Size, s) <=> s = f.c
<1>1. f.c \subseteq Q!Square /\ Apart(f.c)
  BY DEF FrameOK, FrameType
<1>2. \A r \in Q!Line : \E y \in Q!Line : <<r, y>> \in f.c
  BY SquareType DEF FrameOK
<1>3. f.c \in Q!Solutions
  BY <1>1, <1>2, SolutionType
<1>4. ASSUME NEW s \in Q!Solutions, f.c \subseteq s, NEW p \in s PROVE p \in f.c
  <2>1. s \subseteq Q!Square /\ Apart(s)
    BY SolutionType
  <2>2. p[1] \in Q!Line
    BY <2>1, SquareType
  <2>3. PICK y \in Q!Line : <<p[1], y>> \in f.c
    BY <1>2, <2>2
  <2>4. ~Q!Attack(p, <<p[1], y>>)
    BY <1>4, <2>1, <2>3 DEF Apart
  <2>5. p = <<p[1], y>>
    BY <2>4 DEF Q!Attack
  <2> QED
    BY <2>3, <2>5
<1>5. ~(Size < Size)
  BY SizeType
<1> QED
  BY <1>3, <1>4, <1>5 DEF Ahead


-----------------------------------------------------------------------------
(* The search of the queens. *)

Found(s) == \E k \in DOMAIN res : res[k] = s

\* The calls of rowIterate, one line each; each has the queen that the ones before are
\* trying, so that what is ahead of one is not ahead of another; a solution is found
\* or ahead.
SearchInv ==
  /\ qstack \in Seq(FrameType) /\ Len(qstack) <= Size + 1
  /\ \A i \in 1..Len(qstack) : FrameOK(qstack[i], i - 1)
  /\ \A i, j \in 1..Len(qstack) :
       i < j => qstack[i].y > 0 /\ <<i - 1, qstack[i].y - 1>> \in qstack[j].c
  /\ res \in Seq(Q!Solutions)
  /\ \A k, l \in 1..Len(res) : res[k] = res[l] => k = l
  /\ \A s \in Q!Solutions : Found(s) <=> \A i \in 1..Len(qstack) : ~Ahead(qstack[i], i - 1, s)

QueensInv ==
  /\ qpc = "idle" => res = <<>>
  /\ qpc = "rows" => SearchInv

\* The search begins with one call.
LEMMA SearchBegins ==
  ASSUME qstack' = Q!First, res' = <<>>
  PROVE  SearchInv'
<1> DEFINE f == Q!Frame({}, {})
<1>1. FrameOK(f, 0) /\ \A s \in Q!Solutions : Ahead(f, 0, s)
  BY FirstFrame
<1>2. f \in FrameType
  BY <1>1 DEF FrameOK
<1>3. qstack' = <<f>>
  BY DEF Q!First
<1> HIDE DEF f
<1>4. qstack' \in Seq(FrameType) /\ Len(qstack') = 1 /\ qstack'[1] = f
  BY <1>2, <1>3
<1>5. \A i \in 1..Len(qstack') : i = 1 /\ i - 1 = 0
  BY <1>4
<1>6. \A i \in 1..Len(qstack') : FrameOK(qstack'[i], i - 1)
  BY <1>1, <1>4, <1>5
<1>7. \A s \in Q!Solutions : \E i \in 1..Len(qstack') : Ahead(qstack'[i], i - 1, s)
  BY <1>1, <1>4
<1>8. (\A s : ~Found(s)') /\ res' \in Seq(Q!Solutions) /\ Len(res') = 0
  BY EmptySeq DEF Found
<1> QED
  BY <1>4, <1>5, <1>6, <1>7, <1>8, SizeType DEF SearchInv

\* The call on the top of the stack.
LEMMA TopFrame ==
  ASSUME SearchInv, qstack # <<>>
  PROVE  LET n == Len(qstack) IN
         /\ n \in Nat /\ n > 0 /\ n - 1 \in 0..Size /\ Q!X = n - 1 /\ Q!Top = qstack[n]
         /\ qstack[n] \in FrameType /\ FrameOK(qstack[n], n - 1)
         /\ (n - 1 < Size => n - 1 \in Q!Line)
<1>1. qstack \in Seq(FrameType) /\ Len(qstack) \in Nat /\ Len(qstack) # 0 /\ Len(qstack) <= Size + 1
  BY EmptySeq, LenProperties DEF SearchInv
<1>2. Len(qstack) \in 1..Len(qstack)
  BY <1>1
<1>3. qstack[Len(qstack)] \in FrameType /\ FrameOK(qstack[Len(qstack)], Len(qstack) - 1)
  BY <1>1, <1>2, ElementOfSeq DEF SearchInv
<1> QED
  BY <1>1, <1>3, SizeType DEF Q!X, Q!Top, Q!Last

\* A square that is free or marked: the call goes to the next column, and calls itself
\* when it is free.
LEMMA ColumnStep ==
  ASSUME SearchInv, Q!Place \/ Q!Skip
  PROVE  SearchInv'
<1> DEFINE n == Len(qstack)
           x == n - 1
           f == qstack[n]
           g == [f EXCEPT !.y = @ + 1]
           h == Q!Frame(f.c \cup {<<x, f.y>>}, f.mask \cup Q!XYLines(x, f.y))
           q == <<x, f.y>>
           t == [qstack EXCEPT ![n].y = @ + 1]
<1>1. /\ qstack # <<>> /\ n \in Nat /\ n > 0 /\ x \in Q!Line /\ FrameOK(f, x) /\ f \in FrameType
      /\ f.y < Size /\ n <= Size /\ res' = res /\ qstack \in Seq(FrameType)
  <2>1. qstack # <<>> /\ Q!X < Size /\ Q!Top.y < Size /\ res' = res
    BY DEF Q!Place, Q!Skip
  <2>2. /\ n \in Nat /\ n > 0 /\ Q!X = x /\ Q!Top = f /\ f \in FrameType /\ FrameOK(f, x)
        /\ (x < Size => x \in Q!Line)
    BY <2>1, TopFrame
  <2>3. n <= Size
    <3> HIDE DEF n
    <3> QED
      BY <2>1, <2>2, SizeType
  <2>4. qstack \in Seq(FrameType)
    BY DEF SearchInv
  <2> HIDE DEF n, f
  <2> QED
    BY <2>1, <2>2, <2>3, <2>4
<1>2. /\ f.y \in Q!Line /\ FrameOK(g, x) /\ g.y > 0 /\ g.y = f.y + 1 /\ g.c = f.c
      /\ \A s \in Q!Solutions : Ahead(f, x, s) <=> Ahead(g, x, s) \/ (f.c \subseteq s /\ q \in s)
  <2>1. g.c = f.c
    BY <1>1 DEF FrameType
  <2> QED
    BY <1>1, <2>1, NextColumn
<1>3. \/ q \notin f.mask /\ qstack' = Append(t, h)
      \/ q \in f.mask /\ qstack' = t
  BY <1>1, TopFrame DEF Q!Place, Q!Skip
<1>4. /\ t \in Seq(FrameType) /\ Len(t) = n /\ t[n] = g
      /\ \A i \in 1..n : i # n => t[i] = qstack[i]
  <2>1. t = [qstack EXCEPT ![n] = g]
    OBVIOUS
  <2>2. g \in FrameType /\ n \in 1..Len(qstack)
    BY <1>1, <1>2 DEF FrameOK
  <2> HIDE DEF g, t, f
  <2> QED
    BY <1>1, <2>1, <2>2, ExceptSeq
<1> HIDE DEF f, g, h, q, t
<1>5. \A i \in 1..n : FrameOK(t[i], i - 1)
  BY <1>1, <1>2, <1>4 DEF SearchInv
<1>6. \A i, j \in 1..n : i < j => t[i].y > 0 /\ <<i - 1, t[i].y - 1>> \in t[j].c
  <2> SUFFICES ASSUME NEW i \in 1..n, NEW j \in 1..n, i < j
               PROVE  t[i].y > 0 /\ <<i - 1, t[i].y - 1>> \in t[j].c
    OBVIOUS
  <2>1. i # n /\ t[i] = qstack[i]
    BY <1>1, <1>4
  <2>2. t[j].c = qstack[j].c
    BY <1>2, <1>4 DEF f
  <2> QED
    BY <2>1, <2>2 DEF SearchInv
<1>7. \A s \in Q!Solutions :
        (\A i \in 1..n : ~Ahead(qstack[i], i - 1, s)) <=>
          (\A i \in 1..n : ~Ahead(t[i], i - 1, s)) /\ ~(f.c \subseteq s /\ q \in s)
  <2> SUFFICES ASSUME NEW s \in Q!Solutions
               PROVE  (\A i \in 1..n : ~Ahead(qstack[i], i - 1, s)) <=>
                        (\A i \in 1..n : ~Ahead(t[i], i - 1, s)) /\ ~(f.c \subseteq s /\ q \in s)
    OBVIOUS
  <2>1. n \in 1..n /\ qstack[n] = f /\ x = n - 1
    BY <1>1 DEF f
  <2>2. Ahead(qstack[n], n - 1, s) <=> Ahead(t[n], n - 1, s) \/ (f.c \subseteq s /\ q \in s)
    BY <1>2, <1>4, <2>1
  <2> QED
    BY <1>4, <2>1, <2>2
<1>8. CASE q \in f.mask /\ qstack' = t
  <2>1. \A s \in Q!Solutions : ~(f.c \subseteq s /\ q \in s)
    BY <1>1, <1>8, SkipFrame DEF q
  <2>2. Len(qstack') = n /\ n <= Size + 1
    BY <1>1, <1>4, <1>8, SizeType
  <2>3. \A s \in Q!Solutions : Found(s)' <=> Found(s)
    BY <1>1 DEF Found
  <2>4. \A s \in Q!Solutions : Found(s)' <=> \A i \in 1..Len(qstack') : ~Ahead(qstack'[i], i - 1, s)
    BY <1>7, <1>8, <2>1, <2>2, <2>3 DEF SearchInv
  <2> QED
    BY <1>1, <1>4, <1>5, <1>6, <1>8, <2>2, <2>4 DEF SearchInv
<1>9. CASE q \notin f.mask /\ qstack' = Append(t, h)
  <2>1. /\ FrameOK(h, n) /\ h.c = f.c \cup {q}
        /\ \A s \in Q!Solutions : Ahead(h, n, s) <=> f.c \subseteq s /\ q \in s
    <3>1. x + 1 = n
      BY <1>1
    <3>2. /\ FrameOK(h, x + 1) /\ h.c = f.c \cup {q}
          /\ \A s \in Q!Solutions : Ahead(h, x + 1, s) <=> f.c \subseteq s /\ q \in s
      <4>1. <<x, f.y>> \notin f.mask
        BY <1>9 DEF q
      <4> HIDE DEF x
      <4> QED
        BY <1>1, <4>1, PlaceFrame DEF h, q
    <3> QED
      BY <3>1, <3>2
  <2>2. /\ qstack' \in Seq(FrameType) /\ Len(qstack') = n + 1 /\ qstack'[n + 1] = h
        /\ \A i \in 1..n : qstack'[i] = t[i]
    <3>1. h \in FrameType
      BY <2>1 DEF FrameOK
    <3> QED
      BY <1>4, <1>9, <3>1
  <2>3. \A i \in 1..n + 1 : i \in 1..n \/ (i = n + 1 /\ i - 1 = n)
    BY <1>1
  <2>4. \A i \in 1..Len(qstack') : FrameOK(qstack'[i], i - 1)
    BY <1>5, <2>1, <2>2, <2>3
  <2>5. ASSUME NEW i \in 1..n + 1, NEW j \in 1..n + 1, i < j
        PROVE  qstack'[i].y > 0 /\ <<i - 1, qstack'[i].y - 1>> \in qstack'[j].c
    <3>1. i \in 1..n
      BY <1>1, <2>5
    <3>2. CASE j \in 1..n
      BY <1>6, <2>2, <2>5, <3>1, <3>2
    <3>3. CASE j = n + 1 /\ i # n
      <4>1. i < n /\ n \in 1..n
        BY <1>1, <3>1, <3>3
      <4>2. t[i].y > 0 /\ <<i - 1, t[i].y - 1>> \in t[n].c
        BY <1>6, <3>1, <4>1
      <4> QED
        BY <1>2, <1>4, <2>1, <2>2, <3>1, <3>3, <4>2
    <3>4. CASE j = n + 1 /\ i = n
      <4>1. t[n].y > 0 /\ t[n].y - 1 = f.y
        BY <1>2, <1>4, SizeType
      <4> QED
        BY <2>1, <2>2, <3>1, <3>4, <4>1 DEF q
    <3> QED
      BY <2>3, <3>2, <3>3, <3>4
  <2>6. \A s \in Q!Solutions : Found(s)' <=> Found(s)
    BY <1>1 DEF Found
  <2>7. ASSUME NEW s \in Q!Solutions
        PROVE  Found(s)' <=> \A i \in 1..n + 1 : ~Ahead(qstack'[i], i - 1, s)
    <3>1. Found(s) <=> (\A i \in 1..n : ~Ahead(t[i], i - 1, s)) /\ ~Ahead(h, n, s)
      BY <1>7, <2>1 DEF SearchInv
    <3>2. n + 1 \in 1..n + 1 /\ (n + 1) - 1 = n /\ \A i \in 1..n : i \in 1..n + 1
      BY <1>1
    <3> QED
      BY <2>2, <2>3, <2>6, <3>1, <3>2
  <2>8. n + 1 <= Size + 1
    BY <1>1, SizeType
  <2> QED
    BY <1>1, <2>2, <2>4, <2>5, <2>7, <2>8 DEF SearchInv
<1> QED
  BY <1>3, <1>8, <1>9

\* The beginning of a sequence.
LEMMA Cut ==
  ASSUME NEW A, NEW s \in Seq(A), NEW m \in Nat, m <= Len(s)
  PROVE  /\ SubSeq(s, 1, m) \in Seq(A) /\ Len(SubSeq(s, 1, m)) = m
         /\ \A i \in 1..m : SubSeq(s, 1, m)[i] = s[i]
OBVIOUS

\* The stack without its last call.
LEMMA Popped ==
  ASSUME SearchInv, qstack # <<>>, qstack' = Q!Front(qstack)
  PROVE  /\ qstack' \in Seq(FrameType) /\ Len(qstack') = Len(qstack) - 1 /\ Len(qstack) \in Nat
         /\ Len(qstack') <= Size + 1
         /\ \A i \in 1..Len(qstack') : i \in 1..Len(qstack) /\ i < Len(qstack) /\ qstack'[i] = qstack[i]
         /\ \A i \in 1..Len(qstack') : FrameOK(qstack'[i], i - 1)
         /\ \A i, j \in 1..Len(qstack') :
              i < j => qstack'[i].y > 0 /\ <<i - 1, qstack'[i].y - 1>> \in qstack'[j].c
<1>1. qstack \in Seq(FrameType) /\ Len(qstack) \in Nat /\ Len(qstack) > 0 /\ Len(qstack) <= Size + 1
  BY TopFrame DEF SearchInv
<1>2. qstack' = SubSeq(qstack, 1, Len(qstack) - 1)
  BY DEF Q!Front
<1>3. /\ qstack' \in Seq(FrameType) /\ Len(qstack') = Len(qstack) - 1
      /\ \A i \in 1..Len(qstack) - 1 : qstack'[i] = qstack[i]
  <2>1. Len(qstack) - 1 \in Nat /\ Len(qstack) - 1 <= Len(qstack)
    BY <1>1
  <2> DEFINE n == Len(qstack) - 1
  <2>2. n \in Nat /\ n <= Len(qstack) /\ qstack' = SubSeq(qstack, 1, n)
    BY <1>2, <2>1
  <2> HIDE DEF n
  <2>3. qstack' \in Seq(FrameType) /\ Len(qstack') = n /\ \A i \in 1..n : qstack'[i] = qstack[i]
    BY <1>1, <2>2, Cut
  <2> QED
    BY <2>3 DEF n
<1>4. \A i \in 1..Len(qstack') : i \in 1..Len(qstack) /\ i < Len(qstack) /\ qstack'[i] = qstack[i]
  BY <1>1, <1>3
<1>5. Len(qstack') <= Size + 1
  BY <1>1, <1>3, SizeType
<1> QED
  BY <1>1, <1>3, <1>4, <1>5 DEF SearchInv

\* The loop of the call has ended: it found what it could.
LEMMA ReturnStep ==
  ASSUME SearchInv, Q!Return
  PROVE  SearchInv'
<1> DEFINE n == Len(qstack)
           f == qstack[n]
<1>1. /\ qstack # <<>> /\ n \in Nat /\ n > 0 /\ n - 1 < Size /\ f.y = Size /\ res' = res
      /\ qstack' = Q!Front(qstack)
  BY TopFrame DEF Q!Return
<1>2. \A s \in Q!Solutions : ~Ahead(f, n - 1, s)
  <2>1. \A y \in Q!Line : ~(y >= Size)
    BY SquareType, SizeType
  <2> HIDE DEF n, f
  <2> QED
    BY <1>1, <2>1 DEF Ahead
<1>3. \A s \in Q!Solutions : Found(s)' <=> Found(s)
  BY <1>1 DEF Found
<1>4. \A i \in 1..n : i = n \/ i \in 1..Len(qstack')
  BY <1>1, Popped
<1>5. ASSUME NEW s \in Q!Solutions
      PROVE  Found(s)' <=> \A i \in 1..Len(qstack') : ~Ahead(qstack'[i], i - 1, s)
  <2> HIDE DEF f, n
  <2>1. Found(s) <=> \A i \in 1..n : ~Ahead(qstack[i], i - 1, s)
    BY DEF SearchInv, n
  <2>2. ~Ahead(qstack[n], n - 1, s)
    BY <1>2 DEF f
  <2>3. \A i \in 1..Len(qstack') : i \in 1..n /\ qstack'[i] = qstack[i]
    BY <1>1, Popped DEF n
  <2> QED
    BY <1>3, <1>4, <2>1, <2>2, <2>3
<1> QED
  BY <1>1, <1>5, Popped DEF SearchInv

\* A board that is full is a solution that was not found before.
LEMMA SolveStep ==
  ASSUME SearchInv, Q!Solve
  PROVE  SearchInv'
<1> DEFINE n == Len(qstack)
           f == qstack[n]
           c == f.c
<1>1. /\ qstack # <<>> /\ n \in Nat /\ n > 0 /\ n - 1 = Size /\ FrameOK(f, Size)
      /\ res' = Append(res, c) /\ qstack' = Q!Front(qstack)
  BY TopFrame DEF Q!Solve
<1>2. c \in Q!Solutions /\ \A s \in Q!Solutions : Ahead(f, Size, s) <=> s = c
  BY <1>1, SolveFrame
<1>3. n \in 1..n /\ qstack[n] = f
  BY <1>1
<1>4. \A i \in 1..n : i = n \/ i \in 1..Len(qstack')
  BY <1>1, Popped
<1>5. \A i \in 1..Len(qstack') : i \in 1..n /\ i < n /\ qstack'[i] = qstack[i]
  BY <1>1, Popped
<1> HIDE DEF n, f, c
<1>6. ~Found(c)
  BY <1>1, <1>2, <1>3 DEF SearchInv, n
<1>7. ASSUME NEW i \in 1..Len(qstack') PROVE ~Ahead(qstack[i], i - 1, c)
  <2>1. i \in 1..n /\ i < n /\ n \in 1..n
    BY <1>3, <1>5, <1>7
  <2>2. qstack[i].y > 0 /\ <<i - 1, qstack[i].y - 1>> \in c
    BY <1>3, <2>1 DEF SearchInv, n, c
  <2>3. i - 1 \in Q!Line /\ i - 1 < Size
    BY <1>1, <2>1, SizeType
  <2>4. qstack[i].y \in 0..Size
    BY <2>1 DEF SearchInv, FrameOK, FrameType, n
  <2>5. qstack[i].y - 1 \in Q!Line
    BY <2>2, <2>4, SizeType
  <2>6. ASSUME NEW y \in Q!Line, <<i - 1, y>> \in c PROVE y = qstack[i].y - 1
    <3>1. ~Q!Attack(<<i - 1, y>>, <<i - 1, qstack[i].y - 1>>)
      BY <1>2, <2>2, <2>6, SolutionType DEF Apart
    <3> QED
      BY <3>1 DEF Q!Attack
  <2>7. \A y \in Q!Line : y >= qstack[i].y => y # qstack[i].y - 1
    BY <2>4, SquareType
  <2> QED
    BY <2>3, <2>6, <2>7 DEF Ahead
<1>8. /\ res \in Seq(Q!Solutions) /\ Len(res) \in Nat /\ DOMAIN res = 1..Len(res)
      /\ \A k, l \in 1..Len(res) : res[k] = res[l] => k = l
  BY LenProperties DEF SearchInv
<1>9. /\ res' \in Seq(Q!Solutions) /\ Len(res') = Len(res) + 1 /\ DOMAIN res' = 1..Len(res) + 1
      /\ res'[Len(res) + 1] = c /\ \A k \in 1..Len(res) : res'[k] = res[k]
  BY <1>1, <1>2, <1>8
<1>10. \A k \in 1..Len(res) + 1 : k \in 1..Len(res) \/ k = Len(res) + 1
  BY <1>8
<1>11. Len(res) + 1 \in 1..Len(res) + 1 /\ \A k \in 1..Len(res) : k \in 1..Len(res) + 1
  BY <1>8
<1>12. \A s : Found(s)' <=> Found(s) \/ s = c
  BY <1>8, <1>9, <1>10, <1>11 DEF Found
<1>13. \A k, l \in 1..Len(res') : res'[k] = res'[l] => k = l
  <2>1. \A k \in 1..Len(res) : res[k] # c
    BY <1>6, <1>8 DEF Found
  <2> QED
    BY <1>8, <1>9, <1>10, <2>1
<1>14. ASSUME NEW s \in Q!Solutions
       PROVE  Found(s)' <=> \A i \in 1..Len(qstack') : ~Ahead(qstack'[i], i - 1, s)
  <2>1. Found(s) <=> \A i \in 1..n : ~Ahead(qstack[i], i - 1, s)
    BY DEF SearchInv, n
  <2>2. Ahead(qstack[n], n - 1, s) <=> s = c
    BY <1>1, <1>2, <1>3
  <2>3. CASE s = c
    BY <1>5, <1>7, <1>12, <2>3
  <2>4. CASE s # c
    BY <1>4, <1>5, <1>12, <2>1, <2>2, <2>4
  <2> QED
    BY <2>3, <2>4
<1> QED
  BY <1>1, <1>9, <1>13, <1>14, Popped DEF SearchInv

LEMMA QueensStep ==
  ASSUME QueensInv, Q!Step
  PROVE  QueensInv'
<1>1. CASE Q!Run
  BY <1>1, SearchBegins DEF Q!Run, QueensInv
<1>2. CASE Q!Place \/ Q!Skip \/ Q!Return \/ Q!Solve
  <2>1. qpc = "rows" /\ qpc' = "rows" /\ SearchInv
    BY <1>2 DEF Q!Place, Q!Skip, Q!Return, Q!Solve, QueensInv
  <2> QED
    BY <1>2, <2>1, ColumnStep, ReturnStep, SolveStep DEF QueensInv
<1>3. CASE Q!EndTurn
  BY <1>3, SearchBegins DEF Q!EndTurn, QueensInv
<1> QED
  BY <1>1, <1>2, <1>3 DEF Q!Step

LEMMA QueensAlone ==
  ASSUME [Next]_vars
  PROVE  Q!Step \/ UNCHANGED queens
<1> USE DEF At, To
<1>1. CASE Queens
  BY <1>1 DEF Queens
<1>2. CASE \/ Compression \/ Sorting \/ Documents \/ Btree \/ Pearls \/ Memory
           \/ Image \/ Crypto \/ Haversine \/ Elsewhere
  BY <1>2 DEF Compression, Sorting, Documents, Btree, Pearls, Memory, Image, Crypto, Haversine, Elsewhere
<1>3. CASE FinishStep \/ Terminated \/ UNCHANGED vars
  BY <1>3 DEF FinishStep, Terminated, vars
<1> QED
  BY <1>1, <1>2, <1>3 DEF Next

\* rowIterate finds every placement where no queen attacks another, by the rules of the
\* game, each once and nothing else, on a board of any size and in every turn of Run
\* of every transaction (eightqueens.go).
THEOREM QueensFound == Spec => []AllFoundOnce
<1>1. Init => QueensInv
  BY DEF Init, Q!Init, QueensInv
<1>2. QueensInv /\ [Next]_vars => QueensInv'
  <2>1. QueensInv /\ UNCHANGED queens => QueensInv'
    BY DEF QueensInv, SearchInv, Found, queens
  <2> QED
    BY <2>1, QueensStep, QueensAlone
<1>3. QueensInv => AllFoundOnce
  <2> SUFFICES ASSUME QueensInv, qpc = "rows", qstack = <<>>
               PROVE  Q!Range(res) = Q!Solutions /\ Q!IsInjective(res)
    BY DEF AllFoundOnce, Q!AllFoundOnce
  <2>1. SearchInv /\ \A i : i \notin 1..Len(qstack)
    BY EmptySeq DEF QueensInv
  <2>2. \A s \in Q!Solutions : \E k \in DOMAIN res : res[k] = s
    BY <2>1 DEF SearchInv, Found
  <2>3. DOMAIN res = 1..Len(res) /\ \A k \in DOMAIN res : res[k] \in Q!Solutions
    BY <2>1, LenProperties, ElementOfSeq DEF SearchInv
  <2>4. Q!Range(res) = Q!Solutions
    BY <2>2, <2>3 DEF Q!Range
  <2> QED
    BY <2>1, <2>3, <2>4 DEF SearchInv, Q!IsInjective
<1> QED
  BY <1>1, <1>2, <1>3, PTL DEF Spec

-----------------------------------------------------------------------------
(* AWK and JSON. *)

\* The buffers are empty when a program or the encoder begins to write in them.
DocumentsInv ==
  /\ documents \in [pc : {"idle", "drawn", "filter", "rewound", "filtered", "query", "encode", "fatal"},
                    res : {documents.res}, stdin : {documents.stdin}, buf : Nat, i : Nat]
  /\ documents.pc \in {"idle", "filter", "rewound", "query", "encode"} => documents.res = <<>>
  /\ documents.pc = "drawn" => documents.res = <<"drawing">>
  /\ documents.pc = "rewound" => documents.stdin = Excerpt
  /\ documents.pc = "filtered" => documents.res = <<Excerpt>>
  /\ documents.pc # "fatal" => documents.buf = IF documents.pc = "encode" THEN documents.i ELSE 0

LEMMA DocumentsBegin ==
  ASSUME D!Init PROVE DocumentsInv
BY DEF D!Init, DocumentsInv

LEMMA DocumentsStep ==
  ASSUME DocumentsInv, D!Step
  PROVE  DocumentsInv'
<1> USE DEF DocumentsInv
<1>a. Append(<<>>, "drawing") = <<"drawing">> /\ Append(<<>>, Excerpt) = <<Excerpt>>
  OBVIOUS
<1>b. CASE D!Fatal
  BY <1>b DEF D!Fatal
<1>1. CASE D!Mandelbrot /\ ~D!Fatal
  BY <1>1, <1>a DEF D!Mandelbrot
<1>2. CASE D!Drawn
  BY <1>2 DEF D!Drawn
<1>3. CASE D!Rewind
  BY <1>3 DEF D!Rewind
<1>4. CASE D!Filter /\ ~D!Fatal
  BY <1>4, <1>a DEF D!Filter
<1>5. CASE D!Filtered
  BY <1>5 DEF D!Filtered
<1>6. CASE D!Query
  BY <1>6 DEF D!Query
<1>7. CASE D!Encode /\ ~D!Fatal
  <2>1. documents.pc = "encode" /\ documents' = [documents EXCEPT !.i = documents.i + 1, !.buf = documents.buf + 1]
    BY <1>7 DEF D!Encode
  <2>2. /\ documents'.pc = "encode" /\ documents'.i = documents.i + 1 /\ documents'.buf = documents.buf + 1
        /\ documents'.res = documents.res /\ documents'.stdin = documents.stdin
    BY <2>1
  <2>3. documents' = [pc |-> "encode", res |-> documents.res, stdin |-> documents.stdin,
                      buf |-> documents.buf + 1, i |-> documents.i + 1]
    BY <2>1
  <2> QED
    BY <2>1, <2>2, <2>3
<1>8. CASE D!Reset
  BY <1>8 DEF D!Reset
<1> QED
  BY <1>b, <1>1, <1>2, <1>3, <1>4, <1>5, <1>6, <1>7, <1>8 DEF D!Step

LEMMA DocumentsProduct ==
  ASSUME DocumentsInv PROVE D!Product
BY DEF DocumentsInv, D!Product

-----------------------------------------------------------------------------
(* Crypto. *)

Byte == [of : Nat, by : SUBSET Nat]

\* A byte of the input, and the same byte encrypted.
Clear(k) == [of |-> k, by |-> {}]
Hidden(k) == [of |-> k, by |-> {k}]

\* The buffer that the writer keeps is none, or as long as the input.  What is not
\* read yet is the rest of the encrypted input.
CryptoInv ==
  /\ crypto \in [pc : {"idle", "decrypt", "end"}, out1 : Seq(Byte), out2 : Seq(Byte), buf : Seq(Byte), pos : Nat]
  /\ Len(crypto.buf) \in {0, CryptoSize}
  /\ crypto.pc = "idle" => crypto.out1 = <<>> /\ crypto.out2 = <<>>
  /\ crypto.pc = "decrypt" =>
       /\ crypto.pos = Len(crypto.out2) /\ crypto.pos + Len(crypto.out1) = CryptoSize
       /\ \A k \in 1..Len(crypto.out1) : crypto.out1[k] = Hidden(crypto.pos + k)
       /\ \A k \in 1..crypto.pos : crypto.out2[k] = Clear(k)

LEMMA CryptoSizeType == CryptoSize \in Nat \ {0}
BY TransactionAssumption DEF X!CryptoAssumption

\* The key stream hides a byte, and brings it back.
LEMMA KeyStream ==
  ASSUME NEW k \in Nat
  PROVE  /\ [Clear(k) EXCEPT !.by = X!SymDiff(@, {k})] = Hidden(k)
         /\ [Hidden(k) EXCEPT !.by = X!SymDiff(@, {k})] = Clear(k)
<1>1. X!SymDiff({}, {k}) = {k} /\ X!SymDiff({k}, {k}) = {}
  BY DEF X!SymDiff
<1> QED
  BY <1>1 DEF Clear, Hidden

LEMMA InputType ==
  /\ X!Input \in Seq(Byte) /\ Len(X!Input) = CryptoSize
  /\ \A k \in 1..CryptoSize : X!Input[k] = Clear(k)
BY CryptoSizeType DEF X!Input, Byte, Clear

LEMMA CryptoBegin ==
  ASSUME X!Init PROVE CryptoInv
BY DEF X!Init, CryptoInv

LEMMA CryptoEncrypt ==
  ASSUME CryptoInv, X!Encrypt
  PROVE  CryptoInv'
<1> DEFINE src == X!Input
           old == IF Len(crypto.buf) < Len(src) THEN src ELSE crypto.buf
           hidden == X!XORKeyStream(src, 0)
           new == hidden \o SubSeq(old, Len(src) + 1, Len(old))
<1>1. src \in Seq(Byte) /\ Len(src) = CryptoSize /\ \A k \in 1..CryptoSize : src[k] = Clear(k)
  BY InputType
<1>2. hidden = [k \in 1..CryptoSize |-> Hidden(k)]
  <2>1. hidden = [k \in DOMAIN src |-> [src[k] EXCEPT !.by = X!SymDiff(@, {0 + k})]]
    BY DEF X!XORKeyStream
  <2>2. DOMAIN src = 1..CryptoSize
    BY <1>1
  <2>3. \A k \in 1..CryptoSize : [src[k] EXCEPT !.by = X!SymDiff(@, {0 + k})] = Hidden(k)
    <3> SUFFICES ASSUME NEW k \in 1..CryptoSize
                 PROVE  [src[k] EXCEPT !.by = X!SymDiff(@, {0 + k})] = Hidden(k)
      OBVIOUS
    <3>1. k \in Nat /\ 0 + k = k /\ src[k] = Clear(k)
      BY <1>1
    <3> HIDE DEF src
    <3> QED
      BY <3>1, KeyStream
  <2> HIDE DEF src, hidden
  <2> QED
    BY <2>1, <2>2, <2>3
<1>3. hidden \in Seq(Byte) /\ Len(hidden) = CryptoSize
  <2> HIDE DEF hidden
  <2> QED
    BY <1>2, CryptoSizeType DEF Hidden, Byte
<1>4. new = hidden
  <2>1. old \in Seq(Byte) /\ Len(old) = CryptoSize
    BY <1>1, CryptoSizeType DEF CryptoInv
  <2> HIDE DEF old, hidden, src
  <2>2. SubSeq(old, Len(src) + 1, Len(old)) = <<>>
    BY <1>1, <2>1, CryptoSizeType
  <2> QED
    BY <1>3, <2>2, ConcatEmptySeq
<1>5. crypto.pc = "idle" /\ crypto' = [crypto EXCEPT !.pc = IF Len(new) = Len(src) THEN "decrypt" ELSE "fatal",
                          !.out1 = crypto.out1 \o new, !.buf = new, !.pos = 0]
  BY DEF X!Encrypt, X!Write
<1> HIDE DEF new, hidden, src, old
<1>6. crypto.out1 = <<>> /\ crypto.out2 = <<>> /\ <<>> \o hidden = hidden
  BY <1>3, <1>5 DEF CryptoInv
<1>7. crypto' = [pc |-> "decrypt", out1 |-> hidden, out2 |-> <<>>, buf |-> hidden, pos |-> 0]
  BY <1>1, <1>3, <1>4, <1>5, <1>6 DEF CryptoInv
<1>8. \A k \in 1..CryptoSize : hidden[k] = Hidden(0 + k)
  BY <1>2, CryptoSizeType
<1> QED
  BY <1>3, <1>7, <1>8, CryptoSizeType DEF CryptoInv

LEMMA CryptoRead ==
  ASSUME CryptoInv, X!Read
  PROVE  CryptoInv'
<1> DEFINE out1 == crypto.out1
           out2 == crypto.out2
           pos == crypto.pos
<1>1. PICK n \in 1..Len(out1) :
        crypto' = [crypto EXCEPT !.out1 = SubSeq(out1, n + 1, Len(out1)), !.pos = pos + n,
                                 !.out2 = out2 \o X!XORKeyStream(SubSeq(out1, 1, n), pos)]
  BY DEF X!Read
<1>2. /\ crypto.pc = "decrypt" /\ out1 \in Seq(Byte) /\ out2 \in Seq(Byte) /\ pos \in Nat
      /\ pos = Len(out2) /\ pos + Len(out1) = CryptoSize
      /\ \A k \in 1..Len(out1) : out1[k] = Hidden(pos + k)
      /\ \A k \in 1..pos : out2[k] = Clear(k)
  BY DEF X!Read, CryptoInv
<1> DEFINE left == SubSeq(out1, n + 1, Len(out1))
           piece == SubSeq(out1, 1, n)
           clear == X!XORKeyStream(piece, pos)
           read == out2 \o clear
<1>3. crypto' = [pc |-> "decrypt", out1 |-> left, out2 |-> read, buf |-> crypto.buf, pos |-> pos + n]
  BY <1>1, <1>2 DEF CryptoInv
<1>d. crypto.buf \in Seq(Byte) /\ Len(crypto.buf) \in {0, CryptoSize}
  BY DEF CryptoInv
<1> HIDE DEF out1, out2, pos
<1>e. n \in Nat \ {0} /\ Len(out1) \in Nat /\ n <= Len(out1)
  BY <1>2, LenProperties
<1>4. /\ left \in Seq(Byte) /\ Len(left) = Len(out1) - n
      /\ \A k \in 1..Len(left) : left[k] = out1[n + k]
  BY <1>2
<1>5. DOMAIN piece = 1..n /\ \A k \in 1..n : piece[k] = out1[k]
  BY <1>2
<1>6. clear = [k \in 1..n |-> Clear(pos + k)]
  <2>1. clear = [k \in DOMAIN piece |-> [piece[k] EXCEPT !.by = X!SymDiff(@, {pos + k})]]
    BY DEF X!XORKeyStream
  <2>2. ASSUME NEW k \in 1..n PROVE [piece[k] EXCEPT !.by = X!SymDiff(@, {pos + k})] = Clear(pos + k)
    <3>1. pos + k \in Nat /\ piece[k] = Hidden(pos + k)
      BY <1>2, <1>5
    <3> HIDE DEF piece
    <3> QED
      BY <3>1, KeyStream
  <2> HIDE DEF piece, clear
  <2> QED
    BY <1>5, <2>1, <2>2
<1> HIDE DEF clear
<1>7. clear \in Seq(Byte) /\ Len(clear) = n
  BY <1>2, <1>6 DEF Clear, Byte
<1>8. /\ read \in Seq(Byte) /\ Len(read) = pos + n
      /\ \A k \in 1..pos + n : read[k] = Clear(k)
  <2>1. read \in Seq(Byte) /\ Len(read) = pos + n
    BY <1>2, <1>7
  <2>2. ASSUME NEW k \in 1..pos + n PROVE read[k] = Clear(k)
    <3>1. CASE k <= pos
      BY <3>1, <1>2, <1>7
    <3>2. CASE k > pos
      <4>1. k - pos \in 1..n /\ pos + (k - pos) = k
        BY <3>2, <1>2
      <4>2. read[k] = clear[k - pos]
        BY <3>2, <1>2, <1>7
      <4> QED
        BY <4>1, <4>2, <1>6
    <3>3. k \in Nat
      BY <1>2, <1>e
    <3> HIDE DEF read
    <3> QED
      BY <3>1, <3>2, <3>3, <1>2
  <2> QED
    BY <2>1, <2>2
<1> HIDE DEF read
<1>9. pos + n \in Nat /\ pos + n + Len(left) = CryptoSize
  <2> HIDE DEF left
  <2> QED
    BY <1>2, <1>4, <1>e
<1>10. \A k \in 1..Len(left) : left[k] = Hidden(pos + n + k)
  <2> SUFFICES ASSUME NEW k \in 1..Len(left) PROVE left[k] = Hidden(pos + n + k)
    OBVIOUS
  <2>1. n + k \in 1..Len(out1) /\ pos + (n + k) = pos + n + k
    <3> HIDE DEF left
    <3> QED
      BY <1>2, <1>4, <1>e
  <2>2. left[k] = out1[n + k]
    BY <1>4
  <2> HIDE DEF left
  <2> QED
    BY <1>2, <2>1, <2>2
<1> HIDE DEF left
<1> QED
  BY <1>3, <1>d, <1>4, <1>8, <1>9, <1>10 DEF CryptoInv

LEMMA CryptoStep ==
  ASSUME CryptoInv, X!Step
  PROVE  CryptoInv'
<1>1. CASE X!Check
  <2>1. crypto.pc = "decrypt" /\ crypto.out1 = <<>> /\ crypto.pos = Len(crypto.out2)
    BY <1>1 DEF X!Check, CryptoInv
  <2>2. Len(crypto.out2) = CryptoSize /\ crypto.out2 \in Seq(Byte)
    BY <2>1, EmptySeq, CryptoSizeType DEF CryptoInv
  <2>3. \A k \in 1..CryptoSize : crypto.out2[k] = Clear(k)
    BY <2>1, <2>2 DEF CryptoInv
  <2>4. crypto.out2 = X!Input
    BY <2>2, <2>3, InputType, SeqEqual
  <2>5. crypto' = [crypto EXCEPT !.pc = "end"]
    BY <1>1, <2>4 DEF X!Check
  <2> QED
    BY <2>5 DEF CryptoInv
<1>2. CASE X!Reset
  <2>1. crypto' = [pc |-> "idle", out1 |-> <<>>, out2 |-> <<>>, buf |-> crypto.buf, pos |-> crypto.pos]
    BY <1>2 DEF X!Reset, CryptoInv
  <2>2. <<>> \in Seq(Byte)
    OBVIOUS
  <2> QED
    BY <2>1, <2>2 DEF CryptoInv
<1> QED
  BY <1>1, <1>2, CryptoEncrypt, CryptoRead DEF X!Step

LEMMA CryptoProduct ==
  ASSUME CryptoInv PROVE X!Product
<1> SUFFICES ASSUME crypto.pc = "decrypt", crypto.out2 = <<>>
             PROVE  crypto.out1 = [k \in 1..CryptoSize |-> Hidden(k)]
  BY DEF X!Product, Hidden
<1>1. Len(crypto.out2) = 0
  BY EmptySeq
<1>2. /\ crypto.out1 \in Seq(Byte) /\ Len(crypto.out1) = CryptoSize
      /\ \A k \in 1..CryptoSize : crypto.out1[k] = Hidden(0 + k)
  BY <1>1, CryptoSizeType DEF CryptoInv
<1> QED
  BY <1>2, CryptoSizeType

-----------------------------------------------------------------------------
(* Compression. *)

Codec == {"zlib", "base64", "hexa"}
Chunk == [of : C!Range(Text), under : Seq(Codec)]

LEMMA PlainType == C!Plain \in Seq(Chunk) /\ C!Plain # <<>>
<1>1. Text \in Seq(C!Range(Text)) /\ Text # <<>>
  BY TransactionAssumption DEF C!CompressionAssumption
<1>2. DOMAIN Text = 1..Len(Text) /\ Len(Text) \in Nat \ {0}
  BY <1>1, LenProperties, EmptySeq
<1>3. \A k \in 1..Len(Text) : Text[k] \in C!Range(Text)
  BY <1>1, ElementOfSeq
<1>4. <<>> \in Seq(Codec)
  OBVIOUS
<1> QED
  BY <1>2, <1>3, <1>4 DEF C!Plain, Chunk

\* A decoder undoes what its encoder did.
LEMMA CodecInverse ==
  ASSUME NEW s \in Seq(Chunk), NEW c \in Codec
  PROVE  /\ C!Encoded(c, s) \in Seq(Chunk) /\ Len(C!Encoded(c, s)) = Len(s)
         /\ \A k \in 1..Len(s) : C!Under(c, C!Encoded(c, s)[k])
         /\ C!Decoded(c, C!Encoded(c, s)) = s
<1> DEFINE e == C!Encoded(c, s)
           n == Len(s)
<1>1. n \in Nat /\ DOMAIN s = 1..n /\ \A k \in 1..n : s[k] \in Chunk
  BY LenProperties, ElementOfSeq
<1>2. e = [k \in 1..n |-> [s[k] EXCEPT !.under = <<c>> \o s[k].under]]
  BY <1>1 DEF C!Encoded
<1> HIDE DEF n, e
<1>3. ASSUME NEW k \in 1..n
      PROVE  /\ e[k] \in Chunk /\ C!Under(c, e[k])
             /\ [e[k] EXCEPT !.under = Tail(@)] = s[k]
  <2>1. PICK x \in C!Range(Text), u \in Seq(Codec) : s[k] = [of |-> x, under |-> u]
    BY <1>1 DEF Chunk
  <2>2. e[k] = [of |-> x, under |-> <<c>> \o u]
    <3>1. e[k] = [s[k] EXCEPT !.under = <<c>> \o s[k].under]
      BY <1>2
    <3>2. s[k] \in Chunk /\ s[k].of = x /\ s[k].under = u
      BY <1>1, <2>1
    <3> DEFINE v == <<c>> \o s[k].under
    <3>3. [s[k] EXCEPT !.under = v] = [of |-> s[k].of, under |-> v]
      <4> HIDE DEF v
      <4> QED
        BY <3>2 DEF Chunk
    <3> QED
      BY <3>1, <3>2, <3>3
  <2>3. <<c>> \o u \in Seq(Codec) /\ <<c>> \o u # <<>> /\ Head(<<c>> \o u) = c
    BY <2>1
  <2>4. Tail(<<c>> \o u) = u
    <3>1. Tail(<<c>> \o u) \in Seq(Codec) /\ Len(Tail(<<c>> \o u)) = Len(u)
      BY <2>1
    <3>2. \A i \in 1..Len(u) : Tail(<<c>> \o u)[i] = u[i]
      BY <2>1
    <3> HIDE DEF Codec
    <3> QED
      BY <3>1, <3>2, SeqEqual
  <2>5. [e[k] EXCEPT !.under = Tail(@)] = [of |-> x, under |-> u]
    <3>1. e[k] \in Chunk
      BY <2>1, <2>2, <2>3 DEF Chunk
    <3>2. e[k].of = x /\ e[k].under = <<c>> \o u
      BY <2>2
    <3> DEFINE r == e[k]
               v == Tail(r.under)
    <3>3. [r EXCEPT !.under = v] = [of |-> r.of, under |-> v]
      <4> HIDE DEF r, v
      <4>1. r \in [of : C!Range(Text), under : Seq(Codec)]
        BY <3>1 DEF Chunk, r
      <4> QED
        BY <4>1
    <3> QED
      BY <2>4, <3>2, <3>3
  <2> QED
    BY <2>1, <2>2, <2>3, <2>5 DEF Chunk, C!Under
<1>4. e \in Seq(Chunk) /\ Len(e) = n
  <2>1. e \in [1..n -> Chunk]
    <3>1. DOMAIN e = 1..n /\ e = [k \in 1..n |-> e[k]]
      BY <1>2
    <3> QED
      BY <1>3, <3>1
  <2> QED
    BY <1>1, <2>1
<1>5. C!Decoded(c, e) = [k \in 1..n |-> [e[k] EXCEPT !.under = Tail(@)]]
  <2>1. C!SelectInSeq(e, LAMBDA chunk : ~C!Under(c, chunk)) = 0
    BY <1>3, <1>4 DEF C!SelectInSeq
  <2> QED
    BY <1>4, <2>1 DEF C!Decoded
<1>6. C!Decoded(c, e) = s
  <2>1. \A k \in 1..n : [e[k] EXCEPT !.under = Tail(@)] = s[k]
    BY <1>3
  <2>2. s = [k \in 1..n |-> s[k]]
    BY <1>1
  <2> QED
    BY <1>5, <2>1, <2>2
<1> QED
  BY <1>3, <1>4, <1>6 DEF n, e

\* A buffer holds what the call has made so far, or nothing.
CompressionInv ==
  LET c == compression
      zipped == C!Encoded("zlib", C!Plain)
      holds(one, two) == c.buf1 = one /\ c.buf2 = two
  IN  /\ c \in [pc : {"idle", "encode", "decode", "uncompress", "verify", "hexa", "end"},
                buf1 : Seq(Chunk), buf2 : Seq(Chunk), w : {"none", "closed"}, r : {"none", "closed"}]
      /\ c.pc = "idle" => holds(<<>>, <<>>)
      /\ c.pc = "encode" => holds(zipped, <<>>)
      /\ c.pc = "decode" => holds(zipped, C!Encoded("base64", zipped))
      /\ c.pc = "uncompress" => holds(zipped, <<>>)
      /\ c.pc \in {"verify", "hexa"} => holds(<<>>, C!Plain)
      /\ c.pc = "end" => holds(C!Encoded("hexa", C!Plain), <<>>)

LEMMA CompressionBegin ==
  ASSUME C!Init PROVE CompressionInv
BY DEF C!Init, CompressionInv

LEMMA CompressionStep ==
  ASSUME CompressionInv, C!Step
  PROVE  CompressionInv'
<1> DEFINE zipped == C!Encoded("zlib", C!Plain)
           text == C!Encoded("base64", zipped)
           hexa == C!Encoded("hexa", C!Plain)
<1>1. C!Plain \in Seq(Chunk) /\ C!Plain # <<>> /\ Len(C!Plain) \in Nat \ {0}
  BY PlainType, EmptySeq
<1>2. /\ zipped \in Seq(Chunk) /\ Len(zipped) \in Nat \ {0} /\ C!Under("zlib", zipped[1])
      /\ C!Decoded("zlib", zipped) = C!Plain
  <2>1. /\ zipped \in Seq(Chunk) /\ Len(zipped) = Len(C!Plain)
        /\ \A k \in 1..Len(C!Plain) : C!Under("zlib", zipped[k])
        /\ C!Decoded("zlib", zipped) = C!Plain
    BY <1>1, CodecInverse DEF Codec
  <2> HIDE DEF zipped
  <2> QED
    BY <1>1, <2>1
<1>3. text \in Seq(Chunk) /\ C!Decoded("base64", text) = zipped
  BY <1>2, CodecInverse DEF Codec
<1>4. hexa \in Seq(Chunk)
  BY <1>1, CodecInverse DEF Codec
<1>5. \A s \in Seq(Chunk) : <<>> \o s = s
  BY ConcatEmptySeq
<1>6. <<>> \in Seq(Chunk) /\ zipped # <<>>
  BY <1>2, EmptySeq
<1>7. /\ compression \in [pc : {"idle", "encode", "decode", "uncompress", "verify", "hexa", "end"},
                buf1 : Seq(Chunk), buf2 : Seq(Chunk), w : {"none", "closed"}, r : {"none", "closed"}]
      /\ compression.pc = "idle" => compression.buf1 = <<>> /\ compression.buf2 = <<>>
      /\ compression.pc = "encode" => compression.buf1 = zipped /\ compression.buf2 = <<>>
      /\ compression.pc = "decode" => compression.buf1 = zipped /\ compression.buf2 = text
      /\ compression.pc = "uncompress" => compression.buf1 = zipped /\ compression.buf2 = <<>>
      /\ compression.pc \in {"verify", "hexa"} => compression.buf1 = <<>> /\ compression.buf2 = C!Plain
      /\ compression.pc = "end" => compression.buf1 = hexa /\ compression.buf2 = <<>>
  BY DEF CompressionInv
<1>8. SUFFICES
        /\ compression' \in [pc : {"idle", "encode", "decode", "uncompress", "verify", "hexa", "end"},
                buf1 : Seq(Chunk), buf2 : Seq(Chunk), w : {"none", "closed"}, r : {"none", "closed"}]
        /\ compression'.pc = "idle" => compression'.buf1 = <<>> /\ compression'.buf2 = <<>>
        /\ compression'.pc = "encode" => compression'.buf1 = zipped /\ compression'.buf2 = <<>>
        /\ compression'.pc = "decode" => compression'.buf1 = zipped /\ compression'.buf2 = text
        /\ compression'.pc = "uncompress" => compression'.buf1 = zipped /\ compression'.buf2 = <<>>
        /\ compression'.pc \in {"verify", "hexa"} => compression'.buf1 = <<>> /\ compression'.buf2 = C!Plain
        /\ compression'.pc = "end" => compression'.buf1 = hexa /\ compression'.buf2 = <<>>
  BY DEF CompressionInv, C!Plain, C!Encoded
<1> HIDE DEF zipped, text, hexa
<1>9. CASE C!Compress
  <2>1. compression' = [pc |-> "encode", buf1 |-> zipped, buf2 |-> <<>>, w |-> "closed", r |-> compression.r]
    BY <1>2, <1>5, <1>7, <1>9 DEF C!Compress, zipped
  <2> QED
    BY <1>2, <1>6, <1>7, <2>1
<1>10. CASE C!Encode
  <2>1. compression' = [compression EXCEPT !.pc = "decode", !.buf2 = text]
    <3>1. compression.pc = "encode" /\ compression.buf1 = zipped /\ compression.buf2 = <<>>
      BY <1>7, <1>10 DEF C!Encode
    <3> QED
      BY <1>3, <1>5, <1>10, <3>1 DEF C!Encode, text
  <2> QED
    BY <1>3, <1>7, <1>10, <2>1 DEF C!Encode
<1>11. CASE C!Decode
  <2>1. compression' = [compression EXCEPT !.pc = "uncompress", !.buf1 = zipped, !.buf2 = <<>>]
    BY <1>3, <1>7, <1>11 DEF C!Decode
  <2>2. compression' = [pc |-> "uncompress", buf1 |-> zipped, buf2 |-> <<>>, w |-> compression.w, r |-> compression.r]
    BY <1>7, <2>1
  <2> QED
    BY <1>2, <1>6, <1>7, <2>2
<1>12. CASE C!Uncompress
  <2>1. compression' = [compression EXCEPT !.pc = "verify", !.r = "closed", !.buf1 = <<>>, !.buf2 = C!Plain]
    BY <1>2, <1>6, <1>7, <1>12 DEF C!Uncompress
  <2>2. compression' = [pc |-> "verify", buf1 |-> <<>>, buf2 |-> C!Plain, w |-> compression.w, r |-> "closed"]
    BY <1>7, <2>1
  <2> QED
    BY <1>1, <1>6, <1>7, <2>2
<1>13. CASE C!Verify
  <2>1. compression' = [compression EXCEPT !.pc = "hexa"]
    BY <1>7, <1>13 DEF C!Verify
  <2> QED
    BY <1>7, <1>13, <2>1 DEF C!Verify
<1>14. CASE C!Hexa
  <2>1. compression' = [compression EXCEPT !.pc = "end", !.buf1 = hexa, !.buf2 = <<>>]
    BY <1>7, <1>14 DEF C!Hexa, hexa
  <2>2. compression' = [pc |-> "end", buf1 |-> hexa, buf2 |-> <<>>, w |-> compression.w, r |-> compression.r]
    BY <1>7, <2>1
  <2> QED
    BY <1>4, <1>6, <1>7, <2>2
<1>15. CASE C!Reset
  <2>1. compression' = [pc |-> "idle", buf1 |-> <<>>, buf2 |-> <<>>, w |-> compression.w, r |-> compression.r]
    BY <1>7, <1>15 DEF C!Reset
  <2> QED
    BY <1>6, <1>7, <2>1
<1> QED
  BY <1>9, <1>10, <1>11, <1>12, <1>13, <1>14, <1>15 DEF C!Step

LEMMA CompressionProduct ==
  ASSUME CompressionInv PROVE C!Product
BY DEF CompressionInv, C!Product

-----------------------------------------------------------------------------
(* Sorting. *)

\* Induction over the naturals, for sets of naturals.
LEMMA NaturalsBySet ==
  ASSUME NEW A, 0 \in A, \A n \in Nat : n \in A => n + 1 \in A
  PROVE  \A n \in Nat : n \in A
<1> DEFINE T == Nat \ A
<1>1. SUFFICES ASSUME T # {} PROVE FALSE
  OBVIOUS
<1>2. PICK x \in T : \A y \in T : ~ (<<y, x>> \in OpToRel(<, Nat))
  BY <1>1, NatLessThanWellFounded, WFMin
<1>3. x \in Nat /\ x # 0
  OBVIOUS
<1>4. x - 1 \in Nat /\ x - 1 < x
  BY <1>3
<1>5. <<x - 1, x>> \in OpToRel(<, Nat)
  BY <1>3, <1>4 DEF OpToRel
<1>6. x - 1 \notin T
  BY <1>2, <1>5
<1> QED
  BY <1>3, <1>4, <1>6

\* A strictly increasing function from 1..n to 1..n moves nothing.
LEMMA IncreasingIsIdentity ==
  ASSUME NEW n \in Nat, NEW f \in [1..n -> 1..n], \A j, k \in 1..n : j < k => f[j] < f[k]
  PROVE  \A k \in 1..n : f[k] = k
<1> DEFINE Above == {k \in Nat : k + 1 \in 1..n => f[k + 1] >= k + 1}
           Below == {d \in Nat : n - d \in 1..n => f[n - d] <= n - d}
<1>1. \A k \in Nat : k \in Above
  <2>1. 0 \in Above
    OBVIOUS
  <2>2. ASSUME NEW k \in Nat, k \in Above PROVE k + 1 \in Above
    <3> SUFFICES ASSUME k + 1 + 1 \in 1..n PROVE f[k + 1 + 1] >= k + 1 + 1
      OBVIOUS
    <3>1. k + 1 \in 1..n /\ k + 1 < k + 1 + 1 /\ f[k + 1] >= k + 1
      BY <2>2
    <3>2. f[k + 1] < f[k + 1 + 1] /\ f[k + 1] \in Nat /\ f[k + 1 + 1] \in Nat
      BY <3>1
    <3> QED
      BY <3>1, <3>2
  <2> HIDE DEF Above
  <2> QED
    BY <2>1, <2>2, NaturalsBySet
<1>2. \A d \in Nat : d \in Below
  <2>1. 0 \in Below
    OBVIOUS
  <2>2. ASSUME NEW d \in Nat, d \in Below PROVE d + 1 \in Below
    <3> SUFFICES ASSUME n - (d + 1) \in 1..n PROVE f[n - (d + 1)] <= n - (d + 1)
      OBVIOUS
    <3>1. n - d \in 1..n /\ n - (d + 1) < n - d /\ f[n - d] <= n - d
      BY <2>2
    <3>2. f[n - (d + 1)] < f[n - d] /\ f[n - (d + 1)] \in Nat /\ f[n - d] \in Nat
      BY <3>1
    <3> QED
      BY <3>1, <3>2
  <2> HIDE DEF Below
  <2> QED
    BY <2>1, <2>2, NaturalsBySet
<1> SUFFICES ASSUME NEW k \in 1..n PROVE f[k] = k
  OBVIOUS
<1>3. k - 1 \in Nat /\ (k - 1) + 1 = k /\ n - k \in Nat /\ n - (n - k) = k
  OBVIOUS
<1>4. k - 1 \in Above /\ n - k \in Below
  <2> HIDE DEF Above, Below
  <2> QED
    BY <1>1, <1>2, <1>3
<1>5. f[k] >= k /\ f[k] <= k /\ f[k] \in Nat
  BY <1>3, <1>4
<1> QED
  BY <1>5

\* The array is a permutation of the items, in order when it is compared.
SortingInv ==
  /\ sorting \in [pc : {"idle", "first", "last", "id", "hash"}, array : [S!Ids -> S!Ids]]
  /\ S!IsInjective(sorting.array)
  /\ sorting.pc \in {"idle", "hash"} => sorting.array = S!InOrder

LEMMA IdsType == S!Ids = 1..Len(Firstname) /\ Len(Firstname) \in Nat
BY TransactionAssumption, LenProperties DEF S!SortingAssumption, S!Ids

\* A permutation of a permutation is one.
LEMMA PermutedType ==
  ASSUME NEW a \in [S!Ids -> S!Ids], S!IsInjective(a), NEW s \in S!Permuted(a)
  PROVE  s \in [S!Ids -> S!Ids] /\ S!IsInjective(s)
<1>1. PICK p \in [S!Ids -> S!Ids] : S!IsInjective(p) /\ s = [k \in S!Ids |-> a[p[k]]]
  BY DEF S!Permuted
<1> QED
  BY <1>1 DEF S!IsInjective

LEMMA SortingBegin ==
  ASSUME S!Init PROVE SortingInv
BY DEF S!Init, SortingInv, S!InOrder, S!IsInjective

LEMMA SortingStep ==
  ASSUME SortingInv, S!Step
  PROVE  SortingInv'
<1>1. sorting.array \in [S!Ids -> S!Ids] /\ S!IsInjective(sorting.array)
  BY DEF SortingInv
<1>2. CASE S!Shuffle \/ S!ByFirst \/ S!ByLast
  <2>1. PICK s \in S!Permuted(sorting.array), pc \in {"first", "last", "id"} :
          sorting' = [pc |-> pc, array |-> s]
    BY <1>2 DEF S!Shuffle, S!ByFirst, S!ByLast, S!Sorted
  <2>2. s \in [S!Ids -> S!Ids] /\ S!IsInjective(s)
    BY <1>1, PermutedType
  <2> QED
    BY <2>1, <2>2 DEF SortingInv, S!Ids, S!IsInjective
<1>3. CASE S!ById
  <2>1. PICK s \in S!Sorted(sorting.array, S!InOrder) : sorting' = [pc |-> "hash", array |-> s]
    BY <1>3 DEF S!ById
  <2>2. s \in [S!Ids -> S!Ids] /\ S!IsInjective(s)
    BY <1>1, <2>1, PermutedType DEF S!Sorted
  <2>3. \A j, k \in S!Ids : j < k => s[j] < s[k]
    <3> SUFFICES ASSUME NEW j \in S!Ids, NEW k \in S!Ids, j < k PROVE s[j] < s[k]
      OBVIOUS
    <3>1. S!InOrder[s[j]] <= S!InOrder[s[k]]
      BY <2>1 DEF S!Sorted
    <3>2. s[j] <= s[k] /\ s[j] \in Nat /\ s[k] \in Nat
      BY <2>2, <3>1, IdsType DEF S!InOrder
    <3>3. s[j] # s[k]
      BY <2>2, IdsType DEF S!IsInjective
    <3> QED
      BY <3>2, <3>3
  <2>4. \A k \in S!Ids : s[k] = k
    BY <2>2, <2>3, IdsType, IncreasingIsIdentity
  <2>5. s = S!InOrder
    BY <2>2, <2>4 DEF S!InOrder
  <2> QED
    BY <2>1, <2>2, <2>5 DEF SortingInv, S!Ids, S!IsInjective, S!InOrder
<1>4. CASE S!Check
  BY <1>4 DEF S!Check, SortingInv, S!Ids, S!IsInjective, S!InOrder
<1> QED
  BY <1>2, <1>3, <1>4 DEF S!Step

LEMMA SortingProduct ==
  ASSUME SortingInv PROVE S!Product
BY DEF SortingInv, S!Product

-----------------------------------------------------------------------------
(* Memory. *)

NbOffsets == M!Cardinality(M!Offsets)

LEMMA SameCardinality == \A A : M!Cardinality(A) = Cardinality(A)
BY DEF M!Cardinality, Cardinality

LEMMA MemoryConstants ==
  /\ Bytes \in Nat /\ Stride \in Nat \ {0} /\ Block \in Nat /\ Block < Bytes
  /\ \A p \in Shuffles : p \in [1..NbOffsets -> 1..NbOffsets] /\ M!IsInjective(p)
BY TransactionAssumption DEF M!MemoryAssumption, M!Indices, NbOffsets

LEMMA Multiple ==
  ASSUME NEW a \in Nat, NEW d \in Nat \ {0}, a % d = 0
  PROVE  \E q \in Nat : a = q * d
<1>1. a = (a \div d) * d + (a % d) /\ a \div d \in Nat
  OBVIOUS
<1> QED
  BY <1>1

\* The multiples of the stride that leave room for a block, in order.
LEMMA OffsetsListed ==
  /\ NbOffsets \in Nat
  /\ \A j \in 1..NbOffsets : (j - 1) * Stride \in M!Offsets
  /\ \A o \in M!Offsets : \E j \in 1..NbOffsets : (j - 1) * Stride = o
<1> DEFINE last == Bytes - Block - 1
           t == last \div Stride + 1
           g == [j \in 1..t |-> (j - 1) * Stride]
<1>1. last \in Nat /\ t \in Nat \ {0}
  BY MemoryConstants
<1>2. ASSUME NEW j \in Nat \ {0} PROVE (j - 1) * Stride \in Nat /\ ((j - 1) * Stride <= last <=> j <= t)
  <2>1. PICK q \in Nat, r \in Nat : last = q * Stride + r /\ r < Stride /\ q = last \div Stride
    BY <1>1, MemoryConstants
  <2>2. j - 1 \in Nat /\ (j - 1) * Stride \in Nat
    BY MemoryConstants
  <2>3. CASE j <= t
    <3>1. PICK d \in Nat : q = (j - 1) + d
      <4>1. q - (j - 1) \in Nat /\ q = (j - 1) + (q - (j - 1))
        BY <2>1, <2>2, <2>3
      <4> QED
        BY <4>1
    <3>2. q * Stride = (j - 1) * Stride + d * Stride /\ d * Stride \in Nat
      BY <3>1, MemoryConstants
    <3> QED
      BY <2>1, <2>2, <2>3, <3>2
  <2>4. CASE j > t
    <3>1. PICK d \in Nat : j - 1 = q + 1 + d
      <4>1. (j - 1) - (q + 1) \in Nat
        BY <2>1, <2>2, <2>4
      <4> QED
        BY <4>1, <2>1
    <3>2. (j - 1) * Stride = q * Stride + Stride + d * Stride /\ d * Stride \in Nat /\ q * Stride \in Nat
      BY <2>1, <3>1, MemoryConstants
    <3> QED
      BY <2>1, <2>2, <2>4, <3>2, MemoryConstants, <1>1
  <2> QED
    BY <2>2, <2>3, <2>4, <1>1
<1> HIDE DEF t
<1>3. ASSUME NEW j \in 1..t PROVE (j - 1) * Stride \in M!Offsets
  <2>1. (j - 1) * Stride \in Nat /\ (j - 1) * Stride <= last
    BY <1>1, <1>2
  <2>2. ((j - 1) * Stride) % Stride = 0
    BY <1>1, MemoryConstants
  <2> QED
    BY <2>1, <2>2, MemoryConstants DEF M!Offsets
<1>4. ASSUME NEW o \in M!Offsets PROVE \E j \in 1..t : (j - 1) * Stride = o
  <2>1. o \in Nat /\ o % Stride = 0 /\ o <= last
    BY MemoryConstants DEF M!Offsets
  <2>2. PICK q \in Nat : o = q * Stride
    BY <2>1, MemoryConstants, Multiple
  <2>3. q + 1 \in Nat \ {0} /\ (q + 1) - 1 = q
    OBVIOUS
  <2>4. q + 1 <= t
    BY <1>2, <2>1, <2>2, <2>3
  <2>5. q + 1 \in 1..t /\ ((q + 1) - 1) * Stride = o
    BY <1>1, <2>2, <2>3, <2>4
  <2> QED
    BY <2>5
<1>5. \A j, k \in 1..t : (j - 1) * Stride = (k - 1) * Stride => j = k
  BY <1>1, MemoryConstants
<1>6. g \in Bijection(1..t, M!Offsets)
  BY <1>3, <1>4, <1>5 DEF Bijection, Injection, Surjection, IsInjective
<1>7. IsFiniteSet(1..t) /\ Cardinality(1..t) = t
  BY <1>1, FS_Interval
<1>8. ExistsBijection(1..t, M!Offsets)
  BY <1>6 DEF ExistsBijection
<1>9. NbOffsets = t
  BY <1>7, <1>8, FS_Bijection, SameCardinality DEF NbOffsets
<1> QED
  BY <1>1, <1>3, <1>4, <1>9

\* s is made of n blocks of w bytes, the j-th of which begins at g[j].
Gathered(s, n, w, g) ==
  Len(s) = w * n /\ \A j \in 1..n, i \in 1..w : s[(j - 1) * w + i] = g[j] + i

\* The index is a permutation of the offsets; res holds the blocks of the first ones.
MemoryInv ==
  LET m == memory IN
  /\ m \in [pc : {"idle", "copy"}, idx : [1..NbOffsets -> M!Offsets], res : Seq(Nat),
            buf : [1..Block -> Nat], k : Nat]
  /\ \A o \in M!Offsets : \E j \in 1..NbOffsets : m.idx[j] = o
  /\ m.pc = "idle" => m.res = <<>>
  /\ m.pc = "copy" =>
       /\ m.k \in 1..NbOffsets + 1
       /\ Gathered(m.res, m.k - 1, Block, m.idx)

LEMMA MemoryBegin ==
  ASSUME M!Init PROVE MemoryInv
BY OffsetsListed DEF M!Init, MemoryInv, M!Indices, NbOffsets

LEMMA MemoryShuffle ==
  ASSUME MemoryInv, M!Shuffle
  PROVE  MemoryInv'
<1>1. PICK p \in Shuffles :
        memory' = [memory EXCEPT !.pc = "copy", !.k = 1, !.idx = [j \in 1..NbOffsets |-> memory.idx[p[j]]]]
  BY DEF M!Shuffle, M!Indices, NbOffsets
<1>2. p \in [1..NbOffsets -> 1..NbOffsets] /\ NbOffsets \in Nat
  BY MemoryConstants, OffsetsListed
<1>3. \A i \in 1..NbOffsets : \E j \in 1..NbOffsets : p[j] = i
  <2>1. p \in Injection(1..NbOffsets, 1..NbOffsets)
    BY <1>2, MemoryConstants DEF Injection, IsInjective, M!IsInjective
  <2>2. IsFiniteSet(1..NbOffsets)
    BY <1>2, FS_Interval
  <2>3. p \in Surjection(1..NbOffsets, 1..NbOffsets)
    BY <2>1, <2>2, FS_Injection
  <2> QED
    BY <2>3 DEF Surjection
<1> DEFINE order == [j \in 1..NbOffsets |-> memory.idx[p[j]]]
<1>4. order \in [1..NbOffsets -> M!Offsets] /\ \A o \in M!Offsets : \E j \in 1..NbOffsets : order[j] = o
  <2>1. /\ memory.idx \in [1..NbOffsets -> M!Offsets]
        /\ \A o \in M!Offsets : \E i \in 1..NbOffsets : memory.idx[i] = o
    BY DEF MemoryInv
  <2>2. order \in [1..NbOffsets -> M!Offsets]
    BY <1>2, <2>1
  <2>3. ASSUME NEW o \in M!Offsets PROVE \E j \in 1..NbOffsets : order[j] = o
    <3>1. PICK i \in 1..NbOffsets : memory.idx[i] = o
      BY <2>1
    <3>2. PICK j \in 1..NbOffsets : p[j] = i
      BY <1>3
    <3>3. order[j] = o
      BY <3>1, <3>2
    <3> QED
      BY <3>3
  <2> QED
    BY <2>2, <2>3
<1>5. memory.pc = "idle" /\ memory.res = <<>>
  BY DEF M!Shuffle, MemoryInv
<1>6. memory' = [pc |-> "copy", idx |-> order, res |-> <<>>, buf |-> memory.buf, k |-> 1]
  <2> HIDE DEF order
  <2> QED
    BY <1>1, <1>5 DEF MemoryInv, order
<1> HIDE DEF order
<1>7. memory.buf \in [1..Block -> Nat] /\ <<>> \in Seq(Nat) /\ Gathered(<<>>, 1 - 1, Block, order) /\ 1 \in 1..NbOffsets + 1
  BY <1>2, MemoryConstants DEF MemoryInv, Gathered
<1> QED
  BY <1>4, <1>6, <1>7 DEF MemoryInv, M!Offsets, NbOffsets

\* The j-th of n blocks of w bytes is within them.
LEMMA BlockWithin ==
  ASSUME NEW n \in Nat, NEW w \in Nat, NEW j \in 1..n
  PROVE  (j - 1) * w \in Nat /\ w * n \in Nat /\ (j - 1) * w + w <= w * n
<1>1. PICK d \in Nat : n = j + d
  <2>1. n - j \in Nat /\ n = j + (n - j)
    OBVIOUS
  <2> QED
    BY <2>1
<1>2. w * n = (j - 1) * w + w + w * d
  BY <1>1
<1>3. w * d \in Nat /\ (j - 1) * w \in Nat /\ w * n \in Nat
  <2>1. j - 1 \in Nat
    OBVIOUS
  <2> QED
    BY <2>1
<1> QED
  BY <1>2, <1>3

LEMMA ConcatAt ==
  ASSUME NEW s \in Seq(Nat), NEW t \in Seq(Nat)
  PROVE  /\ s \o t \in Seq(Nat) /\ Len(s \o t) = Len(s) + Len(t)
         /\ \A x \in 1..Len(s) : (s \o t)[x] = s[x]
         /\ \A i \in 1..Len(t) : (s \o t)[Len(s) + i] = t[i]
<1> DEFINE m == Len(s)
           w == Len(t)
<1>1. s \o t \in Seq(Nat) /\ Len(s \o t) = m + w /\ m \in Nat /\ w \in Nat
  BY ConcatProperties, LenProperties
<1>2. \A x \in 1..m + w : (s \o t)[x] = IF x <= m THEN s[x] ELSE t[x - m]
  BY ConcatProperties
<1> HIDE DEF m, w
<1>3. ASSUME NEW i \in 1..w PROVE (s \o t)[m + i] = t[i]
  <2>1. m + i \in 1..m + w /\ ~(m + i <= m) /\ (m + i) - m = i
    BY <1>1
  <2> QED
    BY <1>2, <2>1
<1>4. ASSUME NEW x \in 1..m PROVE (s \o t)[x] = s[x]
  <2>1. x \in 1..m + w /\ x <= m
    BY <1>1
  <2> QED
    BY <1>2, <2>1
<1> QED
  BY <1>1, <1>3, <1>4 DEF m, w

LEMMA OffsetRoom ==
  ASSUME NEW o \in M!Offsets
  PROVE  o \in Nat /\ o + Block <= Bytes
<1>1. o \in 0..Bytes - 1 /\ o + Block < Bytes
  BY DEF M!Offsets
<1> QED
  BY <1>1, MemoryConstants

\* One more block.
LEMMA BlockAppended ==
  ASSUME NEW s \in Seq(Nat), NEW n \in Nat, NEW w \in Nat, NEW g, Gathered(s, n, w, g),
         NEW block \in Seq(Nat), Len(block) = w, \A i \in 1..w : block[i] = g[n + 1] + i
  PROVE  s \o block \in Seq(Nat) /\ Gathered(s \o block, n + 1, w, g)
<1>1. w * (n + 1) = w * n + w /\ w * n \in Nat
  OBVIOUS
<1> DEFINE m == w * n
<1>2. m \in Nat /\ Len(s) = m /\ \A j \in 1..n, i \in 1..w : s[(j - 1) * w + i] = g[j] + i
  BY <1>1 DEF Gathered
<1> HIDE DEF m
<1>3. /\ s \o block \in Seq(Nat) /\ Len(s \o block) = m + w
      /\ \A x \in 1..m : (s \o block)[x] = s[x]
      /\ \A i \in 1..w : (s \o block)[m + i] = block[i]
  <2>1. Len(s) = m /\ m \in Nat
    BY <1>2
  <2>2. /\ s \o block \in Seq(Nat) /\ Len(s \o block) = Len(s) + Len(block)
        /\ \A x \in 1..Len(s) : (s \o block)[x] = s[x]
        /\ \A i \in 1..Len(block) : (s \o block)[Len(s) + i] = block[i]
    BY ConcatAt
  <2> QED
    BY <2>1, <2>2
<1>4. ASSUME NEW j \in 1..n + 1, NEW i \in 1..w
      PROVE  (s \o block)[(j - 1) * w + i] = g[j] + i
  <2>1. CASE j \in 1..n
    <3> DEFINE a == (j - 1) * w
    <3>1. a \in Nat /\ a + w <= m
      BY <2>1, BlockWithin DEF m
    <3> HIDE DEF a
    <3>2. a + i \in 1..m
      BY <1>2, <3>1
    <3>3. (s \o block)[a + i] = s[a + i]
      BY <1>3, <3>2
    <3> QED
      BY <1>2, <2>1, <3>3 DEF a
  <2>2. CASE j = n + 1
    <3>1. (j - 1) * w = m
      BY <2>2 DEF m
    <3> QED
      BY <1>3, <2>2, <3>1
  <2>3. j \in 1..n \/ j = n + 1
    OBVIOUS
  <2> QED
    BY <2>1, <2>2, <2>3
<1> QED
  BY <1>1, <1>3, <1>4 DEF m, Gathered

LEMMA MemoryReadBlock ==
  ASSUME MemoryInv, M!ReadBlock
  PROVE  MemoryInv'
<1> DEFINE n == memory.k - 1
           offset == memory.idx[n + 1]
           buffer == [i \in 1..Block |-> offset + i]
           after == memory.res \o buffer
<1>1. /\ NbOffsets \in Nat /\ Block \in Nat /\ Bytes \in Nat
      /\ memory.idx \in [1..NbOffsets -> M!Offsets]
      /\ memory.pc = "copy" /\ memory.k \in 1..NbOffsets + 1 /\ memory.k <= Len(memory.idx)
      /\ memory.res \in Seq(Nat) /\ Gathered(memory.res, n, Block, memory.idx)
  BY MemoryConstants, OffsetsListed DEF MemoryInv, M!ReadBlock
<1>2. n \in Nat /\ memory.k = n + 1 /\ n + 1 \in 1..NbOffsets
  BY <1>1
<1> HIDE DEF n
<1>3. offset \in Nat /\ offset + Block <= Bytes
  <2>1. offset \in M!Offsets
    BY <1>1, <1>2
  <2> QED
    BY <2>1, OffsetRoom
<1>4. memory' = [memory EXCEPT !.k = memory.k + 1, !.buf = buffer, !.res = after]
  BY <1>2, <1>3 DEF M!ReadBlock
<1> HIDE DEF offset
<1>5. buffer \in Seq(Nat) /\ Len(buffer) = Block /\ buffer \in [1..Block -> Nat]
  BY <1>1, <1>3
<1>6. \A i \in 1..Block : buffer[i] = memory.idx[n + 1] + i
  BY DEF offset
<1> HIDE DEF buffer
<1>7. after \in Seq(Nat) /\ Gathered(after, n + 1, Block, memory.idx)
  BY <1>1, <1>2, <1>5, <1>6, BlockAppended DEF after
<1> HIDE DEF after
<1>8. memory' = [pc |-> "copy", idx |-> memory.idx, res |-> after, buf |-> buffer, k |-> n + 2]
  <2>1. memory.k + 1 = n + 2
    BY <1>2
  <2> QED
    BY <1>1, <1>4, <2>1 DEF MemoryInv
<1>9. n + 2 \in Nat /\ n + 2 \in 1..NbOffsets + 1 /\ (n + 2) - 1 = n + 1
  BY <1>1, <1>2
<1>10. \A o \in M!Offsets : \E j \in 1..NbOffsets : memory.idx[j] = o
  BY DEF MemoryInv
<1> QED
  BY <1>1, <1>5, <1>7, <1>8, <1>9, <1>10 DEF MemoryInv, M!Offsets, NbOffsets

LEMMA MemoryStep ==
  ASSUME MemoryInv, M!Step
  PROVE  MemoryInv'
<1>1. CASE M!Reset
  <2>1. memory' = [pc |-> "idle", idx |-> memory.idx, res |-> <<>>, buf |-> memory.buf, k |-> memory.k]
    BY <1>1 DEF M!Reset, MemoryInv
  <2>2. <<>> \in Seq(Nat)
    OBVIOUS
  <2> QED
    BY <2>1, <2>2 DEF MemoryInv, M!Offsets, NbOffsets
<1> QED
  BY <1>1, MemoryShuffle, MemoryReadBlock DEF M!Step

LEMMA MemoryProduct ==
  ASSUME MemoryInv PROVE M!Product
<1> DEFINE n == NbOffsets
<1> SUFFICES ASSUME memory.pc = "copy", memory.k > Len(memory.idx)
             PROVE  /\ Len(memory.res) = Block * n
                    /\ \A o \in M!Offsets : \E j \in 0..n - 1 :
                         SubSeq(memory.res, j * Block + 1, j * Block + Block) = [i \in 1..Block |-> o + i]
  BY DEF M!Product, NbOffsets
<1>1. n \in Nat /\ Block \in Nat
  BY MemoryConstants, OffsetsListed
<1>2. memory.k = n + 1 /\ memory.res \in Seq(Nat)
  BY <1>1 DEF MemoryInv
<1>4. Gathered(memory.res, n, Block, memory.idx)
  <2>1. memory.k - 1 = n
    BY <1>1, <1>2
  <2> QED
    BY <2>1 DEF MemoryInv
<1>3. ASSUME NEW o \in M!Offsets
      PROVE  \E j \in 0..n - 1 : SubSeq(memory.res, j * Block + 1, j * Block + Block) = [i \in 1..Block |-> o + i]
  <2>1. PICK j \in 1..n : memory.idx[j] = o
    BY DEF MemoryInv
  <2>2. ASSUME NEW i \in 1..Block PROVE memory.res[(j - 1) * Block + i] = o + i
    <3>1. memory.res[(j - 1) * Block + i] = memory.idx[j] + i
      BY <1>4 DEF Gathered
    <3> QED
      BY <2>1, <3>1
  <2>3. (j - 1) * Block \in Nat /\ Block * n \in Nat /\ (j - 1) * Block + Block <= Block * n
    BY <1>1, BlockWithin
  <2> DEFINE a == (j - 1) * Block
             m == Block * n
             block == SubSeq(memory.res, a + 1, a + Block)
  <2> HIDE DEF a, n, m
  <2>4. a \in Nat /\ m \in Nat /\ a + Block <= m /\ Len(memory.res) = m
    BY <1>4, <2>3 DEF a, m, Gathered
  <2>5. block = [i \in 1..Block |-> memory.res[a + i]]
    <3>1. /\ memory.res \in Seq(Nat) /\ Block \in Nat
          /\ \A x \in a + 1..a + Block : memory.res[x] \in Nat
      BY <1>1, <1>2, <2>4
    <3>2. /\ block \in Seq(Nat) /\ Len(block) = IF a + 1 <= a + Block THEN a + Block - (a + 1) + 1 ELSE 0
          /\ \A i \in 1..a + Block - (a + 1) + 1 : block[i] = memory.res[a + 1 + i - 1]
      BY <2>4, <3>1, SubSeqProperties
    <3> HIDE DEF block
    <3>4. DOMAIN block = 1..Block /\ \A i \in 1..Block : block[i] = memory.res[a + i]
      <4>1. Len(block) = Block /\ a + Block - (a + 1) + 1 = Block
        BY <2>4, <3>1, <3>2
      <4>2. \A i \in 1..Block : a + 1 + i - 1 = a + i
        BY <2>4
      <4> QED
        BY <3>2, <4>1, <4>2
    <3>3. block = [i \in 1..Block |-> block[i]]
      BY <3>2, <3>4
    <3> QED
      BY <3>3, <3>4
  <2>6. block = [i \in 1..Block |-> o + i]
    <3> HIDE DEF block
    <3> QED
      BY <2>2, <2>5 DEF a
  <2>7. j - 1 \in 0..n - 1
    BY <1>1
  <2> QED
    BY <2>6, <2>7 DEF a, n
<1> QED
  BY <1>3, <1>4 DEF Gathered

-----------------------------------------------------------------------------
(* The image: once the columns are drawn, nothing is left of the last call.  *)

BoardColour(p) == (p[1] \div SquareSide + p[2] \div SquareSide) % 2
Corner == (I!Side - Wilson) \div 2
Near(c, from, to) == c >= from /\ c < to
Base(p) == IF \A i \in {1, 2} : Near(p[i], Corner, Corner + Wilson) THEN "wilson" ELSE BoardColour(p)
Window(p) == IF \A i \in {1, 2} : Near(p[i], Corner - BeforeCorner, Corner + AfterCorner) THEN <<"black">>
             ELSE <<>>
Picture == [p \in I!Pixels |-> <<Base(p)>> \o Window(p)]

\* The columns before x have their colours; ic is that of the first square of the next.
Drawn(img, x) == \A p \in I!Pixels : p[1] < x * SquareSide => img[p] = <<BoardColour(p)>>

ImageInv ==
  LET m == image IN
  /\ m = [pc |-> m.pc, img |-> m.img, buf |-> m.buf, x |-> m.x, ic |-> m.ic]
  /\ m.pc \in {"idle", "board", "encode", "end"}
  /\ m.pc # "end" => m.buf = <<>>
  /\ m.pc = "board" => m.x \in 0..Squares /\ m.ic = m.x % 2 /\ Drawn(m.img, m.x)
  /\ m.pc = "encode" => m.img = Picture
  /\ m.pc = "end" => m.buf = <<Picture>>

LEMMA ImageConstants ==
  /\ Squares \in Nat \ {0} /\ Squares % 2 = 0 /\ SquareSide \in Nat \ {0}
  /\ Wilson \in Nat /\ BeforeCorner \in Nat /\ AfterCorner \in Nat
  /\ I!Side \in Nat /\ Corner \in Int
<1>1. /\ Squares \in Nat \ {0} /\ Squares % 2 = 0 /\ SquareSide \in Nat \ {0}
      /\ Wilson \in 1..I!Side /\ BeforeCorner \in Nat /\ AfterCorner \in Nat
  BY TransactionAssumption DEF I!ImageAssumption
<1>2. I!Side \in Nat
  BY <1>1 DEF I!Side
<1> QED
  BY <1>1, <1>2 DEF Corner

LEMMA ImageBegin ==
  ASSUME I!Init PROVE ImageInv
BY DEF I!Init, ImageInv

\* The square of a pixel that is between two multiples of the side.
LEMMA SquareOf ==
  ASSUME NEW n \in Nat, NEW d \in Nat \ {0}, NEW k \in Nat, k * d <= n, n < k * d + d
  PROVE  n \div d = k
<1>1. PICK q \in Nat, r \in Nat : n = q * d + r /\ r < d /\ q = n \div d
  OBVIOUS
<1>2. CASE q > k
  <2>1. PICK e \in Nat : q = k + 1 + e
    <3>1. q - (k + 1) \in Nat /\ q = k + 1 + (q - (k + 1))
      BY <1>2
    <3> QED
      BY <3>1
  <2>2. q * d = k * d + d + e * d /\ e * d \in Nat /\ k * d \in Nat
    BY <2>1
  <2> QED
    BY <1>1, <2>2
<1>3. CASE q < k
  <2>1. PICK e \in Nat : k = q + 1 + e
    <3>1. k - (q + 1) \in Nat /\ k = q + 1 + (k - (q + 1))
      BY <1>3
    <3> QED
      BY <3>1
  <2>2. k * d = q * d + d + e * d /\ e * d \in Nat /\ q * d \in Nat
    BY <2>1
  <2> QED
    BY <1>1, <2>2
<1> QED
  BY <1>1, <1>2, <1>3

LEMMA ImageColumn ==
  ASSUME ImageInv, I!Column
  PROVE  ImageInv'
<1> DEFINE k == image.x
           rect == I!Rect(k * SquareSide, 0, k * SquareSide + SquareSide, I!Side)
           colors == [p \in I!Pixels |-> (image.ic + p[2] \div SquareSide) % 2]
           img == I!Src(image.img, rect, colors)
<1>1. /\ k \in Nat /\ k < Squares /\ image.ic = k % 2 /\ Drawn(image.img, k) /\ image.pc = "board"
      /\ image.buf = <<>> /\ Squares \in Nat
  BY ImageConstants DEF I!Column, ImageInv
<1>2. image' = [image EXCEPT !.x = k + 1, !.ic = (image.ic + Squares + 1) % 2, !.img = img]
  BY DEF I!Column
<1>3. (image.ic + Squares + 1) % 2 = (k + 1) % 2
  <2>1. ((k % 2) + Squares + 1) % 2 = (k + 1) % 2
    <3> HIDE DEF k
    <3>1. PICK h \in Nat : Squares = h + h
      <4>1. Squares \in Nat /\ Squares % 2 = 0
        BY ImageConstants
      <4>2. Squares \div 2 \in Nat /\ Squares = (Squares \div 2) + (Squares \div 2)
        BY <4>1
      <4> QED
        BY <4>2
    <3>2. PICK i \in Nat, r \in {0, 1} : k = i + i + r /\ k % 2 = r
      <4>1. k \div 2 \in Nat /\ k = (k \div 2) + (k \div 2) + (k % 2) /\ k % 2 \in {0, 1}
        BY <1>1
      <4> QED
        BY <4>1
    <3> QED
      BY <3>1, <3>2
  <2> QED
    BY <1>1, <2>1
<1>4. Drawn(img, k + 1)
  <2> SUFFICES ASSUME NEW p \in I!Pixels, p[1] < (k + 1) * SquareSide
               PROVE  img[p] = <<BoardColour(p)>>
    BY DEF Drawn
  <2>1. img[p] = IF p \in rect THEN <<(image.ic + p[2] \div SquareSide) % 2>> ELSE image.img[p]
    BY DEF I!Src
  <2>2. p[1] \in Nat /\ p[2] \in Nat /\ p[2] < I!Side
    BY ImageConstants DEF I!Pixels
  <2> DEFINE start == k * SquareSide
  <2>3. start \in Nat /\ (k + 1) * SquareSide = start + SquareSide
    BY <1>1, ImageConstants
  <2> HIDE DEF start, colors, img
  <2>4. p \in rect <=> p[1] >= start
    BY <2>2, <2>3 DEF I!Rect, start
  <2> HIDE DEF rect
  <2>5. CASE p[1] >= start
    <3>1. p[1] \div SquareSide = k
      <4>1. k * SquareSide <= p[1] /\ p[1] < k * SquareSide + SquareSide
        BY <2>2, <2>3, <2>5 DEF start
      <4> QED
        BY <1>1, <2>2, <4>1, SquareOf, ImageConstants
    <3>2. p[2] \div SquareSide \in Nat
      BY <2>2, ImageConstants
    <3>3. ((k % 2) + p[2] \div SquareSide) % 2 = (k + p[2] \div SquareSide) % 2
      <4> DEFINE e == p[2] \div SquareSide
      <4>1. e \in Nat
        BY <3>2
      <4> HIDE DEF e
      <4>2. ((k % 2) + e) % 2 = (k + e) % 2
        BY <1>1, <4>1
      <4> QED
        BY <4>2 DEF e
    <3> QED
      BY <1>1, <2>1, <2>4, <2>5, <3>1, <3>3 DEF BoardColour
  <2>6. CASE ~(p[1] >= start)
    <3>1. p[1] < k * SquareSide
      BY <2>2, <2>3, <2>6 DEF start
    <3> QED
      BY <1>1, <2>1, <2>4, <2>6, <3>1 DEF Drawn
  <2> QED
    BY <2>5, <2>6
<1> HIDE DEF img
<1>5. image' = [pc |-> "board", img |-> img, buf |-> <<>>, x |-> k + 1, ic |-> (k + 1) % 2]
  BY <1>1, <1>2, <1>3 DEF ImageInv
<1>6. k + 1 \in 0..Squares
  BY <1>1
<1> HIDE DEF k
<1> QED
  BY <1>4, <1>5, <1>6 DEF ImageInv

LEMMA ImageCompose ==
  ASSUME ImageInv, I!Compose
  PROVE  ImageInv'
<1> DEFINE x == Corner
           inner == I!Rect(x, x, x + Wilson, x + Wilson)
           outer == I!Rect(x - BeforeCorner, x - BeforeCorner, x + AfterCorner, x + AfterCorner)
           placed == I!Src(image.img, inner, [p \in I!Pixels |-> "wilson"])
           img == I!Over(placed, outer, "black")
<1>1. image.pc = "board" /\ image.x = Squares /\ image.buf = <<>> /\ Drawn(image.img, Squares)
  BY DEF I!Compose, ImageInv
<1>2. image' = [image EXCEPT !.pc = "encode", !.img = img]
  BY DEF I!Compose, Corner
<1>3. ASSUME NEW p \in I!Pixels PROVE img[p] = <<Base(p)>> \o Window(p)
  <2>1. p[1] \in Nat /\ p[2] \in Nat /\ p[1] < Squares * SquareSide
    BY ImageConstants DEF I!Pixels, I!Side
  <2>2. image.img[p] = <<BoardColour(p)>>
    BY <1>1, <2>1 DEF Drawn
  <2>3. p \in inner <=> \A i \in {1, 2} : Near(p[i], Corner, Corner + Wilson)
    BY <2>1, ImageConstants DEF I!Rect, Near
  <2>4. p \in outer <=> \A i \in {1, 2} : Near(p[i], Corner - BeforeCorner, Corner + AfterCorner)
    BY <2>1, ImageConstants DEF I!Rect, Near
  <2> HIDE DEF x, inner, outer
  <2>5. placed[p] = <<Base(p)>>
    BY <2>2, <2>3 DEF I!Src, Base
  <2> HIDE DEF placed
  <2>6. img[p] = IF p \in outer THEN Append(<<Base(p)>>, "black") ELSE <<Base(p)>>
    BY <2>5 DEF I!Over
  <2> HIDE DEF img
  <2> DEFINE c == Base(p)
  <2> HIDE DEF c
  <2>7. Append(<<c>>, "black") = <<c>> \o <<"black">> /\ <<c>> = <<c>> \o <<>>
    OBVIOUS
  <2> QED
    BY <2>4, <2>6, <2>7 DEF Window, c
<1>4. img = Picture
  <2>1. img = [p \in I!Pixels |-> img[p]]
    BY DEF I!Over
  <2> HIDE DEF img
  <2> QED
    BY <1>3, <2>1 DEF Picture
<1> HIDE DEF img
<1>5. image' = [pc |-> "encode", img |-> Picture, buf |-> <<>>, x |-> image.x, ic |-> image.ic]
  BY <1>1, <1>2, <1>4 DEF ImageInv
<1> QED
  BY <1>5 DEF ImageInv

LEMMA ImageStep ==
  ASSUME ImageInv, I!Step
  PROVE  ImageInv'
<1>1. CASE I!Chessboard
  <2>1. image' = [pc |-> "board", img |-> image.img, buf |-> <<>>, x |-> 0, ic |-> 0]
    BY <1>1 DEF I!Chessboard, ImageInv
  <2>2. Drawn(image.img, 0)
    <3>1. ASSUME NEW p \in I!Pixels PROVE ~(p[1] < 0 * SquareSide)
      BY ImageConstants DEF I!Pixels
    <3> QED
      BY <3>1 DEF Drawn
  <2>3. 0 \in 0..Squares /\ 0 % 2 = 0
    BY ImageConstants
  <2> QED
    BY <2>1, <2>2, <2>3 DEF ImageInv
<1>2. CASE I!Encode
  <2>1. image' = [pc |-> "end", img |-> image.img, buf |-> <<Picture>>, x |-> image.x, ic |-> image.ic]
    <3>1. Append(<<>>, Picture) = <<Picture>>
      <4> HIDE DEF Picture
      <4> QED
        OBVIOUS
    <3> QED
      BY <1>2, <3>1 DEF I!Encode, ImageInv
  <2> QED
    BY <2>1 DEF ImageInv
<1>3. CASE I!Reset
  <2>1. image' = [pc |-> "idle", img |-> image.img, buf |-> <<>>, x |-> image.x, ic |-> image.ic]
    BY <1>3 DEF I!Reset, ImageInv
  <2> QED
    BY <2>1 DEF ImageInv
<1> QED
  BY <1>1, <1>2, <1>3, ImageColumn, ImageCompose DEF I!Step

LEMMA ImageProduct ==
  ASSUME ImageInv PROVE I!Product
BY DEF ImageInv, I!Product, Picture, Base, Window, Near, Corner, BoardColour

-----------------------------------------------------------------------------
(* The B-tree: a finite set that is totally ordered has one listing in order, *)
(* where the place of an element is the number of those before it.           *)

LEMMA SortedListing ==
  ASSUME NEW T, IsFiniteSet(T), NEW R,
         \A x \in T : <<x, x>> \notin R,
         \A x, y \in T : x # y => <<x, y>> \in R \/ <<y, x>> \in R,
         \A x, y, z \in T : <<x, y>> \in R /\ <<y, z>> \in R => <<x, z>> \in R
  PROVE  \E s \in [1..Cardinality(T) -> T] : \A j, k \in 1..Cardinality(T) : j < k => <<s[j], s[k]>> \in R
<1> DEFINE n == Cardinality(T)
           before(x) == {y \in T : <<y, x>> \in R}
           rank == [x \in T |-> Cardinality(before(x)) + 1]
<1>1. n \in Nat
  BY FS_CardinalityType
<1>2. ASSUME NEW x \in T
      PROVE  IsFiniteSet(before(x)) /\ Cardinality(before(x)) \in Nat /\ Cardinality(before(x)) < n
  <2>1. before(x) \in SUBSET T /\ x \notin before(x)
    OBVIOUS
  <2> HIDE DEF before
  <2>2. /\ IsFiniteSet(before(x)) /\ Cardinality(before(x)) <= n
        /\ n = Cardinality(before(x)) => T = before(x)
    BY <2>1, FS_Subset
  <2>3. Cardinality(before(x)) \in Nat
    BY <2>2, FS_CardinalityType
  <2>4. n # Cardinality(before(x))
    BY <2>1, <2>2
  <2> QED
    BY <1>1, <2>2, <2>3, <2>4
<1>3. ASSUME NEW x \in T, NEW y \in T, <<x, y>> \in R PROVE rank[x] < rank[y]
  <2>1. before(x) \in SUBSET before(y) /\ x \in before(y) /\ x \notin before(x)
    BY <1>3
  <2>2. IsFiniteSet(before(y)) /\ Cardinality(before(x)) \in Nat /\ Cardinality(before(y)) \in Nat
    BY <1>2
  <2>3. Cardinality(before(x)) < Cardinality(before(y))
    <3> HIDE DEF before
    <3>1. /\ Cardinality(before(x)) <= Cardinality(before(y))
          /\ Cardinality(before(y)) = Cardinality(before(x)) => before(y) = before(x)
      BY <2>1, <2>2, FS_Subset
    <3> QED
      BY <2>1, <2>2, <3>1
  <2> HIDE DEF before
  <2> QED
    BY <2>2, <2>3
<1>4. rank \in [T -> 1..n]
  <2> HIDE DEF before, n
  <2> QED
    BY <1>1, <1>2
<1> HIDE DEF rank, before
<1>5. \A k \in 1..n : \E x \in T : rank[x] = k
  <2>1. \A x, y \in T : rank[x] = rank[y] => x = y
    <3> SUFFICES ASSUME NEW x \in T, NEW y \in T, rank[x] = rank[y], x # y PROVE FALSE
      OBVIOUS
    <3>1. rank[x] < rank[y] \/ rank[y] < rank[x]
      BY <1>3
    <3>2. rank[x] \in Int /\ rank[y] \in Int
      BY <1>4
    <3> QED
      BY <3>1, <3>2
  <2>2. rank \in Injection(T, 1..n)
    BY <1>4, <2>1 DEF Injection, IsInjective
  <2>3. IsFiniteSet(1..n) /\ Cardinality(1..n) = n
    BY <1>1, FS_Interval
  <2>4. rank \in Surjection(T, 1..n)
    BY <2>2, <2>3, FS_Injection
  <2> QED
    BY <2>4 DEF Surjection
<1> DEFINE s == [k \in 1..n |-> CHOOSE x \in T : rank[x] = k]
<1>6. ASSUME NEW k \in 1..n PROVE s[k] \in T /\ rank[s[k]] = k
  BY <1>5
<1>7. s \in [1..n -> T]
  BY <1>6
<1> HIDE DEF s, n
<1>8. ASSUME NEW j \in 1..n, NEW k \in 1..n, j < k PROVE <<s[j], s[k]>> \in R
  <2>1. s[j] \in T /\ s[k] \in T /\ rank[s[j]] = j /\ rank[s[k]] = k
    BY <1>6
  <2>2. s[j] # s[k] /\ ~(k < j)
    BY <1>1, <1>8, <2>1
  <2>3. ~(<<s[k], s[j]>> \in R)
    BY <1>3, <2>1, <2>2
  <2> QED
    BY <2>1, <2>2, <2>3
<1> QED
  BY <1>7, <1>8 DEF n

Lower(T, R, x) == {y \in T : <<y, x>> \in R}

Ordered(T, R) ==
  /\ \A x \in T : <<x, x>> \notin R
  /\ \A x, y, z \in T : <<x, y>> \in R /\ <<y, z>> \in R => <<x, z>> \in R

Listing(s, n, T, R) ==
  /\ s \in [1..n -> T] /\ \A x \in T : \E j \in 1..n : s[j] = x
  /\ \A j, k \in 1..n : j < k => <<s[j], s[k]>> \in R

LEMMA PlaceInListing ==
  ASSUME NEW T, NEW R, NEW n \in Nat, NEW s, Ordered(T, R), Listing(s, n, T, R)
  PROVE  \A k \in 1..n : Cardinality(Lower(T, R, s[k])) = k - 1
<1>o. /\ \A x \in T : <<x, x>> \notin R
      /\ \A x, y, z \in T : <<x, y>> \in R /\ <<y, z>> \in R => <<x, z>> \in R
  BY DEF Ordered
<1>s. /\ s \in [1..n -> T] /\ \A x \in T : \E j \in 1..n : s[j] = x
      /\ \A j, k \in 1..n : j < k => <<s[j], s[k]>> \in R
  BY DEF Listing
<1> SUFFICES ASSUME NEW k \in 1..n
             PROVE  Cardinality(Lower(T, R, s[k])) = k - 1
  OBVIOUS
<1> DEFINE before == {y \in T : <<y, s[k]>> \in R}
           g == [j \in 1..k - 1 |-> s[j]]
<1>1. k - 1 \in Nat /\ \A j \in 1..k - 1 : j \in 1..n /\ j < k
  OBVIOUS
<1>2. ASSUME NEW j \in 1..k - 1 PROVE s[j] \in before
  <2>1. j \in 1..n /\ j < k /\ s[j] \in T
    BY <1>1, <1>s
  <2> QED
    BY <2>1, <1>s
<1>3. ASSUME NEW y \in before PROVE \E j \in 1..k - 1 : s[j] = y
  <2>1. PICK j \in 1..n : s[j] = y
    BY <1>s
  <2>2. s[k] \in T /\ s[j] \in T /\ <<s[j], s[k]>> \in R
    BY <2>1, <1>s
  <2>3. j # k
    BY <2>2, <1>o
  <2>4. ~(j > k)
    <3> SUFFICES ASSUME j > k PROVE FALSE
      OBVIOUS
    <3>1. <<s[k], s[j]>> \in R
      BY <1>s
    <3>2. <<s[k], s[k]>> \in R
      BY <2>2, <3>1, <1>o
    <3> QED
      BY <2>2, <3>2, <1>o
  <2>5. j \in 1..k - 1
    BY <2>3, <2>4
  <2> QED
    BY <2>1, <2>5
<1>4. ASSUME NEW i \in 1..k - 1, NEW j \in 1..k - 1, s[i] = s[j] PROVE i = j
  <2>1. i \in 1..n /\ j \in 1..n /\ s[i] \in T
    BY <1>1, <1>s
  <2>2. ~(i < j) /\ ~(j < i)
    BY <1>4, <2>1, <1>o, <1>s
  <2> QED
    BY <2>1, <2>2
<1>5. g \in Bijection(1..k - 1, before)
  <2> HIDE DEF before
  <2> QED
    BY <1>2, <1>3, <1>4 DEF Bijection, Injection, Surjection, IsInjective
<1>6. ExistsBijection(1..k - 1, before)
  BY <1>5 DEF ExistsBijection
<1> HIDE DEF before
<1>7. Cardinality(before) = k - 1
  BY <1>1, <1>6, FS_CountingElements
<1> QED
  BY <1>7 DEF before, Lower

LEMMA TreeCardinality == \A A : B!Cardinality(A) = Cardinality(A)
BY DEF B!Cardinality, Cardinality

Below(T, by, x) == {y \in T : B!Less(by, y, x)}

\* What Scan gives for a tree whose items are not equivalent.
LEMMA ScanListing ==
  ASSUME NEW T \in SUBSET B!Item, IsFiniteSet(T), NEW by \in {"keys", "vals"},
         \A x, y \in T : x # y => ~B!Equivalent(by, x, y)
  PROVE  /\ Cardinality(T) \in Nat
         /\ B!Scan(T, by) \in [1..Cardinality(T) -> T]
         /\ \A x \in T : /\ Cardinality(Below(T, by, x)) + 1 \in 1..Cardinality(T)
                         /\ B!Scan(T, by)[Cardinality(Below(T, by, x)) + 1] = x
<1> DEFINE n == Cardinality(T)
           R == {p \in T \X T : B!Less(by, p[1], p[2])}
           s == B!Scan(T, by)
           sorted(t) == \A j, k \in DOMAIN t : j < k => B!Less(by, t[j], t[k])
<1>1. n \in Nat
  BY FS_CardinalityType
<1>2. /\ \A x, y \in T : <<x, y>> \in R <=> B!Less(by, x, y)
      /\ \A x \in T : ~B!Less(by, x, x)
      /\ \A x, y \in T : x # y => B!Less(by, x, y) \/ B!Less(by, y, x)
      /\ \A x, y, z \in T : B!Less(by, x, y) /\ B!Less(by, y, z) => B!Less(by, x, z)
  <2>1. \A x, y \in T : <<x, y>> \in R <=> B!Less(by, x, y)
    OBVIOUS
  <2>2. \A x \in B!Item : ~B!Less(by, x, x)
    BY DEF B!Item, B!Less, B!ByKeys, B!ByVals
  <2>3. \A x, y \in T : x # y => B!Less(by, x, y) \/ B!Less(by, y, x)
    BY DEF B!Equivalent
  <2>4. \A x, y, z \in B!Item : B!Less(by, x, y) /\ B!Less(by, y, z) => B!Less(by, x, z)
    BY DEF B!Item, B!Less, B!ByKeys, B!ByVals
  <2> HIDE DEF R
  <2> QED
    BY <2>1, <2>2, <2>3, <2>4
<1> HIDE DEF R
<1>3. /\ \A x \in T : <<x, x>> \notin R
      /\ \A x, y \in T : x # y => <<x, y>> \in R \/ <<y, x>> \in R
      /\ \A x, y, z \in T : <<x, y>> \in R /\ <<y, z>> \in R => <<x, z>> \in R
  BY <1>2
<1>4. \E t \in B!SetToSeqs(T) : sorted(t)
  <2>1. PICK t \in [1..n -> T] : \A j, k \in 1..n : j < k => <<t[j], t[k]>> \in R
    BY <1>3, SortedListing
  <2>2. \A j, k \in 1..n : j < k => B!Less(by, t[j], t[k])
    BY <1>2, <2>1
  <2>3. \A j, k \in 1..n : j # k => t[j] # t[k]
    <3> SUFFICES ASSUME NEW j \in 1..n, NEW k \in 1..n, j # k, t[j] = t[k] PROVE FALSE
      OBVIOUS
    <3>1. t[j] \in T /\ t[k] \in T
      OBVIOUS
    <3>2. j < k \/ k < j
      OBVIOUS
    <3> QED
      BY <1>2, <2>2, <3>1, <3>2
  <2>4. t \in B!SetToSeqs(T)
    BY <2>3, TreeCardinality DEF B!SetToSeqs
  <2> QED
    BY <2>2, <2>4
<1>5. s \in B!SetToSeqs(T) /\ sorted(s)
  <2>1. s = CHOOSE t \in B!SetToSeqs(T) : sorted(t)
    BY DEF B!Scan
  <2> HIDE DEF s, sorted
  <2> QED
    BY <1>4, <2>1
<1> HIDE DEF s
<1>6. s \in [1..n -> T] /\ \A j, k \in 1..n : j # k => s[j] # s[k]
  BY <1>5, TreeCardinality DEF B!SetToSeqs
<1>7. \A x \in T : \E j \in 1..n : s[j] = x
  <2>1. s \in Injection(1..n, T)
    BY <1>6 DEF Injection, IsInjective
  <2>2. Cardinality(1..n) = n
    BY <1>1, FS_Interval
  <2>3. s \in Surjection(1..n, T)
    <3> HIDE DEF n
    <3>1. Cardinality(1..n) = Cardinality(T)
      BY <2>2 DEF n
    <3> QED
      BY <2>1, <3>1, FS_Injection
  <2> QED
    BY <2>3 DEF Surjection
<1>8. \A j, k \in 1..n : j < k => <<s[j], s[k]>> \in R
  BY <1>2, <1>5, <1>6
<1> HIDE DEF n
<1>9. ASSUME NEW x \in T
      PROVE  /\ Cardinality(Below(T, by, x)) + 1 \in 1..n
             /\ s[Cardinality(Below(T, by, x)) + 1] = x
  <2>1. PICK k \in 1..n : s[k] = x
    BY <1>7
  <2>2. Cardinality(Lower(T, R, s[k])) = k - 1
    <3>1. Ordered(T, R) /\ Listing(s, n, T, R)
      BY <1>3, <1>6, <1>7, <1>8 DEF Ordered, Listing
    <3>2. \A i \in 1..n : Cardinality(Lower(T, R, s[i])) = i - 1
      BY <1>1, <3>1, PlaceInListing
    <3> QED
      BY <3>2
  <2>3. Lower(T, R, s[k]) = Below(T, by, x)
    BY <1>2, <2>1 DEF Lower, Below
  <2>4. (k - 1) + 1 = k
    BY <1>1
  <2> QED
    BY <2>1, <2>2, <2>3, <2>4
<1> QED
  BY <1>1, <1>6, <1>9 DEF n, s


NbUsers == Len(Users)
AllUsers == B!Range(Users)
ByKey == B!Scan(AllUsers, "keys")
ByVal == B!Scan(AllUsers, "vals")
BothLists == [k \in 1..NbUsers |-> ByKey[k].val] \o [k \in 1..NbUsers |-> ByVal[k].key]

LEMMA UsersType ==
  /\ Users \in Seq(B!Item) /\ Others \in Seq(B!Item) /\ Absent \in B!Item
  /\ \A k \in DOMAIN Users : Users[k].key # Absent.key
  /\ \A j, k \in DOMAIN Users : Users[j].key = Users[k].key => j = k
<1>1. B!IsInjective([k \in DOMAIN Users |-> Users[k].key])
  BY TransactionAssumption DEF B!BtreeAssumption
<1>2. \A j, k \in DOMAIN Users : Users[j].key = Users[k].key => j = k
  BY <1>1 DEF B!IsInjective
<1> QED
  BY <1>2, TransactionAssumption DEF B!BtreeAssumption

\* No two users are equivalent: both trees hold them all, once.
LEMMA UsersApart ==
  /\ NbUsers \in Nat /\ DOMAIN Users = 1..NbUsers
  /\ \A k \in 1..NbUsers : Users[k] \in B!Item /\ Users[k] \in AllUsers
  /\ \A x \in AllUsers : \E k \in 1..NbUsers : x = Users[k]
  /\ AllUsers \in SUBSET B!Item /\ IsFiniteSet(AllUsers) /\ Cardinality(AllUsers) = NbUsers
  /\ \A by \in {"keys", "vals"} :
       /\ \A x, y \in AllUsers : x # y => ~B!Equivalent(by, x, y)
       /\ B!Tree(Users, by) = AllUsers
<1>1. NbUsers \in Nat /\ DOMAIN Users = 1..NbUsers /\ \A k \in 1..NbUsers : Users[k] \in B!Item
  BY UsersType DEF NbUsers
<1>2. AllUsers = {Users[k] : k \in 1..NbUsers}
  BY <1>1 DEF AllUsers, B!Range
<1>3. \A k \in 1..NbUsers : Users[k] \in AllUsers
  BY <1>2
<1>4. \A x \in AllUsers : \E k \in 1..NbUsers : x = Users[k]
  BY <1>2
<1>5. AllUsers \in SUBSET B!Item
  BY <1>1, <1>4
<1>6. IsFiniteSet(AllUsers) /\ Cardinality(AllUsers) = NbUsers
  <2> DEFINE f == [k \in 1..NbUsers |-> Users[k]]
  <2>1. \A j, k \in 1..NbUsers : Users[j] = Users[k] => j = k
    BY <1>1, UsersType
  <2>2. f \in Bijection(1..NbUsers, AllUsers)
    BY <1>3, <1>4, <2>1 DEF Bijection, Injection, Surjection, IsInjective
  <2>3. ExistsBijection(1..NbUsers, AllUsers)
    BY <2>2 DEF ExistsBijection
  <2>4. IsFiniteSet(1..NbUsers)
    BY <1>1, FS_Interval
  <2> QED
    BY <1>1, <2>3, <2>4, FS_Bijection, FS_CountingElements
<1>7. ASSUME NEW by \in {"keys", "vals"}, NEW j \in 1..NbUsers, NEW k \in 1..NbUsers,
             B!Equivalent(by, Users[j], Users[k])
      PROVE  j = k
  <2>1. Users[j] \in B!Item /\ Users[k] \in B!Item
    BY <1>1
  <2>2. Users[j].key = Users[k].key
    BY <1>7, <2>1 DEF B!Equivalent, B!Less, B!ByKeys, B!ByVals, B!Item
  <2> QED
    BY <1>1, <2>2, UsersType
<1>8. ASSUME NEW by \in {"keys", "vals"}
      PROVE  /\ \A x, y \in AllUsers : x # y => ~B!Equivalent(by, x, y)
             /\ B!Tree(Users, by) = AllUsers
  <2>1. \A x, y \in AllUsers : x # y => ~B!Equivalent(by, x, y)
    BY <1>4, <1>7
  <2>2. \A j \in 1..NbUsers, l \in 1..NbUsers : l > j => ~B!Equivalent(by, Users[j], Users[l])
    <3> SUFFICES ASSUME NEW j \in 1..NbUsers, NEW l \in 1..NbUsers, l > j, B!Equivalent(by, Users[j], Users[l])
                 PROVE  FALSE
      OBVIOUS
    <3>1. j = l
      BY <1>7
    <3> QED
      BY <1>1, <3>1
  <2>3. {j \in DOMAIN Users : \A l \in DOMAIN Users : l > j => ~B!Equivalent(by, Users[j], Users[l])} = 1..NbUsers
    BY <1>1, <2>2
  <2>4. B!Tree(Users, by) = {Users[k] : k \in 1..NbUsers}
    BY <2>3 DEF B!Tree
  <2> QED
    BY <1>2, <2>1, <2>4
<1> QED
  BY <1>1, <1>3, <1>4, <1>5, <1>6, <1>8

\* The last of the others that has a key is the one that the tree and the map hold.
LEMMA OthersLatest ==
  ASSUME NEW i \in DOMAIN Others
  PROVE  \E j \in DOMAIN Others :
           /\ Others[j].key = Others[i].key
           /\ j = B!Max({k \in DOMAIN Others : Others[k].key = Others[i].key})
           /\ \A k \in DOMAIN Others : Others[k].key = Others[i].key => j >= k
<1> DEFINE n == Len(Others)
           A == {k \in DOMAIN Others : Others[k].key = Others[i].key}
<1>1. n \in Nat /\ DOMAIN Others = 1..n
  BY UsersType
<1>2. A \in SUBSET (0..n) /\ A # {}
  BY <1>1
<1> HIDE DEF A
<1>3. \E x \in A : \A y \in A : x >= y
  BY <1>1, <1>2, Greatest
<1>4. B!Max(A) \in A /\ \A y \in A : B!Max(A) >= y
  BY <1>3 DEF B!Max
<1> QED
  BY <1>4 DEF A

OthersTree == B!Tree(Others, "keys")

LEMMA SameKey ==
  ASSUME NEW x \in B!Item, NEW y \in B!Item
  PROVE  B!Equivalent("keys", x, y) <=> x.key = y.key
BY DEF B!Equivalent, B!Less, B!ByKeys, B!Item

LEMMA OthersInTree ==
  /\ OthersTree \in SUBSET B!Item /\ IsFiniteSet(OthersTree)
  /\ \A y \in OthersTree : \E i \in DOMAIN Others : y = Others[i]
  /\ \A x, y \in OthersTree : x # y => x.key # y.key
  /\ \A i \in DOMAIN Others : \E y \in OthersTree : y.key = Others[i].key /\ B!Map(Others)[Others[i].key] = y
<1> DEFINE n == Len(Others)
           kept == {j \in DOMAIN Others : \A l \in DOMAIN Others : l > j => ~B!Equivalent("keys", Others[j], Others[l])}
<1>1. n \in Nat /\ DOMAIN Others = 1..n /\ \A k \in 1..n : Others[k] \in B!Item
  BY UsersType
<1>2. OthersTree = {Others[k] : k \in kept}
  BY DEF OthersTree, B!Tree
<1>3. \A j \in DOMAIN Others : j \in kept <=> \A l \in DOMAIN Others : l > j => Others[j].key # Others[l].key
  <2>1. \A j, l \in DOMAIN Others : B!Equivalent("keys", Others[j], Others[l]) <=> Others[j].key = Others[l].key
    BY <1>1, SameKey
  <2> QED
    BY <2>1
<1>4. kept \in SUBSET (1..n)
  BY <1>1
<1> HIDE DEF kept
<1>5. OthersTree \in SUBSET B!Item /\ \A y \in OthersTree : \E i \in kept : y = Others[i]
  BY <1>1, <1>2, <1>4
<1>6. IsFiniteSet(OthersTree)
  <2> DEFINE f == [k \in kept |-> Others[k]]
  <2>1. IsFiniteSet(1..n)
    BY <1>1, FS_Interval
  <2>2. IsFiniteSet(kept)
    BY <1>4, <2>1, FS_Subset
  <2>3. f \in Surjection(kept, OthersTree)
    BY <1>2 DEF Surjection
  <2> QED
    BY <2>2, <2>3, FS_Surjection
<1>7. ASSUME NEW x \in OthersTree, NEW y \in OthersTree, x.key = y.key PROVE x = y
  <2>1. PICK i \in kept, j \in kept : x = Others[i] /\ y = Others[j]
    BY <1>5
  <2>2. i \in 1..n /\ j \in 1..n /\ ~(i > j) /\ ~(j > i)
    BY <1>1, <1>3, <1>4, <1>7, <2>1
  <2>3. i = j
    BY <1>1, <2>2
  <2> QED
    BY <2>1, <2>3
<1>8. ASSUME NEW i \in DOMAIN Others
      PROVE  \E y \in OthersTree : y.key = Others[i].key /\ B!Map(Others)[Others[i].key] = y
  <2>1. PICK j \in DOMAIN Others :
          /\ Others[j].key = Others[i].key
          /\ j = B!Max({k \in DOMAIN Others : Others[k].key = Others[i].key})
          /\ \A k \in DOMAIN Others : Others[k].key = Others[i].key => j >= k
    BY OthersLatest
  <2>2. j \in kept
    <3>1. \A l \in DOMAIN Others : l > j => Others[j].key # Others[l].key
      <4>1. Others[j].key = Others[i].key /\ \A k \in DOMAIN Others : Others[k].key = Others[i].key => j >= k
        BY <2>1
      <4>2. \A l \in 1..n : l > j => ~(j >= l)
        BY <1>1
      <4> QED
        BY <1>1, <4>1, <4>2
    <3> QED
      BY <1>3, <3>1
  <2>3. Others[j] \in OthersTree
    BY <1>2, <2>2
  <2>4. B!Map(Others)[Others[i].key] = Others[j]
    <3>1. Others[i].key \in {Others[k].key : k \in DOMAIN Others}
      OBVIOUS
    <3> QED
      BY <2>1, <3>1 DEF B!Map
  <2> QED
    BY <2>1, <2>3, <2>4
<1>9. \A y \in OthersTree : \E i \in DOMAIN Others : y = Others[i]
  BY <1>1, <1>4, <1>5
<1> QED
  BY <1>5, <1>6, <1>7, <1>8, <1>9

\* The tree gives for each key what the map does, and is as long.
LEMMA TreeAsMap ==
  /\ \A i \in DOMAIN Others :
       {y.val : y \in B!Get(OthersTree, "keys", Others[i])} = {B!Map(Others)[Others[i].key].val}
  /\ Len(B!Scan(OthersTree, "keys")) = B!Cardinality(DOMAIN B!Map(Others))
<1>1. ASSUME NEW i \in DOMAIN Others
      PROVE  {y.val : y \in B!Get(OthersTree, "keys", Others[i])} = {B!Map(Others)[Others[i].key].val}
  <2>1. PICK y \in OthersTree : y.key = Others[i].key /\ B!Map(Others)[Others[i].key] = y
    BY OthersInTree
  <2>2. Others[i] \in B!Item /\ OthersTree \in SUBSET B!Item
    BY UsersType, OthersInTree
  <2>3. \A z \in OthersTree : B!Equivalent("keys", Others[i], z) <=> z = y
    BY <2>1, <2>2, SameKey, OthersInTree
  <2>4. B!Get(OthersTree, "keys", Others[i]) = {y}
    BY <2>3 DEF B!Get
  <2> QED
    BY <2>1, <2>4
<1>2. Len(B!Scan(OthersTree, "keys")) = Cardinality(OthersTree) /\ Cardinality(OthersTree) \in Nat
  <2>1. \A x, y \in OthersTree : x # y => ~B!Equivalent("keys", x, y)
    BY OthersInTree, SameKey
  <2>2. /\ Cardinality(OthersTree) \in Nat
        /\ B!Scan(OthersTree, "keys") \in [1..Cardinality(OthersTree) -> OthersTree]
    BY <2>1, OthersInTree, ScanListing
  <2> QED
    BY <2>2
<1>3. Cardinality(DOMAIN B!Map(Others)) = Cardinality(OthersTree)
  <2> DEFINE K == {Others[k].key : k \in DOMAIN Others}
             f == [y \in OthersTree |-> y.key]
  <2>1. DOMAIN B!Map(Others) = K
    BY DEF B!Map
  <2>2. \A y \in OthersTree : y.key \in K
    BY OthersInTree
  <2>3. \A key \in K : \E y \in OthersTree : y.key = key
    BY OthersInTree
  <2> HIDE DEF K
  <2>4. f \in Bijection(OthersTree, K)
    BY <2>2, <2>3, OthersInTree DEF Bijection, Injection, Surjection, IsInjective
  <2>5. ExistsBijection(OthersTree, K)
    BY <2>4 DEF ExistsBijection
  <2> QED
    BY <2>1, <2>5, OthersInTree, FS_Bijection
<1> QED
  BY <1>1, <1>2, <1>3, TreeCardinality

BtreeInv ==
  LET m == btree IN
  /\ m = [pc |-> m.pc, keys |-> m.keys, vals |-> m.vals, sout |-> m.sout, m |-> m.m]
  /\ m.pc \in {"idle", "get", "list", "listed", "fill", "compare"}
  /\ m.pc \in {"get", "list"} => m.keys = AllUsers /\ m.vals = AllUsers
  /\ m.sout = IF m.pc = "listed" THEN BothLists ELSE <<>>
  /\ m.pc = "compare" => m.keys = OthersTree /\ m.m = B!Map(Others)

LEMMA BtreeBegin ==
  ASSUME B!Init PROVE BtreeInv
BY DEF B!Init, BtreeInv

LEMMA BtreeRetrieve ==
  ASSUME BtreeInv, B!Retrieve
  PROVE  BtreeInv'
<1>1. \A by \in {"keys", "vals"} :
        /\ \A k \in DOMAIN Users : B!Get(AllUsers, by, Users[k]) # {}
        /\ B!Get(AllUsers, by, Absent) = {}
  <2> SUFFICES ASSUME NEW by \in {"keys", "vals"}
               PROVE  /\ \A k \in DOMAIN Users : B!Get(AllUsers, by, Users[k]) # {}
                      /\ B!Get(AllUsers, by, Absent) = {}
    OBVIOUS
  <2>1. ASSUME NEW k \in DOMAIN Users PROVE B!Get(AllUsers, by, Users[k]) # {}
    <3>1. Users[k] \in AllUsers /\ Users[k] \in B!Item
      BY UsersApart
    <3>2. B!Equivalent(by, Users[k], Users[k])
      BY <3>1 DEF B!Equivalent, B!Less, B!ByKeys, B!ByVals, B!Item
    <3> QED
      BY <3>1, <3>2 DEF B!Get
  <2>2. ASSUME NEW y \in AllUsers PROVE ~B!Equivalent(by, Absent, y)
    <3>1. Absent \in B!Item /\ y \in B!Item /\ y.key # Absent.key
      BY UsersType, UsersApart
    <3> QED
      BY <3>1 DEF B!Equivalent, B!Less, B!ByKeys, B!ByVals, B!Item
  <2> QED
    BY <2>1, <2>2 DEF B!Get
<1>2. btree' = [btree EXCEPT !.pc = "list"]
  BY <1>1 DEF B!Retrieve, BtreeInv
<1>3. btree' = [pc |-> "list", keys |-> AllUsers, vals |-> AllUsers, sout |-> <<>>, m |-> btree.m]
  BY <1>2 DEF BtreeInv, B!Retrieve
<1> QED
  BY <1>3 DEF BtreeInv

LEMMA ListsType ==
  /\ ByKey \in [1..NbUsers -> AllUsers] /\ ByVal \in [1..NbUsers -> AllUsers]
  /\ \A by \in {"keys", "vals"} : \A x \in AllUsers :
       LET k == Cardinality(Below(AllUsers, by, x)) + 1
       IN  k \in 1..NbUsers /\ B!Scan(AllUsers, by)[k] = x
  /\ BothLists \in Seq(Nat) /\ Len(BothLists) = 2 * NbUsers
  /\ \A k \in 1..NbUsers : BothLists[k] = ByKey[k].val /\ BothLists[NbUsers + k] = ByVal[k].key
<1>1. ASSUME NEW by \in {"keys", "vals"}
      PROVE  /\ B!Scan(AllUsers, by) \in [1..NbUsers -> AllUsers]
             /\ \A x \in AllUsers : /\ Cardinality(Below(AllUsers, by, x)) + 1 \in 1..NbUsers
                                    /\ B!Scan(AllUsers, by)[Cardinality(Below(AllUsers, by, x)) + 1] = x
  <2>1. /\ AllUsers \in SUBSET B!Item /\ IsFiniteSet(AllUsers)
        /\ \A x, y \in AllUsers : x # y => ~B!Equivalent(by, x, y)
    BY UsersApart
  <2>2. /\ Cardinality(AllUsers) \in Nat
        /\ B!Scan(AllUsers, by) \in [1..Cardinality(AllUsers) -> AllUsers]
        /\ \A x \in AllUsers : /\ Cardinality(Below(AllUsers, by, x)) + 1 \in 1..Cardinality(AllUsers)
                               /\ B!Scan(AllUsers, by)[Cardinality(Below(AllUsers, by, x)) + 1] = x
    BY <2>1, ScanListing
  <2>3. Cardinality(AllUsers) = NbUsers
    BY UsersApart
  <2> QED
    BY <2>2, <2>3
<1>2. ByKey \in [1..NbUsers -> AllUsers] /\ ByVal \in [1..NbUsers -> AllUsers]
  BY <1>1 DEF ByKey, ByVal
<1> DEFINE s == [k \in 1..NbUsers |-> ByKey[k].val]
           t == [k \in 1..NbUsers |-> ByVal[k].key]
<1>3. NbUsers \in Nat /\ s \in Seq(Nat) /\ t \in Seq(Nat) /\ Len(s) = NbUsers /\ Len(t) = NbUsers
  <2>1. NbUsers \in Nat /\ \A x \in AllUsers : x.key \in Nat /\ x.val \in Nat
    BY UsersApart DEF B!Item
  <2>2. \A k \in 1..NbUsers : ByKey[k].val \in Nat /\ ByVal[k].key \in Nat
    BY <1>2, <2>1
  <2>3. s \in [1..NbUsers -> Nat] /\ t \in [1..NbUsers -> Nat]
    BY <2>2
  <2> HIDE DEF s, t
  <2> QED
    BY <2>1, <2>3
<1>4. \A k \in 1..NbUsers : s[k] = ByKey[k].val /\ t[k] = ByVal[k].key
  OBVIOUS
<1>5. BothLists = s \o t
  BY DEF BothLists
<1> HIDE DEF s, t
<1>6. /\ s \o t \in Seq(Nat) /\ Len(s \o t) = Len(s) + Len(t)
      /\ \A x \in 1..Len(s) : (s \o t)[x] = s[x]
      /\ \A i \in 1..Len(t) : (s \o t)[Len(s) + i] = t[i]
  BY <1>3, ConcatAt
<1>7. Len(BothLists) = 2 * NbUsers
  BY <1>3, <1>5, <1>6
<1>8. \A k \in 1..NbUsers : BothLists[k] = ByKey[k].val /\ BothLists[NbUsers + k] = ByVal[k].key
  BY <1>3, <1>4, <1>5, <1>6
<1> QED
  BY <1>1, <1>2, <1>5, <1>6, <1>7, <1>8

LEMMA BtreeStep ==
  ASSUME BtreeInv, B!Step
  PROVE  BtreeInv'
<1>1. CASE B!Build
  <2>1. btree' = [pc |-> "get", keys |-> AllUsers, vals |-> AllUsers, sout |-> <<>>, m |-> btree.m]
    BY <1>1, UsersApart DEF B!Build, BtreeInv
  <2> QED
    BY <2>1 DEF BtreeInv
<1>2. CASE B!List
  <2>1. btree.keys = AllUsers /\ btree.vals = AllUsers /\ btree.sout = <<>> /\ btree.pc = "list"
    BY <1>2 DEF B!List, BtreeInv
  <2> DEFINE s == [k \in DOMAIN ByKey |-> ByKey[k].val]
             t == [k \in DOMAIN ByVal |-> ByVal[k].key]
  <2>2. btree' = [btree EXCEPT !.pc = "listed", !.sout = <<>> \o s \o t]
    BY <1>2, <2>1 DEF B!List, ByKey, ByVal
  <2>3. <<>> \o s \o t = BothLists
    <3>1. DOMAIN ByKey = 1..NbUsers /\ DOMAIN ByVal = 1..NbUsers
      BY ListsType
    <3>2. s \in Seq(Nat)
      <4>1. NbUsers \in Nat /\ \A x \in AllUsers : x.val \in Nat
        BY UsersApart DEF B!Item
      <4>2. \A k \in 1..NbUsers : ByKey[k].val \in Nat
        BY <4>1, ListsType
      <4>3. s \in [1..NbUsers -> Nat]
        BY <3>1, <4>2
      <4> HIDE DEF s
      <4> QED
        BY <4>1, <4>3
    <3>3. s \o t = BothLists
      BY <3>1 DEF BothLists
    <3> HIDE DEF s, t
    <3>4. <<>> \o s = s
      BY <3>2
    <3> QED
      BY <3>3, <3>4
  <2> HIDE DEF s, t
  <2>4. btree' = [pc |-> "listed", keys |-> btree.keys, vals |-> btree.vals, sout |-> BothLists, m |-> btree.m]
    BY <2>1, <2>2, <2>3 DEF BtreeInv
  <2> QED
    BY <2>4 DEF BtreeInv
<1>3. CASE B!Listed
  <2>1. btree.pc = "listed" /\ btree.sout = BothLists /\ Len(btree.sout) = 2 * Len(Users)
    BY <1>3, ListsType DEF B!Listed, BtreeInv, NbUsers
  <2>2. btree' = [pc |-> "fill", keys |-> {}, vals |-> {}, sout |-> <<>>, m |-> btree.m]
    BY <1>3, <2>1 DEF B!Listed, BtreeInv
  <2> QED
    BY <2>2 DEF BtreeInv
<1>4. CASE B!Fill
  <2>1. btree' = [pc |-> "compare", keys |-> OthersTree, vals |-> btree.vals, sout |-> <<>>, m |-> B!Map(Others)]
    BY <1>4 DEF B!Fill, BtreeInv, OthersTree
  <2> QED
    BY <2>1 DEF BtreeInv
<1>5. CASE B!Compare
  <2>1. btree.pc = "compare" /\ btree.keys = OthersTree /\ btree.m = B!Map(Others)
    BY <1>5 DEF B!Compare, BtreeInv
  <2>2. btree' = [btree EXCEPT !.pc = "idle", !.keys = {}]
    BY <1>5, <2>1, TreeAsMap DEF B!Compare
  <2>3. btree' = [pc |-> "idle", keys |-> {}, vals |-> btree.vals, sout |-> <<>>, m |-> btree.m]
    BY <2>1, <2>2 DEF BtreeInv
  <2> QED
    BY <2>3 DEF BtreeInv
<1> QED
  BY <1>1, <1>2, <1>3, <1>4, <1>5, BtreeRetrieve DEF B!Step

LEMMA BtreeProduct ==
  ASSUME BtreeInv PROVE B!Product
<1> SUFFICES ASSUME btree.pc = "listed", NEW x \in AllUsers
             PROVE  /\ btree.sout[Cardinality({y \in AllUsers : y.key < x.key}) + 1] = x.val
                    /\ btree.sout[Len(Users) + (Cardinality({y \in AllUsers :
                         y.val < x.val \/ (y.val = x.val /\ y.key < x.key)}) + 1)] = x.key
  BY TreeCardinality DEF B!Product, AllUsers
<1>1. btree.sout = BothLists
  BY DEF BtreeInv
<1>2. {y \in AllUsers : y.key < x.key} = Below(AllUsers, "keys", x)
  BY DEF Below, B!Less, B!ByKeys
<1>3. {y \in AllUsers : y.val < x.val \/ (y.val = x.val /\ y.key < x.key)} = Below(AllUsers, "vals", x)
  BY DEF Below, B!Less, B!ByKeys, B!ByVals
<1> DEFINE j == Cardinality(Below(AllUsers, "keys", x)) + 1
           k == Cardinality(Below(AllUsers, "vals", x)) + 1
<1>4. j \in 1..NbUsers /\ ByKey[j] = x /\ k \in 1..NbUsers /\ ByVal[k] = x
  BY ListsType DEF ByKey, ByVal
<1> HIDE DEF j, k
<1>5. BothLists[j] = x.val /\ BothLists[NbUsers + k] = x.key
  BY <1>4, ListsType
<1> QED
  BY <1>1, <1>2, <1>3, <1>5 DEF j, k, NbUsers

-----------------------------------------------------------------------------
(* The objects that outlive a transaction, each changed by its own benchmark only. *)

LEMMA CompressionAlone ==
  ASSUME [Next]_vars
  PROVE  C!Step \/ UNCHANGED compression
<1> USE DEF At, To
<1>1. CASE Compression
  BY <1>1 DEF Compression
<1>2. CASE \/ Sorting \/ Documents \/ Btree \/ Queens \/ Memory
           \/ Image \/ Crypto \/ Pearls \/ Haversine \/ Elsewhere
  BY <1>2 DEF Sorting, Documents, Btree, Queens, Memory, Image, Crypto, Pearls, Haversine, Elsewhere
<1>3. CASE FinishStep \/ Terminated \/ UNCHANGED vars
  BY <1>3 DEF FinishStep, Terminated, vars
<1> QED
  BY <1>1, <1>2, <1>3 DEF Next

LEMMA SortingAlone ==
  ASSUME [Next]_vars
  PROVE  S!Step \/ UNCHANGED sorting
<1> USE DEF At, To
<1>1. CASE Sorting
  BY <1>1 DEF Sorting
<1>2. CASE \/ Compression \/ Documents \/ Btree \/ Queens \/ Memory
           \/ Image \/ Crypto \/ Pearls \/ Haversine \/ Elsewhere
  BY <1>2 DEF Compression, Documents, Btree, Queens, Memory, Image, Crypto, Pearls, Haversine, Elsewhere
<1>3. CASE FinishStep \/ Terminated \/ UNCHANGED vars
  BY <1>3 DEF FinishStep, Terminated, vars
<1> QED
  BY <1>1, <1>2, <1>3 DEF Next

LEMMA DocumentsAlone ==
  ASSUME [Next]_vars
  PROVE  D!Step \/ UNCHANGED documents
<1> USE DEF At, To
<1>1. CASE Documents
  BY <1>1 DEF Documents
<1>2. CASE \/ Compression \/ Sorting \/ Btree \/ Queens \/ Memory
           \/ Image \/ Crypto \/ Pearls \/ Haversine \/ Elsewhere
  BY <1>2 DEF Compression, Sorting, Btree, Queens, Memory, Image, Crypto, Pearls, Haversine, Elsewhere
<1>3. CASE FinishStep \/ Terminated \/ UNCHANGED vars
  BY <1>3 DEF FinishStep, Terminated, vars
<1> QED
  BY <1>1, <1>2, <1>3 DEF Next

LEMMA BtreeAlone ==
  ASSUME [Next]_vars
  PROVE  B!Step \/ UNCHANGED btree
<1> USE DEF At, To
<1>1. CASE Btree
  BY <1>1 DEF Btree
<1>2. CASE \/ Compression \/ Sorting \/ Documents \/ Queens \/ Memory
           \/ Image \/ Crypto \/ Pearls \/ Haversine \/ Elsewhere
  BY <1>2 DEF Compression, Sorting, Documents, Queens, Memory, Image, Crypto, Pearls, Haversine, Elsewhere
<1>3. CASE FinishStep \/ Terminated \/ UNCHANGED vars
  BY <1>3 DEF FinishStep, Terminated, vars
<1> QED
  BY <1>1, <1>2, <1>3 DEF Next

LEMMA MemoryAlone ==
  ASSUME [Next]_vars
  PROVE  M!Step \/ UNCHANGED memory
<1> USE DEF At, To
<1>1. CASE Memory
  BY <1>1 DEF Memory
<1>2. CASE \/ Compression \/ Sorting \/ Documents \/ Btree \/ Queens
           \/ Image \/ Crypto \/ Pearls \/ Haversine \/ Elsewhere
  BY <1>2 DEF Compression, Sorting, Documents, Btree, Queens, Image, Crypto, Pearls, Haversine, Elsewhere
<1>3. CASE FinishStep \/ Terminated \/ UNCHANGED vars
  BY <1>3 DEF FinishStep, Terminated, vars
<1> QED
  BY <1>1, <1>2, <1>3 DEF Next

LEMMA ImageAlone ==
  ASSUME [Next]_vars
  PROVE  I!Step \/ UNCHANGED image
<1> USE DEF At, To
<1>1. CASE Image
  BY <1>1 DEF Image
<1>2. CASE \/ Compression \/ Sorting \/ Documents \/ Btree \/ Queens
           \/ Memory \/ Crypto \/ Pearls \/ Haversine \/ Elsewhere
  BY <1>2 DEF Compression, Sorting, Documents, Btree, Queens, Memory, Crypto, Pearls, Haversine, Elsewhere
<1>3. CASE FinishStep \/ Terminated \/ UNCHANGED vars
  BY <1>3 DEF FinishStep, Terminated, vars
<1> QED
  BY <1>1, <1>2, <1>3 DEF Next

LEMMA CryptoAlone ==
  ASSUME [Next]_vars
  PROVE  X!Step \/ UNCHANGED crypto
<1> USE DEF At, To
<1>1. CASE Crypto
  BY <1>1 DEF Crypto
<1>2. CASE \/ Compression \/ Sorting \/ Documents \/ Btree \/ Queens
           \/ Memory \/ Image \/ Pearls \/ Haversine \/ Elsewhere
  BY <1>2 DEF Compression, Sorting, Documents, Btree, Queens, Memory, Image, Pearls, Haversine, Elsewhere
<1>3. CASE FinishStep \/ Terminated \/ UNCHANGED vars
  BY <1>3 DEF FinishStep, Terminated, vars
<1> QED
  BY <1>1, <1>2, <1>3 DEF Next

ObjectsInv ==
  /\ CompressionInv /\ SortingInv /\ DocumentsInv /\ BtreeInv
  /\ MemoryInv /\ ImageInv /\ CryptoInv

LEMMA ObjectsHold == Spec => []ObjectsInv
<1>1. Init => ObjectsInv
  BY CompressionBegin, SortingBegin, DocumentsBegin, BtreeBegin, MemoryBegin, ImageBegin, CryptoBegin DEF Init, ObjectsInv
<1>2. ObjectsInv /\ [Next]_vars => ObjectsInv'
  <2> SUFFICES ASSUME ObjectsInv, [Next]_vars PROVE ObjectsInv'
    OBVIOUS
  <2>1. CompressionInv'
    <3>1. UNCHANGED compression => CompressionInv'
      BY DEF ObjectsInv, CompressionInv
    <3> QED
      BY <3>1, CompressionAlone, CompressionStep DEF ObjectsInv
  <2>2. SortingInv'
    <3>1. UNCHANGED sorting => SortingInv'
      BY DEF ObjectsInv, SortingInv
    <3> QED
      BY <3>1, SortingAlone, SortingStep DEF ObjectsInv
  <2>3. DocumentsInv'
    <3>1. UNCHANGED documents => DocumentsInv'
      BY DEF ObjectsInv, DocumentsInv
    <3> QED
      BY <3>1, DocumentsAlone, DocumentsStep DEF ObjectsInv
  <2>4. BtreeInv'
    <3>1. UNCHANGED btree => BtreeInv'
      BY DEF ObjectsInv, BtreeInv
    <3> QED
      BY <3>1, BtreeAlone, BtreeStep DEF ObjectsInv
  <2>5. MemoryInv'
    <3>1. UNCHANGED memory => MemoryInv'
      BY DEF ObjectsInv, MemoryInv
    <3> QED
      BY <3>1, MemoryAlone, MemoryStep DEF ObjectsInv
  <2>6. ImageInv'
    <3>1. UNCHANGED image => ImageInv'
      BY DEF ObjectsInv, ImageInv
    <3> QED
      BY <3>1, ImageAlone, ImageStep DEF ObjectsInv
  <2>7. CryptoInv'
    <3>1. UNCHANGED crypto => CryptoInv'
      BY DEF ObjectsInv, CryptoInv
    <3> QED
      BY <3>1, CryptoAlone, CryptoStep DEF ObjectsInv
  <2> QED
    BY <2>1, <2>2, <2>3, <2>4, <2>5, <2>6, <2>7 DEF ObjectsInv
<1> QED
  BY <1>1, <1>2, PTL DEF Spec

\* Every transaction of a worker, on the objects that all the ones before left, makes
\* what a first one makes: the encodings, the sorted users, the two listings of the
\* trees, the blocks, the image, the documents and the decrypted text (the Run of
\* compression.go, sort.go, btree.go, memory.go, image.go, awk.go, json.go, crypto.go).
THEOREM SameWorkDone == Spec => []SameWork
<1>1. ObjectsInv => SameWork
  BY CompressionProduct, SortingProduct, DocumentsProduct, BtreeProduct, MemoryProduct, ImageProduct, CryptoProduct
     DEF ObjectsInv, SameWork
<1> QED
  BY <1>1, ObjectsHold, PTL

\* None of the checks that these benchmarks make of their own work ends the process.
\* (AWK and JSON have no check, but their libraries may fail.)
ChecksPass == "fatal" \notin {compression.pc, sorting.pc, btree.pc, memory.pc, crypto.pc}

\* What was compressed or encrypted is found again, the list has all the users, the
\* tree and the map agree, the blocks are within the array and the array is sorted.
THEOREM ChecksNeverFail == Spec => []ChecksPass
<1>1. ObjectsInv => ChecksPass
  <2> SUFFICES ASSUME ObjectsInv PROVE ChecksPass
    OBVIOUS
  <2>1. compression.pc # "fatal"
    BY DEF ObjectsInv, CompressionInv
  <2>2. sorting.pc # "fatal" /\ btree.pc # "fatal"
    BY DEF ObjectsInv, SortingInv, BtreeInv
  <2>3. memory.pc # "fatal" /\ crypto.pc # "fatal"
    BY DEF ObjectsInv, MemoryInv, CryptoInv
  <2> QED
    BY <2>1, <2>2, <2>3 DEF ChecksPass
<1> QED
  BY <1>1, ObjectsHold, PTL

-----------------------------------------------------------------------------
(* Heap's algorithm.  A call of heap for the first k places moves the        *)
(* elements in a way that depends on k only: Source(k, p) is the place where *)
(* the one that ends at place p was before the call.  From(k, c, p) is that  *)
(* where it was before the call, seen when the c-th inner call begins.  When *)
(* k is odd the turns of the loop move the elements along a ring.            *)

Source(k, p) ==
  IF p > k THEN p
  ELSE IF k % 2 = 1 THEN IF p = 1 THEN k ELSE IF p = k THEN 1 ELSE p
  ELSE IF p = k THEN 1
  ELSE IF p = 1 /\ k # 2 THEN k - 2
  ELSE IF p = k - 1 THEN k ELSE IF p = 2 THEN k - 1 ELSE p - 1

Ring(k, p) ==
  IF p = k THEN 0 ELSE IF p = 1 THEN k - 1 ELSE IF p = k - 1 THEN k - 2
  ELSE IF p = k - 2 THEN k - 3 ELSE k - 2 - p
PlaceOf(k, x) ==
  IF x = 0 THEN k ELSE IF x = k - 1 THEN 1 ELSE IF x = k - 2 THEN k - 1
  ELSE IF x = k - 3 THEN k - 2 ELSE k - 2 - x
Along(k, x, d) == IF x + d < k THEN x + d ELSE x + d - k

FromOdd(k, c, p) == PlaceOf(k, Along(k, Ring(k, p), c - 1))
FromEven(k, c, p) ==
  IF p = 1 THEN IF c % 2 = 1 THEN 1 ELSE k
  ELSE IF p = k THEN IF c = k THEN 1 ELSE IF c = 2 THEN k - 1 ELSE c - 1
  ELSE IF p = k - 1 /\ c # k THEN IF c % 2 = 1 THEN k ELSE 1
  ELSE IF p = 2 /\ c # 2 THEN k - 1
  ELSE IF p < c THEN p - 1 ELSE p
From(k, c, p) ==
  IF p > k \/ c = 1 THEN p ELSE IF k % 2 = 1 THEN FromOdd(k, c, p) ELSE FromEven(k, c, p)

\* Where the element that a swap of places x and y leaves at p comes from.
Across(x, y, p) == IF p = x THEN y ELSE IF p = y THEN x ELSE p

LEMMA RingPlace ==
  ASSUME NEW k \in Nat, k >= 3
  PROVE  /\ \A p \in 1..k : Ring(k, p) \in 0..k - 1 /\ PlaceOf(k, Ring(k, p)) = p
         /\ \A x \in 0..k - 1 : PlaceOf(k, x) \in 1..k /\ Ring(k, PlaceOf(k, x)) = x
BY DEF Ring, PlaceOf

LEMMA SourceType ==
  ASSUME NEW k \in Nat \ {0}, NEW p \in Nat \ {0}
  PROVE  Source(k, p) \in Nat \ {0} /\ (p > k => Source(k, p) = p) /\ (p <= k => Source(k, p) \in 1..k)
BY DEF Source

LEMMA FromType ==
  ASSUME NEW k \in Nat \ {0}, NEW c \in 1..k, NEW p \in Nat \ {0}
  PROVE  From(k, c, p) \in Nat \ {0} /\ (p > k => From(k, c, p) = p) /\ (p <= k => From(k, c, p) \in 1..k)
<1>1. CASE k % 2 = 1 /\ c # 1 /\ p <= k
  <2>1. k >= 3 /\ p \in 1..k
    BY <1>1
  <2>2. Along(k, Ring(k, p), c - 1) \in 0..k - 1
    BY <2>1, RingPlace DEF Along
  <2>3. PlaceOf(k, Along(k, Ring(k, p), c - 1)) \in 1..k
    BY <2>1, <2>2, RingPlace
  <2> QED
    BY <1>1, <2>3 DEF From, FromOdd, FromEven
<1>2. CASE ~(k % 2 = 1 /\ c # 1 /\ p <= k)
  BY <1>2 DEF From, FromOdd, FromEven
<1> QED
  BY <1>1, <1>2

\* Before the first inner call nothing has moved.
LEMMA FromFirst == \A k, p : From(k, 1, p) = p
BY DEF From, FromOdd, FromEven

\* An inner call and the swap after it.
LEMMA FromNextOdd ==
  ASSUME NEW k \in Nat, k % 2 = 1, NEW c \in 1..k - 1, NEW p \in Nat \ {0}
  PROVE  From(k, c + 1, p) = From(k, c, Source(k - 1, Across(1, k, p)))
<1>1. k >= 3 /\ (k - 1) % 2 = 0
  OBVIOUS
<1>2. CASE p > k
  BY <1>1, <1>2 DEF From, FromOdd, FromEven, Across, Source
<1>3. CASE p <= k
  <2> DEFINE q == Source(k - 1, Across(1, k, p))
  <2>1. q \in 1..k /\ q = PlaceOf(k, Along(k, Ring(k, p), 1))
    BY <1>1, <1>3 DEF Source, Across, PlaceOf, Along, Ring
  <2>2. Along(k, Ring(k, p), 1) \in 0..k - 1 /\ Ring(k, p) \in 0..k - 1 /\ p \in 1..k
    BY <1>1, <1>3, RingPlace DEF Along
  <2>3. Ring(k, q) = Along(k, Ring(k, p), 1)
    BY <1>1, <2>1, <2>2, RingPlace
  <2> HIDE DEF q
  <2>4. Along(k, Ring(k, q), c - 1) = Along(k, Ring(k, p), c)
    BY <2>2, <2>3 DEF Along
  <2>5. From(k, c + 1, p) = PlaceOf(k, Along(k, Ring(k, p), c))
    <3>1. c + 1 # 1 /\ (c + 1) - 1 = c
      OBVIOUS
    <3> QED
      BY <1>3, <3>1 DEF From, FromOdd, FromEven
  <2>6. From(k, c, q) = PlaceOf(k, Along(k, Ring(k, q), c - 1))
    <3>1. CASE c = 1
      <4>1. Along(k, Ring(k, q), 0) = Ring(k, q)
        BY <2>2, <2>3 DEF Along
      <4>2. PlaceOf(k, Ring(k, q)) = q
        BY <1>1, <2>1, RingPlace
      <4> QED
        BY <3>1, <4>1, <4>2, FromFirst
    <3>2. CASE c # 1
      BY <2>1, <3>2 DEF From, FromOdd, FromEven
    <3> QED
      BY <3>1, <3>2
  <2> QED
    BY <2>4, <2>5, <2>6 DEF q
<1> QED
  BY <1>2, <1>3

LEMMA FromNextEven ==
  ASSUME NEW k \in Nat \ {0}, k % 2 = 0, NEW c \in 1..k - 1, NEW p \in Nat \ {0}
  PROVE  From(k, c + 1, p) = From(k, c, Source(k - 1, Across(c, k, p)))
<1>1. (k - 1) % 2 = 1 /\ k - 1 \in Nat \ {0}
  OBVIOUS
<1> DEFINE q == Source(k - 1, Across(c, k, p))
<1>2. q = IF p > k THEN p
          ELSE IF p = k THEN (IF c = 1 THEN k - 1 ELSE IF c = k - 1 THEN 1 ELSE c)
          ELSE IF p = c THEN k
          ELSE IF p = 1 THEN k - 1 ELSE IF p = k - 1 THEN 1 ELSE p
  BY <1>1 DEF Source, Across
<1> SUFFICES From(k, c + 1, p) = From(k, c, q)
  OBVIOUS
<1> HIDE DEF q
<1>3. CASE c = 1
  BY <1>2, <1>3 DEF From, FromOdd, FromEven
<1>4. CASE c = 2
  BY <1>2, <1>4 DEF From, FromOdd, FromEven
<1>5. CASE c > 2 /\ c = k - 1
  BY <1>2, <1>5 DEF From, FromOdd, FromEven
<1>6. CASE c > 2 /\ c < k - 1
  BY <1>2, <1>6 DEF From, FromOdd, FromEven
<1> QED
  BY <1>3, <1>4, <1>5, <1>6

\* All the inner calls: the loop ends without a swap.
LEMMA FromEnd ==
  ASSUME NEW k \in Nat, k >= 2, NEW p \in Nat \ {0}
  PROVE  From(k, k, Source(k - 1, p)) = Source(k, p)
<1> DEFINE q == Source(k - 1, p)
<1>1. CASE k % 2 = 0
  <2>1. (k - 1) % 2 = 1
    BY <1>1
  <2>2. q = IF p > k - 1 THEN p ELSE IF p = 1 THEN k - 1 ELSE IF p = k - 1 THEN 1 ELSE p
    BY <2>1 DEF Source
  <2> HIDE DEF q
  <2>3. From(k, k, q) = Source(k, p)
    BY <1>1, <2>2 DEF From, FromOdd, FromEven, Source
  <2> QED
    BY <2>3 DEF q
<1>2. CASE k % 2 = 1
  <2>1. (k - 1) % 2 = 0 /\ k >= 3
    BY <1>2
  <2>2. CASE p > k
    BY <1>2, <2>1, <2>2 DEF Source, From, FromOdd, FromEven
  <2>3. CASE p <= k
    <3>1. q \in 1..k
      BY <2>1, <2>3 DEF Source
    <3>2. From(k, k, q) = PlaceOf(k, Along(k, Ring(k, q), k - 1))
      BY <1>2, <2>1, <3>1 DEF From, FromOdd, FromEven
    <3>3. PlaceOf(k, Along(k, Ring(k, q), k - 1)) = Source(k, p)
      <4>1. q = IF p = k THEN k ELSE IF p = k - 1 THEN 1 ELSE IF p = 1 /\ k # 3 THEN k - 3
                ELSE IF p = k - 2 THEN k - 1 ELSE IF p = 2 THEN k - 2 ELSE p - 1
        BY <2>1, <2>3 DEF Source
      <4> HIDE DEF q
      <4>2. Ring(k, q) = IF p = k THEN 0 ELSE IF p = k - 1 THEN k - 1 ELSE IF p = 1 /\ k # 3 THEN 1
                         ELSE IF p = k - 2 THEN k - 2 ELSE IF p = 2 THEN k - 3 ELSE k - 1 - p
        BY <2>1, <2>3, <4>1 DEF Ring
      <4>3. Along(k, Ring(k, q), k - 1) =
              IF p = k THEN k - 1 ELSE IF p = k - 1 THEN k - 2 ELSE IF p = 1 /\ k # 3 THEN 0
              ELSE IF p = k - 2 THEN k - 3 ELSE IF p = 2 THEN k - 4 ELSE k - 2 - p
        BY <2>1, <2>3, <4>2 DEF Along
      <4>4. Source(k, p) = IF p = 1 THEN k ELSE IF p = k THEN 1 ELSE p
        BY <1>2, <2>3 DEF Source
      <4> QED
        BY <1>2, <2>1, <2>3, <4>3, <4>4 DEF PlaceOf
    <3> QED
      BY <3>2, <3>3
  <2> QED
    BY <2>2, <2>3
<1> QED
  BY <1>1, <1>2

\* No two elements come from one place.
LEMMA FromInjective ==
  ASSUME NEW k \in Nat \ {0}, NEW c \in 1..k, NEW p \in 1..k, NEW q \in 1..k, From(k, c, p) = From(k, c, q)
  PROVE  p = q
<1>1. CASE k % 2 = 1 /\ c # 1
  <2>1. k >= 3
    BY <1>1
  <2> DEFINE x == Ring(k, p)
             y == Ring(k, q)
  <2>2. x \in 0..k - 1 /\ y \in 0..k - 1 /\ PlaceOf(k, x) = p /\ PlaceOf(k, y) = q
    BY <2>1, RingPlace
  <2> HIDE DEF x, y
  <2>3. Along(k, x, c - 1) \in 0..k - 1 /\ Along(k, y, c - 1) \in 0..k - 1
    BY <2>2 DEF Along
  <2>4. PlaceOf(k, Along(k, x, c - 1)) = PlaceOf(k, Along(k, y, c - 1))
    BY <1>1 DEF From, FromOdd, x, y
  <2>5. Along(k, x, c - 1) = Along(k, y, c - 1)
    BY <2>1, <2>3, <2>4, RingPlace
  <2>6. x = y
    BY <2>2, <2>5 DEF Along
  <2> QED
    BY <2>2, <2>6
<1>2. CASE c = 1
  BY <1>2, FromFirst
<1>3. CASE k % 2 = 0 /\ c # 1
  BY <1>3 DEF From, FromOdd, FromEven
<1> QED
  BY <1>1, <1>2, <1>3

\* The c-th inner call has an element at the last place that no other one has, and
\* each element has its turn.
LEMMA LastPlace ==
  ASSUME NEW k \in Nat \ {0}
  PROVE  /\ \A c, d \in 1..k : From(k, c, k) = From(k, d, k) => c = d
         /\ \A q \in 1..k : \E c \in 1..k : From(k, c, k) = q
<1>1. CASE k % 2 = 1 /\ k # 1
  <2>1. k >= 3
    BY <1>1
  <2>2. ASSUME NEW c \in 1..k PROVE From(k, c, k) = PlaceOf(k, c - 1)
    <3>1. Ring(k, k) = 0 /\ Along(k, 0, c - 1) = c - 1
      BY <2>1 DEF Ring, Along
    <3>2. CASE c = 1
      BY <3>2, FromFirst DEF PlaceOf
    <3>3. CASE c # 1
      <4>1. From(k, c, k) = PlaceOf(k, Along(k, Ring(k, k), c - 1))
        BY <1>1, <3>3 DEF From, FromOdd, FromEven
      <4> QED
        BY <3>1, <4>1
    <3> QED
      BY <3>2, <3>3
  <2>3. ASSUME NEW c \in 1..k, NEW d \in 1..k, From(k, c, k) = From(k, d, k) PROVE c = d
    <3>1. PlaceOf(k, c - 1) = PlaceOf(k, d - 1) /\ c - 1 \in 0..k - 1 /\ d - 1 \in 0..k - 1
      BY <2>2, <2>3
    <3>2. c - 1 = d - 1
      BY <2>1, <3>1, RingPlace
    <3> QED
      BY <3>2
  <2>4. ASSUME NEW q \in 1..k PROVE \E c \in 1..k : From(k, c, k) = q
    <3>1. Ring(k, q) \in 0..k - 1 /\ PlaceOf(k, Ring(k, q)) = q
      BY <2>1, RingPlace
    <3>2. Ring(k, q) + 1 \in 1..k /\ (Ring(k, q) + 1) - 1 = Ring(k, q)
      BY <3>1
    <3> QED
      BY <2>2, <3>1, <3>2
  <2> QED
    BY <2>3, <2>4
<1>2. CASE k = 1
  BY <1>2, FromFirst
<1>3. CASE k % 2 = 0
  <2>1. ASSUME NEW c \in 1..k
        PROVE  From(k, c, k) = IF c = 1 THEN k ELSE IF c = k THEN 1 ELSE IF c = 2 THEN k - 1 ELSE c - 1
    BY <1>3 DEF From, FromOdd, FromEven
  <2>2. ASSUME NEW c \in 1..k, NEW d \in 1..k, From(k, c, k) = From(k, d, k) PROVE c = d
    BY <2>1, <2>2
  <2>3. ASSUME NEW q \in 1..k PROVE \E c \in 1..k : From(k, c, k) = q
    <3> DEFINE c == IF q = k THEN 1 ELSE IF q = 1 THEN k ELSE IF q = k - 1 THEN 2 ELSE q + 1
    <3>1. c \in 1..k
      OBVIOUS
    <3>2. From(k, c, k) = q
      BY <1>3, <2>1
    <3> QED
      BY <3>1, <3>2
  <2> QED
    BY <2>2, <2>3
<1> QED
  BY <1>1, <1>2, <1>3

-----------------------------------------------------------------------------
(* The travelling salesman. *)

\* The cities that move, in the places that they have between the first and the last.
NbInner == NbCities - 2
Place == 1..NbInner
Order == {a \in [Place -> Place] : \A p, q \in Place : a[p] = a[q] => p = q}
Tour(a) == [k \in 1..NbCities |-> IF k \in {1, NbCities} THEN k - 1 ELSE a[k - 1]]

LEMMA InnerType ==
  NbInner \in Nat \ {0} /\ NbCities = NbInner + 2 /\ NbCities \in Nat /\ Place = 1..NbInner
BY TransactionAssumption DEF H!HaversineAssumption, NbInner, Place

\* An order has every city.
LEMMA OrderWhole ==
  /\ \A a \in Order : \A x \in Place : \E p \in Place : a[p] = x
  /\ H!Bijection(Place, Place) = Order
<1>1. IsFiniteSet(Place)
  BY InnerType, FS_Interval
<1>2. \A a : a \in Order <=> a \in Injection(Place, Place)
  BY DEF Order, Injection, IsInjective
<1>3. ASSUME NEW a \in Order PROVE a \in Surjection(Place, Place)
  BY <1>1, <1>2, FS_Injection
<1>4. \A a : a \in Surjection(Place, Place) => \A x \in Place : \E p \in Place : a[p] = x
  BY DEF Surjection
<1>5. \A a : a \in H!Bijection(Place, Place) <=> a \in Injection(Place, Place) /\ a \in Surjection(Place, Place)
  BY DEF H!Bijection, H!Injection, H!Surjection, H!IsInjective, Injection, Surjection, IsInjective
<1> QED
  BY <1>2, <1>3, <1>4, <1>5

LEMMA TourType ==
  /\ H!Journeys = {Tour(a) : a \in Order}
  /\ \A a, b \in Order : Tour(a) = Tour(b) => a = b
<1>1. H!Journeys = {Tour(a) : a \in Order}
  BY OrderWhole DEF H!Journeys, Tour, Place, NbInner
<1>2. ASSUME NEW a \in Order, NEW b \in Order, Tour(a) = Tour(b) PROVE a = b
  <2>1. ASSUME NEW p \in Place PROVE a[p] = b[p]
    <3>1. p + 1 \in 1..NbCities /\ p + 1 \notin {1, NbCities} /\ (p + 1) - 1 = p
      BY InnerType
    <3>2. Tour(a)[p + 1] = a[p] /\ Tour(b)[p + 1] = b[p]
      BY <3>1 DEF Tour
    <3> QED
      BY <1>2, <3>2
  <2> QED
    BY <2>1 DEF Order
<1> QED
  BY <1>1, <1>2

\* The order of the cities of s after the first inner calls of heap(k), and after heap(k).
Moved(s, k, c) == [p \in Place |-> s[From(k, c, p)]]
Ended(s, k) == [p \in Place |-> s[Source(k, p)]]
Exchanged(s, x, y) == [p \in Place |-> s[Across(x, y, p)]]

\* The orders that a call of heap(k) on s can make, and its c-th inner call.
Same(b, s, k) == \A p \in Place : p > k => b[p] = s[p]
Branch(b, s, k, c) == Same(b, s, k) /\ b[k] = s[From(k, c, k)]

LEMMA MovedType ==
  ASSUME NEW s \in Order, NEW k \in Place, NEW c \in 1..k
  PROVE  Moved(s, k, c) \in Order /\ Same(Moved(s, k, c), s, k)
<1>1. k \in Nat \ {0} /\ k <= NbInner /\ NbInner \in Nat
  BY InnerType
<1>2. ASSUME NEW p \in Place
      PROVE  From(k, c, p) \in Place /\ (p > k => From(k, c, p) = p) /\ (p <= k => From(k, c, p) \in 1..k)
  <2>1. p \in Nat \ {0} /\ p <= NbInner
    BY InnerType
  <2>2. (p > k => From(k, c, p) = p) /\ (p <= k => From(k, c, p) \in 1..k)
    BY <1>1, <2>1, FromType
  <2>3. CASE p > k
    BY <2>2, <2>3
  <2>4. CASE p <= k
    BY <1>1, <2>2, <2>4, InnerType
  <2> QED
    BY <1>1, <2>1, <2>2, <2>3, <2>4
<1>3. ASSUME NEW p \in Place, NEW q \in Place, From(k, c, p) = From(k, c, q) PROVE p = q
  <2>1. p \in Nat \ {0} /\ q \in Nat \ {0}
    BY InnerType
  <2>2. CASE p <= k /\ q <= k
    <3>1. p \in 1..k /\ q \in 1..k
      BY <1>1, <2>1, <2>2
    <3> QED
      BY <1>1, <1>3, <3>1, FromInjective
  <2>3. CASE p > k \/ q > k
    BY <1>1, <1>2, <1>3, <2>1, <2>3
  <2> QED
    BY <1>1, <2>1, <2>2, <2>3
<1>4. s \in [Place -> Place] /\ \A p, q \in Place : s[p] = s[q] => p = q
  BY DEF Order
<1>5. Moved(s, k, c) \in [Place -> Place] /\ \A p \in Place : Moved(s, k, c)[p] = s[From(k, c, p)]
  BY <1>2, <1>4 DEF Moved
<1>6. \A p, q \in Place : Moved(s, k, c)[p] = Moved(s, k, c)[q] => p = q
  BY <1>2, <1>3, <1>4, <1>5
<1> QED
  BY <1>2, <1>5, <1>6 DEF Order, Same

\* The inner calls of a call make all that it can make, each its own part.
LEMMA BranchWhole ==
  ASSUME NEW s \in Order, NEW b \in Order, NEW k \in Place
  PROVE  /\ Same(b, s, k) <=> \E c \in 1..k : Branch(b, s, k, c)
         /\ \A c, d \in 1..k : Branch(b, s, k, c) /\ Branch(b, s, k, d) => c = d
<1>1. k \in Nat \ {0} /\ k <= NbInner /\ NbInner \in Nat /\ \A p : p \in Place <=> p \in Nat /\ 1 <= p /\ p <= NbInner
  BY InnerType
<1>2. ASSUME Same(b, s, k) PROVE \E c \in 1..k : Branch(b, s, k, c)
  <2>1. PICK q \in Place : s[q] = b[k]
    BY OrderWhole DEF Order
  <2>2. q \in 1..k
    <3>1. ASSUME q > k PROVE FALSE
      <4>1. b[q] = b[k]
        BY <1>2, <2>1, <3>1 DEF Same
      <4>2. q = k
        BY <4>1 DEF Order
      <4> QED
        BY <1>1, <3>1, <4>2
    <3> QED
      BY <1>1, <3>1
  <2>3. PICK c \in 1..k : From(k, c, k) = q
    BY <1>1, <2>2, LastPlace
  <2> QED
    BY <1>2, <2>1, <2>3 DEF Branch
<1>3. ASSUME NEW c \in 1..k, NEW d \in 1..k, Branch(b, s, k, c), Branch(b, s, k, d) PROVE c = d
  <2>1. k \in Nat \ {0} /\ k \in Nat /\ k <= k
    BY <1>1
  <2>2. From(k, c, k) \in 1..k /\ From(k, d, k) \in 1..k
    BY <2>1, FromType
  <2>3. From(k, c, k) \in Place /\ From(k, d, k) \in Place
    BY <1>1, <2>2
  <2>4. From(k, c, k) = From(k, d, k)
    BY <1>3, <2>3 DEF Branch, Order
  <2> QED
    BY <1>1, <2>4, LastPlace
<1> QED
  BY <1>2, <1>3 DEF Branch

LEMMA BranchChild ==
  ASSUME NEW s \in Order, NEW b \in Order, NEW k \in Place, NEW c \in 1..k
  PROVE  Same(b, Moved(s, k, c), k - 1) <=> Branch(b, s, k, c)
<1>1. k \in Nat \ {0} /\ k <= NbInner /\ NbInner \in Nat /\ \A p : p \in Place => p \in Nat /\ p # 0
  BY InnerType
<1>2. \A p \in Place : p > k => From(k, c, p) = p
  BY <1>1, FromType
<1>3. \A p \in Place : Moved(s, k, c)[p] = s[From(k, c, p)]
  BY DEF Moved
<1>4. \A p \in Place : p > k - 1 <=> p > k \/ p = k
  BY <1>1
<1> QED
  BY <1>2, <1>3, <1>4 DEF Same, Branch

LEMMA TourExchanged ==
  ASSUME NEW a \in Order, NEW x \in Place, NEW y \in Place
  PROVE  H!Swapped(Tour(a), x + 1, y + 1) = Tour(Exchanged(a, x, y))
<1>1. /\ NbCities \in Nat /\ NbCities = NbInner + 2
      /\ \A p : p \in Place <=> p \in Nat /\ 1 <= p /\ p <= NbInner
      /\ NbInner \in Nat
  BY InnerType
<1> DEFINE s == Tour(a)
           l == H!Swapped(s, x + 1, y + 1)
           r == Tour(Exchanged(a, x, y))
<1>2. DOMAIN s = 1..NbCities /\ s[x + 1] = a[x] /\ s[y + 1] = a[y]
  <2>1. \A p \in Place : p + 1 \in 1..NbCities /\ p + 1 \notin {1, NbCities} /\ (p + 1) - 1 = p
    BY <1>1
  <2> QED
    BY <2>1 DEF Tour
<1>3. ASSUME NEW k \in 1..NbCities PROVE l[k] = r[k]
  <2>1. l[k] = IF k = y + 1 THEN s[x + 1] ELSE IF k = x + 1 THEN s[y + 1] ELSE s[k]
    BY <1>2 DEF H!Swapped
  <2>2. r[k] = IF k \in {1, NbCities} THEN k - 1 ELSE a[Across(x, y, k - 1)]
    <3>1. k \notin {1, NbCities} => k - 1 \in Place
      BY <1>1
    <3> QED
      BY <3>1 DEF Tour, Exchanged
  <2>3. s[k] = IF k \in {1, NbCities} THEN k - 1 ELSE a[k - 1]
    BY DEF Tour
  <2>4. x + 1 \notin {1, NbCities} /\ y + 1 \notin {1, NbCities} /\ x \in Int /\ y \in Int
    BY <1>1
  <2>5. (k = x + 1 <=> k - 1 = x) /\ (k = y + 1 <=> k - 1 = y)
    BY <2>4
  <2> HIDE DEF l, r, s
  <2> QED
    BY <1>2, <2>1, <2>2, <2>3, <2>4, <2>5 DEF Across
<1>4. l = [k \in 1..NbCities |-> l[k]] /\ r = [k \in 1..NbCities |-> r[k]]
  BY <1>2 DEF H!Swapped, Tour
<1> HIDE DEF l, r, s
<1>5. l = r
  BY <1>3, <1>4
<1> QED
  BY <1>5 DEF l, r, s

\* What an inner call does, and the swap that follows it, or the end of the loop.
LEMMA MovedNext ==
  ASSUME NEW s \in Order, NEW k \in Place, k > 1, NEW c \in 1..k - 1
  PROVE  /\ H!Choice(k, c - 1) + 1 \in Place
         /\ Exchanged(Ended(Moved(s, k, c), k - 1), H!Choice(k, c - 1) + 1, k) = Moved(s, k, c + 1)
<1>1. /\ k \in Nat \ {0} /\ k <= NbInner /\ NbInner \in Nat
      /\ \A p : p \in Place <=> p \in Nat /\ 1 <= p /\ p <= NbInner
  BY InnerType
<1> DEFINE x == H!Choice(k, c - 1) + 1
<1>2. (k % 2 = 1 /\ x = 1) \/ (k % 2 = 0 /\ x = c)
  BY <1>1 DEF H!Choice
<1>3. x \in Place /\ x <= k
  BY <1>1, <1>2
<1> HIDE DEF x
<1>4. ASSUME NEW p \in Place
      PROVE  Exchanged(Ended(Moved(s, k, c), k - 1), x, k)[p] = Moved(s, k, c + 1)[p]
  <2>1. Across(x, k, p) \in Place
    BY <1>3 DEF Across
  <2> DEFINE q == Source(k - 1, Across(x, k, p))
  <2>2. q \in Place
    <3>1. k - 1 \in Nat \ {0} /\ Across(x, k, p) \in Nat \ {0}
      BY <1>1, <2>1
    <3> QED
      BY <1>1, <2>1, <3>1, SourceType
  <2>3. Exchanged(Ended(Moved(s, k, c), k - 1), x, k)[p] = s[From(k, c, q)]
    BY <2>1, <2>2 DEF Exchanged, Ended, Moved
  <2>4. From(k, c + 1, p) = From(k, c, q)
    BY <1>1, <1>2, FromNextOdd, FromNextEven
  <2> QED
    BY <2>3, <2>4 DEF Moved
<1>5. Exchanged(Ended(Moved(s, k, c), k - 1), x, k) = Moved(s, k, c + 1)
  BY <1>4 DEF Exchanged, Moved
<1> QED
  BY <1>3, <1>5 DEF x

LEMMA MovedEnd ==
  ASSUME NEW s \in Order, NEW k \in Place, k > 1
  PROVE  Ended(Moved(s, k, k), k - 1) = Ended(s, k)
<1>1. /\ k \in Nat \ {0} /\ k >= 2 /\ k <= NbInner /\ NbInner \in Nat
      /\ \A p : p \in Place <=> p \in Nat /\ 1 <= p /\ p <= NbInner
  BY InnerType
<1>2. ASSUME NEW p \in Place PROVE s[Source(k, p)] = Moved(s, k, k)[Source(k - 1, p)]
  <2>1. Source(k - 1, p) \in Place
    <3>1. k - 1 \in Nat \ {0} /\ p \in Nat \ {0}
      BY <1>1
    <3> QED
      BY <1>1, <3>1, SourceType
  <2>2. From(k, k, Source(k - 1, p)) = Source(k, p)
    BY <1>1, FromEnd
  <2> QED
    BY <2>1, <2>2 DEF Moved
<1> QED
  BY <1>2 DEF Ended

LEMMA StartAndYield ==
  ASSUME NEW s \in Order
  PROVE  /\ \A k : Moved(s, k, 1) = s
         /\ Ended(s, 1) = s
<1>1. s = [p \in Place |-> s[p]]
  BY DEF Order
<1>2. ASSUME NEW p \in Place PROVE Source(1, p) = p
  BY InnerType DEF Source
<1> QED
  BY <1>1, <1>2, FromFirst DEF Moved, Ended

-----------------------------------------------------------------------------
\* The calls of heap in progress, one for each number of cities.
CallType == [k : Place, calls : Nat]
CallsInv ==
  /\ hstack \in Seq(CallType) /\ Len(hstack) <= NbInner
  /\ \A i \in 1..Len(hstack) :
       /\ hstack[i].k = NbInner + 1 - i /\ hstack[i].calls <= hstack[i].k
       /\ hstack[i].k = 1 => hstack[i].calls = 0
       /\ i < Len(hstack) => hstack[i].calls >= 1

\* The cities, when a call that found them in the order s has no inner call in progress.
Now(s, f) == IF f.calls = 0 THEN s ELSE Ended(Moved(s, f.k, f.calls), f.k - 1)

\* st has the order that each call found, a is that of now.
Trace(st, a) ==
  /\ idx = Tour(a)
  /\ Len(hstack) > 0 => a = Now(st[Len(hstack)], hstack[Len(hstack)])
  /\ \A i \in 1..Len(hstack) :
       i < Len(hstack) => st[i + 1] = Moved(st[i], hstack[i].k, hstack[i].calls)
  /\ \A i, j \in 1..Len(hstack) : i <= j => Same(st[j], st[i], hstack[i].k)

\* An order is tried when an inner call that has returned could make it.
Returned(i) == IF i = Len(hstack) THEN hstack[i].calls ELSE hstack[i].calls - 1
Inside(st, b) == \E i \in 1..Len(hstack) : \E c \in 1..Returned(i) : Branch(b, st[i], hstack[i].k, c)
Covered(st, b) == Len(hstack) = 0 \/ Inside(st, b)

Tried(b) == \E x \in 1..Len(seen) : seen[x] = Tour(b)
SeenInv(st) ==
  /\ seen \in Seq(H!Journeys)
  /\ \A x, y \in 1..Len(seen) : seen[x] = seen[y] => x = y
  /\ \A b \in Order : Tried(b) <=> Covered(st, b)

HeapInv ==
  CallsInv /\ \E st \in [1..Len(hstack) -> Order], a \in Order : Trace(st, a) /\ SeenInv(st)

\* The call that is running.
LEMMA TopCall ==
  ASSUME CallsInv, hstack # <<>>
  PROVE  LET m == Len(hstack) IN
         /\ m \in Nat /\ 1 <= m /\ m <= NbInner /\ m \in 1..m /\ H!Top = hstack[m]
         /\ hstack[m] \in CallType /\ hstack[m].k \in Place /\ hstack[m].k = NbInner + 1 - m
         /\ hstack[m].calls \in 0..hstack[m].k
         /\ hstack[m].k = 1 => hstack[m].calls = 0
<1>1. hstack \in Seq(CallType) /\ Len(hstack) \in Nat /\ Len(hstack) # 0 /\ Len(hstack) <= NbInner
  BY EmptySeq, LenProperties DEF CallsInv
<1>2. Len(hstack) \in 1..Len(hstack)
  BY <1>1
<1>3. hstack[Len(hstack)] \in CallType
  BY <1>1, <1>2, ElementOfSeq
<1>4. hstack[Len(hstack)].k \in Place /\ hstack[Len(hstack)].calls \in Nat
  BY <1>3 DEF CallType
<1>5. H!Top = hstack[Len(hstack)]
  BY DEF H!Top, H!Last
<1>6. hstack[Len(hstack)].calls \in 0..hstack[Len(hstack)].k
  BY <1>2, <1>4, InnerType DEF CallsInv
<1> QED
  BY <1>1, <1>2, <1>3, <1>4, <1>5, <1>6 DEF CallsInv

\* An inner call.
LEMMA CallShape ==
  ASSUME CallsInv, hstack # <<>>, H!Call, H!Top.k > 1, H!Top.calls < H!Top.k
  PROVE  LET m == Len(hstack) IN
         /\ CallsInv' /\ Len(hstack') = m + 1
         /\ hstack'[m + 1] = [k |-> hstack[m].k - 1, calls |-> 0]
         /\ hstack'[m] = [k |-> hstack[m].k, calls |-> hstack[m].calls + 1]
         /\ \A i \in 1..m : i # m => hstack'[i] = hstack[i]
<1> DEFINE m == Len(hstack)
           f == hstack[m]
           g == [k |-> f.k, calls |-> f.calls + 1]
           t == [hstack EXCEPT ![m].calls = @ + 1]
           h == [k |-> f.k - 1, calls |-> 0]
<1>1. /\ m \in Nat /\ 1 <= m /\ m <= NbInner /\ m \in 1..m /\ f \in CallType /\ f.k \in Place
      /\ f.k = NbInner + 1 - m /\ f.calls \in 0..f.k /\ f.k > 1 /\ f.calls < f.k
  BY TopCall
<1>2. f.calls \in Nat /\ f.k \in Nat /\ f.k - 1 \in Place /\ f.calls + 1 \in Nat /\ NbInner \in Nat
  BY <1>1, InnerType
<1>3. g \in CallType /\ h \in CallType
  BY <1>1, <1>2 DEF CallType
<1>4. hstack' = Append(t, h)
  BY TopCall DEF H!Call, H!Frame
<1>5. hstack \in Seq(CallType)
  BY DEF CallsInv
<1>6. [f EXCEPT !.calls = @ + 1] = g
  BY <1>1 DEF CallType
<1>7. t = [hstack EXCEPT ![m] = g]
  BY <1>6
<1> HIDE DEF t, g, h
<1>8. t \in Seq(CallType) /\ Len(t) = m /\ t[m] = g /\ \A i \in 1..m : i # m => t[i] = hstack[i]
  BY <1>1, <1>3, <1>5, <1>7
<1>9. /\ hstack' \in Seq(CallType) /\ Len(hstack') = m + 1 /\ hstack'[m + 1] = h
      /\ \A i \in 1..m : hstack'[i] = t[i]
  BY <1>1, <1>3, <1>4, <1>8, AppendProperties
<1>10. hstack'[m] = g /\ \A i \in 1..m : i # m => hstack'[i] = hstack[i]
  BY <1>1, <1>8, <1>9
<1>11. /\ g.k = f.k /\ g.calls = f.calls + 1 /\ h.k = f.k - 1 /\ h.calls = 0
  BY DEF g, h
<1>12. \A i \in 1..m + 1 : i = m + 1 \/ i = m \/ (i \in 1..m /\ i # m /\ i < m)
  BY <1>1
<1>13. m + 1 <= NbInner
  BY <1>1, <1>2
<1> HIDE DEF f
<1>14. ASSUME NEW i \in 1..m + 1
       PROVE  /\ hstack'[i].k = NbInner + 1 - i /\ hstack'[i].calls <= hstack'[i].k
              /\ hstack'[i].k = 1 => hstack'[i].calls = 0
              /\ i < m + 1 => hstack'[i].calls >= 1
  <2>1. CASE i = m + 1
    BY <1>1, <1>2, <1>9, <1>11, <2>1
  <2>2. CASE i = m
    BY <1>1, <1>2, <1>10, <1>11, <2>2
  <2>3. CASE i \in 1..m /\ i # m /\ i < m
    BY <1>10, <2>3 DEF CallsInv, m
  <2> QED
    BY <1>12, <2>1, <2>2, <2>3
<1>15. CallsInv'
  BY <1>9, <1>13, <1>14 DEF CallsInv
<1> QED
  BY <1>9, <1>10, <1>15 DEF g, h, f, m

\* A call returns.
LEMMA ReturnShape ==
  ASSUME CallsInv, hstack # <<>>, hstack' = H!Front(hstack)
  PROVE  /\ CallsInv' /\ Len(hstack') = Len(hstack) - 1
         /\ \A i \in 1..Len(hstack) - 1 : hstack'[i] = hstack[i]
<1>1. hstack \in Seq(CallType) /\ Len(hstack) \in Nat /\ 1 <= Len(hstack) /\ Len(hstack) <= NbInner /\ NbInner \in Nat
  BY TopCall, InnerType DEF CallsInv
<1>2. hstack' = SubSeq(hstack, 1, Len(hstack) - 1)
  BY DEF H!Front
<1>3. /\ hstack' \in Seq(CallType) /\ Len(hstack') = Len(hstack) - 1
      /\ \A i \in 1..Len(hstack) - 1 : hstack'[i] = hstack[i]
  <2>1. Len(hstack) - 1 \in Nat /\ Len(hstack) - 1 <= Len(hstack)
    BY <1>1
  <2> DEFINE n == Len(hstack) - 1
  <2>2. n \in Nat /\ n <= Len(hstack) /\ hstack' = SubSeq(hstack, 1, n)
    BY <1>2, <2>1
  <2> HIDE DEF n
  <2>3. hstack' \in Seq(CallType) /\ Len(hstack') = n /\ \A i \in 1..n : hstack'[i] = hstack[i]
    BY <1>1, <2>2, Cut
  <2> QED
    BY <2>3 DEF n
<1>4. \A i \in 1..Len(hstack) - 1 : i \in 1..Len(hstack) /\ i < Len(hstack)
  BY <1>1
<1>5. Len(hstack') <= NbInner
  BY <1>1, <1>3
<1> QED
  BY <1>3, <1>4, <1>5 DEF CallsInv

LEMMA CallStep ==
  ASSUME HeapInv, H!Generate \/ H!SwapAndGenerate
  PROVE  HeapInv'
<1>m. PICK m : m = Len(hstack)
  OBVIOUS
<1>k. PICK k, c : k = hstack[m].k /\ c = hstack[m].calls
  OBVIOUS
<1>1. PICK st \in [1..m -> Order], a \in Order : Trace(st, a) /\ SeenInv(st)
  BY <1>m DEF HeapInv
<1>2. CallsInv /\ hstack # <<>> /\ H!Call /\ H!Top.k > 1 /\ H!Top.calls < H!Top.k /\ seen' = seen
  BY TopCall, InnerType DEF HeapInv, H!Generate, H!SwapAndGenerate
<1>3. /\ m \in Nat /\ 1 <= m /\ m \in 1..m /\ H!Top = hstack[m]
      /\ k \in Place /\ k \in Nat /\ k > 1 /\ c \in 0..k - 1 /\ k = NbInner + 1 - m
  BY <1>2, <1>m, <1>k, TopCall, InnerType
<1>4. /\ CallsInv' /\ Len(hstack') = m + 1
      /\ hstack'[m + 1].k = k - 1 /\ hstack'[m + 1].calls = 0
      /\ hstack'[m].k = k /\ hstack'[m].calls = c + 1
      /\ \A i \in 1..m : i # m => hstack'[i] = hstack[i]
  BY <1>2, <1>m, <1>k, CallShape
<1>s. PICK s, b : s = st[m] /\ b = Moved(s, k, c + 1)
  OBVIOUS
<1>r. PICK r : r = [i \in 1..m + 1 |-> IF i = m + 1 THEN b ELSE st[i]]
  OBVIOUS
<1>5. a = Now(s, hstack[m]) /\ idx = Tour(a) /\ s \in Order
  BY <1>1, <1>3, <1>m, <1>s DEF Trace
<1>6. b \in Order /\ Same(b, s, k) /\ c + 1 \in 1..k
  <2>1. c + 1 \in 1..k
    BY <1>3
  <2> QED
    BY <1>3, <1>5, <1>s, <2>1, MovedType
<1>7. idx' = Tour(b)
  <2>1. CASE H!Generate
    <3>1. c = 0 /\ idx' = idx
      BY <1>3, <1>m, <1>k, <2>1 DEF H!Generate
    <3>2. a = s
      BY <1>5, <1>k, <3>1 DEF Now
    <3>3. b = s
      BY <1>5, <1>s, <3>1, StartAndYield
    <3> QED
      BY <1>5, <3>1, <3>2, <3>3
  <2>2. CASE H!SwapAndGenerate
    <3> DEFINE x == H!Choice(k, c - 1) + 1
    <3>1. c \in 1..k - 1 /\ idx' = H!Swapped(idx, 2 + H!Choice(k, c - 1), 2 + k - 1)
      BY <1>3, <1>m, <1>k, <2>2 DEF H!SwapAndGenerate
    <3>2. a = Ended(Moved(s, k, c), k - 1)
      <4>1. hstack[m].calls # 0
        BY <1>k, <3>1
      <4> QED
        BY <1>5, <1>k, <4>1 DEF Now
    <3>3. x \in Place /\ Exchanged(a, x, k) = b
      BY <1>3, <1>5, <1>s, <3>1, <3>2, MovedNext
    <3>4. 2 + H!Choice(k, c - 1) = x + 1 /\ 2 + k - 1 = k + 1
      <4>1. H!Choice(k, c - 1) \in Int
        BY <1>3 DEF H!Choice
      <4> QED
        BY <1>3, <4>1
    <3> HIDE DEF x
    <3>5. idx' = H!Swapped(Tour(a), x + 1, k + 1)
      BY <1>5, <3>1, <3>4
    <3> QED
      BY <1>3, <3>3, <3>5, TourExchanged
  <2> QED
    BY <2>1, <2>2
<1>8. r \in [1..m + 1 -> Order] /\ r[m + 1] = b /\ \A i \in 1..m : r[i] = st[i] /\ i \in 1..m + 1
  BY <1>1, <1>3, <1>6, <1>r
<1>9. \A i \in 1..m + 1 : i = m + 1 \/ i \in 1..m
  BY <1>3
<1>10. \A i \in 1..m : hstack'[i].k = hstack[i].k
  BY <1>4, <1>k
<1>11. Trace(r, b)'
  <2>1. b = Now(r[m + 1], hstack'[m + 1])
    BY <1>4, <1>8 DEF Now
  <2>2. ASSUME NEW i \in 1..m PROVE r[i + 1] = Moved(r[i], hstack'[i].k, hstack'[i].calls)
    <3>1. CASE i = m
      BY <1>3, <1>4, <1>8, <1>s, <3>1
    <3>2. CASE i # m
      <4>1. i < m /\ i + 1 \in 1..m
        BY <1>3, <3>2
      <4>2. st[i + 1] = Moved(st[i], hstack[i].k, hstack[i].calls)
        BY <1>1, <1>m, <4>1 DEF Trace
      <4> QED
        BY <1>4, <1>8, <3>2, <4>1, <4>2
    <3> QED
      BY <3>1, <3>2
  <2>3. ASSUME NEW i \in 1..m + 1, NEW j \in 1..m + 1, i <= j PROVE Same(r[j], r[i], hstack'[i].k)
    <3>1. CASE j \in 1..m
      <4>1. i \in 1..m
        BY <1>3, <2>3, <3>1
      <4>2. Same(st[j], st[i], hstack[i].k)
        BY <1>1, <1>m, <2>3, <3>1, <4>1 DEF Trace
      <4> QED
        BY <1>8, <1>10, <3>1, <4>1, <4>2
    <3>2. CASE j = m + 1 /\ i = m + 1
      BY <3>2 DEF Same
    <3>3. CASE j = m + 1 /\ i \in 1..m
      <4>1. i <= m
        BY <3>3
      <4>2. Same(s, st[i], hstack[i].k)
        BY <1>1, <1>3, <1>m, <1>s, <3>3, <4>1 DEF Trace
      <4>3. hstack[i].k = NbInner + 1 - i
        BY <1>2, <1>m, <3>3 DEF CallsInv
      <4>4. NbInner + 1 - i >= k /\ NbInner + 1 - i \in Int /\ \A p \in Place : p \in Int
        BY <1>3, <3>3, InnerType
      <4>5. \A p \in Place : p > NbInner + 1 - i => p > k
        BY <1>3, <4>4
      <4>6. Same(b, st[i], hstack[i].k)
        BY <1>6, <4>2, <4>3, <4>5 DEF Same
      <4> QED
        BY <1>8, <1>10, <3>3, <4>6
    <3> QED
      BY <1>9, <3>1, <3>2, <3>3
  <2>4. \A i \in 1..m + 1 : i < m + 1 => i \in 1..m
    BY <1>3
  <2> QED
    BY <1>4, <1>7, <2>1, <2>2, <2>3, <2>4 DEF Trace
<1>12. \A i \in 1..m : Returned(i)' = Returned(i)
  <2>1. Returned(m)' = c /\ Returned(m) = c
    <3>1. m # m + 1 /\ (c + 1) - 1 = c
      BY <1>3
    <3> QED
      BY <1>3, <1>4, <1>m, <1>k, <3>1 DEF Returned
  <2>2. \A i \in 1..m : i # m => i # m + 1
    BY <1>3
  <2> QED
    BY <1>4, <1>m, <2>1, <2>2 DEF Returned
<1>13. ASSUME NEW o \in Order PROVE Covered(r, o)' <=> Covered(st, o)
  <2>1. Returned(m + 1)' = 0
    BY <1>4 DEF Returned
  <2>2. Inside(r, o)' <=> \E i \in 1..m + 1 : \E d \in 1..Returned(i)' : Branch(o, r[i], hstack'[i].k, d)
    BY <1>4 DEF Inside
  <2>3. Inside(st, o) <=> \E i \in 1..m : \E d \in 1..Returned(i) : Branch(o, st[i], hstack[i].k, d)
    BY <1>m DEF Inside
  <2>4. Inside(r, o)' <=> Inside(st, o)
    <3>1. \A d : d \notin 1..0
      OBVIOUS
    <3> QED
      BY <1>8, <1>9, <1>10, <1>12, <2>1, <2>2, <2>3, <3>1
  <2>5. Len(hstack') # 0 /\ Len(hstack) # 0
    BY <1>3, <1>4, <1>m
  <2> QED
    BY <2>4, <2>5 DEF Covered
<1>14. SeenInv(r)'
  <2>1. \A o : Tried(o)' <=> Tried(o)
    BY <1>2 DEF Tried
  <2> QED
    BY <1>1, <1>2, <1>13, <2>1 DEF SeenInv
<1> QED
  BY <1>4, <1>6, <1>8, <1>11, <1>14 DEF HeapInv

\* A call returns, its inner calls made: it has tried all that it could.
LEMMA HeapReturns ==
  ASSUME CallsInv, hstack # <<>>, hstack' = H!Front(hstack), idx' = idx,
         NEW st \in [1..Len(hstack) -> Order], NEW a \in Order, Trace(st, a),
         H!Top.k = 1 \/ H!Top.calls = H!Top.k
  PROVE  /\ CallsInv'
         /\ \E r \in [1..Len(hstack') -> Order] :
              /\ Trace(r, a)'
              /\ \A b \in Order : Covered(r, b)' <=> Covered(st, b) \/ (H!Top.k = 1 /\ b = a)
         /\ H!Top.k = 1 => ~Covered(st, a)
<1>m. PICK m : m = Len(hstack)
  OBVIOUS
<1>k. PICK k, c, s : k = hstack[m].k /\ c = hstack[m].calls /\ s = st[m]
  OBVIOUS
<1>1. /\ m \in Nat /\ 1 <= m /\ m \in 1..m /\ H!Top.k = k
      /\ k \in Place /\ k \in Nat /\ k >= 1 /\ k = NbInner + 1 - m /\ NbInner \in Nat
      /\ (k = 1 /\ c = 0) \/ (k > 1 /\ c = k)
  BY <1>m, <1>k, TopCall, InnerType
<1>2. CallsInv' /\ Len(hstack') = m - 1 /\ \A i \in 1..m - 1 : hstack'[i] = hstack[i]
  BY <1>m, ReturnShape
<1>r. PICK r : r = [i \in 1..m - 1 |-> st[i]]
  OBVIOUS
<1>3. /\ r \in [1..m - 1 -> Order] /\ s \in Order
      /\ \A i \in 1..m - 1 : r[i] = st[i] /\ i \in 1..m /\ i < m /\ i + 1 \in 1..m /\ i # m
  BY <1>1, <1>m, <1>k, <1>r
<1>4. a = Ended(s, k)
  <2>1. a = IF c = 0 THEN s ELSE Ended(Moved(s, k, c), k - 1)
    BY <1>1, <1>m, <1>k DEF Trace, Now
  <2>2. CASE k = 1 /\ c = 0
    BY <1>3, <2>1, <2>2, StartAndYield
  <2>3. CASE k > 1 /\ c = k
    BY <1>1, <1>3, <2>1, <2>3, MovedEnd
  <2> QED
    BY <1>1, <2>2, <2>3
\* The call that made this one.
<1>5. ASSUME m > 1
      PROVE  LET q == hstack[m - 1] IN
             /\ m - 1 \in 1..m - 1 /\ q.k \in Place /\ q.k - 1 = k /\ q.calls \in 1..q.k /\ q.calls # 0
             /\ st[m - 1] \in Order /\ s = Moved(st[m - 1], q.k, q.calls)
  <2>1. m - 1 \in 1..m - 1 /\ m - 1 \in 1..m /\ m - 1 < m /\ (m - 1) + 1 = m
    BY <1>1, <1>5
  <2>2. hstack[m - 1].k = NbInner + 1 - (m - 1) /\ hstack[m - 1].calls <= hstack[m - 1].k /\ hstack[m - 1].calls >= 1
    BY <1>m, <2>1 DEF CallsInv
  <2>3. s = Moved(st[m - 1], hstack[m - 1].k, hstack[m - 1].calls)
    BY <1>k, <1>m, <2>1 DEF Trace
  <2>4. hstack[m - 1] \in CallType
    BY <1>m, <2>1, ElementOfSeq DEF CallsInv
  <2>5. hstack[m - 1].k \in Place /\ hstack[m - 1].calls \in Nat
    BY <2>4 DEF CallType
  <2>6. hstack[m - 1].k - 1 = k
    BY <1>1, <2>2
  <2>7. hstack[m - 1].calls \in 1..hstack[m - 1].k /\ hstack[m - 1].calls # 0
    BY <2>2, <2>5, InnerType
  <2> QED
    BY <1>m, <2>1, <2>3, <2>5, <2>6, <2>7
<1>6. Trace(r, a)'
  <2>1. m - 1 > 0 => a = Now(r[m - 1], hstack'[m - 1])
    <3> SUFFICES ASSUME m - 1 > 0 PROVE a = Now(r[m - 1], hstack'[m - 1])
      OBVIOUS
    <3>1. m > 1
      BY <1>1
    <3>2. r[m - 1] = st[m - 1] /\ hstack'[m - 1] = hstack[m - 1]
      BY <1>2, <1>3, <1>5, <3>1
    <3>3. Now(st[m - 1], hstack[m - 1]) = Ended(s, k)
      BY <1>5, <3>1 DEF Now
    <3> QED
      BY <1>4, <3>2, <3>3
  <2>2. ASSUME NEW i \in 1..m - 1, i < m - 1
        PROVE  r[i + 1] = Moved(r[i], hstack'[i].k, hstack'[i].calls)
    <3>1. i + 1 \in 1..m - 1
      BY <1>1, <2>2
    <3>2. st[i + 1] = Moved(st[i], hstack[i].k, hstack[i].calls)
      BY <1>3, <1>m DEF Trace
    <3> QED
      BY <1>2, <1>3, <3>1, <3>2
  <2>3. ASSUME NEW i \in 1..m - 1, NEW j \in 1..m - 1, i <= j PROVE Same(r[j], r[i], hstack'[i].k)
    <3>1. Same(st[j], st[i], hstack[i].k)
      BY <1>3, <1>m, <2>3 DEF Trace
    <3> QED
      BY <1>2, <1>3, <3>1
  <2>4. idx' = Tour(a)
    BY DEF Trace
  <2> QED
    BY <1>2, <2>1, <2>2, <2>3, <2>4 DEF Trace
<1> DEFINE Without(b) ==
             \E i \in 1..m - 1 : \E d \in 1..hstack[i].calls - 1 : Branch(b, st[i], hstack[i].k, d)
<1>7. ASSUME NEW b \in Order PROVE Covered(st, b) <=> Without(b) \/ \E d \in 1..c : Branch(b, s, k, d)
  <2>1. \A i \in 1..m : i = m \/ i \in 1..m - 1
    BY <1>1
  <2>2. Returned(m) = c /\ \A i \in 1..m - 1 : Returned(i) = hstack[i].calls - 1
    BY <1>3, <1>m, <1>k DEF Returned
  <2>3. Covered(st, b) <=> \E i \in 1..m : \E d \in 1..Returned(i) : Branch(b, st[i], hstack[i].k, d)
    BY <1>1, <1>m DEF Covered, Inside
  <2> QED
    BY <1>1, <1>3, <1>k, <2>1, <2>2, <2>3
<1>8. ASSUME NEW b \in Order PROVE Covered(r, b)' <=> Without(b) \/ Same(b, s, k)
  <2>1. CASE m = 1
    <3>1. Len(hstack') = 0
      BY <1>2, <2>1
    <3>2. Covered(r, b)'
      BY <3>1 DEF Covered
    <3>3. Same(b, s, k)
      <4>1. k = NbInner
        BY <1>1, <2>1
      <4>2. \A p \in Place : ~(p > k)
        BY <4>1, InnerType
      <4> QED
        BY <4>2 DEF Same
    <3> QED
      BY <3>2, <3>3
  <2>2. CASE m > 1
    <3>q. PICK g, x : g = hstack[m - 1].k /\ x = hstack[m - 1].calls
      OBVIOUS
    <3>1. /\ m - 1 \in 1..m - 1 /\ g \in Place /\ g - 1 = k /\ x \in 1..g /\ st[m - 1] \in Order
          /\ s = Moved(st[m - 1], g, x)
      BY <1>5, <2>2, <3>q
    <3>2. Same(b, s, k) <=> Branch(b, st[m - 1], g, x)
      BY <3>1, BranchChild
    <3>3. \A i \in 1..m - 1 : Returned(i)' = IF i = m - 1 THEN x ELSE hstack[i].calls - 1
      BY <1>2, <3>q DEF Returned
    <3>4. Len(hstack') # 0
      BY <1>1, <1>2, <2>2
    <3>5. Covered(r, b)' <=> \E i \in 1..m - 1 : \E d \in 1..Returned(i)' : Branch(b, st[i], hstack[i].k, d)
      BY <1>2, <1>3, <3>4 DEF Covered, Inside
    <3>6. \A d : d \in 1..x <=> d \in 1..x - 1 \/ d = x
      <4>1. x \in Nat /\ x >= 1
        BY <3>1, InnerType
      <4> QED
        BY <4>1
    <3> QED
      BY <3>1, <3>2, <3>3, <3>5, <3>6, <3>q
  <2> QED
    BY <1>1, <2>1, <2>2
<1> HIDE DEF Without
<1>9. CASE k > 1 /\ c = k
  <2>1. \A b \in Order : Covered(r, b)' <=> Covered(st, b)
    BY <1>1, <1>3, <1>7, <1>8, <1>9, BranchWhole
  <2>2. k # 1
    BY <1>9
  <2> QED
    BY <1>1, <1>2, <1>3, <1>6, <2>1, <2>2
<1>10. CASE k = 1 /\ c = 0
  <2>1. a = s
    BY <1>3, <1>4, <1>10, StartAndYield
  <2>2. ASSUME NEW b \in Order PROVE Same(b, s, k) <=> b = a
    <3>1. Same(b, s, k) => b[1] = s[1]
      <4>1. Same(b, s, k) => \E d \in 1..1 : Branch(b, s, 1, d)
        BY <1>1, <1>3, <1>10, BranchWhole
      <4>2. \A d \in 1..1 : d = 1
        OBVIOUS
      <4> QED
        BY <4>1, <4>2, FromFirst DEF Branch
    <3>2. \A p \in Place : p = 1 \/ p > 1
      BY InnerType
    <3>3. Same(b, s, k) => \A p \in Place : b[p] = s[p]
      BY <1>10, <3>1, <3>2 DEF Same
    <3>4. b = [p \in Place |-> b[p]] /\ s = [p \in Place |-> s[p]]
      BY <1>3 DEF Order
    <3> QED
      BY <2>1, <3>3, <3>4 DEF Same
  <2>3. \A d : d \notin 1..0
    OBVIOUS
  <2>4. \A b \in Order : Covered(r, b)' <=> Covered(st, b) \/ b = a
    BY <1>7, <1>8, <1>10, <2>2, <2>3
  <2>5. ~Without(s)
    <3> SUFFICES ASSUME NEW i \in 1..m - 1, NEW d \in 1..hstack[i].calls - 1, Branch(s, st[i], hstack[i].k, d)
                 PROVE  FALSE
      BY DEF Without
    <3>q. PICK g, x, t : g = hstack[i].k /\ x = hstack[i].calls /\ t = st[i]
      OBVIOUS
    <3>1. i \in 1..m /\ i + 1 \in 1..m /\ i < m /\ t \in Order /\ st[i + 1] \in Order
      BY <1>3, <1>m, <3>q
    <3>2. hstack[i] \in CallType
      BY <1>m, <3>1, ElementOfSeq DEF CallsInv
    <3>3. g \in Place /\ x \in Nat
      BY <3>2, <3>q DEF CallType
    <3>4. g = NbInner + 1 - i /\ x <= g /\ x >= 1 /\ hstack[i + 1].k = NbInner + 1 - (i + 1)
      BY <1>m, <3>1, <3>q DEF CallsInv
    <3>5. x \in 1..g /\ d \in 1..g /\ d # x /\ g \in Int /\ hstack[i + 1].k < g
      <4>1. g \in Nat /\ d \in 1..x - 1
        BY <3>3, <3>q, InnerType
      <4>2. hstack[i + 1].k < g
        BY <1>1, <3>4
      <4> QED
        BY <3>3, <3>4, <4>1, <4>2
    <3>6. Branch(st[i + 1], t, g, x)
      <4>1. st[i + 1] = Moved(t, g, x)
        BY <1>m, <3>1, <3>q DEF Trace
      <4>2. Same(Moved(t, g, x), Moved(t, g, x), g - 1)
        BY DEF Same
      <4> QED
        BY <3>1, <3>3, <3>5, <4>1, <4>2, BranchChild
    <3>7. s[g] = st[i + 1][g]
      <4>1. Same(s, st[i + 1], hstack[i + 1].k)
        <5>1. i + 1 <= m
          BY <1>1, <3>1
        <5> QED
          BY <1>1, <1>m, <1>k, <3>1, <5>1 DEF Trace
      <4> QED
        BY <3>3, <3>5, <4>1 DEF Same
    <3>8. Branch(s, t, g, x)
      BY <3>6, <3>7, <3>q DEF Branch
    <3>9. Branch(s, t, g, d)
      BY <3>q
    <3> QED
      BY <1>3, <3>1, <3>3, <3>5, <3>8, <3>9, BranchWhole
  <2>6. ~Covered(st, a)
    BY <1>3, <1>7, <1>10, <2>1, <2>3, <2>5
  <2> QED
    BY <1>1, <1>2, <1>3, <1>6, <1>10, <2>4, <2>6
<1> QED
  BY <1>1, <1>9, <1>10

\* A journey has a length.
LEMMA LengthType == \A j \in H!Journeys : H!Length(j) \in Nat /\ H!Length(j) < MaxFloat64
<1> SUFFICES ASSUME NEW j \in H!Journeys PROVE H!Length(j) \in Nat
  BY TransactionAssumption DEF H!HaversineAssumption
<1> DEFINE Leg(k) == Distance[j[k], j[k + 1]]
           Is(f, m) == f = [k \in 0..m |-> IF k = 0 THEN 0 ELSE f[k - 1] + Leg(k)]
           Some == {m \in Nat : \E f : Is(f, m)}
           n == NbCities - 1
           w == CHOOSE f : Is(f, n)
           Typed == {m \in Nat : m <= n => w[m] \in Nat}
<1>1. H!Length(j) = w[n]
  BY DEF H!Length
<1>2. n \in Nat /\ NbCities \in Nat /\ NbCities = NbInner + 2 /\ NbInner \in Nat
  BY InnerType
<1>3. ASSUME NEW k \in 1..n PROVE Leg(k) \in Nat
  <2>1. PICK a \in Order : j = Tour(a)
    BY TourType
  <2>2. ASSUME NEW i \in 1..NbCities PROVE j[i] \in H!City
    <3>1. j[i] = IF i \in {1, NbCities} THEN i - 1 ELSE a[i - 1]
      BY <2>1 DEF Tour
    <3>2. CASE i \in {1, NbCities}
      BY <1>2, <3>1, <3>2 DEF H!City
    <3>3. CASE i \notin {1, NbCities}
      <4>1. i - 1 \in Place
        BY <1>2, <3>3, InnerType
      <4>2. a[i - 1] \in Place
        BY <4>1 DEF Order
      <4> QED
        BY <1>2, <3>1, <3>3, <4>2, InnerType DEF H!City
    <3> QED
      BY <3>2, <3>3
  <2>3. k \in 1..NbCities /\ k + 1 \in 1..NbCities
    BY <1>2
  <2>4. Distance \in [H!City \X H!City -> Nat]
    BY TransactionAssumption DEF H!HaversineAssumption
  <2>5. j[k] \in H!City /\ j[k + 1] \in H!City
    BY <2>2, <2>3
  <2> QED
    BY <2>4, <2>5
<1> HIDE DEF Leg
<1>4. 0 \in Some
  <2>1. Is([k \in 0..0 |-> 0], 0)
    OBVIOUS
  <2> HIDE DEF Is
  <2> QED
    BY <2>1
<1>5. ASSUME NEW m \in Nat, m \in Some PROVE m + 1 \in Some
  <2>1. PICK f : Is(f, m)
    BY <1>5
  <2> DEFINE g == [k \in 0..m + 1 |-> IF k = m + 1 THEN f[m] + Leg(m + 1) ELSE f[k]]
  <2>2. ASSUME NEW k \in 0..m + 1 PROVE g[k] = IF k = 0 THEN 0 ELSE g[k - 1] + Leg(k)
    <3>1. \A i \in 0..m : f[i] = IF i = 0 THEN 0 ELSE f[i - 1] + Leg(i)
      BY <2>1
    <3>2. g[m + 1] = f[m] + Leg(m + 1) /\ \A i \in 0..m : g[i] = f[i]
      OBVIOUS
    <3> HIDE DEF g
    <3>3. CASE k = m + 1
      <4>1. k # 0 /\ k - 1 = m /\ m \in 0..m
        BY <3>3
      <4> QED
        BY <3>2, <3>3, <4>1
    <3>4. CASE k \in 0..m
      <4>1. k # 0 => k - 1 \in 0..m
        BY <3>4
      <4> QED
        BY <3>1, <3>2, <3>4, <4>1
    <3> QED
      BY <3>3, <3>4
  <2>3. g = [k \in 0..m + 1 |-> g[k]]
    OBVIOUS
  <2> HIDE DEF g
  <2>4. Is(g, m + 1)
    BY <2>2, <2>3
  <2> HIDE DEF Is
  <2> QED
    BY <2>4
<1>6. \E f : Is(f, n)
  <2> HIDE DEF Is
  <2>1. \A m \in Nat : m \in Some
    <3> HIDE DEF Some
    <3> QED
      BY <1>4, <1>5, NaturalsBySet
  <2> QED
    BY <1>2, <2>1
<1>7. Is(w, n)
  <2> HIDE DEF Is
  <2> QED
    BY <1>6
<1> HIDE DEF w, n
<1>8. \A k \in 0..n : w[k] = IF k = 0 THEN 0 ELSE w[k - 1] + Leg(k)
  BY <1>7
<1>9. 0 \in Typed
  BY <1>2, <1>8
<1>10. ASSUME NEW m \in Nat, m \in Typed PROVE m + 1 \in Typed
  <2> SUFFICES ASSUME m + 1 <= n PROVE w[m + 1] \in Nat
    OBVIOUS
  <2>1. m <= n /\ m + 1 \in 0..n /\ m + 1 \in 1..n /\ m + 1 # 0 /\ (m + 1) - 1 = m
    BY <1>2
  <2>2. w[m] \in Nat /\ Leg(m + 1) \in Nat
    BY <1>3, <1>10, <2>1
  <2> QED
    BY <1>8, <2>1, <2>2
<1>11. n \in Typed
  <2> HIDE DEF Typed
  <2> QED
    BY <1>2, <1>9, <1>10, NaturalsBySet
<1> QED
  BY <1>1, <1>2, <1>11

\* The journey kept is a shortest of those tried.
BestInv ==
  /\ best \in Nat /\ \A x \in 1..Len(seen) : best <= H!Length(seen[x])
  /\ Len(seen) = 0 => best = MaxFloat64
  /\ Len(seen) # 0 => \E x \in 1..Len(seen) : journey = seen[x] /\ best = H!Length(seen[x])

HaversineInv == hpc = "heap" => HeapInv /\ BestInv

\* The loop of a call has ended.
LEMMA HaversineReturn ==
  ASSUME HeapInv, BestInv, H!Return
  PROVE  HeapInv' /\ BestInv'
<1>1. PICK st \in [1..Len(hstack) -> Order], a \in Order : Trace(st, a) /\ SeenInv(st)
  BY DEF HeapInv
<1>2. /\ CallsInv /\ hstack # <<>> /\ hstack' = H!Front(hstack) /\ idx' = idx
      /\ H!Top.calls = H!Top.k /\ H!Top.k # 1 /\ seen' = seen /\ best' = best /\ journey' = journey
  BY TopCall, InnerType DEF HeapInv, H!Return
<1>3. PICK r \in [1..Len(hstack') -> Order] :
        Trace(r, a)' /\ \A b \in Order : Covered(r, b)' <=> Covered(st, b)
  BY <1>1, <1>2, HeapReturns
<1>4. CallsInv'
  BY <1>1, <1>2, HeapReturns
<1>5. SeenInv(r)'
  <2>1. \A b : Tried(b)' <=> Tried(b)
    BY <1>2 DEF Tried
  <2> QED
    BY <1>1, <1>2, <1>3, <2>1 DEF SeenInv
<1>6. BestInv'
  BY <1>2 DEF BestInv
<1> QED
  BY <1>1, <1>3, <1>4, <1>5, <1>6 DEF HeapInv

\* yield: a journey that was not tried.
LEMMA YieldStep ==
  ASSUME HeapInv, BestInv, H!Yield
  PROVE  HeapInv' /\ BestInv'
<1>1. PICK st \in [1..Len(hstack) -> Order], a \in Order : Trace(st, a) /\ SeenInv(st)
  BY DEF HeapInv
<1>2. /\ CallsInv /\ hstack # <<>> /\ hstack' = H!Front(hstack) /\ idx' = idx
      /\ H!Top.k = 1 /\ seen' = Append(seen, idx)
  BY DEF HeapInv, H!Yield
<1>3. PICK r \in [1..Len(hstack') -> Order] :
        Trace(r, a)' /\ \A b \in Order : Covered(r, b)' <=> Covered(st, b) \/ b = a
  BY <1>1, <1>2, HeapReturns
<1>4. CallsInv' /\ ~Covered(st, a)
  BY <1>1, <1>2, HeapReturns
<1>n. PICK n : n = Len(seen)
  OBVIOUS
<1>5. idx = Tour(a) /\ idx \in H!Journeys /\ seen \in Seq(H!Journeys) /\ n \in Nat
  BY <1>1, <1>n, TourType, LenProperties DEF Trace, SeenInv
<1>6. /\ seen' \in Seq(H!Journeys) /\ Len(seen') = n + 1 /\ seen'[n + 1] = Tour(a)
      /\ \A x \in 1..n : seen'[x] = seen[x]
  BY <1>2, <1>5, <1>n, AppendProperties
<1>7. \A x : x \in 1..n + 1 <=> x \in 1..n \/ x = n + 1
  BY <1>5
<1>8. \A b : Tried(b)' <=> Tried(b) \/ Tour(a) = Tour(b)
  BY <1>6, <1>7, <1>n DEF Tried
<1>9. ASSUME NEW b \in Order PROVE Tried(b)' <=> Covered(r, b)'
  BY <1>1, <1>3, <1>8, TourType DEF SeenInv
<1>10. \A x \in 1..n : seen[x] # Tour(a)
  BY <1>1, <1>4, <1>n DEF SeenInv, Tried
<1>11. \A x, y \in 1..n + 1 : seen'[x] = seen'[y] => x = y
  <2>1. \A x, y \in 1..n : seen[x] = seen[y] => x = y
    BY <1>1, <1>n DEF SeenInv
  <2> QED
    BY <1>6, <1>7, <1>10, <2>1
<1>12. SeenInv(r)'
  BY <1>6, <1>9, <1>11 DEF SeenInv
<1>l. PICK l : l = H!Length(Tour(a))
  OBVIOUS
<1>13. /\ l \in Nat /\ l < MaxFloat64
       /\ IF l < best THEN best' = l /\ journey' = Tour(a) ELSE best' = best /\ journey' = journey
  BY <1>2, <1>5, <1>l, LengthType DEF H!Yield
<1>14. best \in Nat /\ (\A x \in 1..n : best <= H!Length(seen[x])) /\ (n = 0 => best = MaxFloat64)
  BY <1>n DEF BestInv
<1>15. \A x \in 1..n : H!Length(seen[x]) \in Nat
  BY <1>5, <1>n, LengthType, ElementOfSeq
<1>16. best' \in Nat /\ \A x \in 1..n + 1 : best' <= H!Length(seen'[x])
  <2>1. best' \in Nat /\ best' <= best /\ best' <= l
    BY <1>13, <1>14
  <2>2. ASSUME NEW x \in 1..n PROVE best' <= H!Length(seen[x])
    BY <1>14, <1>15, <2>1
  <2> QED
    BY <1>6, <1>7, <1>l, <2>1, <2>2
<1>17. \E x \in 1..n + 1 : journey' = seen'[x] /\ best' = H!Length(seen'[x])
  <2>1. CASE l < best
    BY <1>6, <1>7, <1>13, <1>l, <2>1
  <2>2. CASE ~(l < best)
    <3>1. n # 0
      BY <1>13, <1>14, <2>2
    <3>2. PICK x \in 1..n : journey = seen[x] /\ best = H!Length(seen[x])
      BY <1>n, <3>1 DEF BestInv
    <3> QED
      BY <1>6, <1>7, <1>13, <2>2, <3>2
  <2> QED
    BY <2>1, <2>2
<1>18. n + 1 # 0
  BY <1>5
<1>19. BestInv'
  BY <1>6, <1>16, <1>17, <1>18 DEF BestInv
<1> QED
  BY <1>1, <1>3, <1>4, <1>12, <1>19 DEF HeapInv

\* Run calls heap on the cities in their order.
LEMMA HeapBegins ==
  ASSUME H!Run
  PROVE  HeapInv' /\ BestInv'
<1>e. PICK e, f, st : /\ e = [p \in Place |-> p] /\ f = [k |-> NbInner, calls |-> 0]
                      /\ st = [i \in 1..1 |-> e]
  OBVIOUS
<1>1. e \in Order /\ NbInner \in Nat \ {0} /\ NbInner \in Place /\ f \in CallType
  BY <1>e, InnerType DEF Order, CallType
<1>2. hstack' = <<f>> /\ seen' = <<>> /\ best' = MaxFloat64 /\ idx' = H!Default
  BY <1>e DEF H!Run, H!Frame, NbInner
<1>3. hstack' \in Seq(CallType) /\ Len(hstack') = 1 /\ hstack'[1] = f
  BY <1>1, <1>2
<1>4. \A i : i \in 1..1 <=> i = 1
  OBVIOUS
<1>5. H!Default = Tour(e)
  <2>1. ASSUME NEW k \in 1..NbCities PROVE k - 1 = IF k \in {1, NbCities} THEN k - 1 ELSE e[k - 1]
    BY <1>e, InnerType
  <2> QED
    BY <2>1 DEF H!Default, Tour
<1>6. f.k = NbInner /\ f.calls = 0
  BY <1>e
<1>7. CallsInv'
  BY <1>1, <1>3, <1>4, <1>6 DEF CallsInv
<1>8. st \in [1..1 -> Order] /\ st[1] = e
  BY <1>1, <1>e
<1>9. Trace(st, e)'
  <2>1. e = Now(st[1], hstack'[1])
    BY <1>3, <1>6, <1>8 DEF Now
  <2>2. \A i, j \in 1..1 : Same(st[j], st[i], hstack'[i].k)
    BY <1>4 DEF Same
  <2>3. \A i \in 1..1 : ~(i < 1)
    OBVIOUS
  <2> QED
    BY <1>2, <1>3, <1>5, <2>1, <2>2, <2>3 DEF Trace
<1>10. Len(seen') = 0 /\ seen' \in Seq(H!Journeys) /\ \A x : x \notin 1..Len(seen')
  BY <1>2
<1>11. \A b : ~Covered(st, b)'
  <2>1. \A i \in 1..1 : Returned(i)' = 0
    BY <1>3, <1>4, <1>6 DEF Returned
  <2>2. \A d : d \notin 1..0
    OBVIOUS
  <2> QED
    BY <1>3, <2>1, <2>2 DEF Covered, Inside
<1>12. SeenInv(st)'
  BY <1>10, <1>11 DEF SeenInv, Tried
<1>13. MaxFloat64 \in Nat
  BY TransactionAssumption DEF H!HaversineAssumption
<1>14. BestInv'
  BY <1>2, <1>10, <1>13 DEF BestInv
<1> QED
  BY <1>1, <1>3, <1>7, <1>8, <1>9, <1>12, <1>14 DEF HeapInv

LEMMA HaversineStep ==
  ASSUME HaversineInv, H!Step
  PROVE  HaversineInv'
<1>1. CASE H!Run
  BY <1>1, HeapBegins DEF HaversineInv
<1>2. CASE H!Yield
  BY <1>2, YieldStep DEF HaversineInv, H!Yield
<1>3. CASE H!Generate \/ H!SwapAndGenerate
  <2>1. hpc = "heap" /\ seen' = seen /\ best' = best /\ journey' = journey
    BY <1>3 DEF H!Generate, H!SwapAndGenerate
  <2>2. HeapInv' /\ BestInv
    BY <1>3, <2>1, CallStep DEF HaversineInv
  <2>3. BestInv'
    BY <2>1, <2>2 DEF BestInv
  <2> QED
    BY <2>2, <2>3 DEF HaversineInv
<1>4. CASE H!Return
  BY <1>4, HaversineReturn DEF HaversineInv, H!Return
<1>5. CASE H!Format
  BY <1>5 DEF H!Format, HaversineInv
<1> QED
  BY <1>1, <1>2, <1>3, <1>4, <1>5 DEF H!Step

LEMMA HaversineAlone ==
  ASSUME [Next]_vars
  PROVE  H!Step \/ UNCHANGED haversine
<1> USE DEF At, To
<1>1. CASE Haversine
  BY <1>1 DEF Haversine
<1>2. CASE \/ Compression \/ Sorting \/ Documents \/ Btree \/ Queens \/ Memory
           \/ Image \/ Crypto \/ Pearls \/ Elsewhere
  BY <1>2 DEF Compression, Sorting, Documents, Btree, Queens, Memory, Image, Crypto, Pearls, Elsewhere
<1>3. CASE FinishStep \/ Terminated \/ UNCHANGED vars
  BY <1>3 DEF FinishStep, Terminated, vars
<1> QED
  BY <1>1, <1>2, <1>3 DEF Next

\* Heap's algorithm tries every journey between the first city and the last, each once, and the
\* one that is kept is a shortest of them all, for every number of cities and all distances,
\* in every transaction (haversine.go).
THEOREM ShortestFound == Spec => []ShortestOfAll
<1>1. Init => HaversineInv
  BY DEF Init, H!Init, HaversineInv
<1>2. HaversineInv /\ [Next]_vars => HaversineInv'
  <2>1. ASSUME HaversineInv, UNCHANGED haversine PROVE HaversineInv'
    <3>1. UNCHANGED <<idx, journey, best, hstack, seen, hpc>>
      BY <2>1 DEF haversine
    <3> QED
      BY <2>1, <3>1 DEF HaversineInv, HeapInv, BestInv, CallsInv, Trace, SeenInv, Tried, Covered,
                        Inside, Returned
  <2> QED
    BY <2>1, HaversineStep, HaversineAlone
<1>3. HaversineInv => ShortestOfAll
  <2> SUFFICES ASSUME HaversineInv, hpc = "heap", hstack = <<>>
               PROVE  /\ H!Range(seen) = H!Journeys /\ H!IsInjective(seen)
                      /\ \A j \in H!Journeys : H!Length(journey) <= H!Length(j)
                      /\ journey \in H!Journeys
    BY DEF ShortestOfAll, H!ShortestOfAll, H!Done
  <2>1. Len(hstack) = 0 /\ HeapInv /\ BestInv
    BY DEF HaversineInv
  <2>2. PICK st : SeenInv(st)
    BY <2>1 DEF HeapInv
  <2>3. seen \in Seq(H!Journeys) /\ DOMAIN seen = 1..Len(seen) /\ Len(seen) \in Nat
    BY <2>2, LenProperties DEF SeenInv
  <2>4. \A x \in DOMAIN seen : seen[x] \in H!Journeys
    BY <2>3, ElementOfSeq
  <2>5. \A j \in H!Journeys : \E x \in DOMAIN seen : seen[x] = j
    <3> SUFFICES ASSUME NEW a \in Order PROVE \E x \in DOMAIN seen : seen[x] = Tour(a)
      BY TourType
    <3>1. Covered(st, a)
      BY <2>1 DEF Covered
    <3> QED
      BY <2>2, <2>3, <3>1 DEF SeenInv, Tried
  <2>6. H!Range(seen) = H!Journeys
    BY <2>4, <2>5 DEF H!Range
  <2>7. H!IsInjective(seen)
    BY <2>2, <2>3 DEF H!IsInjective, SeenInv
  <2>8. Len(seen) # 0
    <3>1. [p \in Place |-> p] \in Order
      BY DEF Order
    <3>2. H!Journeys # {}
      BY <3>1, TourType
    <3> QED
      BY <2>3, <2>5, <3>2
  <2>9. PICK x \in 1..Len(seen) : journey = seen[x] /\ best = H!Length(journey)
    BY <2>1, <2>8 DEF BestInv
  <2>10. \A j \in H!Journeys : best <= H!Length(j)
    BY <2>1, <2>3, <2>5 DEF BestInv
  <2> QED
    BY <2>3, <2>4, <2>6, <2>7, <2>9, <2>10
<1> QED
  BY <1>1, <1>2, <1>3, PTL DEF Spec

=============================================================================
