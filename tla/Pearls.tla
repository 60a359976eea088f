------------------------------- MODULE Pearls -------------------------------
(***************************************************************************)
(* Dijkstra's pearls (pearls.go): a string of beads of three colours with  *)
(* no two adjacent identical sequences, built by adding a bead or          *)
(* backtracking.  check looks at the end of the string only.  The          *)
(* recursion of addPearls is a loop: every call to itself is the last      *)
(* thing it does.                                                          *)
(***************************************************************************)
EXTENDS Integers, Sequences, SequencesExt, FiniteSets, FiniteSetsExt

CONSTANTS PEARLS_N,   \* beads added, backtracks not counted (500 in the code)
          Expected    \* length that Run requires (451 in the code)

PearlsAssumption == PEARLS_N \in Nat /\ Expected \in Nat

Color == 0..2

VARIABLES buf,    \* b.buf
          iter,   \* b.iter
          pc,     \* "idle", "add", "try", "backtrack" or "fatal"
          color   \* loop variable of addPearls

vars == <<buf, iter, pc, color>>

TypeOK ==
  /\ buf \in Seq(Color)
  /\ iter \in -2..PEARLS_N
  /\ pc \in {"idle", "add", "try", "backtrack", "fatal"}
  /\ color \in Color

\* NewBenchPearls.
Init == buf = <<>> /\ iter = PEARLS_N /\ pc = "idle" /\ color = 0

\* Run is called.
Run ==
  /\ pc = "idle"
  /\ buf' = <<>> /\ iter' = PEARLS_N /\ pc' = "add"
  /\ UNCHANGED color

\* checkSub: the sequence of h beads that ends s differs from the h before it.
EndDiffers(s, h) == \E k \in 1..h : s[Len(s) - h - h + k] # s[Len(s) - h + k]

\* Mutant: the longest sequence is not looked at.
CheckShort(s) == \A h \in 1..Len(s) \div 2 - 1 : EndDiffers(s, h)

\* check: no square ends s.
Check(s) == \A h \in 1..Len(s) \div 2 : EndDiffers(s, h)

\* The last call returns to Run, which checks the length.
Returned == IF Len(buf) = Expected THEN "idle" ELSE "fatal"

\* addPearls begins, or returns.
AddPearls ==
  /\ pc = "add"
  /\ iter' = iter - 1
  /\ pc' = IF iter < 0 THEN Returned ELSE "try"
  /\ color' = 0
  /\ UNCHANGED buf

\* A turn of its loop on the colours: a bead is added, and kept if it fits.
Try ==
  /\ pc = "try"
  /\ IF Check(Append(buf, color))
       THEN buf' = Append(buf, color) /\ pc' = "add" /\ UNCHANGED color
       ELSE /\ IF color < 2 THEN color' = color + 1 /\ UNCHANGED pc
               ELSE pc' = "backtrack" /\ UNCHANGED color
            /\ UNCHANGED buf
  /\ UNCHANGED iter

\* backtrack: the beads of the last colour are removed, and the one before them
\* takes the next colour.
Pivot == Max({k \in DOMAIN buf : buf[k] # 2})
Backtracked == Append(SubSeq(buf, 1, Pivot - 1), buf[Pivot] + 1)

\* Mutant: the last bead is removed, and its colour tried again.
BacktrackSame ==
  /\ pc = "backtrack"
  /\ buf' = Front(buf) /\ pc' = "add"
  /\ UNCHANGED <<iter, color>>

\* A turn of the loop that backtracks until the string is valid.  A string whose
\* beads are all of the last colour is emptied, and an index is out of range.
Backtrack ==
  /\ pc = "backtrack"
  /\ IF \E k \in DOMAIN buf : buf[k] # 2
       THEN buf' = Backtracked /\ pc' = IF Check(buf') THEN "add" ELSE "backtrack"
       ELSE buf' = <<>> /\ pc' = "fatal"
  /\ UNCHANGED <<iter, color>>

Step == Run \/ AddPearls \/ Try \/ Backtrack

-----------------------------------------------------------------------------
(* Properties. *)

\* No two adjacent sequences of h beads, the second from bead k + 1, are equal.
SquareFree(s) ==
  \A k \in DOMAIN s : \A h \in 1..(IF k < Len(s) - k THEN k ELSE Len(s) - k) :
    \E j \in 1..h : s[k - h + j] # s[k + j]

\* Whenever addPearls begins, the whole string is valid, though only its end was
\* ever checked.
StringValid == pc = "add" => SquareFree(buf)

\* Where s and r first differ, s has the next colour; or s goes on after r.
After(s, r) ==
  \/ IsStrictPrefix(r, s)
  \/ \E k \in DOMAIN s \cap DOMAIN r : SubSeq(s, 1, k - 1) = SubSeq(r, 1, k - 1) /\ s[k] > r[k]

\* No string is ever tried twice: the strings come in the order of a dictionary,
\* until the last, or a panic when there is none left.
SearchAdvances == [][pc # "idle" /\ pc' # "fatal" /\ buf' # buf => After(buf', buf)]_vars
=============================================================================
