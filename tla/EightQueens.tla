---------------------------- MODULE EightQueens -----------------------------
(***************************************************************************)
(* The eight queens benchmark (eightqueens.go).  rowIterate puts a queen   *)
(* on each row in turn and calls itself for the next one: its calls are    *)
(* the frames of a stack.  A chessboard is the set of its marked squares.  *)
(***************************************************************************)
EXTENDS Integers, Sequences, SequencesExt, FiniteSets

CONSTANTS Size,     \* 8 in the code
          Runs,     \* 4 in the code
          Expected  \* solutions that Run requires: 92 for Size = 8

QueensAssumption == Size \in Nat \ {0} /\ Runs \in Nat \ {0} /\ Expected \in Nat

Line == 0..Size - 1
Square == Line \X Line

VARIABLES res,    \* b.res
          stack,  \* calls of rowIterate, the last one last
          turn,   \* loop variable of Run
          pc      \* "idle", "rows" or "fatal"

\* Mutant: the loop begins at the second column.
FrameOne(c, mask) == [c |-> c, mask |-> mask, y |-> 1]

\* A call of rowIterate, whose loop is at column y.  Its x is its depth.
Frame(c, mask) == [c |-> c, mask |-> mask, y |-> 0]

First == <<Frame({}, {})>>

Top == Last(stack)
X == Len(stack) - 1

TypeOK ==
  /\ \A c \in Range(res) : c \subseteq Square
  /\ stack \in Seq([c : SUBSET Square, mask : SUBSET Square, y : 0..Size])
  /\ turn \in 0..Runs
  /\ pc \in {"idle", "rows", "fatal"}

\* NewBench8Queens.
Init == res = <<>> /\ stack = <<>> /\ turn = 0 /\ pc = "idle"

\* Run is called.
Run ==
  /\ pc = "idle"
  /\ turn' = 0 /\ stack' = First /\ pc' = "rows"
  /\ UNCHANGED res

\* setxylines: the row, the column and the four half diagonals, on the board.
XYLines(x, y) ==
  {p \in Square : \E i \in Line :
     p \in {<<x, i>>, <<i, y>>, <<x + i, y + i>>, <<x + i, y - i>>, <<x - i, y + i>>, <<x - i, y - i>>}}

\* A square that is free: the queen is put there, on copies of the boards, and
\* rowIterate calls itself.
Place ==
  /\ pc = "rows" /\ stack # <<>> /\ X < Size /\ Top.y < Size
  /\ <<X, Top.y>> \notin Top.mask
  /\ stack' = Append([stack EXCEPT ![Len(stack)].y = @ + 1],
                     Frame(Top.c \cup {<<X, Top.y>>}, Top.mask \cup XYLines(X, Top.y)))
  /\ UNCHANGED <<res, turn, pc>>

\* A square that is marked: the next one.
Skip ==
  /\ pc = "rows" /\ stack # <<>> /\ X < Size /\ Top.y < Size
  /\ <<X, Top.y>> \in Top.mask
  /\ stack' = [stack EXCEPT ![Len(stack)].y = @ + 1]
  /\ UNCHANGED <<res, turn, pc>>

\* The loop ends and the call returns.
Return ==
  /\ pc = "rows" /\ stack # <<>> /\ X < Size /\ Top.y = Size
  /\ stack' = Front(stack)
  /\ UNCHANGED <<res, turn, pc>>

\* Every row has its queen.
Solve ==
  /\ pc = "rows" /\ stack # <<>> /\ X = Size
  /\ res' = Append(res, Top.c)
  /\ stack' = Front(stack)
  /\ UNCHANGED <<turn, pc>>

\* The first call returned to Run, which checks the number of solutions.
EndTurn ==
  /\ pc = "rows" /\ stack = <<>>
  /\ IF Len(res) # Expected THEN pc' = "fatal" /\ UNCHANGED <<res, stack, turn>>
     ELSE /\ turn' = turn + 1
          /\ IF turn' = Runs THEN pc' = "idle" /\ UNCHANGED stack
             ELSE stack' = First /\ UNCHANGED pc
          /\ res' = <<>>

Step == Run \/ Place \/ Skip \/ Return \/ Solve \/ EndTurn

-----------------------------------------------------------------------------
(* Properties. *)

\* Two queens attack each other, from the rules of the game.
Attack(p, q) ==
  p # q /\ (p[1] = q[1] \/ p[2] = q[2] \/ p[1] - q[1] \in {p[2] - q[2], q[2] - p[2]})

\* Placements of one queen on each row and column where none attacks another.
Solutions ==
  {c \in {{<<x, column[x]>> : x \in Line} : column \in Injection(Line, Line)} :
     \A p, q \in c : ~Attack(p, q)}

\* When the first call returns, each solution was found, once and nothing else.
AllFoundOnce ==
  pc = "rows" /\ stack = <<>> => Range(res) = Solutions /\ IsInjective(res)
=============================================================================
