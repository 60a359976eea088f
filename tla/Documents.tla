----------------------------- MODULE Documents ------------------------------
(***************************************************************************)
(* The AWK and JSON benchmarks (awk.go, json.go): programs and encoders of *)
(* libraries that write in a buffer of the object, emptied each time.      *)
(* The second AWK program keeps its configuration from call to call, and   *)
(* with it the reader of its input.                                        *)
(***************************************************************************)
EXTENDS Naturals, Sequences

CONSTANTS Excerpt,  \* the lines of the excerpt that the second program filters
          Copies    \* of the persons that a call encodes (64 in the code)

DocumentsAssumption == Excerpt \in Nat /\ Copies \in Nat

VARIABLE b   \* the objects: [pc, res, stdin, buf, i]

\* log.Fatal, when a library returns an error, or a program another status than 0.
Fatal == b' = [b EXCEPT !.pc = "fatal"]

\* NewBenchAwk, NewBenchJson.
Init == b = [pc |-> "idle", res |-> <<>>, stdin |-> 0, buf |-> 0, i |-> 0]

\* Awk test1: a program that draws and reads no input; res is then reset.
Mandelbrot ==
  /\ b.pc = "idle"
  /\ b' = [b EXCEPT !.pc = "drawn", !.res = Append(@, "drawing")] \/ Fatal

Drawn ==
  /\ b.pc = "drawn"
  /\ b' = [b EXCEPT !.pc = "filter", !.res = <<>>]

\* Awk test2: the configuration gets a new reader of the excerpt ...
Rewind ==
  /\ b.pc = "filter"
  /\ b' = [b EXCEPT !.pc = "rewound", !.stdin = Excerpt]

\* ... which the program reads to its end, to sum up the lines it found.
Filter ==
  /\ b.pc = "rewound"
  /\ b' = [b EXCEPT !.pc = "filtered", !.res = Append(@, b.stdin), !.stdin = 0] \/ Fatal

Filtered ==
  /\ b.pc = "filtered"
  /\ b' = [b EXCEPT !.pc = "query", !.res = <<>>]

\* JSON: the answers of the queries are dropped.
Query ==
  /\ b.pc = "query"
  /\ b' = [b EXCEPT !.pc = "encode", !.i = 0]

Encode ==
  /\ b.pc = "encode" /\ b.i < Copies
  /\ b' = [b EXCEPT !.i = @ + 1, !.buf = @ + 1] \/ Fatal

Reset ==
  /\ b.pc = "encode" /\ b.i = Copies
  /\ b' = [b EXCEPT !.pc = "idle", !.buf = 0]

Step == Mandelbrot \/ Drawn \/ Rewind \/ Filter \/ Filtered \/ Query \/ Encode \/ Reset

\* What the calls have made when they are about to reset their buffers.
Product ==
  /\ b.pc = "drawn" => b.res = <<"drawing">>
  /\ b.pc = "filtered" => b.res = <<Excerpt>>
  /\ b.pc = "encode" => b.buf = b.i
=============================================================================
