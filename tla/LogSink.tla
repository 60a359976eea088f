------------------------------ MODULE LogSink -------------------------------
(***************************************************************************)
(* What BenchLogging.Run (logging.go) promises whatever its goroutines do: *)
(* each call writes the lines of its script one after the other in an      *)
(* output emptied first, counts each line once, and returns when all of    *)
(* them are written and counted.                                           *)
(***************************************************************************)
EXTENDS Naturals, Sequences, FiniteSets, SequencesExt

CONSTANT Script   \* the entries one Run logs, in order

VARIABLES output,  \* the lines written
          stats,   \* the lines of each severity counted by all the calls
          busy,    \* a call is writing
          pending, \* the last line is written and not yet counted
          runs     \* calls that returned

vars == <<output, stats, busy, pending, runs>>

\* Entry k begins or ends a group of equal adjacent entries; its number there.
Begins(k) == k = 1 \/ Script[k - 1] # Script[k]
Ends(k) == k = Len(Script) \/ Script[k + 1] # Script[k]
Number(k) == Cardinality({j \in 1..k : \A h \in j..k : Script[h] = Script[k]})

\* The lines of a call: for each group the entry, its card hidden, then, if it was
\* repeated, one line with its number and no message.
Once(lines, k) ==
  IF Begins(k)
    THEN Append(lines, [t |-> Len(lines) + 1, entry |-> Script[k], rep |-> 0, hidden |-> Script[k].card])
    ELSE lines
Again(lines, k) ==
  IF Ends(k) /\ Number(k) > 1
    THEN Append(lines, [t |-> Len(lines) + 1, entry |-> Script[k], rep |-> Number(k), hidden |-> FALSE])
    ELSE lines

LinesTo[k \in 0..Len(Script)] == IF k = 0 THEN <<>> ELSE Again(Once(LinesTo[k - 1], k), k)

Expected == LinesTo[Len(Script)]

Init ==
  /\ output = <<>> /\ busy = FALSE /\ pending = FALSE /\ runs = 0
  /\ stats = [s \in {Script[k].sev : k \in DOMAIN Script} |-> 0]

Begin ==
  /\ ~busy
  /\ busy' = TRUE /\ output' = <<>>
  /\ UNCHANGED <<stats, pending, runs>>

Emit ==
  /\ busy /\ ~pending /\ Len(output) < Len(Expected)
  /\ output' = Append(output, Expected[Len(output) + 1])
  /\ pending' = TRUE
  /\ UNCHANGED <<stats, busy, runs>>

Count ==
  /\ pending
  /\ stats' = [stats EXCEPT ![Last(output).entry.sev] = @ + 1]
  /\ pending' = FALSE
  /\ UNCHANGED <<output, busy, runs>>

Return ==
  /\ busy /\ ~pending /\ Len(output) = Len(Expected)
  /\ busy' = FALSE /\ runs' = runs + 1
  /\ UNCHANGED <<output, stats, pending>>

Next == Begin \/ Emit \/ Count \/ Return

Spec == Init /\ [][Next]_vars
=============================================================================
