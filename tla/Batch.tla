------------------------------- MODULE Batch -------------------------------
(***************************************************************************)
(* What one benchmark process promises, whatever its injection policy      *)
(* (runBench, main.go): transactions are submitted during a measured       *)
(* window, every submitted transaction is executed exactly once, and the   *)
(* number reported is the number of transactions submitted.  Workers,      *)
(* channels and the timer are absent.                                      *)
(***************************************************************************)
EXTENDS Naturals

VARIABLES phase,      \* "setup", "open", "closed" or "reported"
          submitted,  \* transactions handed to the workers
          executed,   \* transactions completed by the workers
          result      \* the count from which the throughput is computed

batchVars == <<phase, submitted, executed, result>>

Init == phase = "setup" /\ submitted = 0 /\ executed = 0 /\ result = 0

\* The window opens once the workers are ready.
Open == phase = "setup" /\ phase' = "open" /\ UNCHANGED <<submitted, executed, result>>

\* Transactions enter only while the window is open ...
Submit == /\ phase = "open"
          /\ submitted' = submitted + 1
          /\ UNCHANGED <<phase, executed, result>>

\* ... and are executed then or later, one by one.
Execute == /\ phase \in {"open", "closed"}
           /\ executed < submitted
           /\ executed' = executed + 1
           /\ UNCHANGED <<phase, submitted, result>>

Close == phase = "open" /\ phase' = "closed" /\ UNCHANGED <<submitted, executed, result>>

\* The report counts exactly what was submitted, all of it executed.
Report == /\ phase = "closed"
          /\ executed = submitted
          /\ phase' = "reported"
          /\ result' = submitted
          /\ UNCHANGED <<submitted, executed>>

Next == Open \/ Submit \/ Execute \/ Close \/ Report

Spec == Init /\ [][Next]_batchVars
=============================================================================
