----------------------------- MODULE Frequency -----------------------------
(***************************************************************************)
(* The measure of the CPU frequency: measureFreq (main.go) runs the        *)
(* assembly loop CountASM (freq_amd64.s) twice, once to warm the CPU and   *)
(* once between two readings of the clock.  The duration is left out.      *)
(***************************************************************************)
EXTENDS Naturals

CONSTANTS Width,   \* bits of the register the loop counts in, 64 in the code
          Unroll,  \* instructions of the loop's body, 1024 in the code
          NFREQ    \* the argument of CountASM, 2^34 in the code

FrequencyAssumption == Width \in Nat \ {0} /\ Unroll \in Nat \ {0} /\ NFREQ \in 1..2^Width - 1

VARIABLES pc,      \* control state: "start", "warm", "measure", "end"
          ax,      \* the register of CountASM
          outcome  \* how measureFreq ended

Init == pc = "start" /\ ax = 0 /\ outcome = ""

WarmUp == pc = "start" /\ pc' = "warm" /\ ax' = NFREQ /\ UNCHANGED outcome

\* One turn of the loop: each instruction of the body subtracts one, and only
\* then is the register compared with zero.
Count ==
  /\ pc \in {"warm", "measure"}
  /\ LET left == (ax + 2^Width - (Unroll % 2^Width)) % 2^Width
     IN  CASE left # 0      -> ax' = left /\ UNCHANGED <<pc, outcome>>
           [] pc = "warm"   -> ax' = NFREQ /\ pc' = "measure" /\ UNCHANGED outcome
           [] pc = "measure" -> ax' = 0 /\ pc' = "end" /\ outcome' = "nil"

Step == WarmUp \/ Count
=============================================================================
