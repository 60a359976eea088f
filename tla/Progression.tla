---------------------------- MODULE Progression ----------------------------
(***************************************************************************)
(* The OLTP benchmark: oltpBench (main.go) runs processes one after the    *)
(* other with a growing throughput, and reads the CPU usage after each.    *)
(* Module Oltp describes the inside of a process.                          *)
(***************************************************************************)
EXTENDS Integers, Sequences

CONSTANTS Nbs,  \* values of the -nb flag
          Tpss  \* values of the -tps flag

ProgressionAssumption == Nbs \subseteq Nat /\ Tpss \subseteq Nat

VARIABLES nb, tps,    \* flags -nb and -tps
          pc,         \* control state of oltpBench
          i,          \* its loop variable
          offered,    \* history: the throughput of each iteration
          exits,      \* history: how each process ended, "ok" or "failed"
          outcome     \* how oltpBench ended: "nil", "error" or "panic"

flags == <<nb, tps>>

\* Iterations beyond nb, to saturate the CPU.
Extra == 4

TypeOK ==
  /\ nb \in Nbs /\ tps \in Tpss
  /\ pc \in {"start", "numa", "load", "measure", "end"}
  /\ i \in 0..nb + Extra
  /\ offered \in Seq(Nat) /\ exits \in Seq({"ok", "failed"})
  /\ outcome \in {"", "nil", "error", "panic"}

Init ==
  /\ nb \in Nbs /\ tps \in Tpss
  /\ pc = "start" /\ i = 0 /\ offered = <<>> /\ exits = <<>> /\ outcome = ""

End(how) == pc' = "end" /\ outcome' = how

\* displayCPU, whose error is not returned and which panics when the list of CPUs
\* is empty; its last call is DisplayNumaTopology ...
Begin ==
  /\ pc = "start"
  /\ \/ pc' = "numa" /\ UNCHANGED outcome
     \/ \E how \in {"nil", "panic"} : End(how)
  /\ UNCHANGED <<flags, i, offered, exits>>

\* ... which returns nothing, or panics; the initial cpu.Percent follows.
NumaDisplayed ==
  /\ pc = "numa"
  /\ \/ pc' = "load" /\ UNCHANGED outcome
     \/ \E how \in {"error", "panic"} : End(how)
  /\ UNCHANGED <<flags, i, offered, exits>>

\* Mutant: the increment is rounded before it is multiplied.
ThroughputRounded(it) == it * (tps \div nb)

\* The -tps argument of iteration it.
Throughput(it) == (it * tps) \div nb

\* Iteration 0 sleeps: the CPU usage of an idle machine.
Idle ==
  /\ pc = "load" /\ i = 0
  /\ offered' = Append(offered, 0)
  /\ pc' = "measure"
  /\ UNCHANGED <<flags, i, exits, outcome>>

\* spawnOLTP(i): the process runs to its end or fails; without an executable
\* path nothing runs and nil is returned.  Zero iterations divide by zero.
SpawnOLTP ==
  /\ pc = "load" /\ i \in 1..nb + Extra - 1
  /\ IF nb = 0
       THEN End("panic") /\ UNCHANGED <<offered, exits>>
       ELSE \/ /\ pc' = "measure" /\ UNCHANGED outcome
               /\ offered' = Append(offered, Throughput(i)) /\ exits' = Append(exits, "ok")
            \/ pc' = "measure" /\ UNCHANGED <<offered, exits, outcome>>
            \/ End("error") /\ exits' = Append(exits, "failed") /\ UNCHANGED offered
  /\ UNCHANGED <<flags, i>>

\* cpu.Percent gives the usage since the previous call.
Measure ==
  /\ pc = "measure"
  /\ \/ pc' = "load" /\ i' = i + 1 /\ UNCHANGED outcome
     \/ End("error") /\ UNCHANGED i
  /\ UNCHANGED <<flags, offered, exits>>

Return == pc = "load" /\ i = nb + Extra /\ End("nil") /\ UNCHANGED <<flags, i, offered, exits>>

Step == Begin \/ NumaDisplayed \/ Idle \/ SpawnOLTP \/ Measure \/ Return

-----------------------------------------------------------------------------
(* Properties. *)

Complete == Len(offered) = nb + Extra

\* The load starts from an idle machine and grows by equal increments, but for
\* the rounding, and meets the target of the flag exactly at iteration nb.
EvenProgression ==
  /\ \A k \in 1..Len(offered) - 1 : offered[k] <= offered[k + 1]
  /\ Complete =>
       /\ offered[1] = 0 /\ offered[nb + 1] = tps
       /\ \A k \in 1..Len(offered) - 1 :
            (offered[k + 1] - offered[k]) * nb \in tps - nb + 1 .. tps + nb - 1
=============================================================================
