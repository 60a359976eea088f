-------------------------------- MODULE Main --------------------------------
(***************************************************************************)
(* The process the user starts (main, main.go): its flags select what it   *)
(* does, and its exit status says how it went.  The standard and the OLTP  *)
(* benchmarks display the NUMA nodes, then run benchmark processes; those  *)
(* (flags -run and -runoltp) are modules Saturation and Oltp.              *)
(***************************************************************************)
EXTENDS Integers, Sequences

CONSTANTS
  Nbs, Tpss,                 \* values of the flags -nb and -tps
  WorkerFlags, ThreadFlags,  \* values of -workers and -threads, -1 by default
  NumCPU,                    \* runtime.NumCPU()
  MaxTransactions,           \* bound on the transactions of a process
  Machines,                  \* NUMA nodes
  Width, Unroll, NFREQ       \* of the loop that measures the frequency

\* Four workers by thread, one thread by CPU, unless the flags say otherwise.
Threads(threads) == IF threads = -1 THEN NumCPU ELSE threads
Workers(flag, threads) == IF flag = -1 THEN 4 * Threads(threads) ELSE flag
WorkerCounts == {Workers(flag, threads) : flag \in WorkerFlags, threads \in ThreadFlags}

VARIABLES
  mode,                   \* the flag of the switch
  pc, outcome,            \* in every mode
  nb, i, exits,           \* in both benchmarks
  numa,                   \* in their display of the NUMA nodes
  system,                 \* what the program was built for
  workers, named, child, file, shown, recorded,   \* in stdBench
  phase, submitted, executed, result,             \* in its current process
  tps, offered,           \* in oltpBench
  ax,                     \* in measureFreq
  status                  \* exit status of the process, 256 before it ends

control == <<pc, outcome>>
loop == <<nb, i, exits>>
stdVars == <<system, workers, named, child, file, shown, recorded, phase, submitted, executed, result>>
oltpVars == <<tps, offered>>
vars == <<mode, control, loop, numa, stdVars, oltpVars, ax, status>>

Std == INSTANCE Campaign
Load == INSTANCE Progression
Numa == INSTANCE NumaTopology
Freq == INSTANCE Frequency

ASSUME MainAssumption ==
  Std!CampaignAssumption /\ Load!ProgressionAssumption /\ Freq!FrequencyAssumption /\ Numa!NumaAssumption

StdUnused ==
  /\ workers = 1 /\ named = FALSE /\ child = "none" /\ shown = Std!NotShown
  /\ file = [exists |-> FALSE, records |-> <<>>] /\ recorded = <<>> /\ Std!Process!Init
OltpUnused == tps = 0 /\ offered = <<>>

\* The flags and the variables of the other modes have one value.
Init ==
  /\ status = 256 /\ numa = Numa!Idle /\ system \in Std!Systems
  /\ \/ mode = "bench" /\ Std!Init /\ OltpUnused /\ ax = 0
     \/ mode = "oltp" /\ Load!Init /\ StdUnused /\ ax = 0
     \/ mode = "freq" /\ Freq!Init /\ nb = 0 /\ i = 0 /\ exits = <<>> /\ StdUnused /\ OltpUnused
     \/ /\ mode \in {"version", "usage"} /\ pc = "start" /\ outcome = "" /\ ax = 0
        /\ nb = 0 /\ i = 0 /\ exits = <<>> /\ StdUnused /\ OltpUnused

\* DisplayNumaTopology runs from the entry to "numa" to the step that leaves it.
NumaCalled ==
  CASE pc = "numa"  -> /\ numa.stage = IF outcome' = "panic" THEN "panic" ELSE "returned"
                       /\ numa' = Numa!Idle
    [] pc' = "numa" -> Numa!Start
    [] OTHER        -> UNCHANGED numa

StdBench == mode = "bench" /\ Std!Step /\ NumaCalled /\ UNCHANGED <<mode, oltpVars, ax, status>>
OltpBench == mode = "oltp" /\ Load!Step /\ NumaCalled /\ UNCHANGED <<mode, stdVars, ax, status>>

DisplayNuma ==
  pc = "numa" /\ Numa!Step /\ UNCHANGED <<mode, control, loop, stdVars, oltpVars, ax, status>>

MeasureFreq ==
  mode = "freq" /\ Freq!Step /\ UNCHANGED <<mode, loop, numa, stdVars, oltpVars, status>>

DisplayVersion ==
  /\ mode = "version" /\ pc = "start"
  /\ pc' = "end" /\ outcome' = "nil"
  /\ UNCHANGED <<mode, loop, numa, stdVars, oltpVars, ax, status>>

\* No flag of the switch: os.Exit(-1), of which the system keeps eight bits.
Usage ==
  /\ mode = "usage" /\ status = 256
  /\ status' = (-1) % 256
  /\ UNCHANGED <<mode, control, loop, numa, stdVars, oltpVars, ax>>

\* log.Fatal on an error, os.Exit(0) without one; the runtime exits with 2 on a
\* panic.
Exit ==
  /\ pc = "end" /\ status = 256
  /\ status' = CASE outcome = "nil" -> 0 [] outcome = "error" -> 1 [] outcome = "panic" -> 2
  /\ UNCHANGED <<mode, control, loop, numa, stdVars, oltpVars, ax>>

Terminated == status # 256 /\ UNCHANGED vars

Next ==
  \/ StdBench \/ OltpBench \/ DisplayNuma \/ MeasureFreq
  \/ DisplayVersion \/ Usage \/ Exit \/ Terminated

\* The processes end, and the benchmarks go on.
Spec == Init /\ [][Next]_vars /\ WF_vars(Next)

-----------------------------------------------------------------------------
(* Properties. *)

\* The statistics displayed are those of this campaign's processes, each result
\* in its category (stat.go).
StatisticsFaithful == Std!StatisticsFaithful

\* No temporary file outlives a campaign, but after a failure on Windows, and what
\* is left of a file is what the processes recorded.
FileDisposed == Std!FileDisposed

\* The OLTP load grows evenly from zero, through the throughput of the flag.
EvenProgression == Load!EvenProgression

\* The NUMA nodes displayed are those of the machine when it last answered.
TopologyFaithful == Numa!TopologyFaithful

\* In both benchmarks a process that fails, with or without a line in the results,
\* is the last one: no other is started, no statistics follow, and its failure is
\* the exit status.
FailureReported ==
  \A k \in DOMAIN exits : exits[k] = "failed" =>
    /\ k = Len(exits) /\ child # "running"
    /\ shown = Std!NotShown
    /\ status # 256 => status = 1

\* Every benchmark ends, and the process with it.
Completion == <>(status # 256)
=============================================================================
