------------------------------ MODULE Campaign ------------------------------
(***************************************************************************)
(* The standard benchmark: stdBench (main.go) runs one benchmark process   *)
(* after the other, single-threaded ones then multi-threaded ones.  Each   *)
(* appends its throughput to a results file (AppendResult, stat.go), from  *)
(* which statistics are displayed at the end (DisplayResult).              *)
(*                                                                         *)
(* A benchmark process behaves as module Batch promises, which modules     *)
(* Saturation and Oltp are shown to implement; its throughput is the       *)
(* number of transactions it reports, the duration being the same for all. *)
(***************************************************************************)
EXTENDS Naturals, Sequences, SequencesExt, FiniteSetsExt

CONSTANTS Nbs,             \* values of the -nb flag
          WorkerCounts,    \* values of the -workers flag
          MaxTransactions  \* bound on the transactions of one process

CampaignAssumption ==
  /\ Nbs \subseteq Nat /\ WorkerCounts \subseteq Nat \ {0}
  /\ MaxTransactions \in Nat

VARIABLES
  system,       \* what the program was built for
  nb, workers,  \* flags -nb and -workers
  named,        \* flag -res names the results file
  pc,           \* control state of stdBench
  i,            \* its loop variable
  child,        \* what became of the current process
  phase, submitted, executed, result,  \* inside the process, see Batch
  file,         \* the results file: [exists, records]
  shown,        \* the statistics displayed: [single, multi], once displayed
  outcome,      \* how stdBench ended: "nil", "error" or "panic"
  recorded,     \* history: the results appended, in order, with their loop
  exits         \* history: how each process ended, "ok" or "failed"

Process == INSTANCE Batch

Systems == {"windows", "unix"}

inside == <<phase, submitted, executed, result>>
flags == <<system, nb, workers, named>>
vars == <<flags, pc, i, child, inside, file, shown, outcome, recorded, exits>>

Record == [workers : WorkerCounts \cup {1}, value : Nat]
NotShown == [single |-> <<>>, multi |-> <<>>]

TypeOK ==
  /\ system \in Systems
  /\ nb \in Nbs /\ workers \in WorkerCounts /\ named \in BOOLEAN
  /\ pc \in {"start", "numa", "create", "single", "multi", "display", "end"}
  /\ i \in 0..nb
  /\ child \in {"none", "running", "ok", "failed"}
  /\ submitted \in 0..MaxTransactions
  /\ file.exists \in BOOLEAN /\ file.records \in Seq(Record)
  /\ outcome \in {"", "nil", "error", "panic"}
  /\ exits \in Seq({"ok", "failed"})

\* A named file may hold the result of an earlier campaign, better than any of
\* this one's.
Init ==
  /\ system \in Systems
  /\ nb \in Nbs /\ workers \in WorkerCounts /\ named \in BOOLEAN
  /\ pc = "start" /\ i = 0 /\ child = "none" /\ Process!Init
  /\ \/ file = [exists |-> FALSE, records |-> <<>>]
     \/ /\ named
        /\ file = [exists |-> TRUE,
                   records |-> <<[workers |-> workers, value |-> MaxTransactions + 1]>>]
  /\ shown = NotShown /\ outcome = "" /\ recorded = <<>> /\ exits = <<>>

-----------------------------------------------------------------------------
\* Mutant: the temporary file is removed at the end of the function's body only.
EndWithLeak(how) ==
  /\ pc' = "end" /\ outcome' = how
  /\ file' = IF named \/ how # "nil" THEN file ELSE [exists |-> FALSE, records |-> <<>>]

\* stdBench returns; the deferred os.Remove of a temporary file runs on every
\* path, a panic included.  Only the path to the nil return closes the file first;
\* Windows does not remove a file that is open, and the error is dropped.
EndWith(how) ==
  LET open == how # "nil" IN
  /\ pc' = "end" /\ outcome' = how
  /\ file' = IF named \/ (open /\ system = "windows")
               THEN file ELSE [exists |-> FALSE, records |-> <<>>]

\* displayCPU: an error ends the campaign without being returned; an empty list
\* of CPUs is indexed.  Its last call is DisplayNumaTopology ...
DisplayCPU ==
  /\ pc = "start"
  /\ \/ pc' = "numa" /\ UNCHANGED outcome
     \/ \E how \in {"nil", "panic"} : pc' = "end" /\ outcome' = how
  /\ UNCHANGED <<flags, i, child, inside, file, shown, recorded, exits>>

\* ... which returns nothing, or panics.
NumaDisplayed ==
  /\ pc = "numa"
  /\ \/ pc' = "create" /\ UNCHANGED outcome
     \/ pc' = "end" /\ outcome' = "panic"
  /\ UNCHANGED <<flags, i, child, inside, file, shown, recorded, exits>>

\* os.Create empties the named file; os.CreateTemp makes a new one.
CreateFile ==
  /\ pc = "create"
  /\ \/ /\ pc' = "single"
        /\ file' = [exists |-> TRUE, records |-> <<>>]
        /\ UNCHANGED outcome
     \/ pc' = "end" /\ outcome' = "error" /\ UNCHANGED file
  /\ UNCHANGED <<flags, i, child, inside, shown, recorded, exits>>

ChildWorkers == IF pc = "single" THEN 1 ELSE workers

\* spawnBench starts a process and waits for it, or returns nil at once when
\* the path of the executable is unknown.
SpawnBench ==
  /\ pc \in {"single", "multi"} /\ i < nb /\ child = "none"
  /\ child' \in {"running", "ok"}
  /\ UNCHANGED <<flags, pc, i, inside, file, shown, outcome, recorded, exits>>

\* A step of the process.
Run ==
  /\ child = "running"
  /\ Process!Next /\ submitted' <= MaxTransactions
  /\ UNCHANGED <<flags, pc, i, child, file, shown, outcome, recorded, exits>>

\* The process is no more.
Gone == phase' = "setup" /\ submitted' = 0 /\ executed' = 0 /\ result' = 0

\* Once it has counted its transactions, its line is appended to the file; the
\* process may still fail ...
AppendResult ==
  /\ child = "running" /\ phase = "reported"
  /\ file' = [exists |-> TRUE,
              records |-> Append(file.records, [workers |-> ChildWorkers, value |-> result])]
  /\ recorded' = Append(recorded, [loop |-> pc, value |-> submitted])
  /\ child' \in {"ok", "failed"} /\ Gone
  /\ exits' = Append(exits, child')
  /\ UNCHANGED <<flags, pc, i, shown, outcome>>

\* ... or cannot be, which the process logs before it exits normally ...
AppendLost ==
  /\ child = "running" /\ phase = "reported"
  /\ child' = "ok" /\ Gone
  /\ exits' = Append(exits, "ok")
  /\ UNCHANGED <<flags, pc, i, file, shown, outcome, recorded>>

\* ... or the process fails without a line.
ChildFails ==
  /\ child = "running"
  /\ child' = "failed" /\ Gone
  /\ exits' = Append(exits, "failed")
  /\ UNCHANGED <<flags, pc, i, file, shown, outcome, recorded>>

\* Mutant: the error of spawnBench is dropped.
ChildDoneAny ==
  /\ pc \in {"single", "multi"} /\ child \in {"ok", "failed"}
  /\ child' = "none"
  /\ i' = i + 1
  /\ UNCHANGED <<flags, pc, inside, file, shown, outcome, recorded, exits>>

\* The loops of stdBench go on to the next process ...
ChildDone ==
  /\ pc \in {"single", "multi"} /\ child = "ok"
  /\ child' = "none"
  /\ i' = i + 1
  /\ UNCHANGED <<flags, pc, inside, file, shown, outcome, recorded, exits>>

\* ... and from the first loop to the second, from the second to the display ...
NextPhase ==
  /\ pc \in {"single", "multi"} /\ i = nb
  /\ i' = 0
  /\ pc' = IF pc = "single" THEN "multi" ELSE "display"
  /\ UNCHANGED <<flags, child, inside, file, shown, outcome, recorded, exits>>

\* ... or stop at the first error.
ReturnError ==
  /\ child = "failed" /\ pc # "end"
  /\ EndWith("error")
  /\ UNCHANGED <<flags, i, child, inside, shown, recorded, exits>>

\* readResult: the throughputs of the records with w workers, m[w].
Category(w) ==
  LET m[k \in 0..Len(file.records)] ==
        IF k = 0 THEN <<>>
        ELSE IF file.records[k].workers = w THEN Append(m[k - 1], file.records[k].value)
        ELSE m[k - 1]
  IN  m[Len(file.records)]

\* average: the sum and the number of the values; geoMean: the same of the
\* logarithms, that is the product of the values, or no number when one is zero.
average(r) == [sum |-> FoldLeft(LAMBDA x, y : x + y, 0, r), of |-> Len(r)]
geoMean(r) ==
  IF \E k \in DOMAIN r : r[k] <= 0 THEN [nan |-> TRUE]
  ELSE [product |-> FoldLeft(LAMBDA x, y : x * y, 1, r), of |-> Len(r)]

\* Twice the median of a sorted list, whose first element is number 1 here.
TwiceMedian(r) ==
  LET half == Len(r) \div 2
  IN  IF Len(r) % 2 = 0 THEN r[half] + r[half + 1] ELSE 2 * r[half + 1]

\* sort.Float64s: the value of rank n comes n-th, equal ones in their order.
Rank(values, k) ==
  Cardinality({x \in DOMAIN values : values[x] < values[k] \/ (values[x] = values[k] /\ x <= k)})
Sorted[values \in Seq(Nat)] ==
  [n \in DOMAIN values |-> values[CHOOSE k \in DOMAIN values : Rank(values, k) = n]]

\* What is displayed of the sorted list.
Statistics[r \in Seq(Nat)] ==
  [min |-> r[1], max |-> r[Len(r)], twiceMedian |-> TwiceMedian(r),
   average |-> average(r), geo |-> geoMean(r)]

\* Mutant: the two values in the middle of an even number are those above it.
displayStatAbove(values) ==
  LET r == Sorted[values]
      half == Len(r) \div 2
  IN  IF Len(r) % 2 = 0 /\ Len(r) > 2
        THEN [Statistics[r] EXCEPT !.twiceMedian = r[half + 1] + r[half + 2]] ELSE Statistics[r]

displayStat(values) == Statistics[Sorted[values]]

\* DisplayResult: displayStat reads r[0] of each category in turn.  The error of
\* a file that cannot be read is returned, and stdBench does not look at it.
DisplayResult ==
  /\ pc = "display"
  /\ \/ /\ Category(1) # <<>> /\ Category(workers) # <<>>
        /\ shown' = [single |-> displayStat(Category(1)), multi |-> displayStat(Category(workers))]
        /\ EndWith("nil")
     \/ /\ Category(1) = <<>> /\ UNCHANGED shown
        /\ EndWith("panic")
     \/ /\ Category(1) # <<>> /\ Category(workers) = <<>>
        /\ shown' = [NotShown EXCEPT !.single = displayStat(Category(1))]
        /\ EndWith("panic")
     \/ EndWith("nil") /\ UNCHANGED shown
  /\ UNCHANGED <<flags, i, child, inside, recorded, exits>>

Terminated == pc = "end" /\ UNCHANGED vars

Step ==
  \/ DisplayCPU \/ NumaDisplayed \/ CreateFile
  \/ SpawnBench \/ Run \/ AppendResult \/ AppendLost \/ ChildFails
  \/ ChildDone \/ NextPhase \/ ReturnError
  \/ DisplayResult

Next == Step \/ Terminated

Spec == Init /\ [][Next]_vars

-----------------------------------------------------------------------------
(* Properties. *)

\* What the processes of the given loops measured and could record.
Measured(loops) ==
  [k \in {x \in DOMAIN recorded : recorded[x].loop \in loops} |-> recorded[k].value]

\* The k-th smallest value of a list is x: fewer than k values are below it, and
\* at least k are not above it.
IsSmallest(k, values, x) ==
  /\ Cardinality({y \in DOMAIN values : values[y] < x}) < k
  /\ Cardinality({y \in DOMAIN values : values[y] <= x}) >= k

\* The statistics of a list, by order statistics and sums: the median is half way
\* between the middle value counted from below and the one counted from above.
AreStatistics(s, values) ==
  LET n == Cardinality(DOMAIN values)
      some == Range(values)
      total == MapThenSumSet(LAMBDA k : values[k], DOMAIN values)
      product == FoldFunction(LAMBDA x, y : x * y, 1, values)
  IN  /\ n > 0
      /\ IsSmallest(1, values, s.min) /\ IsSmallest(n, values, s.max)
      /\ \E low, high \in some :
           /\ IsSmallest((n + 1) \div 2, values, low)
           /\ IsSmallest(n + 1 - ((n + 1) \div 2), values, high)
           /\ s.twiceMedian = low + high
      /\ s.average = [sum |-> total, of |-> n]
      /\ s.geo = IF 0 \in some THEN [nan |-> TRUE] ELSE [product |-> product, of |-> n]

\* Each list of statistics that is displayed is that of what the single-threaded,
\* or the multi-threaded, processes of this campaign executed: none lost, none
\* taken for the other kind and none from an earlier campaign.  Both are those of
\* all the processes when the flag asks for one worker.
StatisticsFaithful ==
  LET kind(loop) == IF workers = 1 THEN {"single", "multi"} ELSE {loop}
  IN  /\ shown.single # <<>> => AreStatistics(shown.single, Measured(kind("single")))
      /\ shown.multi # <<>> => AreStatistics(shown.multi, Measured(kind("multi")))

\* The line of each result recorded, with its workers.
Lines ==
  [k \in DOMAIN recorded |->
    [workers |-> IF recorded[k].loop = "single" THEN 1 ELSE workers, value |-> recorded[k].value]]

\* The temporary file is gone however the campaign ends, by an error of a process
\* or a panic too; but on Windows, where the deferred removal of main.go:244 then
\* finds it open.  A file that is left, that one or a named one, has exactly the
\* lines of what the processes recorded, in order and none twice.
FileDisposed ==
  pc = "end" =>
    IF named
      THEN recorded # <<>> => file.records = Lines
      ELSE file.exists => system = "windows" /\ outcome # "nil" /\ file.records = Lines

\* The flag -res is described as an "append file": a campaign only adds to it.
OnlyAppends == [][named => IsPrefix(file.records, file'.records)]_vars
=============================================================================
