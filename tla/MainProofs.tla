----------------------------- MODULE MainProofs -----------------------------
(***************************************************************************)
(* Proofs about Main, for all values of the flags and any number of        *)
(* processes and of transactions: how a failure of a process reaches the   *)
(* exit status, what is left of the results file, how the load of the OLTP *)
(* benchmark grows, what the statistics displayed are, and which NUMA      *)
(* nodes are.  The variables of the two benchmarks are those of Campaign   *)
(* and Progression, whose steps the lemmas take one by one; a process is   *)
(* known by what Batch promises.                                           *)
(***************************************************************************)
EXTENDS Main, TLAPS, SequenceTheorems, FiniteSetTheorems

Loops == {"single", "multi"}

\* The line of the results file for a result of a loop.
Line(x) == [workers |-> IF x.loop = "single" THEN 1 ELSE workers, value |-> x.value]
Lines == [k \in DOMAIN recorded |-> Line(recorded[k])]

\* The control of stdBench, its loops and processes, and what it shows.
StdCount == nb \in Nat /\ i \in 0..nb /\ (child # "none" => i < nb)

StdControl ==
  /\ pc \in {"start", "numa", "create", "single", "multi", "display", "end"}
  /\ pc = "end" => outcome \in {"nil", "error", "panic"}
  /\ pc # "end" => outcome = ""
  /\ child \in {"none", "running", "ok", "failed"}
  /\ child # "none" => pc \in Loops \cup {"end"}
  /\ child # "none" /\ pc = "end" => child = "failed" /\ outcome = "error"
  /\ pc # "end" \/ child = "failed" => shown = Std!NotShown

\* The results recorded.
StdLog == recorded \in Seq([loop : Loops, value : Nat])

\* The process reports what was submitted.
StdProcess == submitted \in Nat /\ (phase = "reported" => result = submitted)

\* The results file, from before its creation to the end.
StdFile ==
  /\ pc \in {"start", "numa", "create"} => recorded = <<>> /\ (~named => ~file.exists)
  /\ pc \in Loops \cup {"display"} => file.records = Lines
  /\ pc = "end" /\ named /\ recorded # <<>> => file.records = Lines
  /\ pc = "end" /\ ~named /\ file.exists =>
       system = "windows" /\ outcome # "nil" /\ file.records = Lines

StdAll == StdCount /\ StdControl /\ StdProcess /\ StdLog /\ StdFile

StdInv == mode = "bench" => StdAll

\* The throughput of iteration k, 0 the idle one; offered is that of n iterations,
\* of which some may have run nothing.
T(k) == IF k = 0 THEN 0 ELSE Load!Throughput(k)

Grown(n) ==
  /\ n \in 0..nb + 4
  /\ nb = 0 => n <= 1
  /\ Len(offered) <= n
  /\ \A k \in 1..Len(offered) : offered[k] <= T(n - 1)
  /\ \A k \in 1..Len(offered) - 1 : offered[k] <= offered[k + 1]
  /\ Len(offered) = n => \A k \in 1..n : offered[k] = T(k - 1)

LoadTypes ==
  /\ nb \in Nat /\ tps \in Nat /\ i \in 0..nb + 4 /\ offered \in Seq(Nat)
  /\ pc \in {"start", "numa", "load", "measure", "end"}

\* The iterations that have begun, by the control.
LoadGrown ==
  /\ pc \in {"start", "numa"} => i = 0 /\ offered = <<>>
  /\ pc = "load" => Grown(i)
  /\ pc = "measure" => Grown(i + 1)
  /\ pc = "end" => Grown(i) \/ Grown(i + 1)

LoadInv == mode = "oltp" => LoadTypes /\ LoadGrown

\* The variables of a benchmark in the other modes; the exit status.
OtherInv ==
  /\ mode \in {"bench", "oltp", "freq", "version", "usage"}
  /\ mode # "bench" => child = "none" /\ shown = Std!NotShown /\ named = FALSE /\ ~file.exists
  /\ mode # "oltp" => offered = <<>> /\ nb \in Nat
  /\ status # 256 /\ mode \in {"bench", "oltp"} => pc = "end" /\ (outcome = "error" => status = 1)

IInv == StdInv /\ LoadInv /\ OtherInv

\* Only the last process may have failed; then the benchmark is about to return the
\* error, or has.
Failed == \E k \in DOMAIN exits : exits[k] = "failed"

ExitsInv ==
  /\ exits \in Seq({"ok", "failed"})
  /\ \A k \in DOMAIN exits : exits[k] = "failed" => k = Len(exits)
  /\ Failed => \/ mode = "bench" /\ child = "failed"
               \/ mode = "oltp" /\ pc = "end" /\ outcome = "error"

\* The constants.
LEMMA Constants ==
  /\ Nbs \subseteq Nat /\ Tpss \subseteq Nat /\ WorkerCounts \subseteq Nat \ {0}
  BY MainAssumption DEF Std!CampaignAssumption, Load!ProgressionAssumption

\* What the steps that do not move the control leave alone.
LEMMA FileKept ==
  ASSUME StdFile, UNCHANGED <<system, workers, named, pc, outcome, file, recorded>>
  PROVE  StdFile'
  BY DEF StdFile, Lines, Line

\* stdBench returns.
LEMMA FileEnds ==
  ASSUME StdFile, pc \in Loops \cup {"display"}, NEW how, Std!EndWith(how),
         UNCHANGED <<system, workers, named, recorded>>
  PROVE  StdFile'
<1>1. Lines' = Lines
  BY DEF Lines, Line
<1> QED
  BY <1>1 DEF StdFile, Std!EndWith, Loops

\* The steps of stdBench, one by one: displayCPU ends ...
LEMMA StdDisplayCPU ==
  ASSUME StdAll, Std!DisplayCPU
  PROVE  StdAll'
<1>1. StdCount'
  BY DEF StdAll, StdCount, Std!DisplayCPU, Std!flags
<1>2. StdControl'
  BY DEF StdAll, StdControl, Std!DisplayCPU, Std!flags, Std!NotShown, Loops
<1>3. StdProcess'
  BY DEF StdAll, StdProcess, Std!DisplayCPU, Std!inside
<1>4. StdLog'
  BY DEF StdAll, StdLog, Std!DisplayCPU
<1>5. StdFile'
  BY DEF StdAll, StdFile, Std!DisplayCPU, Std!flags, Loops
<1> QED
  BY <1>1, <1>2, <1>3, <1>4, <1>5 DEF StdAll

\* ... the NUMA nodes have been displayed.
LEMMA StdNuma ==
  ASSUME StdAll, Std!NumaDisplayed
  PROVE  StdAll'
<1>1. StdCount'
  BY DEF StdAll, StdCount, Std!NumaDisplayed, Std!flags
<1>2. StdControl'
  BY DEF StdAll, StdControl, Std!NumaDisplayed, Std!flags, Std!NotShown, Loops
<1>3. StdProcess'
  BY DEF StdAll, StdProcess, Std!NumaDisplayed, Std!inside
<1>4. StdLog'
  BY DEF StdAll, StdLog, Std!NumaDisplayed
<1>5. StdFile'
  BY DEF StdAll, StdFile, Std!NumaDisplayed, Std!flags, Loops
<1> QED
  BY <1>1, <1>2, <1>3, <1>4, <1>5 DEF StdAll

\* ... the results file is created, or is not.
LEMMA StdCreate ==
  ASSUME StdAll, Std!CreateFile
  PROVE  StdAll'
<1>1. StdCount'
  BY DEF StdAll, StdCount, Std!CreateFile, Std!flags
<1>2. StdControl'
  BY DEF StdAll, StdControl, Std!CreateFile, Std!flags, Std!NotShown, Loops
<1>3. StdProcess'
  BY DEF StdAll, StdProcess, Std!CreateFile, Std!inside
<1>4. StdLog'
  BY DEF StdAll, StdLog, Std!CreateFile
<1>5. StdFile'
  <2>1. recorded' = <<>> /\ named' = named /\ pc = "create" /\ (~named => ~file.exists)
    BY DEF StdAll, StdFile, Std!CreateFile, Std!flags
  <2>2. Lines' = <<>>
    BY <2>1 DEF Lines
  <2>3. CASE pc' = "single" /\ file' = [exists |-> TRUE, records |-> <<>>]
    BY <2>2, <2>3 DEF StdFile
  <2>4. CASE pc' = "end" /\ file' = file
    BY <2>1, <2>4 DEF StdFile, Loops
  <2> QED
    BY <2>3, <2>4 DEF Std!CreateFile
<1> QED
  BY <1>1, <1>2, <1>3, <1>4, <1>5 DEF StdAll

\* ... a process starts.
LEMMA StdSpawn ==
  ASSUME StdAll, Std!SpawnBench
  PROVE  StdAll'
<1>1. StdCount'
  BY DEF StdAll, StdCount, Std!SpawnBench, Std!flags
<1>2. StdControl'
  BY DEF StdAll, StdControl, Std!SpawnBench, Std!flags, Std!NotShown, Loops
<1>3. StdProcess'
  BY DEF StdAll, StdProcess, Std!SpawnBench, Std!inside
<1>4. StdLog'
  BY DEF StdAll, StdLog, Std!SpawnBench
<1>5. StdFile'
  BY FileKept DEF StdAll, Std!SpawnBench, Std!flags
<1> QED
  BY <1>1, <1>2, <1>3, <1>4, <1>5 DEF StdAll

\* ... a process takes a step: its report is what was submitted (Batch).
LEMMA StdRun ==
  ASSUME StdAll, Std!Run
  PROVE  StdAll'
<1>1. StdCount'
  BY DEF StdAll, StdCount, Std!Run, Std!flags
<1>2. StdControl'
  BY DEF StdAll, StdControl, Std!Run, Std!flags, Std!NotShown, Loops
<1>3. StdProcess'
  BY DEF StdAll, StdProcess, Std!Run, Std!Process!Next, Std!Process!Open, Std!Process!Submit,
         Std!Process!Execute, Std!Process!Close, Std!Process!Report
<1>4. StdLog'
  BY DEF StdAll, StdLog, Std!Run
<1>5. StdFile'
  BY FileKept DEF StdAll, Std!Run, Std!flags
<1> QED
  BY <1>1, <1>2, <1>3, <1>4, <1>5 DEF StdAll

\* ... the result of a process is appended to the file, with the number of workers of its loop.
LEMMA StdAppend ==
  ASSUME StdAll, Std!AppendResult
  PROVE  StdAll'
<1>1. StdCount'
  BY DEF StdAll, StdCount, Std!AppendResult, Std!flags
<1>2. StdControl'
  BY DEF StdAll, StdControl, Std!AppendResult, Std!flags, Std!NotShown, Loops
<1>3. StdProcess'
  BY DEF StdAll, StdProcess, Std!AppendResult, Std!Gone
<1>4. StdLog'
  <2>1. pc \in Loops /\ submitted \in Nat
    BY DEF StdAll, StdControl, StdProcess, Std!AppendResult
  <2> QED
    BY <2>1 DEF StdAll, StdLog, Std!AppendResult
<1>5. StdFile'
  <2>1. /\ pc \in Loops /\ pc' = pc /\ workers' = workers /\ named' = named
        /\ result = submitted /\ submitted \in Nat
    BY DEF StdAll, StdControl, StdProcess, Std!AppendResult, Std!flags
  <2>2. PICK x, y : x = [loop |-> pc, value |-> submitted]
                    /\ y = [workers |-> IF pc = "single" THEN 1 ELSE workers, value |-> result]
    OBVIOUS
  <2>3. /\ recorded' = Append(recorded, x) /\ file'.records = Append(file.records, y)
        /\ file.records = Lines
    BY <2>1, <2>2 DEF StdAll, StdFile, Std!AppendResult, Std!ChildWorkers
  <2>4. x \in [loop : Loops, value : Nat] /\ y = Line(x)
    BY <2>1, <2>2 DEF Line
  <2>5. PICK n : n = Len(recorded)
    OBVIOUS
  <2>6. /\ n \in Nat /\ DOMAIN recorded = 1..n /\ DOMAIN recorded' = 1..n + 1
        /\ recorded'[n + 1] = x /\ \A k \in 1..n : recorded'[k] = recorded[k]
    BY <2>3, <2>4, <2>5 DEF StdAll, StdLog
  <2>7. Lines' = [k \in 1..n + 1 |-> Line(recorded'[k])]
    BY <2>1, <2>6 DEF Lines, Line
  <2>8. Lines = [k \in 1..n |-> Line(recorded[k])]
    BY <2>6 DEF Lines
  <2>9. PICK M, S : M = Lines /\ S = {Line(recorded[k]) : k \in 1..n} \cup {y}
    OBVIOUS
  <2>10. M \in Seq(S) /\ Len(M) = n /\ y \in S
    BY <2>6, <2>8, <2>9
  <2>11. PICK L : L = Append(M, y)
    OBVIOUS
  <2>12. /\ L \in Seq(S) /\ Len(L) = n + 1
         /\ L[n + 1] = y /\ \A k \in 1..n : L[k] = M[k]
    BY <2>10, <2>11, AppendProperties
  <2>13. L = [k \in 1..n + 1 |-> L[k]]
    BY <2>6, <2>12
  <2>14. ASSUME NEW k \in 1..n + 1 PROVE L[k] = Line(recorded'[k])
    <3>1. CASE k = n + 1
      BY <2>4, <2>6, <2>12, <3>1
    <3>2. CASE k \in 1..n
      BY <2>6, <2>8, <2>9, <2>12, <3>2
    <3> QED
      BY <2>6, <3>1, <3>2
  <2>15. file'.records = Lines'
    BY <2>3, <2>7, <2>9, <2>11, <2>13, <2>14
  <2> QED
    BY <2>1, <2>15 DEF StdFile, Loops
<1> QED
  BY <1>1, <1>2, <1>3, <1>4, <1>5 DEF StdAll

\* ... a process ends without a line in the file.
LEMMA StdLost ==
  ASSUME StdAll, Std!AppendLost \/ Std!ChildFails
  PROVE  StdAll'
<1>1. StdCount'
  BY DEF StdAll, StdCount, Std!AppendLost, Std!ChildFails, Std!flags
<1>2. StdControl'
  BY DEF StdAll, StdControl, Std!AppendLost, Std!ChildFails, Std!flags, Std!NotShown, Loops
<1>3. StdProcess'
  BY DEF StdAll, StdProcess, Std!AppendLost, Std!ChildFails, Std!Gone
<1>4. StdLog'
  BY DEF StdAll, StdLog, Std!AppendLost, Std!ChildFails
<1>5. StdFile'
  BY FileKept DEF StdAll, Std!AppendLost, Std!ChildFails, Std!flags
<1> QED
  BY <1>1, <1>2, <1>3, <1>4, <1>5 DEF StdAll

\* ... the loop goes on to the next process.
LEMMA StdDone ==
  ASSUME StdAll, Std!ChildDone
  PROVE  StdAll'
<1>1. StdCount'
  <2>1. nb \in Nat /\ i \in 0..nb /\ i < nb /\ nb' = nb /\ i' = i + 1 /\ child' = "none"
    BY DEF StdAll, StdCount, Std!ChildDone, Std!flags
  <2> QED
    BY <2>1 DEF StdCount
<1>2. StdControl'
  BY DEF StdAll, StdControl, Std!ChildDone, Std!flags, Std!NotShown, Loops
<1>3. StdProcess'
  BY DEF StdAll, StdProcess, Std!ChildDone, Std!inside
<1>4. StdLog'
  BY DEF StdAll, StdLog, Std!ChildDone
<1>5. StdFile'
  BY FileKept DEF StdAll, Std!ChildDone, Std!flags
<1> QED
  BY <1>1, <1>2, <1>3, <1>4, <1>5 DEF StdAll

\* ... a loop ends; no process is left.
LEMMA StdNextPhase ==
  ASSUME StdAll, Std!NextPhase
  PROVE  StdAll'
<1>1. StdCount'
  <2>1. nb \in Nat /\ nb' = nb /\ i' = 0 /\ child' = child /\ child = "none"
    BY DEF StdAll, StdCount, Std!NextPhase, Std!flags
  <2> QED
    BY <2>1 DEF StdCount
<1>2. StdControl'
  <2>1. child' = child /\ child = "none"
    BY DEF StdAll, StdCount, Std!NextPhase
  <2> QED
    BY <2>1 DEF StdAll, StdControl, Std!NextPhase, Std!flags, Std!NotShown, Loops
<1>3. StdProcess'
  BY DEF StdAll, StdProcess, Std!NextPhase, Std!inside
<1>4. StdLog'
  BY DEF StdAll, StdLog, Std!NextPhase
<1>5. StdFile'
  <2>1. Lines' = Lines
    BY DEF Lines, Line, Std!NextPhase, Std!flags
  <2> QED
    BY <2>1 DEF StdAll, StdFile, Std!NextPhase, Std!flags, Loops
<1> QED
  BY <1>1, <1>2, <1>3, <1>4, <1>5 DEF StdAll

\* ... the error of a process is returned.
LEMMA StdReturn ==
  ASSUME StdAll, Std!ReturnError
  PROVE  StdAll'
<1>1. StdCount'
  BY DEF StdAll, StdCount, Std!ReturnError, Std!flags
<1>2. StdControl'
  BY DEF StdAll, StdControl, Std!ReturnError, Std!EndWith, Std!flags, Std!NotShown, Loops
<1>3. StdProcess'
  BY DEF StdAll, StdProcess, Std!ReturnError, Std!inside
<1>4. StdLog'
  BY DEF StdAll, StdLog, Std!ReturnError
<1>5. StdFile'
  <2>1. pc \in Loops /\ Std!EndWith("error") /\ UNCHANGED <<system, workers, named, recorded>>
    BY DEF StdAll, StdControl, Std!ReturnError, Std!flags
  <2> QED
    BY <2>1, FileEnds DEF StdAll
<1> QED
  BY <1>1, <1>2, <1>3, <1>4, <1>5 DEF StdAll

\* ... the statistics are displayed, or cannot be.
LEMMA StdDisplay ==
  ASSUME StdAll, Std!DisplayResult
  PROVE  StdAll'
<1>1. StdCount'
  BY DEF StdAll, StdCount, Std!DisplayResult, Std!flags
<1>2. StdControl'
  <2>1. /\ pc = "display" /\ pc' = "end"
        /\ UNCHANGED <<nb, system, workers, named, recorded, i, child>>
        /\ \E how \in {"nil", "panic"} : Std!EndWith(how)
    BY DEF Std!DisplayResult, Std!EndWith, Std!flags
  <2>2. child = "none"
    BY <2>1 DEF StdAll, StdControl, Loops
  <2> QED
    BY <2>1, <2>2 DEF StdControl, Std!EndWith, Loops
<1>3. StdProcess'
  BY DEF StdAll, StdProcess, Std!DisplayResult, Std!inside
<1>4. StdLog'
  BY DEF StdAll, StdLog, Std!DisplayResult
<1>5. StdFile'
  <2>1. /\ pc = "display" /\ pc' = "end"
        /\ UNCHANGED <<nb, system, workers, named, recorded, i, child>>
        /\ \E how \in {"nil", "panic"} : Std!EndWith(how)
    BY DEF Std!DisplayResult, Std!EndWith, Std!flags
  <2> QED
    BY <2>1, FileEnds DEF StdAll
<1> QED
  BY <1>1, <1>2, <1>3, <1>4, <1>5 DEF StdAll

\* A step of stdBench is taken before its end, and keeps the invariant.
LEMMA StdStep ==
  ASSUME StdAll, Std!Step
  PROVE  StdAll' /\ pc # "end"
<1>1. pc # "end"
  BY DEF StdAll, StdControl, Loops, Std!Step, Std!DisplayCPU, Std!NumaDisplayed, Std!CreateFile,
         Std!SpawnBench, Std!Run, Std!AppendResult, Std!AppendLost, Std!ChildFails,
         Std!ChildDone, Std!NextPhase, Std!ReturnError, Std!DisplayResult
<1> QED
  BY <1>1, StdDisplayCPU, StdNuma, StdCreate, StdSpawn, StdRun, StdAppend, StdLost, StdDone,
     StdNextPhase, StdReturn, StdDisplay DEF Std!Step

\* The quotient of a division.
LEMMA Quotient ==
  ASSUME NEW x \in Nat, NEW n \in Nat \ {0}
  PROVE  /\ x \div n \in Nat
         /\ (x \div n) * n <= x /\ x < (x \div n) * n + n
  OBVIOUS

\* It grows with the dividend.
LEMMA QuotientGrows ==
  ASSUME NEW x \in Nat, NEW y \in Nat, x <= y, NEW n \in Nat \ {0}
  PROVE  x \div n <= y \div n
<1>1. PICK p, q : p = x \div n /\ q = y \div n
  OBVIOUS
<1>2. p \in Nat /\ q \in Nat /\ p * n <= x /\ y < q * n + n
  BY <1>1, Quotient
<1>3. CASE p > q
  <2>1. PICK d \in Nat : p = q + 1 + d
    <3>1. p - q - 1 \in Nat /\ p = q + 1 + (p - q - 1)
      BY <1>2, <1>3
    <3> QED
      BY <3>1
  <2>2. d * n \in Nat
    BY <2>1
  <2>3. p * n = q * n + n + d * n
    BY <1>2, <2>1
  <2> QED
    BY <1>2, <2>2, <2>3
<1> QED
  BY <1>1, <1>2, <1>3

\* A quotient and the next one differ by the increment of the dividend, but for the rounding.
LEMMA QuotientSteps ==
  ASSUME NEW x \in Nat, NEW y \in Nat, NEW d \in Nat, y = x + d, NEW n \in Nat \ {0},
         NEW p, p = x \div n, NEW q, q = y \div n
  PROVE  (q - p) * n \in d - n + 1 .. d + n - 1
<1>1. /\ p \in Nat /\ p * n <= x /\ x < p * n + n
      /\ q \in Nat /\ q * n <= y /\ y < q * n + n
  BY Quotient
<1>2. p * n \in Nat /\ q * n \in Nat /\ (q - p) * n = q * n - p * n
  BY <1>1
<1> QED
  BY <1>1, <1>2

\* The throughput grows.
LEMMA Throughputs ==
  ASSUME nb \in Nat \ {0}, tps \in Nat, NEW k \in Nat
  PROVE  /\ T(k) = (k * tps) \div nb /\ T(k) \in Nat /\ T(k) <= T(k + 1)
         /\ T(0) = 0 /\ T(nb) = tps
         /\ (T(k + 1) - T(k)) * nb \in tps - nb + 1 .. tps + nb - 1
<1>1. ASSUME NEW j \in Nat PROVE T(j) = (j * tps) \div nb
  <2>1. CASE j = 0
    <3>1. 0 * tps = 0 /\ 0 \div nb = 0
      OBVIOUS
    <3> QED
      BY <2>1, <3>1 DEF T
  <2>2. CASE j # 0
    BY <2>2 DEF T, Load!Throughput
  <2> QED
    BY <2>1, <2>2
<1>2. k * tps \in Nat /\ (k + 1) * tps \in Nat /\ (k + 1) * tps = k * tps + tps
  OBVIOUS
<1>3. T(k) = (k * tps) \div nb /\ T(k + 1) = ((k + 1) * tps) \div nb
  BY <1>1
<1>4. T(k) \in Nat
  BY <1>2, <1>3, Quotient
<1>5. T(k) <= T(k + 1)
  BY <1>2, <1>3, QuotientGrows
<1>6. T(0) = 0
  BY DEF T
<1>7. T(nb) = tps
  <2>1. T(nb) = (nb * tps) \div nb /\ nb * tps \in Nat
    BY <1>1
  <2>2. PICK q : q = (nb * tps) \div nb
    OBVIOUS
  <2>3. q \in Nat /\ q * nb <= nb * tps /\ nb * tps < q * nb + nb
    BY <2>1, <2>2, Quotient
  <2>4. CASE q < tps
    <3>1. PICK d \in Nat : tps = q + 1 + d
      <4>1. tps - q - 1 \in Nat /\ tps = q + 1 + (tps - q - 1)
        BY <2>3, <2>4
      <4> QED
        BY <4>1
    <3>2. nb * tps = q * nb + nb + d * nb /\ d * nb \in Nat
      BY <2>3, <3>1
    <3> QED
      BY <2>3, <3>2
  <2>5. CASE q > tps
    <3>1. PICK d \in Nat : q = tps + 1 + d
      <4>1. q - tps - 1 \in Nat /\ q = tps + 1 + (q - tps - 1)
        BY <2>3, <2>5
      <4> QED
        BY <4>1
    <3>2. q * nb = nb * tps + nb + d * nb /\ d * nb \in Nat
      BY <2>3, <3>1
    <3> QED
      BY <2>3, <3>2
  <2> QED
    BY <2>1, <2>2, <2>3, <2>4, <2>5
<1>8. (T(k + 1) - T(k)) * nb \in tps - nb + 1 .. tps + nb - 1
  BY <1>2, <1>3, QuotientSteps
<1> QED
  BY <1>3, <1>4, <1>5, <1>6, <1>7, <1>8

\* The flags do not change.
LEMMA ThroughputKept ==
  ASSUME UNCHANGED <<nb, tps>>, NEW k
  PROVE  T(k)' = T(k)
  BY DEF T, Load!Throughput

\* Nothing new is offered.
LEMMA GrownKept ==
  ASSUME NEW n, Grown(n), UNCHANGED <<nb, tps, offered>>
  PROVE  Grown(n)'
  BY ThroughputKept DEF Grown

\* Nothing is offered yet.
LEMMA GrownNone ==
  ASSUME nb \in Nat, offered = <<>>
  PROVE  Grown(0)
  BY DEF Grown

\* An iteration that runs nothing.
LEMMA GrownSame ==
  ASSUME NEW n \in Nat, Grown(n), n < nb + 4, n > 0 => nb # 0,
         nb \in Nat, tps \in Nat, offered \in Seq(Nat), UNCHANGED <<nb, tps, offered>>
  PROVE  Grown(n + 1)'
<1>1. /\ Len(offered) \in Nat /\ Len(offered) <= n
      /\ \A k \in 1..Len(offered) : offered[k] \in Nat
      /\ \A k \in 1..Len(offered) : offered[k] <= T(n - 1)
      /\ \A k \in 1..Len(offered) - 1 : offered[k] <= offered[k + 1]
  BY DEF Grown
<1>2. \A k \in 1..Len(offered) : offered[k] <= T(n)
  <2>1. CASE n = 0
    BY <1>1, <2>1
  <2>2. CASE n # 0
    <3>1. n - 1 \in Nat /\ nb \in Nat \ {0} /\ (n - 1) + 1 = n
      BY <2>2
    <3>2. T(n - 1) <= T(n) /\ T(n - 1) \in Nat /\ T(n) \in Nat
      BY <3>1, Throughputs
    <3> QED
      BY <1>1, <3>2
  <2> QED
    BY <2>1, <2>2
<1>3. n + 1 \in 0..nb + 4 /\ (nb = 0 => n + 1 <= 1) /\ (n + 1) - 1 = n
  OBVIOUS
<1>4. T(n)' = T(n)
  BY ThroughputKept
<1> QED
  BY <1>1, <1>2, <1>3, <1>4 DEF Grown

\* An iteration that offers its throughput.
LEMMA GrownMore ==
  ASSUME NEW n \in Nat, Grown(n), n < nb + 4, n > 0 => nb # 0,
         nb \in Nat, tps \in Nat, offered \in Seq(Nat), UNCHANGED <<nb, tps>>,
         offered' = Append(offered, T(n))
  PROVE  Grown(n + 1)' /\ offered' \in Seq(Nat)
<1>1. /\ Len(offered) \in Nat /\ Len(offered) <= n
      /\ \A k \in 1..Len(offered) : offered[k] \in Nat
      /\ \A k \in 1..Len(offered) : offered[k] <= T(n - 1)
      /\ \A k \in 1..Len(offered) - 1 : offered[k] <= offered[k + 1]
      /\ Len(offered) = n => \A k \in 1..n : offered[k] = T(k - 1)
  BY DEF Grown
<1>2. T(n) \in Nat /\ \A k \in 1..Len(offered) : offered[k] <= T(n)
  <2>1. CASE n = 0
    BY <1>1, <2>1 DEF T
  <2>2. CASE n # 0
    <3>1. n - 1 \in Nat /\ nb \in Nat \ {0} /\ (n - 1) + 1 = n
      BY <2>2
    <3>2. T(n - 1) <= T(n) /\ T(n - 1) \in Nat /\ T(n) \in Nat
      BY <3>1, Throughputs
    <3> QED
      BY <1>1, <3>2
  <2> QED
    BY <2>1, <2>2
<1>3. PICK l, t : l = Len(offered) /\ t = T(n)
  OBVIOUS
<1>4. /\ Len(offered') = l + 1 /\ offered'[l + 1] = t /\ offered' \in Seq(Nat)
      /\ \A k \in 1..l : offered'[k] = offered[k]
  BY <1>2, <1>3, AppendProperties
<1>5. n + 1 \in 0..nb + 4 /\ (nb = 0 => n + 1 <= 1) /\ (n + 1) - 1 = n /\ l + 1 <= n + 1
  BY <1>1, <1>3
<1>6. \A k \in 1..l + 1 : offered'[k] <= t
  <2>1. \A k \in 1..l + 1 : k \in 1..l \/ k = l + 1
    BY <1>1, <1>3
  <2> QED
    BY <1>2, <1>3, <1>4, <2>1
<1>7. \A k \in 1..l : offered'[k] <= offered'[k + 1]
  <2>1. \A k \in 1..l : k = l \/ (k \in 1..l - 1 /\ k + 1 \in 1..l)
    BY <1>1, <1>3
  <2> QED
    BY <1>1, <1>2, <1>3, <1>4, <2>1
<1>8. l + 1 = n + 1 => \A k \in 1..n + 1 : offered'[k] = T(k - 1)
  <2>1. SUFFICES ASSUME l = n, NEW k \in 1..n + 1 PROVE offered'[k] = T(k - 1)
    BY <1>1, <1>3
  <2>2. CASE k = n + 1
    BY <1>3, <1>4, <1>5, <2>1, <2>2
  <2>3. CASE k \in 1..n
    BY <1>1, <1>3, <1>4, <2>1, <2>3
  <2>4. k = n + 1 \/ k \in 1..n
    OBVIOUS
  <2> QED
    BY <2>2, <2>3, <2>4
<1>9. \A k : T(k)' = T(k)
  BY ThroughputKept
<1>10. Grown(n + 1)'
  <2>1. /\ (n + 1) \in 0..nb' + 4 /\ (nb' = 0 => n + 1 <= 1) /\ Len(offered') <= n + 1
        /\ \A k \in 1..Len(offered') : offered'[k] <= T((n + 1) - 1)'
    BY <1>3, <1>4, <1>5, <1>6, <1>9
  <2>2. \A k \in 1..Len(offered') - 1 : offered'[k] <= offered'[k + 1]
    BY <1>1, <1>3, <1>4, <1>7
  <2>3. Len(offered') = n + 1 => \A k \in 1..n + 1 : offered'[k] = T(k - 1)'
    BY <1>4, <1>8, <1>9
  <2> QED
    BY <2>1, <2>2, <2>3 DEF Grown
<1> QED
  BY <1>4, <1>10

\* The steps of oltpBench.
LEMMA LoadStep ==
  ASSUME LoadTypes, LoadGrown, Load!Step
  PROVE  LoadTypes' /\ LoadGrown'
<1>1. nb \in Nat /\ tps \in Nat /\ i \in 0..nb + 4 /\ offered \in Seq(Nat)
  BY DEF LoadTypes
<1>2. CASE Load!Begin \/ Load!NumaDisplayed
  <2>1. /\ pc \in {"start", "numa"} /\ pc' \in {"numa", "load", "end"}
        /\ UNCHANGED <<nb, tps, i, offered>>
    BY <1>2 DEF Load!Begin, Load!NumaDisplayed, Load!End, Load!flags
  <2>2. i = 0 /\ offered = <<>>
    BY <2>1 DEF LoadGrown
  <2>3. Grown(i)'
    BY <1>1, <2>1, <2>2, GrownNone, GrownKept
  <2> QED
    BY <2>1, <2>2, <2>3 DEF LoadTypes, LoadGrown
<1>3. CASE Load!Idle
  <2>1. /\ pc = "load" /\ pc' = "measure" /\ i = 0 /\ i' = i /\ nb' = nb /\ tps' = tps
        /\ offered' = Append(offered, 0)
    BY <1>3 DEF Load!Idle, Load!flags
  <2>2. Grown(0) /\ T(0) = 0 /\ 0 < nb + 4
    BY <1>1, <2>1 DEF LoadGrown, T
  <2>3. Grown(0 + 1)' /\ offered' \in Seq(Nat)
    BY <1>1, <2>1, <2>2, GrownMore
  <2>4. Grown(i + 1)'
    BY <2>1, <2>3
  <2> QED
    BY <1>1, <2>1, <2>3, <2>4 DEF LoadTypes, LoadGrown
<1>4. CASE Load!SpawnOLTP
  <2>1. /\ pc = "load" /\ i \in 1..nb + 3 /\ i' = i /\ nb' = nb /\ tps' = tps
        /\ \/ pc' = "end" /\ offered' = offered
           \/ nb # 0 /\ pc' = "measure" /\ offered' = Append(offered, Load!Throughput(i))
           \/ nb # 0 /\ pc' = "measure" /\ offered' = offered
    BY <1>1, <1>4 DEF Load!SpawnOLTP, Load!flags, Load!End, Load!Extra
  <2>2. Grown(i) /\ i < nb + 4 /\ i \in Nat /\ T(i) = Load!Throughput(i)
    BY <1>1, <2>1 DEF LoadGrown, T
  <2>3. CASE pc' = "end" /\ offered' = offered
    <3>1. Grown(i)'
      BY <2>1, <2>2, <2>3, GrownKept
    <3> QED
      BY <1>1, <2>1, <2>3, <3>1 DEF LoadTypes, LoadGrown
  <2>4. CASE nb # 0 /\ pc' = "measure" /\ offered' = Append(offered, Load!Throughput(i))
    <3>1. Grown(i + 1)' /\ offered' \in Seq(Nat)
      BY <1>1, <2>1, <2>2, <2>4, GrownMore
    <3> QED
      BY <1>1, <2>1, <2>4, <3>1 DEF LoadTypes, LoadGrown
  <2>5. CASE nb # 0 /\ pc' = "measure" /\ offered' = offered
    <3>1. Grown(i + 1)'
      BY <1>1, <2>1, <2>2, <2>5, GrownSame
    <3> QED
      BY <1>1, <2>1, <2>5, <3>1 DEF LoadTypes, LoadGrown
  <2> QED
    BY <2>1, <2>3, <2>4, <2>5
<1>5. CASE Load!Measure
  <2>1. /\ pc = "measure" /\ nb' = nb /\ tps' = tps /\ offered' = offered
        /\ \/ pc' = "load" /\ i' = i + 1
           \/ pc' = "end" /\ i' = i
    BY <1>5 DEF Load!Measure, Load!flags, Load!End
  <2>2. Grown(i + 1) /\ i + 1 \in 0..nb + 4
    BY <2>1 DEF LoadGrown, Grown
  <2>3. CASE pc' = "load" /\ i' = i + 1
    <3>1. Grown(i)'
      BY <2>1, <2>2, <2>3, GrownKept
    <3> QED
      BY <1>1, <2>1, <2>2, <2>3, <3>1 DEF LoadTypes, LoadGrown
  <2>4. CASE pc' = "end" /\ i' = i
    <3>1. Grown(i + 1)'
      BY <2>1, <2>2, <2>4, GrownKept
    <3> QED
      BY <1>1, <2>1, <2>4, <3>1 DEF LoadTypes, LoadGrown
  <2> QED
    BY <2>1, <2>3, <2>4
<1>6. CASE Load!Return
  <2>1. pc = "load" /\ pc' = "end" /\ UNCHANGED <<nb, tps, i, offered>>
    BY <1>6 DEF Load!Return, Load!flags, Load!End
  <2>2. Grown(i)'
    BY <2>1, GrownKept DEF LoadGrown
  <2> QED
    BY <1>1, <2>1, <2>2 DEF LoadTypes, LoadGrown
<1> QED
  BY <1>2, <1>3, <1>4, <1>5, <1>6 DEF Load!Step

\* The invariant holds when the process starts, whatever the flags.
LEMMA Begins == Init => IInv
<1> SUFFICES ASSUME Init PROVE IInv
  OBVIOUS
<1>1. status = 256
  BY DEF Init
<1>2. CASE mode = "bench" /\ Std!Init /\ OltpUnused
  <2>1. nb \in Nat
    BY <1>2, Constants DEF Std!Init
  <2>2. StdCount
    <3>1. i = 0 /\ child = "none"
      BY <1>2 DEF Std!Init
    <3> QED
      BY <2>1, <3>1 DEF StdCount
  <2>3. StdControl
    BY <1>2 DEF StdControl, Std!Init, Std!NotShown
  <2>4. StdProcess
    BY <1>2 DEF StdProcess, Std!Init, Std!Process!Init
  <2>5. StdLog /\ StdFile
    <3>1. recorded = <<>> /\ pc = "start"
      BY <1>2 DEF Std!Init
    <3>2. file = [exists |-> FALSE, records |-> <<>>] \/ named
      BY <1>2 DEF Std!Init
    <3>3. file = [exists |-> FALSE, records |-> <<>>] => ~file.exists
      OBVIOUS
    <3> QED
      BY <3>1, <3>2, <3>3 DEF StdLog, StdFile, Loops
  <2>6. offered = <<>>
    BY <1>2 DEF OltpUnused
  <2> QED
    BY <1>1, <1>2, <2>1, <2>2, <2>3, <2>4, <2>5, <2>6 DEF IInv, StdInv, StdAll, LoadInv, OtherInv
<1>3. ASSUME mode # "bench", StdUnused
      PROVE  child = "none" /\ shown = Std!NotShown /\ ~named /\ ~file.exists
  BY <1>3 DEF StdUnused
<1>4. CASE mode = "oltp" /\ Load!Init /\ StdUnused
  <2>1. nb \in Nat /\ tps \in Nat /\ i = 0 /\ offered = <<>> /\ pc = "start"
    BY <1>4, Constants DEF Load!Init
  <2>2. LoadTypes /\ LoadGrown
    BY <2>1 DEF LoadTypes, LoadGrown
  <2> QED
    BY <1>1, <1>3, <1>4, <2>2 DEF IInv, StdInv, LoadInv, OtherInv
<1>5. CASE mode \in {"freq", "version", "usage"} /\ nb = 0 /\ StdUnused /\ OltpUnused
  <2>1. offered = <<>>
    BY <1>5 DEF OltpUnused
  <2> QED
    BY <1>1, <1>3, <1>5, <2>1 DEF IInv, StdInv, LoadInv, OtherInv
<1> QED
  BY <1>2, <1>4, <1>5 DEF Init

\* Each step of the process keeps the invariant.
LEMMA Keeps == IInv /\ [Next]_vars => IInv'
<1> SUFFICES ASSUME IInv, [Next]_vars PROVE IInv'
  OBVIOUS
<1>1. StdInv /\ LoadInv /\ OtherInv
  BY DEF IInv
<1>2. ASSUME mode # "bench", mode' = mode, UNCHANGED stdVars
      PROVE  StdInv' /\ UNCHANGED <<child, shown, named, file>>
  BY <1>2 DEF StdInv, stdVars
<1>3. ASSUME mode # "oltp", mode' = mode, UNCHANGED oltpVars
      PROVE  LoadInv' /\ offered' = offered
  BY <1>3 DEF LoadInv, oltpVars
\* The steps that leave the benchmarks where they are.
<1>4. ASSUME mode' = mode, UNCHANGED <<control, loop, stdVars, oltpVars>>
      PROVE  StdInv' /\ LoadInv'
  <2>1. CASE mode = "bench"
    <3>1. StdAll
      BY <1>1, <2>1 DEF StdInv
    <3>2. /\ UNCHANGED <<pc, outcome, nb, i, system, workers, named, child, file, shown, recorded, phase,
                         submitted, executed, result>>
      BY <1>4 DEF control, loop, stdVars
    <3>3. StdCount' /\ StdControl'
      BY <3>1, <3>2 DEF StdAll, StdCount, StdControl, Std!NotShown
    <3>4. StdProcess' /\ StdLog'
      BY <3>1, <3>2 DEF StdAll, StdProcess, StdLog
    <3>5. StdFile'
      BY <3>1, <3>2, FileKept DEF StdAll
    <3> QED
      BY <1>3, <1>4, <2>1, <3>3, <3>4, <3>5 DEF StdInv, StdAll
  <2>2. CASE mode = "oltp"
    <3>1. LoadTypes /\ LoadGrown
      BY <1>1, <2>2 DEF LoadInv
    <3>2. UNCHANGED <<pc, nb, i, tps, offered>>
      BY <1>4 DEF control, loop, oltpVars
    <3>3. \A n : Grown(n) => Grown(n)'
      BY <3>2, GrownKept
    <3>4. LoadTypes'
      BY <3>1, <3>2 DEF LoadTypes
    <3>5. LoadGrown'
      BY <3>1, <3>2, <3>3 DEF LoadGrown
    <3> QED
      BY <1>2, <1>4, <2>2, <3>4, <3>5 DEF LoadInv
  <2>3. CASE mode \notin {"bench", "oltp"}
    BY <1>2, <1>3, <1>4, <2>3
  <2> QED
    BY <2>1, <2>2, <2>3
<1>5. CASE StdBench
  <2>1. mode = "bench" /\ mode' = mode /\ Std!Step /\ UNCHANGED <<oltpVars, status>>
    BY <1>5 DEF StdBench
  <2>2. StdAll' /\ pc # "end"
    BY <1>1, <2>1, StdStep DEF StdInv
  <2>3. LoadInv' /\ offered' = offered
    BY <1>3, <2>1
  <2>4. status = 256
    BY <1>1, <2>1, <2>2 DEF OtherInv
  <2>5. nb' \in Nat
    BY <2>2 DEF StdAll, StdCount
  <2>6. OtherInv'
    BY <1>1, <2>1, <2>3, <2>4, <2>5 DEF OtherInv
  <2> QED
    BY <2>1, <2>2, <2>3, <2>6 DEF IInv, StdInv
<1>6. CASE OltpBench
  <2>1. mode = "oltp" /\ mode' = mode /\ Load!Step /\ UNCHANGED <<stdVars, status>>
    BY <1>6 DEF OltpBench
  <2>2. LoadTypes' /\ LoadGrown'
    BY <1>1, <2>1, LoadStep DEF LoadInv
  <2>3. StdInv' /\ UNCHANGED <<child, shown, named, file>>
    BY <1>2, <2>1
  <2>4. pc # "end"
    BY <2>1 DEF Load!Step, Load!Begin, Load!NumaDisplayed, Load!Idle, Load!SpawnOLTP, Load!Measure,
                Load!Return
  <2>5. status = 256
    BY <1>1, <2>1, <2>4 DEF OtherInv
  <2>6. OtherInv'
    BY <1>1, <2>1, <2>3, <2>5, Zenon DEF OtherInv, Std!NotShown
  <2> QED
    BY <2>1, <2>2, <2>3, <2>6 DEF IInv, LoadInv
<1>7. CASE DisplayNuma
  <2>1. mode' = mode /\ UNCHANGED <<control, loop, stdVars, oltpVars, status>>
    BY <1>7 DEF DisplayNuma
  <2> QED
    BY <1>1, <1>4, <2>1 DEF IInv, OtherInv, control, loop, stdVars, oltpVars
<1>8. CASE MeasureFreq \/ DisplayVersion
  <2>1. /\ mode \in {"freq", "version"} /\ mode' = mode
        /\ UNCHANGED <<loop, stdVars, oltpVars, status>>
    BY <1>8 DEF MeasureFreq, DisplayVersion
  <2> QED
    BY <1>1, <1>2, <1>3, <2>1 DEF IInv, OtherInv, loop
<1>9. CASE Usage
  <2>1. mode = "usage" /\ mode' = mode /\ UNCHANGED <<control, loop, stdVars, oltpVars>>
    BY <1>9 DEF Usage
  <2> QED
    BY <1>1, <1>2, <1>3, <2>1 DEF IInv, OtherInv, loop
<1>10. CASE Exit
  <2>1. /\ mode' = mode /\ UNCHANGED <<control, loop, stdVars, oltpVars>> /\ pc = "end"
        /\ outcome = "error" => status' = 1
    BY <1>10 DEF Exit
  <2> QED
    BY <1>1, <1>4, <2>1 DEF IInv, OtherInv, control, loop, stdVars, oltpVars
<1>11. CASE Terminated \/ UNCHANGED vars
  <2>1. mode' = mode /\ UNCHANGED <<control, loop, stdVars, oltpVars, status>>
    BY <1>11 DEF Terminated, vars
  <2> QED
    BY <1>1, <1>4, <2>1 DEF IInv, OtherInv, control, loop, stdVars, oltpVars
<1> QED
  BY <1>5, <1>6, <1>7, <1>8, <1>9, <1>10, <1>11 DEF Next

\* The invariant holds in every state.
LEMMA Invariance == Spec => []IInv
  BY Begins, Keeps, PTL DEF Spec

\* A process ends when none has failed before it.
LEMMA ExitAppended ==
  ASSUME exits \in Seq({"ok", "failed"}), ~Failed, NEW how \in {"ok", "failed"},
         exits' = Append(exits, how)
  PROVE  /\ exits' \in Seq({"ok", "failed"})
         /\ \A k \in DOMAIN exits' : exits'[k] = "failed" => k = Len(exits')
         /\ Failed' => how = "failed"
<1>1. PICK n \in Nat : n = Len(exits) /\ DOMAIN exits = 1..n
  OBVIOUS
<1>2. /\ exits' \in Seq({"ok", "failed"}) /\ Len(exits') = n + 1 /\ DOMAIN exits' = 1..n + 1
      /\ exits'[n + 1] = how /\ \A k \in 1..n : exits'[k] = exits[k]
  BY <1>1
<1>3. \A k \in 1..n : exits'[k] # "failed"
  BY <1>1, <1>2 DEF Failed
<1>4. \A k \in 1..n + 1 : exits'[k] = "failed" => k = n + 1
  <2>1. \A k \in 1..n + 1 : k \in 1..n \/ k = n + 1
    OBVIOUS
  <2> QED
    BY <1>3, <2>1
<1> QED
  BY <1>2, <1>4 DEF Failed

\* A step of either benchmark: a process ends while it runs, and the loops do not
\* go on after one that failed.
LEMMA StdExits ==
  ASSUME mode = "bench", mode' = mode, StdAll, ExitsInv, Std!Step
  PROVE  ExitsInv'
<1>1. child # "failed" => ~Failed
  BY DEF ExitsInv
<1>2. CASE Std!AppendResult \/ Std!AppendLost \/ Std!ChildFails
  <2>1. child = "running" /\ child' \in {"ok", "failed"} /\ exits' = Append(exits, child')
    BY <1>2 DEF Std!AppendResult, Std!AppendLost, Std!ChildFails
  <2> QED
    BY <1>1, <2>1, ExitAppended DEF ExitsInv
<1>3. CASE exits' = exits /\ (child = "failed" => child' = "failed")
  BY <1>1, <1>3 DEF ExitsInv, Failed
<1>4. ASSUME ~ (Std!AppendResult \/ Std!AppendLost \/ Std!ChildFails)
      PROVE  exits' = exits /\ (child = "failed" => child' = "failed")
  BY <1>4 DEF Std!Step, Std!DisplayCPU, Std!NumaDisplayed, Std!CreateFile, Std!SpawnBench, Std!Run,
              Std!ChildDone, Std!NextPhase, Std!ReturnError, Std!DisplayResult
<1> QED
  BY <1>2, <1>3, <1>4

LEMMA LoadExits ==
  ASSUME mode = "oltp", mode' = mode, ExitsInv, Load!Step
  PROVE  ExitsInv'
<1>1. pc # "end"
  BY DEF Load!Step, Load!Begin, Load!NumaDisplayed, Load!Idle, Load!SpawnOLTP, Load!Measure, Load!Return
<1>2. ~Failed
  BY <1>1 DEF ExitsInv
<1>3. CASE exits' = exits
  BY <1>2, <1>3 DEF ExitsInv, Failed
<1>4. CASE exits' = Append(exits, "ok")
  BY <1>2, <1>4, ExitAppended DEF ExitsInv
<1>5. CASE exits' = Append(exits, "failed") /\ pc' = "end" /\ outcome' = "error"
  BY <1>2, <1>5, ExitAppended DEF ExitsInv
<1> QED
  BY <1>3, <1>4, <1>5 DEF Load!Step, Load!Begin, Load!NumaDisplayed, Load!Idle, Load!SpawnOLTP,
     Load!Measure, Load!Return, Load!End

LEMMA ExitsKept == IInv /\ ExitsInv /\ [Next]_vars => ExitsInv'
<1> SUFFICES ASSUME IInv, ExitsInv, [Next]_vars PROVE ExitsInv'
  OBVIOUS
<1>1. CASE StdBench
  BY <1>1, StdExits DEF StdBench, IInv, StdInv
<1>2. CASE OltpBench
  BY <1>2, LoadExits DEF OltpBench
<1>3. CASE MeasureFreq \/ DisplayVersion
  <2>1. mode \in {"freq", "version"} /\ mode' = mode /\ exits' = exits
    BY <1>3 DEF MeasureFreq, DisplayVersion, loop
  <2> QED
    BY <2>1 DEF ExitsInv, Failed
<1>4. CASE DisplayNuma \/ Usage \/ Exit \/ Terminated \/ UNCHANGED vars
  <2>1. UNCHANGED <<mode, pc, outcome, exits, child>>
    BY <1>4 DEF DisplayNuma, Usage, Exit, Terminated, vars, control, loop, stdVars
  <2> QED
    BY <2>1 DEF ExitsInv, Failed
<1> QED
  BY <1>1, <1>2, <1>3, <1>4 DEF Next

LEMMA ExitsBegin == Init => ExitsInv
<1>1. Init => exits = <<>>
  BY DEF Init, Std!Init, Load!Init
<1> QED
  BY <1>1 DEF ExitsInv, Failed

\* A process that fails ends either benchmark: no other one is started, no statistics are
\* displayed, and the exit status is 1 (stdBench, oltpBench and main, main.go).
THEOREM FailureReaches == Spec => []FailureReported
<1>1. IInv /\ ExitsInv => FailureReported
  <2> SUFFICES ASSUME IInv, ExitsInv, NEW k \in DOMAIN exits, exits[k] = "failed"
               PROVE  /\ k = Len(exits) /\ child # "running" /\ shown = Std!NotShown
                      /\ status # 256 => status = 1
    BY DEF FailureReported
  <2>1. k = Len(exits) /\ Failed
    BY DEF ExitsInv, Failed
  <2>2. CASE mode = "bench" /\ child = "failed"
    <3>1. StdControl /\ (status # 256 => pc = "end" /\ (outcome = "error" => status = 1))
      BY <2>2 DEF IInv, StdInv, StdAll, OtherInv
    <3> QED
      BY <2>1, <2>2, <3>1 DEF StdControl
  <2>3. CASE mode = "oltp" /\ pc = "end" /\ outcome = "error"
    BY <2>1, <2>3 DEF IInv, OtherInv
  <2> QED
    BY <2>1, <2>2, <2>3 DEF ExitsInv
<1> QED
  BY <1>1, Invariance, ExitsBegin, ExitsKept, PTL DEF Spec

\* However the campaign ends, no temporary file is left, but after an error or a panic on Windows;
\* a file that is left holds the results recorded, in their order and with the workers of their loop
\* (stdBench, AppendResult).
THEOREM FileLeft == Spec => []FileDisposed
<1>1. IInv => FileDisposed
  <2> SUFFICES ASSUME IInv, pc = "end"
               PROVE  IF named THEN recorded # <<>> => file.records = Lines
                      ELSE file.exists => system = "windows" /\ outcome # "nil" /\ file.records = Lines
    BY DEF FileDisposed, Std!FileDisposed, Std!Lines, Lines, Line
  <2>1. CASE mode = "bench"
    <3>1. StdFile
      BY <2>1 DEF IInv, StdInv, StdAll
    <3> QED
      BY <3>1 DEF StdFile
  <2>2. CASE mode # "bench"
    BY <2>2 DEF IInv, OtherInv
  <2> QED
    BY <2>1, <2>2
<1> QED
  BY <1>1, Invariance, PTL

\* The throughput of the OLTP processes never decreases; when all of them ran, it starts from
\* zero, grows by equal increments but for the rounding, and meets the flag at iteration nb
\* (spawnOLTP, main.go).
THEOREM LoadGrowsEvenly == Spec => []EvenProgression
<1>1. IInv => EvenProgression
  <2> SUFFICES ASSUME IInv PROVE EvenProgression
    OBVIOUS
  <2>1. CASE mode # "oltp"
    <3>1. offered = <<>> /\ nb \in Nat
      BY <2>1 DEF IInv, OtherInv
    <3>2. Len(offered) = 0 /\ ~Load!Complete
      BY <3>1 DEF Load!Complete, Load!Extra
    <3> QED
      BY <3>2 DEF EvenProgression, Load!EvenProgression
  <2>2. CASE mode = "oltp"
    <3>1. LoadTypes /\ LoadGrown
      BY <2>2 DEF IInv, LoadInv
    <3>2. PICK n : Grown(n)
      <4>1. nb \in Nat
        BY <3>1 DEF LoadTypes
      <4> QED
        BY <3>1, <4>1, GrownNone DEF LoadTypes, LoadGrown
    <3>3. nb \in Nat /\ tps \in Nat /\ offered \in Seq(Nat) /\ Len(offered) \in Nat
      BY <3>1 DEF LoadTypes
    <3>4. \A k \in 1..Len(offered) - 1 : offered[k] <= offered[k + 1]
      BY <3>2 DEF Grown
    <3>5. ASSUME Load!Complete
          PROVE  /\ offered[1] = 0 /\ offered[nb + 1] = tps
                 /\ \A k \in 1..Len(offered) - 1 :
                      (offered[k + 1] - offered[k]) * nb \in tps - nb + 1 .. tps + nb - 1
      <4>1. Len(offered) = nb + 4
        BY <3>5 DEF Load!Complete, Load!Extra
      <4>2. n \in 0..nb + 4 /\ (nb = 0 => n <= 1) /\ Len(offered) <= n
            /\ (Len(offered) = n => \A k \in 1..n : offered[k] = T(k - 1))
        BY <3>2 DEF Grown
      <4>3. nb \in Nat \ {0} /\ \A k \in 1..nb + 4 : offered[k] = T(k - 1)
        BY <3>3, <4>1, <4>2
      <4>4. offered[1] = T(0) /\ offered[nb + 1] = T(nb)
        BY <4>3
      <4>5. offered[1] = 0 /\ offered[nb + 1] = tps
        BY <3>3, <4>3, <4>4, Throughputs
      <4>6. ASSUME NEW k \in 1..Len(offered) - 1
            PROVE  (offered[k + 1] - offered[k]) * nb \in tps - nb + 1 .. tps + nb - 1
        <5>1. k - 1 \in Nat /\ (k - 1) + 1 = k /\ k \in 1..nb + 4 /\ k + 1 \in 1..nb + 4
              /\ (k + 1) - 1 = k
          BY <3>3, <4>1
        <5>2. offered[k] = T(k - 1) /\ offered[k + 1] = T(k)
          BY <4>3, <5>1
        <5> QED
          BY <3>3, <4>3, <5>1, <5>2, Throughputs
      <4> QED
        BY <4>5, <4>6
    <3> QED
      BY <3>4, <3>5 DEF EvenProgression, Load!EvenProgression
  <2> QED
    BY <2>1, <2>2
<1> QED
  BY <1>1, Invariance, PTL

-----------------------------------------------------------------------------
(* The statistics. *)

\* Induction on natural numbers, for a set of them.
LEMMA NaturalsBySet ==
  ASSUME NEW S, 0 \in S, \A n \in Nat : n \in S => n + 1 \in S
  PROVE  \A n \in Nat : n \in S
<1> DEFINE M == Nat \ S
<1>1. SUFFICES ASSUME M # {} PROVE FALSE
  OBVIOUS
<1>2. PICK x \in M : \A y \in M : ~ (<<y, x>> \in OpToRel(<, Nat))
  BY <1>1, NatLessThanWellFounded, WFMin
<1>3. x \in Nat /\ x # 0
  OBVIOUS
<1>4. x - 1 \in Nat /\ x - 1 < x
  BY <1>3
<1>5. <<x - 1, x>> \in OpToRel(<, Nat)
  BY <1>3, <1>4 DEF OpToRel
<1>6. x - 1 \notin M
  BY <1>2, <1>5
<1> QED
  BY <1>3, <1>4, <1>6

\* Induction on the subsets of a finite set, by their size.
LEMMA SetsBySize ==
  ASSUME NEW D, IsFiniteSet(D), NEW M,
         \A s \in SUBSET D : (\A x \in s : s \ {x} \in M) => s \in M
  PROVE  \A s \in SUBSET D : s \in M
<1> DEFINE S == {n \in Nat : \A s \in SUBSET D : Cardinality(s) = n => s \in M}
<1>1. \A s \in SUBSET D : IsFiniteSet(s) /\ Cardinality(s) \in Nat
  BY FS_Subset, FS_CardinalityType
<1>2. 0 \in S
  <2> SUFFICES ASSUME NEW s \in SUBSET D, Cardinality(s) = 0 PROVE s \in M
    OBVIOUS
  <2>1. s = {}
    BY <1>1, FS_EmptySet
  <2> QED
    BY <2>1
<1>3. ASSUME NEW n \in Nat, n \in S PROVE n + 1 \in S
  <2> SUFFICES ASSUME NEW s \in SUBSET D, Cardinality(s) = n + 1 PROVE s \in M
    OBVIOUS
  <2>1. ASSUME NEW x \in s PROVE s \ {x} \in M
    <3>1. Cardinality(s \ {x}) = Cardinality(s) - 1
      BY <1>1, FS_RemoveElement
    <3>2. s \ {x} \in SUBSET D /\ Cardinality(s \ {x}) = n
      BY <3>1
    <3> QED
      BY <1>3, <3>2
  <2> QED
    BY <2>1
<1> HIDE DEF S
<1>4. \A n \in Nat : n \in S
  BY <1>2, <1>3, NaturalsBySet
<1> QED
  BY <1>1, <1>4 DEF S

-----------------------------------------------------------------------------
(* A sum or a product of natural numbers, over a set of indices. *)

\* G is the total, by op, of the values that v has on a set.
IsTotal(G, D, v, op, base) ==
  /\ G \in [SUBSET D -> Nat]
  /\ G[{}] = base
  /\ \A s \in SUBSET D : \A x \in s : G[s] = op[v[x]][G[s \ {x}]]

Image(c, s) == {c[x] : x \in s}

\* c renames the indices: r has at x the value v has at c[x].
Renames(c, E, r, D, v) == c \in Bijection(E, D) /\ \A x \in E : r[x] = v[c[x]]

\* A total when the indices are renamed.
LEMMA TotalRenamed ==
  ASSUME NEW D, NEW v \in [D -> Nat], NEW op, NEW base, NEW G, IsTotal(G, D, v, op, base),
         NEW E, NEW c, NEW r, Renames(c, E, r, D, v)
  PROVE  \E W : IsTotal(W, E, r, op, base) /\ W[E] = G[D]
<1> DEFINE W == [s \in SUBSET E |-> G[Image(c, s)]]
<1>1. c \in [E -> D] /\ \A x, y \in E : c[x] = c[y] => x = y
  BY DEF Renames, Bijection, Injection, IsInjective
<1>2. \A s \in SUBSET E : Image(c, s) \in SUBSET D
  BY <1>1 DEF Image
<1>3. W \in [SUBSET E -> Nat]
  BY <1>2 DEF IsTotal
<1>4. Image(c, {}) = {} /\ Image(c, E) = D
  BY DEF Image, Renames, Bijection, Surjection
<1>5. W[{}] = base /\ W[E] = G[D]
  BY <1>4 DEF IsTotal
<1>6. ASSUME NEW s \in SUBSET E, NEW x \in s
      PROVE  W[s] = op[r[x]][W[s \ {x}]]
  <2>1. Image(c, s \ {x}) = Image(c, s) \ {c[x]} /\ c[x] \in Image(c, s)
    BY <1>1 DEF Image
  <2>2. G[Image(c, s)] = op[v[c[x]]][G[Image(c, s) \ {c[x]}]]
    BY <1>2, <2>1 DEF IsTotal
  <2>3. s \ {x} \in SUBSET E /\ r[x] = v[c[x]]
    BY DEF Renames
  <2> QED
    BY <2>1, <2>2, <2>3
<1> QED
  BY <1>3, <1>5, <1>6 DEF IsTotal

\* A function that takes the values of a set in some order is their total.
Takes(it, D, v, op, base) ==
  /\ it[{}] = base
  /\ \A s \in SUBSET D :
       s # {} => \E x \in s : it[s \ {x}] \in Nat => it[s] = op[v[x]][it[s \ {x}]]

LEMMA TotalUnique ==
  ASSUME NEW D, IsFiniteSet(D), NEW v, NEW op, NEW base, NEW G, IsTotal(G, D, v, op, base),
         NEW it, Takes(it, D, v, op, base)
  PROVE  it[D] = G[D]
<1> DEFINE M == {s \in SUBSET D : it[s] = G[s]}
<1>1. ASSUME NEW s \in SUBSET D, \A x \in s : s \ {x} \in M
      PROVE  s \in M
  <2>1. CASE s = {}
    BY <2>1 DEF IsTotal, Takes
  <2>2. CASE s # {}
    <3>1. PICK x \in s : it[s \ {x}] \in Nat => it[s] = op[v[x]][it[s \ {x}]]
      BY <2>2 DEF Takes
    <3>2. s \ {x} \in SUBSET D /\ it[s \ {x}] = G[s \ {x}]
      BY <1>1
    <3>3. G[s \ {x}] \in Nat /\ G[s] = op[v[x]][G[s \ {x}]]
      BY <3>2 DEF IsTotal
    <3> QED
      BY <3>1, <3>2, <3>3
  <2> QED
    BY <2>1, <2>2
<1> HIDE DEF M
<1>2. \A s \in SUBSET D : s \in M
  BY <1>1, SetsBySize
<1> QED
  BY <1>2 DEF M

\* A size is that of the parts of a set.
LEMMA SameSize ==
  ASSUME NEW S, NEW M, IsFiniteSet(S), NEW f \in [S -> M],
         \A x, y \in S : f[x] = f[y] => x = y, \A y \in M : \E x \in S : f[x] = y
  PROVE  IsFiniteSet(M) /\ Cardinality(M) = Cardinality(S)
<1>1. f \in Bijection(S, M)
  BY DEF Bijection, Injection, Surjection, IsInjective
<1>2. ExistsBijection(S, M)
  BY <1>1 DEF ExistsBijection
<1> QED
  BY <1>2, FS_Bijection

Times == [a \in Nat |-> [b \in Nat |-> a * b]]
Plus == [a \in Nat |-> [b \in Nat |-> a + b]]

LEMMA PlusIs ==
  ASSUME NEW a \in Nat, NEW b \in Nat
  PROVE  Plus[a][b] = a + b /\ Plus[a][b] = b + a
BY DEF Plus

LEMMA TimesIs ==
  ASSUME NEW a \in Nat, NEW b \in Nat
  PROVE  Times[a][b] = a * b /\ Times[a][b] = b * a
BY DEF Times

\* The product of some numbers: as many as choices of one number up to each.
Choices(v, s) == {h \in [s -> Nat] : \A k \in s : h[k] \in 1..v[k]}

\* One more number.
LEMMA ChoicesGrow ==
  ASSUME NEW D, NEW v \in [D -> Nat], NEW s \in SUBSET D, NEW x \in D, x \notin s,
         IsFiniteSet(Choices(v, s))
  PROVE  /\ IsFiniteSet(Choices(v, s \cup {x}))
         /\ Cardinality(Choices(v, s \cup {x})) = v[x] * Cardinality(Choices(v, s))
<1> DEFINE P == (1..v[x]) \X Choices(v, s)
           u == s \cup {x}
           f == [q \in P |-> [k \in u |-> IF k = x THEN q[1] ELSE q[2][k]]]
<1>1. IsFiniteSet(1..v[x]) /\ Cardinality(1..v[x]) = v[x]
  <2>1. v[x] \in Int /\ 1 \in Int /\ v[x] >= 0
    OBVIOUS
  <2> QED
    BY <2>1, FS_Interval
<1>2. IsFiniteSet(P) /\ Cardinality(P) = v[x] * Cardinality(Choices(v, s))
  BY <1>1, FS_Product
<1>3. f \in [P -> Choices(v, u)]
  BY DEF Choices
<1>4. ASSUME NEW q \in P, NEW w \in P, f[q] = f[w] PROVE q = w
  <2>1. /\ q = <<q[1], q[2]>> /\ w = <<w[1], w[2]>>
        /\ q[2] \in [s -> Nat] /\ w[2] \in [s -> Nat]
    BY DEF Choices
  <2>2. \A k \in u : f[q][k] = f[w][k]
    BY <1>4
  <2>3. q[1] = w[1] /\ \A k \in s : q[2][k] = w[2][k]
    BY <2>2
  <2> QED
    BY <2>1, <2>3
<1>5. ASSUME NEW h \in Choices(v, u) PROVE \E q \in P : f[q] = h
  <2> DEFINE g == [k \in s |-> h[k]]
             q == <<h[x], g>>
  <2>1. h \in [u -> Nat] /\ \A k \in u : h[k] \in 1..v[k]
    BY DEF Choices
  <2>2. g \in Choices(v, s)
    BY <2>1 DEF Choices
  <2>3. q \in P
    BY <2>1, <2>2
  <2>4. \A k \in u : f[q][k] = h[k]
    BY <2>3
  <2>5. f[q] = h
    BY <2>1, <2>3, <2>4
  <2> QED
    BY <2>3, <2>5
<1> HIDE DEF f, P
<1>6. IsFiniteSet(Choices(v, u)) /\ Cardinality(Choices(v, u)) = Cardinality(P)
  BY <1>2, <1>3, <1>4, <1>5, SameSize
<1> QED
  BY <1>2, <1>6

\* The product of the numbers of a set exists.
LEMMA ProductExists ==
  ASSUME NEW D, IsFiniteSet(D), NEW v \in [D -> Nat]
  PROVE  \E G : IsTotal(G, D, v, Times, 1)
<1> DEFINE G == [s \in SUBSET D |-> Cardinality(Choices(v, s))]
           M == {s \in SUBSET D : IsFiniteSet(Choices(v, s))}
<1>1. Choices(v, {}) = {[k \in {} |-> 0]}
  BY DEF Choices
<1>2. IsFiniteSet(Choices(v, {})) /\ Cardinality(Choices(v, {})) = 1
  BY <1>1, FS_Singleton
<1>3. ASSUME NEW s \in SUBSET D, \A x \in s : s \ {x} \in M
      PROVE  s \in M
  <2>1. CASE s = {}
    BY <1>2, <2>1
  <2>2. ASSUME NEW x \in s PROVE s \in M
    <3>1. IsFiniteSet(Choices(v, s \ {x})) /\ s \ {x} \in SUBSET D /\ x \in D /\ x \notin s \ {x}
      BY <1>3
    <3>2. (s \ {x}) \cup {x} = s
      OBVIOUS
    <3> QED
      BY <3>1, <3>2, ChoicesGrow
  <2> QED
    BY <2>1, <2>2
<1> HIDE DEF M
<1>4. \A s \in SUBSET D : s \in M
  BY <1>3, SetsBySize
<1>5. \A s \in SUBSET D : IsFiniteSet(Choices(v, s)) /\ Cardinality(Choices(v, s)) \in Nat
  BY <1>4, FS_CardinalityType DEF M
<1>6. ASSUME NEW s \in SUBSET D, NEW x \in s
      PROVE  G[s] = Times[v[x]][G[s \ {x}]]
  <2> DEFINE t == s \ {x}
  <2>1. t \in SUBSET D /\ x \in D /\ x \notin t /\ t \cup {x} = s
    OBVIOUS
  <2> HIDE DEF t
  <2>2. Cardinality(Choices(v, t \cup {x})) = v[x] * Cardinality(Choices(v, t))
    BY <1>5, <2>1, ChoicesGrow
  <2>3. G[s] = v[x] * G[t]
    BY <2>1, <2>2
  <2>4. v[x] \in Nat /\ G[t] \in Nat
    BY <1>5, <2>1
  <2>5. G[s] = Times[v[x]][G[t]]
    BY <2>3, <2>4, TimesIs
  <2> QED
    BY <2>5 DEF t
<1>7. IsTotal(G, D, v, Times, 1)
  <2>1. G \in [SUBSET D -> Nat] /\ G[{}] = 1
    BY <1>2, <1>5
  <2> HIDE DEF G
  <2> QED
    BY <1>6, <2>1 DEF IsTotal
<1> HIDE DEF G
<1> QED
  BY <1>7

\* The sum of some numbers: as many as pairs of an index and a number up to its value.
Parts(v, s) == {q \in s \X Nat : q[2] \in 1..v[q[1]]}

LEMMA PartsGrow ==
  ASSUME NEW D, NEW v \in [D -> Nat], NEW s \in SUBSET D, NEW x \in D, x \notin s,
         IsFiniteSet(Parts(v, s))
  PROVE  /\ IsFiniteSet(Parts(v, s \cup {x}))
         /\ Cardinality(Parts(v, s \cup {x})) = v[x] + Cardinality(Parts(v, s))
<1> DEFINE P == {x} \X (1..v[x])
<1>1. IsFiniteSet(1..v[x]) /\ Cardinality(1..v[x]) = v[x]
  <2>1. v[x] \in Int /\ 1 \in Int /\ v[x] >= 0
    OBVIOUS
  <2> QED
    BY <2>1, FS_Interval
<1>2. IsFiniteSet({x}) /\ Cardinality({x}) = 1
  BY FS_Singleton
<1>3. IsFiniteSet(P) /\ Cardinality(P) = v[x]
  <2>1. IsFiniteSet(P) /\ Cardinality(P) = 1 * v[x]
    BY <1>1, <1>2, FS_Product
  <2> QED
    BY <2>1
<1>4. Parts(v, s \cup {x}) = Parts(v, s) \cup P
  BY DEF Parts
<1>5. Parts(v, s) \cap P = {}
  BY DEF Parts
<1>6. /\ IsFiniteSet(Parts(v, s) \cup P)
      /\ Cardinality(Parts(v, s) \cup P)
           = Cardinality(Parts(v, s)) + Cardinality(P) - Cardinality(Parts(v, s) \cap P)
  <2> HIDE DEF P
  <2> QED
    BY <1>3, FS_Union
<1>7. Cardinality(Parts(v, s) \cap P) = 0 /\ Cardinality(Parts(v, s)) \in Nat
  BY <1>5, FS_EmptySet, FS_CardinalityType
<1> HIDE DEF P
<1>8. Cardinality(Parts(v, s) \cup P) = v[x] + Cardinality(Parts(v, s))
  BY <1>3, <1>6, <1>7
<1> QED
  BY <1>4, <1>6, <1>8

\* The sum of the numbers of a set exists.
LEMMA SumExists ==
  ASSUME NEW D, IsFiniteSet(D), NEW v \in [D -> Nat]
  PROVE  \E G : IsTotal(G, D, v, Plus, 0)
<1> DEFINE G == [s \in SUBSET D |-> Cardinality(Parts(v, s))]
           M == {s \in SUBSET D : IsFiniteSet(Parts(v, s))}
<1>1. Parts(v, {}) = {}
  BY DEF Parts
<1>2. IsFiniteSet(Parts(v, {})) /\ Cardinality(Parts(v, {})) = 0
  BY <1>1, FS_EmptySet
<1>3. ASSUME NEW s \in SUBSET D, \A x \in s : s \ {x} \in M
      PROVE  s \in M
  <2>1. CASE s = {}
    BY <1>2, <2>1
  <2>2. ASSUME NEW x \in s PROVE s \in M
    <3>1. IsFiniteSet(Parts(v, s \ {x})) /\ s \ {x} \in SUBSET D /\ x \in D /\ x \notin s \ {x}
      BY <1>3
    <3>2. (s \ {x}) \cup {x} = s
      OBVIOUS
    <3> QED
      BY <3>1, <3>2, PartsGrow
  <2> QED
    BY <2>1, <2>2
<1> HIDE DEF M
<1>4. \A s \in SUBSET D : s \in M
  BY <1>3, SetsBySize
<1>5. \A s \in SUBSET D : IsFiniteSet(Parts(v, s)) /\ Cardinality(Parts(v, s)) \in Nat
  BY <1>4, FS_CardinalityType DEF M
<1>6. ASSUME NEW s \in SUBSET D, NEW x \in s
      PROVE  G[s] = Plus[v[x]][G[s \ {x}]]
  <2> DEFINE t == s \ {x}
  <2>1. t \in SUBSET D /\ x \in D /\ x \notin t /\ t \cup {x} = s
    OBVIOUS
  <2> HIDE DEF t
  <2>2. Cardinality(Parts(v, t \cup {x})) = v[x] + Cardinality(Parts(v, t))
    BY <1>5, <2>1, PartsGrow
  <2>3. G[s] = v[x] + G[t]
    BY <2>1, <2>2
  <2>4. v[x] \in Nat /\ G[t] \in Nat
    BY <1>5, <2>1
  <2>5. G[s] = Plus[v[x]][G[t]]
    BY <2>3, <2>4, PlusIs
  <2> QED
    BY <2>5 DEF t
<1>7. IsTotal(G, D, v, Plus, 0)
  <2>1. G \in [SUBSET D -> Nat] /\ G[{}] = 0
    BY <1>2, <1>5
  <2> HIDE DEF G
  <2> QED
    BY <1>6, <2>1 DEF IsTotal
<1> HIDE DEF G
<1> QED
  BY <1>7

\* The greatest index of a set.
LEMMA LastIndex ==
  ASSUME NEW n \in Nat, NEW s \in SUBSET (1..n), s # {}
  PROVE  Std!Max(s) \in s
<1> DEFINE S == {m \in Nat : \A t \in SUBSET (1..m) : t # {} => \E x \in t : \A y \in t : x >= y}
<1>1. 0 \in S
  <2>1. 1..0 = {}
    OBVIOUS
  <2> QED
    BY <2>1
<1>2. ASSUME NEW m \in Nat, m \in S PROVE m + 1 \in S
  <2> SUFFICES ASSUME NEW t \in SUBSET (1..m + 1), t # {}
               PROVE  \E x \in t : \A y \in t : x >= y
    OBVIOUS
  <2>1. CASE m + 1 \in t
    BY <2>1
  <2>2. CASE m + 1 \notin t
    <3>1. t \in SUBSET (1..m)
      BY <2>2
    <3> QED
      BY <1>2, <3>1
  <2> QED
    BY <2>1, <2>2
<1> HIDE DEF S
<1>3. n \in S
  BY <1>1, <1>2, NaturalsBySet
<1> QED
  BY <1>3 DEF S, Std!Max

\* The sum of a list, as FoldLeft takes it.
LEMMA SumOfList ==
  ASSUME NEW r \in Seq(Nat), NEW n \in Nat, n = Len(r), NEW G, IsTotal(G, 1..n, r, Plus, 0)
  PROVE  Std!FoldLeft(LAMBDA x, y : x + y, 0, r) = G[1..n]
<1> DEFINE Eq(it) == it = [s \in SUBSET 1..n |-> IF s = {} THEN 0 ELSE it[s \ {Std!Max(s)}] + r[Std!Max(s)]]
<1>1. DOMAIN r = 1..n /\ IsFiniteSet(1..n)
  BY FS_Interval
<1>2. Std!FoldLeft(LAMBDA x, y : x + y, 0, r) = (CHOOSE it : Eq(it))[1..n]
  BY <1>1 DEF Std!FoldLeft, Std!MapThenFoldSet
<1>3. \A s \in SUBSET 1..n : s # {} => Std!Max(s) \in s
  BY LastIndex
<1>4. \A s \in SUBSET 1..n : \A x \in s :
        s \ {x} \in SUBSET 1..n /\ G[s \ {x}] \in Nat /\ r[x] \in Nat /\ G[s] = Plus[r[x]][G[s \ {x}]]
  <2>1. \A x \in 1..n : r[x] \in Nat
    BY ElementOfSeq
  <2> QED
    BY <2>1 DEF IsTotal
<1>5. Eq(G)
  <2>1. G = [s \in SUBSET 1..n |-> G[s]] /\ G[{}] = 0
    BY DEF IsTotal
  <2>2. ASSUME NEW s \in SUBSET 1..n, s # {}
        PROVE  G[s] = G[s \ {Std!Max(s)}] + r[Std!Max(s)]
    <3>1. PICK x \in s : x = Std!Max(s)
      BY <1>3, <2>2
    <3>2. G[s \ {x}] \in Nat /\ r[x] \in Nat /\ G[s] = Plus[r[x]][G[s \ {x}]]
      BY <1>4
    <3> QED
      BY <3>1, <3>2, PlusIs
  <2> QED
    BY <2>1, <2>2
<1> HIDE DEF Eq
<1>6. PICK it : it = (CHOOSE f : Eq(f)) /\ Eq(it)
  <2>1. Eq(CHOOSE f : Eq(f))
    BY <1>5
  <2> QED
    BY <2>1
<1>7. it[{}] = 0
  BY <1>6 DEF Eq
<1>8. ASSUME NEW s \in SUBSET 1..n, s # {}
      PROVE  \E x \in s : it[s \ {x}] \in Nat => it[s] = Plus[r[x]][it[s \ {x}]]
  <2>1. PICK x \in s : x = Std!Max(s)
    BY <1>3, <1>8
  <2>2. it[s] = it[s \ {x}] + r[x]
    BY <1>6, <1>8, <2>1 DEF Eq
  <2>3. r[x] \in Nat
    BY <1>4
  <2>4. it[s \ {x}] \in Nat => it[s] = Plus[r[x]][it[s \ {x}]]
    BY <2>2, <2>3, PlusIs
  <2> QED
    BY <2>4
<1>9. Takes(it, 1..n, r, Plus, 0)
  BY <1>7, <1>8 DEF Takes
<1>10. it[1..n] = G[1..n]
  BY <1>1, <1>9, TotalUnique
<1> QED
  BY <1>2, <1>6, <1>10

\* The sum of the values of a function.
LEMMA SumOfSet ==
  ASSUME NEW D, IsFiniteSet(D), NEW v \in [D -> Nat], NEW G, IsTotal(G, D, v, Plus, 0)
  PROVE  Std!MapThenSumSet(LAMBDA k : v[k], D) = G[D]
<1> DEFINE Eq(it) == it = [s \in SUBSET D |->
                 IF s = {} THEN 0 ELSE v[CHOOSE x \in s : TRUE] + it[s \ {CHOOSE x \in s : TRUE}]]
<1>1. IsFiniteSet(D) /\ DOMAIN v = D
  OBVIOUS
<1>2. Std!MapThenSumSet(LAMBDA k : v[k], D) = (CHOOSE it : Eq(it))[D]
  BY <1>1 DEF Std!MapThenSumSet, Std!MapThenFoldSet
<1>3. \A s \in SUBSET D : s # {} => (CHOOSE x \in s : TRUE) \in s
  OBVIOUS
<1>4. \A s \in SUBSET D : \A x \in s :
        s \ {x} \in SUBSET D /\ G[s \ {x}] \in Nat /\ v[x] \in Nat /\ G[s] = Plus[v[x]][G[s \ {x}]]
  BY DEF IsTotal
<1>5. Eq(G)
  <2>1. G = [s \in SUBSET D |-> G[s]] /\ G[{}] = 0
    BY DEF IsTotal
  <2>2. ASSUME NEW s \in SUBSET D, s # {}
        PROVE  G[s] = v[CHOOSE x \in s : TRUE] + G[s \ {CHOOSE x \in s : TRUE}]
    <3>1. PICK x \in s : x = CHOOSE y \in s : TRUE
      BY <1>3, <2>2
    <3>2. G[s \ {x}] \in Nat /\ v[x] \in Nat /\ G[s] = Plus[v[x]][G[s \ {x}]]
      BY <1>4
    <3> QED
      BY <3>1, <3>2, PlusIs
  <2> QED
    BY <2>1, <2>2
<1> HIDE DEF Eq
<1>6. PICK it : it = (CHOOSE f : Eq(f)) /\ Eq(it)
  <2>1. Eq(CHOOSE f : Eq(f))
    BY <1>5
  <2> QED
    BY <2>1
<1>7. it[{}] = 0
  BY <1>6 DEF Eq
<1>8. ASSUME NEW s \in SUBSET D, s # {}
      PROVE  \E x \in s : it[s \ {x}] \in Nat => it[s] = Plus[v[x]][it[s \ {x}]]
  <2>1. PICK x \in s : x = CHOOSE y \in s : TRUE
    BY <1>3, <1>8
  <2>2. it[s] = v[x] + it[s \ {x}]
    BY <1>6, <1>8, <2>1 DEF Eq
  <2>3. v[x] \in Nat
    BY <1>4
  <2>4. it[s \ {x}] \in Nat => it[s] = Plus[v[x]][it[s \ {x}]]
    BY <2>2, <2>3, PlusIs
  <2> QED
    BY <2>4
<1>9. Takes(it, D, v, Plus, 0)
  BY <1>7, <1>8 DEF Takes
<1>10. it[D] = G[D]
  BY <1>1, <1>9, TotalUnique
<1> QED
  BY <1>2, <1>6, <1>10

\* The product of a list, as FoldLeft takes it.
LEMMA ProductOfList ==
  ASSUME NEW r \in Seq(Nat), NEW n \in Nat, n = Len(r), NEW G, IsTotal(G, 1..n, r, Times, 1)
  PROVE  Std!FoldLeft(LAMBDA x, y : x * y, 1, r) = G[1..n]
<1> DEFINE Eq(it) == it = [s \in SUBSET 1..n |-> IF s = {} THEN 1 ELSE it[s \ {Std!Max(s)}] * r[Std!Max(s)]]
<1>1. DOMAIN r = 1..n /\ IsFiniteSet(1..n)
  BY FS_Interval
<1>2. Std!FoldLeft(LAMBDA x, y : x * y, 1, r) = (CHOOSE it : Eq(it))[1..n]
  BY <1>1 DEF Std!FoldLeft, Std!MapThenFoldSet
<1>3. \A s \in SUBSET 1..n : s # {} => Std!Max(s) \in s
  BY LastIndex
<1>4. \A s \in SUBSET 1..n : \A x \in s :
        s \ {x} \in SUBSET 1..n /\ G[s \ {x}] \in Nat /\ r[x] \in Nat /\ G[s] = Times[r[x]][G[s \ {x}]]
  <2>1. \A x \in 1..n : r[x] \in Nat
    BY ElementOfSeq
  <2> QED
    BY <2>1 DEF IsTotal
<1>5. Eq(G)
  <2>1. G = [s \in SUBSET 1..n |-> G[s]] /\ G[{}] = 1
    BY DEF IsTotal
  <2>2. ASSUME NEW s \in SUBSET 1..n, s # {}
        PROVE  G[s] = G[s \ {Std!Max(s)}] * r[Std!Max(s)]
    <3>1. PICK x \in s : x = Std!Max(s)
      BY <1>3, <2>2
    <3>2. G[s \ {x}] \in Nat /\ r[x] \in Nat /\ G[s] = Times[r[x]][G[s \ {x}]]
      BY <1>4
    <3> QED
      BY <3>1, <3>2, TimesIs
  <2> QED
    BY <2>1, <2>2
<1> HIDE DEF Eq
<1>6. PICK it : it = (CHOOSE f : Eq(f)) /\ Eq(it)
  <2>1. Eq(CHOOSE f : Eq(f))
    BY <1>5
  <2> QED
    BY <2>1
<1>7. it[{}] = 1
  BY <1>6 DEF Eq
<1>8. ASSUME NEW s \in SUBSET 1..n, s # {}
      PROVE  \E x \in s : it[s \ {x}] \in Nat => it[s] = Times[r[x]][it[s \ {x}]]
  <2>1. PICK x \in s : x = Std!Max(s)
    BY <1>3, <1>8
  <2>2. it[s] = it[s \ {x}] * r[x]
    BY <1>6, <1>8, <2>1 DEF Eq
  <2>3. r[x] \in Nat
    BY <1>4
  <2>4. it[s \ {x}] \in Nat => it[s] = Times[r[x]][it[s \ {x}]]
    BY <2>2, <2>3, TimesIs
  <2> QED
    BY <2>4
<1>9. Takes(it, 1..n, r, Times, 1)
  BY <1>7, <1>8 DEF Takes
<1>10. it[1..n] = G[1..n]
  BY <1>1, <1>9, TotalUnique
<1> QED
  BY <1>2, <1>6, <1>10

\* The product of the values of a function.
LEMMA ProductOfSet ==
  ASSUME NEW D, IsFiniteSet(D), NEW v \in [D -> Nat], NEW G, IsTotal(G, D, v, Times, 1)
  PROVE  Std!FoldFunction(LAMBDA x, y : x * y, 1, v) = G[D]
<1> DEFINE Eq(it) == it = [s \in SUBSET D |->
                 IF s = {} THEN 1 ELSE v[CHOOSE x \in s : TRUE] * it[s \ {CHOOSE x \in s : TRUE}]]
<1>1. IsFiniteSet(D) /\ DOMAIN v = D
  OBVIOUS
<1>2. Std!FoldFunction(LAMBDA x, y : x * y, 1, v) = (CHOOSE it : Eq(it))[D]
  BY <1>1 DEF Std!FoldFunction, Std!FoldFunctionOnSet, Std!MapThenFoldSet
<1>3. \A s \in SUBSET D : s # {} => (CHOOSE x \in s : TRUE) \in s
  OBVIOUS
<1>4. \A s \in SUBSET D : \A x \in s :
        s \ {x} \in SUBSET D /\ G[s \ {x}] \in Nat /\ v[x] \in Nat /\ G[s] = Times[v[x]][G[s \ {x}]]
  BY DEF IsTotal
<1>5. Eq(G)
  <2>1. G = [s \in SUBSET D |-> G[s]] /\ G[{}] = 1
    BY DEF IsTotal
  <2>2. ASSUME NEW s \in SUBSET D, s # {}
        PROVE  G[s] = v[CHOOSE x \in s : TRUE] * G[s \ {CHOOSE x \in s : TRUE}]
    <3>1. PICK x \in s : x = CHOOSE y \in s : TRUE
      BY <1>3, <2>2
    <3>2. G[s \ {x}] \in Nat /\ v[x] \in Nat /\ G[s] = Times[v[x]][G[s \ {x}]]
      BY <1>4
    <3> QED
      BY <3>1, <3>2, TimesIs
  <2> QED
    BY <2>1, <2>2
<1> HIDE DEF Eq
<1>6. PICK it : it = (CHOOSE f : Eq(f)) /\ Eq(it)
  <2>1. Eq(CHOOSE f : Eq(f))
    BY <1>5
  <2> QED
    BY <2>1
<1>7. it[{}] = 1
  BY <1>6 DEF Eq
<1>8. ASSUME NEW s \in SUBSET D, s # {}
      PROVE  \E x \in s : it[s \ {x}] \in Nat => it[s] = Times[v[x]][it[s \ {x}]]
  <2>1. PICK x \in s : x = CHOOSE y \in s : TRUE
    BY <1>3, <1>8
  <2>2. it[s] = v[x] * it[s \ {x}]
    BY <1>6, <1>8, <2>1 DEF Eq
  <2>3. v[x] \in Nat
    BY <1>4
  <2>4. it[s \ {x}] \in Nat => it[s] = Times[v[x]][it[s \ {x}]]
    BY <2>2, <2>3, TimesIs
  <2> QED
    BY <2>4
<1>9. Takes(it, D, v, Times, 1)
  BY <1>7, <1>8 DEF Takes
<1>10. it[D] = G[D]
  BY <1>1, <1>9, TotalUnique
<1> QED
  BY <1>2, <1>6, <1>10

-----------------------------------------------------------------------------
(* Order statistics. *)

\* Campaign counts with the cardinality of the library.
LEMMA SameCardinality ==
  ASSUME NEW S
  PROVE  Std!Cardinality(S) = Cardinality(S)
BY DEF Std!Cardinality, Cardinality

LEMMA FirstNumbers ==
  ASSUME NEW m \in Nat
  PROVE  IsFiniteSet(1..m) /\ Cardinality(1..m) = m
<1>1. m \in Int /\ 1 \in Int /\ m >= 0
  OBVIOUS
<1> QED
  BY <1>1, FS_Interval

\* Two of the elements of a list, the order of their ranks.
Before(u, x, k) == u[x] < u[k] \/ (u[x] = u[k] /\ x <= k)

\* sort.Float64s: the list in order, each element at a place of its own.
LEMMA SortedFacts ==
  ASSUME NEW u \in Seq(Nat), NEW n \in Nat, n = Len(u)
  PROVE  /\ Std!Sorted[u] \in Seq(Nat) /\ Len(Std!Sorted[u]) = n
         /\ \A j, k \in 1..n : j < k => Std!Sorted[u][j] <= Std!Sorted[u][k]
         /\ \E p \in Bijection(1..n, 1..n) : \A k \in 1..n : Std!Sorted[u][k] = u[p[k]]
<1> DEFINE B(k) == {x \in 1..n : Before(u, x, k)}
           rk == [k \in 1..n |-> Cardinality(B(k))]
           p == [j \in 1..n |-> CHOOSE k \in 1..n : rk[k] = j]
<1>1. DOMAIN u = 1..n /\ \A k \in 1..n : u[k] \in Nat
  BY ElementOfSeq
<1>2. \A k \in 1..n : Std!Rank(u, k) = rk[k]
  <2> SUFFICES ASSUME NEW k \in 1..n PROVE Std!Rank(u, k) = rk[k]
    OBVIOUS
  <2>1. B(k) = {x \in DOMAIN u : u[x] < u[k] \/ (u[x] = u[k] /\ x <= k)}
    BY <1>1 DEF Before
  <2> QED
    BY <2>1, SameCardinality DEF Std!Rank
<1>3. Std!Sorted[u] = [j \in 1..n |-> u[CHOOSE k \in 1..n : Std!Rank(u, k) = j]]
  <2>1. Std!Sorted[u] = [j \in DOMAIN u |-> u[CHOOSE k \in DOMAIN u : Std!Rank(u, k) = j]]
    BY DEF Std!Sorted
  <2> QED
    BY <1>1, <2>1
<1>4. IsFiniteSet(1..n) /\ Cardinality(1..n) = n
  BY FirstNumbers
<1>5. \A k \in 1..n :
        B(k) \in SUBSET (1..n) /\ IsFiniteSet(B(k)) /\ Cardinality(B(k)) \in Nat /\ Cardinality(B(k)) <= n
  BY <1>4, FS_Subset, FS_CardinalityType
<1>6. ASSUME NEW k \in 1..n, NEW x \in 1..n, ~Before(u, k, x)
      PROVE  rk[x] < rk[k]
  <2>1. u[k] \in Nat /\ u[x] \in Nat /\ k \in Nat /\ x \in Nat
    BY <1>1
  <2>2. B(x) \in SUBSET B(k)
    <3> SUFFICES ASSUME NEW y \in 1..n, Before(u, y, x) PROVE Before(u, y, k)
      OBVIOUS
    <3>1. u[y] \in Nat /\ y \in Nat
      BY <1>1
    <3> QED
      BY <1>6, <2>1, <3>1 DEF Before
  <2>3. k \in B(k) /\ k \notin B(x)
    BY <1>6, <2>1 DEF Before
  <2>4. B(x) # B(k)
    BY <2>3
  <2> HIDE DEF B
  <2>5. Cardinality(B(x)) <= Cardinality(B(k)) /\ Cardinality(B(x)) # Cardinality(B(k))
    BY <1>5, <2>2, <2>4, FS_Subset
  <2> QED
    BY <1>5, <2>5
<1>7. \A k \in 1..n : rk[k] \in 1..n
  <2> SUFFICES ASSUME NEW k \in 1..n PROVE rk[k] \in 1..n
    OBVIOUS
  <2>1. k \in B(k)
    BY <1>1 DEF Before
  <2> HIDE DEF B
  <2>2. Cardinality(B(k)) # 0
    BY <1>5, <2>1, FS_EmptySet
  <2> QED
    BY <1>5, <2>2
<1> HIDE DEF B
<1>8. ASSUME NEW k \in 1..n, NEW x \in 1..n, rk[k] = rk[x] PROVE k = x
  <2>1. Before(u, k, x) /\ Before(u, x, k)
    BY <1>6, <1>7, <1>8
  <2> QED
    BY <1>1, <2>1 DEF Before
<1>9. rk \in Surjection(1..n, 1..n)
  <2>1. rk \in [1..n -> 1..n]
    BY <1>7
  <2> HIDE DEF rk
  <2>2. rk \in Injection(1..n, 1..n)
    BY <1>8, <2>1 DEF Injection, IsInjective
  <2> QED
    BY <1>4, <2>2, FS_Injection
<1> HIDE DEF rk
<1>10. \A j \in 1..n : p[j] \in 1..n /\ rk[p[j]] = j
  BY <1>9 DEF Surjection
<1>11. p \in Bijection(1..n, 1..n)
  <2>1. p \in [1..n -> 1..n]
    BY <1>10
  <2>2. \A j, k \in 1..n : p[j] = p[k] => j = k
    BY <1>10
  <2>3. ASSUME NEW k \in 1..n PROVE \E j \in 1..n : p[j] = k
    <3>1. rk[k] \in 1..n /\ p[rk[k]] = k
      BY <1>7, <1>8, <1>10
    <3> QED
      BY <3>1
  <2> HIDE DEF p
  <2> QED
    BY <2>1, <2>2, <2>3 DEF Bijection, Injection, Surjection, IsInjective
<1>12. Std!Sorted[u] = [j \in 1..n |-> u[p[j]]]
  <2>1. \A j \in 1..n : (CHOOSE k \in 1..n : Std!Rank(u, k) = j) = p[j]
    BY <1>2
  <2> HIDE DEF p
  <2> QED
    BY <1>3, <2>1
<1> HIDE DEF p
<1>13. Std!Sorted[u] \in Seq(Nat) /\ Len(Std!Sorted[u]) = n
  <2>1. \A j \in 1..n : u[p[j]] \in Nat
    BY <1>1, <1>10
  <2> QED
    BY <1>12, <2>1
<1>14. ASSUME NEW j \in 1..n, NEW k \in 1..n, j < k PROVE u[p[j]] <= u[p[k]]
  <2>1. p[j] \in 1..n /\ p[k] \in 1..n /\ rk[p[j]] = j /\ rk[p[k]] = k
    BY <1>10
  <2>2. Before(u, p[j], p[k])
    BY <1>6, <1>14, <2>1
  <2>3. u[p[j]] \in Nat /\ u[p[k]] \in Nat
    BY <1>1, <2>1
  <2> QED
    BY <2>2, <2>3 DEF Before
<1> QED
  BY <1>11, <1>12, <1>13, <1>14

\* r is in order.
Ascends(r, n) == \A j, k \in 1..n : j < k => r[j] <= r[k]

\* The k-th element of a sorted list is the k-th smallest value.
LEMMA KthSmallest ==
  ASSUME NEW D, IsFiniteSet(D), NEW v \in [D -> Nat], NEW n \in Nat, NEW c, NEW r,
         Renames(c, 1..n, r, D, v), Ascends(r, n), NEW k \in 1..n
  PROVE  Std!IsSmallest(k, v, r[k])
<1> DEFINE Less == {y \in D : v[y] < r[k]}
           Most == {y \in D : v[y] <= r[k]}
           low == {c[j] : j \in 1..k - 1}
           all == {c[j] : j \in 1..k}
<1>1. /\ c \in [1..n -> D] /\ \A x, y \in 1..n : c[x] = c[y] => x = y
      /\ \A y \in D : \E x \in 1..n : c[x] = y
      /\ \A x \in 1..n : r[x] = v[c[x]]
  BY DEF Renames, Bijection, Injection, Surjection, IsInjective
<1>2. /\ \A j \in 1..n : r[j] \in Nat
      /\ \A j, x \in 1..n : j < x => r[j] <= r[x]
  BY <1>1 DEF Ascends
<1>3. IsFiniteSet(Less) /\ IsFiniteSet(Most) /\ Cardinality(Less) \in Nat /\ Cardinality(Most) \in Nat
  BY FS_Subset, FS_CardinalityType
<1>4. ASSUME NEW m \in Nat, m <= n
      PROVE  IsFiniteSet({c[j] : j \in 1..m}) /\ Cardinality({c[j] : j \in 1..m}) = m
  <2> DEFINE f == [j \in 1..m |-> c[j]]
             S == {c[j] : j \in 1..m}
  <2>1. f \in [1..m -> S]
    OBVIOUS
  <2>2. \A x, y \in 1..m : f[x] = f[y] => x = y
    BY <1>1, <1>4
  <2>3. \A y \in S : \E x \in 1..m : f[x] = y
    OBVIOUS
  <2>4. IsFiniteSet(1..m) /\ Cardinality(1..m) = m
    BY FirstNumbers
  <2> HIDE DEF f, S
  <2>5. IsFiniteSet(S) /\ Cardinality(S) = m
    BY <2>1, <2>2, <2>3, <2>4, SameSize
  <2> QED
    BY <2>5 DEF S
<1>5. Less \in SUBSET low
  <2> SUFFICES ASSUME NEW y \in D, v[y] < r[k] PROVE y \in low
    OBVIOUS
  <2>1. PICK j \in 1..n : c[j] = y
    BY <1>1
  <2>2. r[j] < r[k] /\ r[j] \in Nat /\ r[k] \in Nat
    BY <1>1, <1>2, <2>1
  <2>3. j < k
    BY <1>2, <2>2
  <2> QED
    BY <2>1, <2>3
<1>6. all \in SUBSET Most
  <2> SUFFICES ASSUME NEW j \in 1..k PROVE c[j] \in D /\ v[c[j]] <= r[k]
    OBVIOUS
  <2>1. j \in 1..n /\ r[j] \in Nat /\ r[k] \in Nat /\ (j < k \/ j = k)
    BY <1>2
  <2>2. r[j] <= r[k]
    BY <1>2, <2>1
  <2> QED
    BY <1>1, <2>1, <2>2
<1>7. Cardinality(low) = k - 1 /\ IsFiniteSet(low) /\ Cardinality(all) = k
  <2>1. k - 1 \in Nat /\ k \in Nat /\ k - 1 <= n /\ k <= n
    OBVIOUS
  <2> QED
    BY <1>4, <2>1
<1> HIDE DEF Less, Most, low, all
<1>8. Cardinality(Less) <= k - 1 /\ k <= Cardinality(Most)
  BY <1>3, <1>5, <1>6, <1>7, FS_Subset
<1>9. Cardinality(Less) < k /\ Cardinality(Most) >= k
  BY <1>3, <1>8
<1>10. DOMAIN v = D
  OBVIOUS
<1> QED
  BY <1>9, <1>10, SameCardinality DEF Std!IsSmallest, Less, Most

\* What the lists of a function's values have in common.
Lists(r, n, c, D, v) == r \in Seq(Nat) /\ Len(r) = n /\ Renames(c, 1..n, r, D, v)

LEMMA ListFacts ==
  ASSUME NEW D, NEW v \in [D -> Nat], NEW n \in Nat, NEW c, NEW r, Lists(r, n, c, D, v)
  PROVE  /\ r \in Seq(Nat) /\ Len(r) = n /\ DOMAIN r = 1..n /\ Renames(c, 1..n, r, D, v)
         /\ \A k \in 1..n : c[k] \in D /\ r[k] = v[c[k]] /\ r[k] \in Nat
         /\ \A y \in D : \E k \in 1..n : c[k] = y
         /\ IsFiniteSet(D) /\ Cardinality(D) = n
<1>1. r \in Seq(Nat) /\ Len(r) = n /\ Renames(c, 1..n, r, D, v)
  BY DEF Lists
<1>2. c \in [1..n -> D] /\ \A x, y \in 1..n : c[x] = c[y] => x = y
  BY <1>1 DEF Renames, Bijection, Injection, IsInjective
<1>3. \A y \in D : \E k \in 1..n : c[k] = y
  BY <1>1 DEF Renames, Bijection, Surjection
<1>4. \A k \in 1..n : c[k] \in D /\ r[k] = v[c[k]] /\ r[k] \in Nat
  BY <1>1, <1>2 DEF Renames
<1>5. IsFiniteSet(1..n) /\ Cardinality(1..n) = n
  BY FirstNumbers
<1>6. IsFiniteSet(D) /\ Cardinality(D) = n
  BY <1>2, <1>3, <1>5, SameSize
<1> QED
  BY <1>1, <1>3, <1>4, <1>6

\* Sorting a list of a function's values makes another one.
LEMMA SortedLists ==
  ASSUME NEW D, NEW v \in [D -> Nat], NEW u, NEW n \in Nat, NEW b, Lists(u, n, b, D, v)
  PROVE  \E c : Lists(Std!Sorted[u], n, c, D, v) /\ Ascends(Std!Sorted[u], n)
<1> DEFINE r == Std!Sorted[u]
<1>1. u \in Seq(Nat) /\ n = Len(u) /\ \A k \in 1..n : u[k] = v[b[k]]
  BY ListFacts DEF Lists, Renames
<1>2. /\ r \in Seq(Nat) /\ Len(r) = n
      /\ \A j, k \in 1..n : j < k => r[j] <= r[k]
      /\ \E p \in Bijection(1..n, 1..n) : \A k \in 1..n : r[k] = u[p[k]]
  BY <1>1, SortedFacts, Zenon
<1> HIDE DEF r
<1>3. PICK p \in Bijection(1..n, 1..n) : \A k \in 1..n : r[k] = u[p[k]]
  BY <1>2
<1> DEFINE c == [k \in 1..n |-> b[p[k]]]
<1>4. /\ b \in [1..n -> D] /\ \A x, y \in 1..n : b[x] = b[y] => x = y
      /\ \A y \in D : \E x \in 1..n : b[x] = y
  BY DEF Lists, Renames, Bijection, Injection, Surjection, IsInjective
<1>5. /\ p \in [1..n -> 1..n] /\ \A x, y \in 1..n : p[x] = p[y] => x = y
      /\ \A y \in 1..n : \E x \in 1..n : p[x] = y
  BY DEF Bijection, Injection, Surjection, IsInjective
<1>6. \A k \in 1..n : p[k] \in 1..n /\ c[k] = b[p[k]] /\ c[k] \in D
  BY <1>4, <1>5
<1>7. c \in [1..n -> D]
  BY <1>6
<1> HIDE DEF c
<1>8. ASSUME NEW x \in 1..n, NEW y \in 1..n, c[x] = c[y] PROVE x = y
  <2>1. b[p[x]] = b[p[y]] /\ p[x] \in 1..n /\ p[y] \in 1..n
    BY <1>6, <1>8
  <2>2. p[x] = p[y]
    BY <1>4, <2>1
  <2> QED
    BY <1>5, <2>2
<1>9. ASSUME NEW y \in D PROVE \E x \in 1..n : c[x] = y
  <2>1. PICK z \in 1..n : b[z] = y
    BY <1>4
  <2>2. PICK x \in 1..n : p[x] = z
    BY <1>5
  <2> QED
    BY <1>6, <2>1, <2>2
<1>10. c \in Bijection(1..n, D)
  BY <1>7, <1>8, <1>9 DEF Bijection, Injection, Surjection, IsInjective
<1>11. \A k \in 1..n : r[k] = v[c[k]]
  BY <1>1, <1>3, <1>6
<1>12. Lists(r, n, c, D, v) /\ Ascends(r, n)
  BY <1>2, <1>10, <1>11 DEF Lists, Renames, Ascends
<1> QED
  BY <1>12 DEF r

\* The totals as the property has them.
SumOver(v, D) == Std!MapThenSumSet(LAMBDA k : v[k], D)
ProductOver(v) == Std!FoldFunction(LAMBDA x, y : x * y, 1, v)

\* average and geoMean, of such a list.
LEMMA AverageOfList ==
  ASSUME NEW D, NEW v \in [D -> Nat], NEW n \in Nat, NEW c, NEW r, Lists(r, n, c, D, v)
  PROVE  Std!average(r) = [sum |-> SumOver(v, D), of |-> n]
<1>1. r \in Seq(Nat) /\ Len(r) = n /\ Renames(c, 1..n, r, D, v) /\ IsFiniteSet(D)
  BY ListFacts, Zenon
<1>2. PICK G : IsTotal(G, D, v, Plus, 0)
  BY <1>1, SumExists
<1>3. PICK W : IsTotal(W, 1..n, r, Plus, 0) /\ W[1..n] = G[D]
  BY <1>1, <1>2, TotalRenamed
<1>4. Std!FoldLeft(LAMBDA x, y : x + y, 0, r) = W[1..n]
  BY <1>1, <1>3, SumOfList, Zenon
<1>5. SumOver(v, D) = G[D]
  BY <1>1, <1>2, SumOfSet DEF SumOver
<1>6. Std!average(r) = [sum |-> Std!FoldLeft(LAMBDA x, y : x + y, 0, r), of |-> Len(r)]
  BY Zenon DEF Std!average
<1> QED
  BY <1>1, <1>3, <1>4, <1>5, <1>6, Zenon

LEMMA GeoMeanOfList ==
  ASSUME NEW D, NEW v \in [D -> Nat], NEW n \in Nat, NEW c, NEW r, Lists(r, n, c, D, v)
  PROVE  Std!geoMean(r) = IF 0 \in Std!Range(v) THEN [nan |-> TRUE]
                          ELSE [product |-> ProductOver(v), of |-> n]
<1>1. r \in Seq(Nat) /\ Len(r) = n /\ Renames(c, 1..n, r, D, v) /\ IsFiniteSet(D)
  BY ListFacts, Zenon
<1>2. PICK G : IsTotal(G, D, v, Times, 1)
  BY <1>1, ProductExists
<1>3. PICK W : IsTotal(W, 1..n, r, Times, 1) /\ W[1..n] = G[D]
  BY <1>1, <1>2, TotalRenamed
<1>4. Std!FoldLeft(LAMBDA x, y : x * y, 1, r) = W[1..n]
  BY <1>1, <1>3, ProductOfList, Zenon
<1>5. ProductOver(v) = G[D]
  BY <1>1, <1>2, ProductOfSet, Zenon DEF ProductOver
<1>6. (\E k \in DOMAIN r : r[k] <= 0) <=> 0 \in Std!Range(v)
  <2>1. /\ DOMAIN r = 1..n
        /\ \A k \in 1..n : c[k] \in D /\ r[k] = v[c[k]] /\ r[k] \in Nat
        /\ \A y \in D : \E k \in 1..n : c[k] = y
    BY ListFacts
  <2>2. ASSUME NEW k \in 1..n, r[k] <= 0 PROVE 0 \in Std!Range(v)
    <3>1. v[c[k]] = 0 /\ c[k] \in DOMAIN v
      BY <2>1, <2>2
    <3> QED
      BY <3>1 DEF Std!Range
  <2>3. ASSUME 0 \in Std!Range(v) PROVE \E k \in 1..n : r[k] <= 0
    <3>1. PICK y \in D : v[y] = 0
      BY <2>3 DEF Std!Range
    <3>2. PICK k \in 1..n : c[k] = y
      BY <2>1
    <3>3. r[k] = 0
      BY <2>1, <3>1, <3>2
    <3> QED
      BY <3>3
  <2> QED
    BY <2>1, <2>2, <2>3, Zenon
<1>7. Std!geoMean(r) = IF \E k \in DOMAIN r : r[k] <= 0 THEN [nan |-> TRUE]
                       ELSE [product |-> Std!FoldLeft(LAMBDA x, y : x * y, 1, r), of |-> Len(r)]
  BY Zenon DEF Std!geoMean
<1> QED
  BY <1>1, <1>3, <1>4, <1>5, <1>6, <1>7, Zenon

\* The middle of a number of values, counted from below and from above.
LEMMA Middle ==
  ASSUME NEW n \in Nat, n > 0
  PROVE  /\ (n + 1) \div 2 \in 1..n /\ n + 1 - ((n + 1) \div 2) \in 1..n
         /\ n % 2 = 0 => /\ n \div 2 = (n + 1) \div 2
                         /\ n \div 2 + 1 = n + 1 - ((n + 1) \div 2)
         /\ n % 2 # 0 => /\ n \div 2 + 1 = (n + 1) \div 2
                         /\ n \div 2 + 1 = n + 1 - ((n + 1) \div 2)
<1>1. PICK q \in Nat, e \in {0, 1} : q = n \div 2 /\ e = n % 2 /\ n = 2 * q + e
  OBVIOUS
<1>2. CASE e = 0
  <2>1. n = 2 * q
    BY <1>1, <1>2
  <2>2. (2 * q + 1) \div 2 = q
    OBVIOUS
  <2> QED
    BY <1>1, <1>2, <2>1, <2>2
<1>3. CASE e = 1
  <2>1. n = 2 * q + 1
    BY <1>1, <1>3
  <2>2. (2 * q + 2) \div 2 = q + 1
    OBVIOUS
  <2>3. n + 1 = 2 * q + 2
    BY <2>1
  <2> QED
    BY <1>1, <1>3, <2>1, <2>2, <2>3
<1> QED
  BY <1>1, <1>2, <1>3

\* displayStat, of the values of a function taken in any order.
LEMMA StatisticsOfList ==
  ASSUME NEW D, NEW v \in [D -> Nat], NEW u, NEW n \in Nat, n > 0, NEW b, Lists(u, n, b, D, v)
  PROVE  Std!AreStatistics(Std!displayStat(u), v)
<1>1. PICK r : r = Std!Sorted[u]
  OBVIOUS
<1>2. PICK c : Lists(r, n, c, D, v) /\ Ascends(r, n)
  BY <1>1, SortedLists, Zenon
<1>3. /\ r \in Seq(Nat) /\ Len(r) = n /\ Renames(c, 1..n, r, D, v)
      /\ \A k \in 1..n : c[k] \in D /\ r[k] = v[c[k]] /\ r[k] \in Nat
      /\ IsFiniteSet(D) /\ Cardinality(D) = n
  BY <1>2, ListFacts, Zenon
<1>4. \A k \in 1..n : Std!IsSmallest(k, v, r[k])
  BY <1>2, <1>3, KthSmallest, Zenon
<1>5. \A k \in 1..n : r[k] \in Std!Range(v)
  BY <1>3 DEF Std!Range
<1>6. Std!displayStat(u) =
        [min |-> r[1], max |-> r[n], twiceMedian |-> Std!TwiceMedian(r),
         average |-> Std!average(r), geo |-> Std!geoMean(r)]
  <2>1. Std!displayStat(u) = Std!Statistics[r]
    BY <1>1 DEF Std!displayStat
  <2> QED
    BY <1>3, <2>1 DEF Std!Statistics
<1> DEFINE l == (n + 1) \div 2
           h == n + 1 - ((n + 1) \div 2)
<1>7. Std!TwiceMedian(r) = r[l] + r[h] /\ l \in 1..n /\ h \in 1..n
  <2>1. l \in 1..n /\ h \in 1..n
    BY Middle
  <2>2. Std!TwiceMedian(r) = IF n % 2 = 0 THEN r[n \div 2] + r[n \div 2 + 1] ELSE 2 * r[n \div 2 + 1]
    BY <1>3 DEF Std!TwiceMedian
  <2>3. n % 2 = 0 => Std!TwiceMedian(r) = r[l] + r[h]
    BY <2>2, Middle, Zenon
  <2>4. n % 2 # 0 => Std!TwiceMedian(r) = 2 * r[l] /\ l = h
    BY <2>2, Middle, Zenon
  <2> HIDE DEF l, h
  <2>5. r[l] \in Nat
    BY <1>3, <2>1
  <2>6. 2 * r[l] = r[l] + r[l]
    BY <2>5
  <2> QED
    BY <2>1, <2>3, <2>4, <2>6, Zenon
<1>8. \E low, high \in Std!Range(v) :
         /\ Std!IsSmallest((n + 1) \div 2, v, low)
         /\ Std!IsSmallest(n + 1 - ((n + 1) \div 2), v, high)
         /\ Std!TwiceMedian(r) = low + high
  <2> HIDE DEF l, h
  <2>1. \E low, high \in Std!Range(v) :
          Std!IsSmallest(l, v, low) /\ Std!IsSmallest(h, v, high) /\ Std!TwiceMedian(r) = low + high
    BY <1>4, <1>5, <1>7, Zenon
  <2> QED
    BY <2>1, Zenon DEF l, h
<1>9. Std!average(r) = [sum |-> SumOver(v, D), of |-> n]
  BY <1>2, AverageOfList
<1>10. Std!geoMean(r) = IF 0 \in Std!Range(v) THEN [nan |-> TRUE]
                        ELSE [product |-> ProductOver(v), of |-> n]
  BY <1>2, GeoMeanOfList
<1>11. DOMAIN v = D /\ Std!Cardinality(DOMAIN v) = n /\ 1 \in 1..n /\ n \in 1..n
  BY <1>3, SameCardinality
<1>12. Std!IsSmallest(1, v, r[1]) /\ Std!IsSmallest(n, v, r[n])
  BY <1>4, <1>11, Zenon
<1>13. PICK s : s = Std!displayStat(u)
  OBVIOUS
<1>14. /\ s.min = r[1] /\ s.max = r[n] /\ s.twiceMedian = Std!TwiceMedian(r)
       /\ s.average = Std!average(r) /\ s.geo = Std!geoMean(r)
  BY <1>6, <1>13
<1>15. Std!AreStatistics(s, v)
  BY <1>8, <1>9, <1>10, <1>11, <1>12, <1>14, Zenon DEF Std!AreStatistics, SumOver, ProductOver
<1> QED
  BY <1>13, <1>15

-----------------------------------------------------------------------------
(* The categories of the results file. *)

\* One more element.
LEMMA ListGrows ==
  ASSUME NEW D, NEW v, NEW n \in Nat, NEW b, NEW r, Lists(r, n, b, D, v),
         NEW x, x \notin D, v[x] \in Nat
  PROVE  \E c : Lists(Append(r, v[x]), n + 1, c, D \cup {x}, v)
<1> DEFINE c == [k \in 1..n + 1 |-> IF k = n + 1 THEN x ELSE b[k]]
           s == Append(r, v[x])
           E == D \cup {x}
<1>1. r \in Seq(Nat) /\ Len(r) = n /\ b \in Bijection(1..n, D) /\ \A k \in 1..n : r[k] = v[b[k]]
  BY DEF Lists, Renames
<1>2. /\ b \in [1..n -> D] /\ \A j, k \in 1..n : b[j] = b[k] => j = k
      /\ \A y \in D : \E k \in 1..n : b[k] = y
  BY <1>1 DEF Bijection, Injection, Surjection, IsInjective
<1>3. s \in Seq(Nat) /\ Len(s) = n + 1 /\ s[n + 1] = v[x] /\ \A k \in 1..n : s[k] = r[k]
  BY <1>1
<1>4. \A k \in 1..n + 1 : k = n + 1 \/ k \in 1..n
  OBVIOUS
<1>5. c[n + 1] = x /\ \A k \in 1..n : c[k] = b[k] /\ b[k] \in D
  BY <1>2
<1>6. c \in [1..n + 1 -> E]
  BY <1>2
<1> HIDE DEF c, s
<1>7. \A j, k \in 1..n + 1 : c[j] = c[k] => j = k
  BY <1>2, <1>4, <1>5
<1>8. ASSUME NEW y \in E PROVE \E k \in 1..n + 1 : c[k] = y
  <2>1. CASE y = x
    BY <1>5, <2>1
  <2>2. CASE y \in D
    <3>1. PICK k \in 1..n : b[k] = y
      BY <1>2, <2>2
    <3> QED
      BY <1>5, <3>1
  <2> QED
    BY <2>1, <2>2
<1>9. c \in Bijection(1..n + 1, E)
  BY <1>6, <1>7, <1>8 DEF Bijection, Injection, Surjection, IsInjective
<1>10. \A k \in 1..n + 1 : s[k] = v[c[k]]
  BY <1>1, <1>3, <1>4, <1>5
<1>11. Lists(s, n + 1, c, E, v)
  BY <1>3, <1>9, <1>10 DEF Lists, Renames
<1> QED
  BY <1>11 DEF s

\* readResult makes its lists record by record.
Reads(m, n, w) ==
  /\ m[0] = <<>>
  /\ \A k \in 1..n : m[k] = IF file.records[k].workers = w
                              THEN Append(m[k - 1], file.records[k].value) ELSE m[k - 1]

LEMMA CategoryDef ==
  ASSUME NEW N \in Nat, N = Len(file.records), NEW w
  PROVE  \E m : Std!Category(w) = m[N] /\ Reads(m, N, w)
<1> DEFINE Step(f, k) == IF k = 0 THEN <<>>
                         ELSE IF file.records[k].workers = w THEN Append(f[k - 1], file.records[k].value)
                         ELSE f[k - 1]
           Is(f, n) == f = [k \in 0..n |-> Step(f, k)]
           S == {n \in Nat : \E f : Is(f, n)}
<1>1. \A f, g : \A k \in Nat : (k # 0 => f[k - 1] = g[k - 1]) => Step(f, k) = Step(g, k)
  OBVIOUS
<1>2. Std!Category(w) = (CHOOSE f : Is(f, N))[N]
  BY DEF Std!Category
<1>3. \A f : Step(f, 0) = <<>>
  OBVIOUS
<1>4. \A f : \A k \in 1..N : Step(f, k) = IF file.records[k].workers = w
                                             THEN Append(f[k - 1], file.records[k].value) ELSE f[k - 1]
  OBVIOUS
<1> HIDE DEF Step
<1>5. 0 \in S
  <2> DEFINE g == [k \in 0..0 |-> Step(<<>>, k)]
  <2>1. \A k \in 0..0 : Step(g, k) = Step(<<>>, k)
    BY <1>1
  <2>2. Is(g, 0)
    BY <2>1
  <2> QED
    BY <2>2
<1>6. ASSUME NEW n \in Nat, n \in S PROVE n + 1 \in S
  <2>1. PICK f : Is(f, n)
    BY <1>6
  <2> DEFINE g == [k \in 0..n + 1 |-> Step(f, k)]
  <2>2. \A k \in 0..n : g[k] = f[k]
    BY <2>1
  <2>3. ASSUME NEW k \in 0..n + 1 PROVE Step(g, k) = Step(f, k)
    <3>1. k \in Nat /\ (k # 0 => k - 1 \in 0..n)
      OBVIOUS
    <3> HIDE DEF g
    <3>2. k # 0 => g[k - 1] = f[k - 1]
      BY <2>2, <3>1
    <3> QED
      BY <1>1, <3>1, <3>2
  <2>4. g = [k \in 0..n + 1 |-> Step(g, k)]
    BY <2>3
  <2> HIDE DEF g
  <2> QED
    BY <2>4
<1>7. PICK f : Is(f, N) /\ f = CHOOSE g : Is(g, N)
  <2> HIDE DEF S
  <2>1. N \in S
    BY <1>5, <1>6, NaturalsBySet
  <2>2. \E f : Is(f, N)
    BY <2>1 DEF S
  <2> HIDE DEF Is
  <2> QED
    BY <2>2
<1>8. f[0] = <<>>
  BY <1>3, <1>7
<1>9. \A k \in 1..N : f[k] = Step(f, k)
  BY <1>7
<1> HIDE DEF Is
<1>10. \A k \in 1..N : f[k] = IF file.records[k].workers = w
                                THEN Append(f[k - 1], file.records[k].value) ELSE f[k - 1]
  BY <1>4, <1>9
<1>11. Reads(f, N, w)
  BY <1>8, <1>10 DEF Reads
<1> QED
  BY <1>2, <1>7, <1>11

\* The results of the loops of some processes.
Value(D) == [k \in D |-> recorded[k].value]
OfWorkers(w) == {x \in DOMAIN recorded : Line(recorded[x]).workers = w}

\* The results recorded are numbers.
LEMMA Recorded ==
  ASSUME StdLog
  PROVE  /\ DOMAIN recorded = 1..Len(recorded)
         /\ \A k \in DOMAIN recorded : recorded[k].loop \in Loops /\ recorded[k].value \in Nat
<1>1. recorded \in Seq([loop : Loops, value : Nat])
  BY DEF StdLog
<1>2. DOMAIN recorded = 1..Len(recorded)
  BY <1>1
<1>3. \A k \in DOMAIN recorded : recorded[k] \in [loop : Loops, value : Nat]
  BY <1>1, <1>2, ElementOfSeq
<1> QED
  BY <1>2, <1>3

\* The results read for a number of workers are those recorded for it.
LEMMA CategoryList ==
  ASSUME StdLog, file.records = Lines, NEW w
  PROVE  \E n, b : n \in Nat /\ Lists(Std!Category(w), n, b, OfWorkers(w), Value(OfWorkers(w)))
<1> DEFINE v == [k \in DOMAIN recorded |-> recorded[k].value]
           Upto(k) == {x \in OfWorkers(w) : x <= k}
<1>1. PICK N \in Nat : N = Len(recorded)
  BY DEF StdLog
<1>2. DOMAIN recorded = 1..N /\ \A k \in 1..N : v[k] = recorded[k].value /\ v[k] \in Nat
  BY <1>1, Recorded
<1>3. /\ N = Len(file.records)
      /\ \A k \in 1..N : file.records[k].value = v[k]
      /\ \A k \in 1..N : file.records[k].workers = w <=> k \in OfWorkers(w)
  BY <1>1, <1>2 DEF Lines, Line, OfWorkers
<1> HIDE DEF v
<1>4. PICK m : Std!Category(w) = m[N] /\ Reads(m, N, w)
  BY <1>1, <1>3, CategoryDef
<1> DEFINE P(k) == \E n, b : n \in Nat /\ Lists(m[k], n, b, Upto(k), v)
           S == {k \in Nat : k <= N => P(k)}
<1>5. 0 \in S
  <2>1. Upto(0) = {}
    BY <1>2 DEF OfWorkers
  <2>2. Lists(<<>>, 0, <<>>, {}, v)
    BY DEF Lists, Renames, Bijection, Injection, Surjection, IsInjective
  <2> QED
    BY <1>4, <2>1, <2>2 DEF Reads
<1>6. ASSUME NEW k \in Nat, k \in S PROVE k + 1 \in S
  <2> HIDE DEF P
  <2> SUFFICES ASSUME k + 1 <= N PROVE P(k + 1)
    OBVIOUS
  <2>1. PICK x \in 1..N : x = k + 1 /\ x - 1 = k /\ k <= N
    OBVIOUS
  <2>2. PICK n, b : n \in Nat /\ Lists(m[k], n, b, Upto(k), v)
    BY <1>6, <2>1 DEF P
  <2>3. m[x] = IF x \in OfWorkers(w) THEN Append(m[k], v[x]) ELSE m[k]
    BY <1>3, <1>4, <2>1 DEF Reads
  <2>4. Upto(x) = IF x \in OfWorkers(w) THEN Upto(k) \cup {x} ELSE Upto(k)
    <3>1. OfWorkers(w) \in SUBSET (1..N)
      BY <1>2 DEF OfWorkers
    <3>2. \A y \in 1..N : y <= x <=> y <= k \/ y = x
      BY <2>1
    <3> QED
      BY <3>1, <3>2
  <2>5. x \notin Upto(k) /\ v[x] \in Nat
    BY <1>2, <2>1
  <2> HIDE DEF Upto, S
  <2>6. CASE x \in OfWorkers(w)
    <3>1. PICK c : Lists(Append(m[k], v[x]), n + 1, c, Upto(k) \cup {x}, v)
      BY <2>2, <2>5, ListGrows
    <3>2. Lists(m[x], n + 1, c, Upto(x), v) /\ n + 1 \in Nat
      BY <2>2, <2>3, <2>4, <2>6, <3>1
    <3>3. P(x)
      BY <3>2 DEF P
    <3> QED
      BY <2>1, <3>3
  <2>7. CASE x \notin OfWorkers(w)
    <3>1. Lists(m[x], n, b, Upto(x), v)
      BY <2>2, <2>3, <2>4, <2>7
    <3>2. P(x)
      BY <2>2, <3>1 DEF P
    <3> QED
      BY <2>1, <3>2
  <2> QED
    BY <2>6, <2>7
<1>7. PICK n, b : n \in Nat /\ Lists(m[N], n, b, Upto(N), v)
  <2> HIDE DEF S
  <2>1. N \in S
    BY <1>5, <1>6, NaturalsBySet
  <2>2. P(N)
    <3> HIDE DEF P
    <3> QED
      BY <2>1 DEF S
  <2> QED
    BY <2>2
<1>8. Upto(N) = OfWorkers(w)
  BY <1>2 DEF OfWorkers
<1>9. \A k \in 1..n : b[k] \in OfWorkers(w)
  BY <1>7, <1>8 DEF Lists, Renames, Bijection, Injection
<1>10. \A x \in OfWorkers(w) : Value(OfWorkers(w))[x] = v[x]
  BY <1>2 DEF OfWorkers, Value
<1>11. Lists(m[N], n, b, OfWorkers(w), Value(OfWorkers(w)))
  BY <1>7, <1>8, <1>9, <1>10 DEF Lists, Renames
<1> QED
  BY <1>4, <1>7, <1>11

\* displayStat, of a category.
LEMMA CategoryStatistics ==
  ASSUME StdLog, file.records = Lines, NEW w, Std!Category(w) # <<>>
  PROVE  Std!AreStatistics(Std!displayStat(Std!Category(w)), Value(OfWorkers(w)))
<1>1. PICK n, b : n \in Nat /\ Lists(Std!Category(w), n, b, OfWorkers(w), Value(OfWorkers(w)))
  BY CategoryList
<1>2. n > 0
  BY <1>1 DEF Lists
<1>3. Value(OfWorkers(w)) \in [OfWorkers(w) -> Nat]
  BY Recorded DEF Value, OfWorkers
<1> QED
  BY <1>1, <1>2, <1>3, StatisticsOfList, Zenon

\* The loops whose results are in a category: both when the flag asks for one worker.
Kind(one) == IF workers = 1 THEN Loops ELSE {one}

LEMMA MeasuredIs ==
  ASSUME StdLog, workers \in Nat \ {0}
  PROVE  /\ Std!Measured(Kind("single")) = Value(OfWorkers(1))
         /\ Std!Measured(Kind("multi")) = Value(OfWorkers(workers))
<1>1. \A k \in DOMAIN recorded : recorded[k].loop \in Loops
  BY Recorded
<1>2. \A k \in DOMAIN recorded :
        Line(recorded[k]).workers = IF recorded[k].loop = "single" THEN 1 ELSE workers
  BY DEF Line
<1>3. {x \in DOMAIN recorded : recorded[x].loop \in Kind("single")} = OfWorkers(1)
  BY <1>1, <1>2 DEF Kind, OfWorkers, Loops
<1>4. {x \in DOMAIN recorded : recorded[x].loop \in Kind("multi")} = OfWorkers(workers)
  BY <1>1, <1>2 DEF Kind, OfWorkers, Loops
<1> QED
  BY <1>3, <1>4 DEF Std!Measured, Value

\* What is shown is that of what is recorded.
Right(sh) ==
  /\ sh.single # <<>> => Std!AreStatistics(sh.single, Std!Measured(Kind("single")))
  /\ sh.multi # <<>> => Std!AreStatistics(sh.multi, Std!Measured(Kind("multi")))

ShownInv ==
  /\ workers \in Nat \ {0}
  /\ mode # "bench" => shown = Std!NotShown
  /\ Right(shown)

LEMMA NothingRight ==
  Right(Std!NotShown) /\ Right(Std!NotShown)'
BY DEF Right, Std!NotShown

\* The only step that displays.
LEMMA DisplayRight ==
  ASSUME StdAll, workers \in Nat \ {0}, Right(shown), Std!DisplayResult
  PROVE  Right(shown')
<1>1. StdLog /\ file.records = Lines /\ shown = Std!NotShown
  BY DEF StdAll, StdControl, StdFile, Std!DisplayResult
<1>2. /\ Std!Measured(Kind("single")) = Value(OfWorkers(1))
      /\ Std!Measured(Kind("multi")) = Value(OfWorkers(workers))
  BY <1>1, MeasuredIs
<1>3. \A w : Std!Category(w) # <<>> =>
        Std!AreStatistics(Std!displayStat(Std!Category(w)), Value(OfWorkers(w)))
  BY <1>1, CategoryStatistics
<1>4. CASE /\ Std!Category(1) # <<>> /\ Std!Category(workers) # <<>>
           /\ shown' = [single |-> Std!displayStat(Std!Category(1)),
                        multi |-> Std!displayStat(Std!Category(workers))]
  <2>1. /\ shown'.single = Std!displayStat(Std!Category(1))
        /\ shown'.multi = Std!displayStat(Std!Category(workers))
    BY <1>4
  <2> QED
    BY <1>2, <1>3, <1>4, <2>1 DEF Right
<1>5. CASE /\ Std!Category(1) # <<>>
           /\ shown' = [Std!NotShown EXCEPT !.single = Std!displayStat(Std!Category(1))]
  <2>1. shown'.single = Std!displayStat(Std!Category(1)) /\ shown'.multi = <<>>
    BY <1>5 DEF Std!NotShown
  <2> QED
    BY <1>2, <1>3, <1>5, <2>1 DEF Right
<1>6. CASE shown' = shown
  BY <1>6
<1> QED
  BY <1>4, <1>5, <1>6 DEF Std!DisplayResult

LEMMA ShownBegins == Init => ShownInv
<1> SUFFICES ASSUME Init PROVE ShownInv
  OBVIOUS
<1>1. shown = Std!NotShown
  BY Zenon DEF Init, Std!Init, StdUnused
<1>2. workers \in Nat \ {0}
  <2>1. workers \in WorkerCounts \/ workers = 1
    BY Zenon DEF Init, Std!Init, StdUnused
  <2>2. WorkerCounts \subseteq Nat \ {0}
    BY Constants
  <2>3. 1 \in Nat \ {0}
    OBVIOUS
  <2> QED
    BY <2>1, <2>2, <2>3, Zenon
<1> QED
  BY <1>1, <1>2, NothingRight DEF ShownInv

LEMMA ShownKept == IInv /\ ShownInv /\ [Next]_vars => ShownInv'
<1> SUFFICES ASSUME IInv, ShownInv, [Next]_vars PROVE ShownInv'
  OBVIOUS
<1>1. workers \in Nat \ {0} /\ Right(shown) /\ (mode # "bench" => shown = Std!NotShown)
  BY DEF ShownInv
<1>2. ASSUME UNCHANGED <<mode, workers, shown, recorded>> PROVE ShownInv'
  BY <1>1, <1>2 DEF ShownInv, Right, Kind, Std!Measured, Std!NotShown
<1>3. CASE StdBench
  <2>1. mode = "bench" /\ mode' = mode /\ Std!Step
    BY <1>3 DEF StdBench
  <2>2. StdAll
    BY <2>1 DEF IInv, StdInv
  <2>3. workers' = workers
    BY <2>1 DEF Std!Step, Std!DisplayCPU, Std!NumaDisplayed, Std!CreateFile, Std!SpawnBench, Std!Run,
                Std!AppendResult, Std!AppendLost, Std!ChildFails, Std!ChildDone, Std!NextPhase,
                Std!ReturnError, Std!DisplayResult, Std!flags
  <2>4. CASE Std!DisplayResult
    <3>1. Right(shown') /\ recorded' = recorded
      BY <1>1, <2>2, <2>4, DisplayRight DEF Std!DisplayResult
    <3>2. Right(shown)'
      BY <2>3, <3>1 DEF Right, Kind, Std!Measured
    <3> QED
      BY <1>1, <2>1, <2>3, <3>2 DEF ShownInv
  <2>5. CASE Std!AppendResult
    <3>1. shown' = Std!NotShown
      BY <2>2, <2>5 DEF StdAll, StdControl, Std!AppendResult
    <3>2. Right(shown)'
      BY <3>1 DEF Right, Std!NotShown
    <3> QED
      BY <1>1, <2>1, <2>3, <3>2 DEF ShownInv
  <2>6. CASE ~ (Std!DisplayResult \/ Std!AppendResult)
    <3>1. UNCHANGED <<shown, recorded>>
      BY <2>1, <2>6 DEF Std!Step, Std!DisplayCPU, Std!NumaDisplayed, Std!CreateFile, Std!SpawnBench, Std!Run,
                        Std!AppendLost, Std!ChildFails, Std!ChildDone, Std!NextPhase, Std!ReturnError
    <3> QED
      BY <1>2, <2>1, <2>3, <3>1
  <2> QED
    BY <2>4, <2>5, <2>6
<1>4. CASE \/ OltpBench \/ DisplayNuma \/ MeasureFreq \/ DisplayVersion
           \/ Usage \/ Exit \/ Terminated \/ UNCHANGED vars
  <2>1. mode' = mode /\ UNCHANGED stdVars
    BY <1>4 DEF OltpBench, DisplayNuma, MeasureFreq, DisplayVersion, Usage, Exit, Terminated, vars
  <2> QED
    BY <1>2, <2>1 DEF stdVars
<1> QED
  BY <1>3, <1>4 DEF Next

\* The statistics displayed are those of the throughputs that the processes of this campaign
\* recorded, for the single-threaded and for the multi-threaded ones: the least and the greatest, the
\* median, the average and the geometric mean, whatever their number and their order in the file
\* (DisplayResult, readResult and displayStat, stat.go).
THEOREM StatisticsShown == Spec => []StatisticsFaithful
<1>1. ShownInv => StatisticsFaithful
  <2> SUFFICES ASSUME ShownInv PROVE StatisticsFaithful
    OBVIOUS
  <2>1. Right(shown)
    BY DEF ShownInv
  <2> QED
    BY <2>1, Zenon DEF Right, Kind, Loops, StatisticsFaithful, Std!StatisticsFaithful
<1>2. Spec => []ShownInv
  BY ShownBegins, ShownKept, Invariance, PTL DEF Spec
<1> QED
  BY <1>1, <1>2, PTL

-----------------------------------------------------------------------------
(* The display of the NUMA nodes. *)

(* Recursive functions on natural numbers. *)

\* A function of the equation that starts from zero, where each other number
\* refers to a smaller one.
Descends(prev) == \A m \in Nat \ {0} : prev[m] \in Nat /\ prev[m] < m
FollowsAll(f, prev, base, op) == f = [m \in Nat |-> IF m = 0 THEN base ELSE op[f[prev[m]]]]
Follows(f, n, prev, base, op) == f = [m \in 0..n |-> IF m = 0 THEN base ELSE op[f[prev[m]]]]

LEMMA FollowsOnce ==
  ASSUME NEW prev, Descends(prev), NEW base, NEW op,
         NEW j \in Nat, NEW k \in Nat, j <= k, NEW f, Follows(f, j, prev, base, op),
         NEW g, Follows(g, k, prev, base, op)
  PROVE  \A m \in 0..j : f[m] = g[m]
<1> DEFINE S == {n \in Nat : \A m \in 0..n : m <= j => f[m] = g[m]}
<1>1. \A m \in 0..j : /\ f[m] = IF m = 0 THEN base ELSE op[f[prev[m]]]
                      /\ g[m] = IF m = 0 THEN base ELSE op[g[prev[m]]]
  <2> SUFFICES ASSUME NEW m \in 0..j
               PROVE  /\ f[m] = IF m = 0 THEN base ELSE op[f[prev[m]]]
                      /\ g[m] = IF m = 0 THEN base ELSE op[g[prev[m]]]
    OBVIOUS
  <2>1. m \in 0..k
    OBVIOUS
  <2>2. f[m] = IF m = 0 THEN base ELSE op[f[prev[m]]]
    BY DEF Follows
  <2>3. g[m] = IF m = 0 THEN base ELSE op[g[prev[m]]]
    BY <2>1 DEF Follows
  <2> QED
    BY <2>2, <2>3
<1>2. 0 \in S
  BY <1>1
<1>3. ASSUME NEW n \in Nat, n \in S PROVE n + 1 \in S
  <2> SUFFICES ASSUME NEW m \in 0..n + 1, m <= j PROVE f[m] = g[m]
    OBVIOUS
  <2>1. CASE m = 0
    BY <1>1, <2>1
  <2>2. CASE m # 0
    <3>1. prev[m] \in 0..n /\ prev[m] <= j
      BY <2>2 DEF Descends
    <3>2. f[prev[m]] = g[prev[m]]
      BY <1>3, <3>1
    <3> QED
      BY <1>1, <2>2, <3>2
  <2> QED
    BY <2>1, <2>2
<1> HIDE DEF S
<1>4. j \in S
  BY <1>2, <1>3, NaturalsBySet
<1> QED
  BY <1>4 DEF S

LEMMA FollowsExists ==
  ASSUME NEW prev, Descends(prev), NEW base, NEW op
  PROVE  \E f : FollowsAll(f, prev, base, op)
<1> DEFINE S == {n \in Nat : \E f : Follows(f, n, prev, base, op)}
<1>1. 0 \in S
  <2>1. Follows([m \in 0..0 |-> base], 0, prev, base, op)
    BY DEF Follows
  <2> QED
    BY <2>1
<1>2. ASSUME NEW n \in Nat, n \in S PROVE n + 1 \in S
  <2>1. PICK f : Follows(f, n, prev, base, op)
    BY <1>2
  <2> DEFINE g == [m \in 0..n + 1 |-> IF m = 0 THEN base ELSE op[f[prev[m]]]]
  <2>2. \A m \in 0..n : g[m] = f[m]
    BY <2>1 DEF Follows
  <2>3. \A m \in 0..n + 1 : m # 0 => g[prev[m]] = f[prev[m]]
    <3> SUFFICES ASSUME NEW m \in 0..n + 1, m # 0 PROVE g[prev[m]] = f[prev[m]]
      OBVIOUS
    <3>1. prev[m] \in 0..n
      BY DEF Descends
    <3> HIDE DEF g
    <3> QED
      BY <2>2, <3>1
  <2>4. g = [m \in 0..n + 1 |-> IF m = 0 THEN base ELSE op[g[prev[m]]]]
    BY <2>3
  <2> HIDE DEF g
  <2>5. Follows(g, n + 1, prev, base, op)
    BY <2>4 DEF Follows
  <2> QED
    BY <2>5
<1>3. \A n \in Nat : \E f : Follows(f, n, prev, base, op)
  <2> HIDE DEF S
  <2>1. \A n \in Nat : n \in S
    BY <1>1, <1>2, NaturalsBySet
  <2> QED
    BY <2>1 DEF S
<1> DEFINE a == [n \in Nat |-> CHOOSE f : Follows(f, n, prev, base, op)]
           h == [n \in Nat |-> a[n][n]]
<1>4. \A n \in Nat : Follows(a[n], n, prev, base, op)
  BY <1>3
<1> HIDE DEF a
<1>5. ASSUME NEW n \in Nat PROVE h[n] = IF n = 0 THEN base ELSE op[h[prev[n]]]
  <2>1. a[n][n] = IF n = 0 THEN base ELSE op[a[n][prev[n]]]
    <3>1. PICK f : f = a[n]
      OBVIOUS
    <3>2. f = [m \in 0..n |-> IF m = 0 THEN base ELSE op[f[prev[m]]]]
      BY <1>4, <3>1 DEF Follows
    <3>3. n \in 0..n
      OBVIOUS
    <3> QED
      BY <3>1, <3>2, <3>3
  <2>2. ASSUME n # 0 PROVE a[n][prev[n]] = h[prev[n]]
    <3>1. PICK q \in Nat : q = prev[n] /\ q <= n
      BY <2>2 DEF Descends
    <3>2. PICK f, g : f = a[q] /\ g = a[n]
      OBVIOUS
    <3>3. Follows(f, q, prev, base, op) /\ Follows(g, n, prev, base, op)
      BY <1>4, <3>2
    <3>4. \A m \in 0..q : f[m] = g[m]
      BY <3>1, <3>3, FollowsOnce
    <3>5. q \in 0..q
      BY <3>1
    <3> QED
      BY <3>1, <3>2, <3>4, <3>5
  <2> QED
    BY <2>1, <2>2
<1>6. h = [m \in Nat |-> h[m]]
  OBVIOUS
<1> HIDE DEF h
<1>7. h = [m \in Nat |-> IF m = 0 THEN base ELSE op[h[prev[m]]]]
  BY <1>5, <1>6
<1> QED
  BY <1>7 DEF FollowsAll

\* The powers of two.
LEMMA BitDef ==
  /\ Numa!Bit[0] = 1
  /\ \A p \in Nat : Numa!Bit[p] \in Nat \ {0} /\ Numa!Bit[p + 1] = 2 * Numa!Bit[p] /\ p < Numa!Bit[p]
<1> DEFINE Eq(f) == f = [p \in Nat |-> IF p = 0 THEN 1 ELSE 2 * f[p - 1]]
           prev == [p \in Nat |-> p - 1]
           op == [x \in Nat |-> 2 * x]
<1>1. Numa!Bit = CHOOSE f : Eq(f)
  BY DEF Numa!Bit
<1>2. Descends(prev)
  BY DEF Descends
<1>3. \A x \in Nat : op[x] = 2 * x
  OBVIOUS
<1>4. \A m \in Nat : prev[m] = m - 1
  OBVIOUS
<1> HIDE DEF prev, op
<1>5. PICK g : FollowsAll(g, prev, 1, op)
  BY <1>2, FollowsExists
<1>6. g[0] = 1 /\ \A m \in Nat \ {0} : g[m] = op[g[m - 1]]
  BY <1>4, <1>5 DEF FollowsAll
<1> DEFINE S == {n \in Nat : g[n] \in Nat \ {0} /\ n < g[n]}
<1>7. \A n \in Nat : n \in S
  <2>1. 0 \in S
    BY <1>6
  <2>2. ASSUME NEW n \in Nat, n \in S PROVE n + 1 \in S
    <3>1. PICK m \in Nat \ {0} : m = n + 1 /\ m - 1 = n
      OBVIOUS
    <3>2. g[m] = 2 * g[n]
      BY <1>3, <1>6, <2>2, <3>1
    <3>3. g[n] \in Nat \ {0} /\ n < g[n]
      BY <2>2
    <3>4. 2 * g[n] \in Nat \ {0} /\ n + 1 < 2 * g[n]
      BY <3>3
    <3> QED
      BY <3>1, <3>2, <3>4
  <2> HIDE DEF S
  <2> QED
    BY <2>1, <2>2, NaturalsBySet
<1>8. \A m \in Nat \ {0} : g[m] = 2 * g[m - 1]
  <2> SUFFICES ASSUME NEW m \in Nat \ {0} PROVE g[m] = 2 * g[m - 1]
    OBVIOUS
  <2>1. m - 1 \in Nat
    OBVIOUS
  <2> QED
    BY <1>3, <1>6, <1>7, <2>1
<1>9. Eq(g)
  <2>1. g = [m \in Nat |-> g[m]]
    BY <1>5 DEF FollowsAll
  <2> QED
    BY <1>6, <1>8, <2>1
<1> HIDE DEF Eq
<1>10. PICK f : f = Numa!Bit /\ Eq(f)
  BY <1>1, <1>9
<1>11. f[0] = 1 /\ \A m \in Nat \ {0} : f[m] = 2 * f[m - 1]
  BY <1>10 DEF Eq
<1> DEFINE R == {n \in Nat : f[n] = g[n]}
<1>12. \A n \in Nat : n \in R
  <2>1. 0 \in R
    BY <1>6, <1>11
  <2>2. ASSUME NEW n \in Nat, n \in R PROVE n + 1 \in R
    <3>1. PICK m \in Nat \ {0} : m = n + 1 /\ m - 1 = n
      OBVIOUS
    <3>2. f[m] = g[m]
      BY <1>8, <1>11, <2>2, <3>1
    <3> QED
      BY <3>1, <3>2
  <2> HIDE DEF R
  <2> QED
    BY <2>1, <2>2, NaturalsBySet
<1>13. ASSUME NEW p \in Nat PROVE f[p + 1] = 2 * f[p]
  <2>1. p + 1 \in Nat \ {0} /\ (p + 1) - 1 = p
    OBVIOUS
  <2> QED
    BY <1>11, <2>1
<1> QED
  BY <1>7, <1>10, <1>11, <1>12, <1>13

\* The remainder of a division.
LEMMA Division ==
  ASSUME NEW x \in Nat, NEW c \in Nat \ {0}
  PROVE  x \div c \in Nat /\ x = c * (x \div c) + (x % c)
<1>1. x \div c \in Nat
  OBVIOUS
<1>2. c * (x \div c) + (x % c) = x
  OBVIOUS
<1> QED
  BY <1>1, <1>2

LEMMA Remainder ==
  ASSUME NEW c \in Nat \ {0}, NEW q \in Nat, NEW r \in 0..c - 1
  PROVE  (c * q + r) % c = r
  OBVIOUS

LEMMA Multiple ==
  ASSUME NEW c \in Nat \ {0}, NEW q \in Nat
  PROVE  (c * q) % c = 0
  OBVIOUS

\* A higher bit is a multiple of twice a lower one.
LEMMA BitMultiple ==
  ASSUME NEW p \in Nat, NEW k \in Nat, p < k
  PROVE  \E r \in Nat : Numa!Bit[k] = (2 * Numa!Bit[p]) * r
<1> DEFINE S == {n \in Nat : \E r \in Nat : Numa!Bit[p + 1 + n] = (2 * Numa!Bit[p]) * r}
<1>1. \A n \in Nat : Numa!Bit[n] \in Nat /\ Numa!Bit[n + 1] = 2 * Numa!Bit[n]
  BY BitDef
<1>2. 0 \in S
  <2>1. Numa!Bit[p + 1 + 0] = (2 * Numa!Bit[p]) * 1
    BY <1>1
  <2> QED
    BY <2>1
<1>3. ASSUME NEW n \in Nat, n \in S PROVE n + 1 \in S
  <2>1. PICK r \in Nat : Numa!Bit[p + 1 + n] = (2 * Numa!Bit[p]) * r
    BY <1>3
  <2>2. PICK m \in Nat : m = p + 1 + n /\ m + 1 = p + 1 + (n + 1)
    OBVIOUS
  <2>3. Numa!Bit[m + 1] = 2 * ((2 * Numa!Bit[p]) * r)
    BY <1>1, <2>1, <2>2
  <2>4. 2 * ((2 * Numa!Bit[p]) * r) = (2 * Numa!Bit[p]) * (2 * r) /\ 2 * r \in Nat
    BY <1>1
  <2>5. Numa!Bit[p + 1 + (n + 1)] = (2 * Numa!Bit[p]) * (2 * r)
    BY <2>2, <2>3, <2>4
  <2> QED
    BY <2>4, <2>5
<1> HIDE DEF S
<1>4. PICK n \in Nat : k = p + 1 + n
  <2>1. k - p - 1 \in Nat /\ k = p + 1 + (k - p - 1)
    OBVIOUS
  <2> QED
    BY <2>1
<1>5. n \in S
  BY <1>2, <1>3, NaturalsBySet
<1> QED
  BY <1>4, <1>5 DEF S

\* The lowest bit of m is p: only zeros follow it.
IsLowest(p, m) == p \in Nat /\ \E q \in Nat : m = (2 * Numa!Bit[p]) * q + Numa!Bit[p]

LEMMA LowestUnique ==
  ASSUME NEW m \in Nat, NEW p, IsLowest(p, m), NEW k \in Nat, m % (2 * Numa!Bit[k]) = Numa!Bit[k]
  PROVE  k = p
<1>1. PICK b, e : b = Numa!Bit[p] /\ e = Numa!Bit[k] /\ b \in Nat \ {0} /\ e \in Nat \ {0}
  BY BitDef DEF IsLowest
<1>2. PICK q \in Nat : m = (2 * b) * q + b
  BY <1>1 DEF IsLowest
<1>3. p \in Nat
  BY DEF IsLowest
<1>4. CASE k < p
  <2>1. PICK r \in Nat : b = (2 * e) * r
    BY <1>1, <1>3, <1>4, BitMultiple
  <2>2. m = (2 * e) * (2 * r * q + r) /\ 2 * r * q + r \in Nat
    <3>1. (2 * b) * q = (2 * e) * (2 * r * q)
      BY <1>1, <2>1
    <3>2. (2 * e) * (2 * r * q) + (2 * e) * r = (2 * e) * (2 * r * q + r) /\ 2 * r * q \in Nat
      BY <1>1
    <3> QED
      BY <1>2, <2>1, <3>1, <3>2
  <2>3. PICK c \in Nat \ {0}, w \in Nat : c = 2 * e /\ w = 2 * r * q + r
    BY <1>1, <2>2
  <2>4. (c * w) % c = 0
    BY Multiple
  <2> QED
    BY <1>1, <2>2, <2>3, <2>4
<1>5. CASE k > p
  <2>1. PICK r \in Nat : e = (2 * b) * r
    BY <1>1, <1>3, <1>5, BitMultiple
  <2>2. PICK w \in Nat : m = (2 * e) * w + e
    <3>1. PICK c \in Nat \ {0} : c = 2 * e
      BY <1>1
    <3>2. m = c * (m \div c) + (m % c) /\ m \div c \in Nat
      BY Division
    <3> QED
      BY <1>1, <3>1, <3>2
  <2>3. m = (2 * b) * (2 * r * w + r) /\ 2 * r * w + r \in Nat
    <3>1. (2 * e) * w = (2 * b) * (2 * r * w)
      BY <1>1, <2>1
    <3>2. (2 * b) * (2 * r * w) + (2 * b) * r = (2 * b) * (2 * r * w + r) /\ 2 * r * w \in Nat
      BY <1>1
    <3> QED
      BY <2>1, <2>2, <3>1, <3>2
  <2>4. PICK c \in Nat \ {0}, u \in Nat : c = 2 * b /\ u = 2 * r * w + r /\ b \in 0..c - 1
    BY <1>1, <2>3
  <2>5. (c * u) % c = 0
    BY Multiple
  <2>6. (c * q + b) % c = b
    BY <2>4, Remainder
  <2> QED
    BY <1>1, <1>2, <2>3, <2>4, <2>5, <2>6
<1> QED
  BY <1>3, <1>4, <1>5

LEMMA LowestIs ==
  ASSUME NEW m \in Nat \ {0}, NEW p, IsLowest(p, m)
  PROVE  Numa!Lowest(m) = Numa!Bit[p] /\ Numa!Bit[p] \in 1..m
<1>1. p \in Nat /\ Numa!Bit[p] \in Nat \ {0} /\ p < Numa!Bit[p]
  BY BitDef DEF IsLowest
<1>2. PICK b \in Nat \ {0} : b = Numa!Bit[p]
  BY <1>1
<1>3. PICK q \in Nat : m = (2 * b) * q + b
  BY <1>2 DEF IsLowest
<1>4. (2 * b) * q \in Nat
  OBVIOUS
<1>5. b <= m /\ p \in 0..m
  BY <1>1, <1>2, <1>3, <1>4
<1>6. m % (2 * b) = b
  <2>1. PICK c \in Nat \ {0} : c = 2 * b /\ b \in 0..c - 1
    OBVIOUS
  <2>2. (c * q + b) % c = b
    BY <2>1, Remainder
  <2> QED
    BY <1>3, <2>1, <2>2
<1>7. b \in {Numa!Bit[k] : k \in 0..m}
  BY <1>2, <1>5
<1>8. \A bit \in {Numa!Bit[k] : k \in 0..m} : m % (2 * bit) = bit => bit = b
  BY <1>2, LowestUnique
<1>9. Numa!Lowest(m) = b
  BY <1>6, <1>7, <1>8, Zenon DEF Numa!Lowest
<1> QED
  BY <1>2, <1>5, <1>9

\* Every number but zero has a lowest bit.
LEMMA LowestExists ==
  ASSUME NEW m \in Nat \ {0}
  PROVE  \E p : IsLowest(p, m)
<1> DEFINE S == {n \in Nat : \A x \in 1..n : \E p : IsLowest(p, x)}
<1>1. 0 \in S
  OBVIOUS
<1>2. ASSUME NEW n \in Nat, n \in S PROVE n + 1 \in S
  <2> SUFFICES ASSUME NEW x \in 1..n + 1 PROVE \E p : IsLowest(p, x)
    OBVIOUS
  <2>1. PICK w \in Nat : x = 2 * w \/ x = 2 * w + 1
    <3>1. x \div 2 \in Nat /\ (x = 2 * (x \div 2) \/ x = 2 * (x \div 2) + 1)
      OBVIOUS
    <3> QED
      BY <3>1
  <2>2. CASE x = 2 * w + 1
    <3>1. x = (2 * Numa!Bit[0]) * w + Numa!Bit[0]
      BY <2>2, BitDef
    <3>2. IsLowest(0, x)
      BY <3>1 DEF IsLowest
    <3> QED
      BY <3>2
  <2>3. CASE x = 2 * w
    <3>1. w \in 1..n
      BY <2>3
    <3>2. PICK p : IsLowest(p, w)
      BY <1>2, <3>1
    <3>3. PICK b \in Nat : p \in Nat /\ p + 1 \in Nat /\ b = Numa!Bit[p] /\ Numa!Bit[p + 1] = 2 * b
      BY <3>2, BitDef DEF IsLowest
    <3>4. PICK q \in Nat : w = (2 * b) * q + b
      BY <3>2, <3>3 DEF IsLowest
    <3>5. x = (2 * (2 * b)) * q + 2 * b
      BY <2>3, <3>4
    <3>6. IsLowest(p + 1, x)
      BY <3>3, <3>5 DEF IsLowest
    <3> QED
      BY <3>6
  <2> QED
    BY <2>1, <2>2, <2>3
<1> HIDE DEF S
<1>3. m \in S
  BY <1>1, <1>2, NaturalsBySet
<1> QED
  BY <1>3 DEF S

\* countBits takes the lowest bit away until nothing is left.
LEMMA CountBitsDef ==
  /\ Numa!countBits[0] = 0
  /\ \A m \in Nat \ {0} : Numa!countBits[m] = 1 + Numa!countBits[m - Numa!Lowest(m)]
<1> DEFINE Eq(f) == f = [m \in Nat |-> IF m = 0 THEN 0 ELSE 1 + f[Numa!WithoutLowest(m)]]
           prev == [m \in Nat |-> Numa!WithoutLowest(m)]
           op == [x \in Nat |-> 1 + x]
<1>1. Numa!countBits = CHOOSE f : Eq(f)
  BY DEF Numa!countBits
<1>2. ASSUME NEW m \in Nat \ {0} PROVE prev[m] \in Nat /\ prev[m] < m
  <2>1. PICK p : IsLowest(p, m)
    BY LowestExists
  <2>2. Numa!Lowest(m) \in 1..m
    BY <2>1, LowestIs
  <2> QED
    BY <2>2 DEF Numa!WithoutLowest
<1>3. \A x \in Nat : op[x] = 1 + x
  OBVIOUS
<1>4. \A m \in Nat : prev[m] = Numa!WithoutLowest(m)
  OBVIOUS
<1> HIDE DEF prev, op
<1>5. PICK g : FollowsAll(g, prev, 0, op)
  BY <1>2, FollowsExists DEF Descends
<1>6. g[0] = 0 /\ \A m \in Nat \ {0} : g[m] = op[g[prev[m]]]
  BY <1>5 DEF FollowsAll
<1> DEFINE S == {n \in Nat : \A m \in 0..n : g[m] \in Nat}
<1>7. \A n \in Nat : g[n] \in Nat
  <2>1. 0 \in S
    BY <1>6
  <2>2. ASSUME NEW n \in Nat, n \in S PROVE n + 1 \in S
    <3> SUFFICES ASSUME NEW m \in 0..n + 1, m # 0 PROVE g[m] \in Nat
      BY <1>6
    <3>1. prev[m] \in 0..n
      BY <1>2
    <3>2. g[prev[m]] \in Nat
      BY <2>2, <3>1
    <3> QED
      BY <1>3, <1>6, <3>2
  <2> HIDE DEF S
  <2>3. \A n \in Nat : n \in S
    BY <2>1, <2>2, NaturalsBySet
  <2> QED
    BY <2>3 DEF S
<1>8. \A m \in Nat \ {0} : g[m] = 1 + g[Numa!WithoutLowest(m)]
  BY <1>2, <1>3, <1>4, <1>6, <1>7
<1>9. Eq(g)
  <2>1. g = [m \in Nat |-> g[m]]
    BY <1>5 DEF FollowsAll
  <2> QED
    BY <1>6, <1>8, <2>1
<1> HIDE DEF Eq
<1>10. PICK f : f = Numa!countBits /\ Eq(f)
  BY <1>1, <1>9
<1>11. f[0] = 0 /\ \A m \in Nat \ {0} : f[m] = 1 + f[Numa!WithoutLowest(m)]
  BY <1>10 DEF Eq
<1> QED
  BY <1>10, <1>11 DEF Numa!WithoutLowest

\* The mask of some processors has a bit for each, and countBits counts them.
LEMMA MaskCounted ==
  ASSUME NEW P \in SUBSET Nat, IsFiniteSet(P)
  PROVE  Numa!countBits[Numa!MapThenSumSet(LAMBDA p : Numa!Bit[p], P)] = Cardinality(P)
<1> DEFINE v == [p \in P |-> Numa!Bit[p]]
<1>1. v \in [P -> Nat] /\ \A p \in P : v[p] = Numa!Bit[p]
  BY BitDef
<1>2. Numa!MapThenSumSet(LAMBDA p : Numa!Bit[p], P) = Std!MapThenSumSet(LAMBDA k : v[k], P)
  BY Zenon DEF Numa!MapThenSumSet, Std!MapThenSumSet, Numa!MapThenFoldSet, Std!MapThenFoldSet
<1> HIDE DEF v
<1>3. PICK G : IsTotal(G, P, v, Plus, 0)
  BY <1>1, SumExists
<1>4. Std!MapThenSumSet(LAMBDA k : v[k], P) = G[P]
  BY <1>1, <1>3, SumOfSet
<1>5. /\ G[{}] = 0
      /\ \A s \in SUBSET P : G[s] \in Nat
      /\ \A s \in SUBSET P : \A x \in s : G[s] = Numa!Bit[x] + G[s \ {x}]
  <2>1. \A s \in SUBSET P : \A x \in s : G[s] = Plus[v[x]][G[s \ {x}]] /\ s \ {x} \in SUBSET P /\ x \in P
    BY <1>3 DEF IsTotal
  <2>2. \A s \in SUBSET P : G[s] \in Nat
    BY <1>3 DEF IsTotal
  <2>3. \A x \in P : Numa!Bit[x] \in Nat /\ v[x] = Numa!Bit[x]
    BY <1>1, BitDef
  <2>4. \A s \in SUBSET P : \A x \in s : G[s] = Numa!Bit[x] + G[s \ {x}]
    <3> SUFFICES ASSUME NEW s \in SUBSET P, NEW x \in s PROVE G[s] = Numa!Bit[x] + G[s \ {x}]
      OBVIOUS
    <3>1. PICK a \in Nat, b \in Nat : a = v[x] /\ b = G[s \ {x}] /\ a = Numa!Bit[x]
      BY <2>1, <2>2, <2>3
    <3>2. G[s] = Plus[a][b] /\ Plus[a][b] = a + b
      BY <2>1, <3>1, PlusIs
    <3> QED
      BY <3>1, <3>2
  <2> QED
    BY <1>3, <2>2, <2>4 DEF IsTotal
\* What is above a bit is a multiple of its double.
<1>6. ASSUME NEW p \in Nat, NEW s \in SUBSET P, \A x \in s : p < x
      PROVE  \E q \in Nat : G[s] = (2 * Numa!Bit[p]) * q
  <2> DEFINE M == {u \in SUBSET s : \E q \in Nat : G[u] = (2 * Numa!Bit[p]) * q}
  <2>1. Numa!Bit[p] \in Nat
    BY BitDef
  <2>2. ASSUME NEW u \in SUBSET s, \A x \in u : u \ {x} \in M PROVE u \in M
    <3>1. CASE u = {}
      <4>1. G[u] = (2 * Numa!Bit[p]) * 0
        BY <1>5, <2>1, <3>1
      <4> QED
        BY <4>1
    <3>2. CASE u # {}
      <4>1. PICK x \in u : TRUE
        BY <3>2
      <4>2. PICK q \in Nat : G[u \ {x}] = (2 * Numa!Bit[p]) * q
        BY <2>2
      <4>3. x \in P /\ x \in Nat /\ p < x
        BY <1>6
      <4>4. PICK r \in Nat : Numa!Bit[x] = (2 * Numa!Bit[p]) * r
        BY <4>3, BitMultiple
      <4>5. G[u] = Numa!Bit[x] + G[u \ {x}]
        BY <1>5
      <4>6. (2 * Numa!Bit[p]) * r + (2 * Numa!Bit[p]) * q = (2 * Numa!Bit[p]) * (r + q) /\ r + q \in Nat
        BY <2>1
      <4>7. G[u] = (2 * Numa!Bit[p]) * (r + q)
        BY <4>2, <4>4, <4>5, <4>6
      <4> QED
        BY <4>6, <4>7
    <3> QED
      BY <3>1, <3>2
  <2>3. IsFiniteSet(s)
    BY FS_Subset
  <2> HIDE DEF M
  <2>4. s \in M
    BY <2>2, <2>3, SetsBySize
  <2> QED
    BY <2>4 DEF M
<1> DEFINE M == {s \in SUBSET P : Numa!countBits[G[s]] = Cardinality(s)}
<1>7. ASSUME NEW s \in SUBSET P, \A x \in s : s \ {x} \in M PROVE s \in M
  <2>1. CASE s = {}
    BY <1>5, <2>1, CountBitsDef, FS_EmptySet
  <2>2. CASE s # {}
    <3>1. PICK p \in s : \A y \in s : ~ (<<y, p>> \in OpToRel(<, Nat))
      BY <2>2, NatLessThanWellFounded, WFMin
    <3>2. p \in Nat /\ p \in P /\ \A y \in s \ {p} : p < y
      <4>1. p \in Nat /\ \A y \in s : y \in Nat /\ ~ (y < p)
        BY <3>1 DEF OpToRel
      <4> QED
        BY <4>1
    <3>3. PICK q \in Nat : G[s \ {p}] = (2 * Numa!Bit[p]) * q
      BY <1>6, <3>2
    <3>4. G[s] = Numa!Bit[p] + G[s \ {p}] /\ G[s \ {p}] \in Nat /\ Numa!Bit[p] \in Nat \ {0}
      BY <1>5, <3>2, BitDef
    <3>5. PICK m \in Nat \ {0} : m = G[s]
      BY <3>4
    <3>6. IsLowest(p, m)
      BY <3>2, <3>3, <3>4, <3>5 DEF IsLowest
    <3>7. m - Numa!Lowest(m) = G[s \ {p}]
      BY <3>4, <3>5, <3>6, LowestIs
    <3>8. Numa!countBits[m] = 1 + Cardinality(s \ {p})
      BY <1>7, <3>7, CountBitsDef
    <3>9. IsFiniteSet(s) /\ Cardinality(s) \in Nat /\ Cardinality(s \ {p}) = Cardinality(s) - 1
      BY FS_Subset, FS_CardinalityType, FS_RemoveElement
    <3> QED
      BY <3>5, <3>8, <3>9
  <2> QED
    BY <2>1, <2>2
<1> HIDE DEF M
<1>8. P \in M
  BY <1>7, SetsBySize
<1> QED
  BY <1>2, <1>4, <1>8 DEF M

(* What the system fills the buffer with. *)

\* Sequences one after the other.
LEMMA FlattenDef ==
  ASSUME NEW s, NEW n \in Nat \ {0}, Len(s) = n
  PROVE  \E f : /\ f[1] = s[1] /\ \A k \in 2..n : f[k] = f[k - 1] \o s[k]
                /\ Numa!FlattenSeq(s) = f[n]
<1> DEFINE Eq(f, c) == f = [m \in 1..c |-> IF m = 1 THEN s[m] ELSE f[m - 1] \o s[m]]
           S == {c \in Nat : \E f, d : d = c + 1 /\ Eq(f, d)}
<1>1. 0 \in S
  <2>1. PICK f : f = [m \in 1..1 |-> s[m]]
    OBVIOUS
  <2>2. Eq(f, 1) /\ 1 = 0 + 1
    BY <2>1
  <2> HIDE DEF Eq
  <2> QED
    BY <2>2
<1>2. ASSUME NEW c \in Nat, c \in S PROVE c + 1 \in S
  <2>1. PICK f, d : d = c + 1 /\ Eq(f, d)
    BY <1>2
  <2> d \in Nat \ {0}
    BY <2>1
  <2>2. \A m \in 1..d : f[m] = IF m = 1 THEN s[m] ELSE f[m - 1] \o s[m]
    BY <2>1
  <2>3. PICK q : q = f[d] \o s[d + 1]
    OBVIOUS
  <2> DEFINE g == [m \in 1..d + 1 |-> IF m <= d THEN f[m] ELSE q]
  <2>4. (\A m \in 1..d : g[m] = f[m]) /\ g[d + 1] = q
    OBVIOUS
  <2>5. g = [m \in 1..d + 1 |-> g[m]]
    OBVIOUS
  <2> HIDE DEF g, Eq
  <2>6. ASSUME NEW m \in 1..d + 1 PROVE g[m] = IF m = 1 THEN s[m] ELSE g[m - 1] \o s[m]
    <3>1. CASE m = d + 1
      <4>1. d \in 1..d /\ m - 1 = d /\ m # 1
        BY <3>1
      <4>2. g[m - 1] = f[d] /\ g[m] = q /\ s[m] = s[d + 1]
        BY <2>4, <3>1, <4>1
      <4> QED
        BY <2>3, <4>1, <4>2
    <3>2. CASE m \in 1..d
      <4>1. m # 1 => m - 1 \in 1..d
        BY <3>2
      <4>2. g[m] = f[m] /\ (m # 1 => g[m - 1] = f[m - 1])
        BY <2>4, <3>2, <4>1
      <4>3. f[m] = IF m = 1 THEN s[m] ELSE f[m - 1] \o s[m]
        BY <2>2, <3>2
      <4> QED
        BY <4>2, <4>3
    <3> QED
      BY <3>1, <3>2
  <2>7. Eq(g, d + 1)
    BY <2>5, <2>6 DEF Eq
  <2>8. d + 1 = (c + 1) + 1
    BY <2>1
  <2> QED
    BY <2>7, <2>8
<1>3. PICK c \in Nat : n = c + 1
  <2>1. n - 1 \in Nat /\ n = (n - 1) + 1
    OBVIOUS
  <2> QED
    BY <2>1
<1> HIDE DEF S
<1>4. c \in S
  BY <1>1, <1>2, NaturalsBySet
<1>5. \E f : Eq(f, n)
  <2> HIDE DEF Eq
  <2> QED
    BY <1>3, <1>4 DEF S
<1>6. Numa!FlattenSeq(s) = (CHOOSE f : Eq(f, n))[n]
  BY DEF Numa!FlattenSeq
<1> HIDE DEF Eq
<1>7. PICK f : Eq(f, n) /\ Numa!FlattenSeq(s) = f[n]
  BY <1>5, <1>6
<1>8. \A m \in 1..n : f[m] = IF m = 1 THEN s[m] ELSE f[m - 1] \o s[m]
  BY <1>7 DEF Eq
<1>9. f[1] = s[1] /\ \A m \in 2..n : f[m] = f[m - 1] \o s[m]
  <2>1. 1 \in 1..n /\ \A m \in 2..n : m \in 1..n /\ m # 1
    OBVIOUS
  <2> QED
    BY <1>8, <2>1
<1> QED
  BY <1>7, <1>9, Zenon

LEMMA Joined ==
  ASSUME NEW W, NEW g \in Seq(W), NEW r \in Seq(W), NEW h, h = g \o r
  PROVE  /\ h \in Seq(W) /\ Len(h) = Len(g) + Len(r)
         /\ \A x \in 1..Len(g) : h[x] = g[x]
         /\ 2 <= Len(r) => h[Len(g) + 1] = r[1] /\ h[Len(g) + 2] = r[2]
  OBVIOUS

\* A record of the buffer: a header, a body, and the padding of one node of two.
LEMMA RecordIs ==
  ASSUME NEW W, NEW a \in W, NEW b \in W, NEW z \in W, NEW c \in 0..1, NEW r,
         r = <<a, b>> \o [x \in 1..c |-> z]
  PROVE  r \in Seq(W) /\ Len(r) = 2 + c /\ r[1] = a /\ r[2] = b
<1>1. PICK t : t = [x \in 1..c |-> z]
  OBVIOUS
<1>2. t \in Seq(W) /\ Len(t) = c
  BY <1>1
<1>3. PICK h : h = <<a, b>>
  OBVIOUS
<1>4. h \in Seq(W) /\ Len(h) = 2 /\ h[1] = a /\ h[2] = b
  BY <1>3
<1> QED
  BY <1>1, <1>2, <1>3, <1>4

\* Where the records begin: at[k] words before that of node k + 1.
Places(at, n) ==
  /\ at \in [0..n -> Nat] /\ at[0] = 0
  /\ \A k \in 1..n : at[k] = at[k - 1] + 2 + (k % 2)
  /\ \A j, k \in 0..n : j < k => at[j] < at[k]

LEMMA PlacesExist ==
  ASSUME NEW n \in Nat
  PROVE  \E at : Places(at, n)
<1> DEFINE at == [k \in 0..n |-> 2 * k + ((k + 1) \div 2)]
<1>1. at \in [0..n -> Nat] /\ at[0] = 0
  OBVIOUS
<1>2. ASSUME NEW k \in 1..n PROVE at[k] = at[k - 1] + 2 + (k % 2)
  <2>1. (k + 1) \div 2 = (k \div 2) + (k % 2)
    OBVIOUS
  <2>2. at[k] = 2 * k + ((k + 1) \div 2) /\ at[k - 1] = 2 * (k - 1) + (k \div 2)
    <3>1. k - 1 \in 0..n /\ (k - 1) + 1 = k
      OBVIOUS
    <3> QED
      BY <3>1
  <2> HIDE DEF at
  <2> QED
    BY <2>1, <2>2
<1>3. ASSUME NEW j \in 0..n, NEW k \in 0..n, j < k PROVE at[j] < at[k]
  <2>1. (j + 1) \div 2 <= (k + 1) \div 2
    BY <1>3
  <2> QED
    BY <1>3, <2>1
<1> HIDE DEF at
<1> QED
  BY <1>1, <1>2, <1>3 DEF Places

LEMMA Layout ==
  ASSUME NEW machine \in Machines, NEW n \in Nat, n = Len(machine), NEW at, Places(at, n),
         NEW e, e = Numa!Encoded(machine)
  PROVE  /\ Len(e) = at[n]
         /\ \A k \in 1..n : /\ e[at[k - 1] + 1] = Numa!Header(2 + (k % 2))
                            /\ e[at[k - 1] + 2] = Numa!Body(k, machine[k])
<1>1. machine \in Seq(SUBSET Nat) /\ DOMAIN machine = 1..n
  <2>1. machine \in Seq(SUBSET Nat)
    BY MainAssumption DEF Numa!NumaAssumption
  <2> QED
    BY <2>1
<1> DEFINE s == [k \in 1..n |-> Numa!RecordOf(k, machine[k])]
           W == {Numa!Header(2), Numa!Header(3), Numa!ZeroWord} \cup {Numa!Body(k, machine[k]) : k \in 1..n}
<1>2. e = Numa!FlattenSeq(s) /\ Len(s) = n
  BY <1>1 DEF Numa!Encoded
<1>3. ASSUME NEW k \in 1..n
      PROVE  /\ s[k] \in Seq(W) /\ Len(s[k]) = 2 + (k % 2)
             /\ s[k][1] = Numa!Header(2 + (k % 2)) /\ s[k][2] = Numa!Body(k, machine[k])
  <2>1. PICK c \in 0..1 : c = k % 2
    OBVIOUS
  <2>2. PICK a \in W, b \in W, z \in W :
          a = Numa!Header(2 + c) /\ b = Numa!Body(k, machine[k]) /\ z = Numa!ZeroWord
    <3>1. 2 + c = 2 \/ 2 + c = 3
      OBVIOUS
    <3> QED
      BY <3>1
  <2> HIDE DEF W
  <2>3. s[k] = <<a, b>> \o [x \in 1..c |-> z]
    BY <2>1, <2>2 DEF Numa!RecordOf
  <2> HIDE DEF s
  <2> QED
    BY <2>1, <2>2, <2>3, RecordIs
<1> HIDE DEF s, W
<1> DEFINE Laid(g, k) ==
      /\ g \in Seq(W) /\ Len(g) = at[k]
      /\ \A j \in 1..k : /\ g[at[j - 1] + 1] = Numa!Header(2 + (j % 2))
                         /\ g[at[j - 1] + 2] = Numa!Body(j, machine[j])
<1>4. Laid(e, n)
  <2>1. CASE n = 0
    <3>1. e = s /\ s = <<>>
      BY <1>2, <2>1 DEF s, Numa!FlattenSeq
    <3> QED
      BY <2>1, <3>1 DEF Places
  <2>2. CASE n # 0
    <3>1. PICK f : f[1] = s[1] /\ (\A k \in 2..n : f[k] = f[k - 1] \o s[k]) /\ e = f[n]
      <4>1. n \in Nat \ {0}
        BY <2>2
      <4>2. \E f : /\ f[1] = s[1] /\ \A k \in 2..n : f[k] = f[k - 1] \o s[k]
                   /\ Numa!FlattenSeq(s) = f[n]
        BY <1>2, <4>1, FlattenDef
      <4> QED
        BY <1>2, <4>2, Zenon
    <3> DEFINE S == {k \in Nat : k + 1 \in 1..n => Laid(f[k + 1], k + 1)}
    <3> HIDE DEF Laid
    <3>2. 0 \in S
      <4>1. 1 \in 1..n
        BY <2>2
      <4>2. at[0] = 0 /\ at[1] = 3
        BY <4>1 DEF Places
      <4>3. PICK g : g = f[1] /\ g = s[1]
        BY <3>1
      <4>4. /\ g \in Seq(W) /\ Len(g) = 3 /\ g[1] = Numa!Header(2 + (1 % 2))
            /\ g[2] = Numa!Body(1, machine[1])
        <5>1. 1 % 2 = 1
          OBVIOUS
        <5>2. PICK k \in 1..n : k = 1
          BY <4>1
        <5>3. /\ s[k] \in Seq(W) /\ Len(s[k]) = 2 + (k % 2)
              /\ s[k][1] = Numa!Header(2 + (k % 2)) /\ s[k][2] = Numa!Body(k, machine[k])
          BY <1>3
        <5> QED
          BY <4>3, <5>1, <5>2, <5>3
      <4>5. Laid(g, 1)
        BY <4>2, <4>4 DEF Laid
      <4>6. 0 + 1 = 1
        OBVIOUS
      <4> QED
        BY <4>3, <4>5, <4>6
    <3>3. ASSUME NEW c \in Nat, c \in S PROVE c + 1 \in S
      <4> SUFFICES ASSUME (c + 1) + 1 \in 1..n PROVE Laid(f[(c + 1) + 1], (c + 1) + 1)
        OBVIOUS
      <4>1. PICK k \in 2..n : k = (c + 1) + 1 /\ k - 1 = c + 1 /\ k - 1 \in 1..n
        OBVIOUS
      <4>2. PICK g, r : g = f[k - 1] /\ r = s[k]
        OBVIOUS
      <4>3. Laid(g, k - 1)
        BY <3>3, <4>1, <4>2
      <4>4. /\ r \in Seq(W) /\ Len(r) = 2 + (k % 2)
            /\ r[1] = Numa!Header(2 + (k % 2)) /\ r[2] = Numa!Body(k, machine[k])
        BY <1>3, <4>2
      <4>5. PICK h : h = g \o r /\ h = f[k]
        BY <3>1, <4>2
      <4>6. /\ h \in Seq(W) /\ Len(h) = Len(g) + Len(r)
            /\ \A x \in 1..Len(g) : h[x] = g[x]
            /\ 2 <= Len(r) => h[Len(g) + 1] = r[1] /\ h[Len(g) + 2] = r[2]
        <5>1. g \in Seq(W) /\ r \in Seq(W)
          BY <4>3, <4>4 DEF Laid
        <5>2. h = g \o r
          BY <4>5
        <5> QED
          BY <5>1, <5>2, Joined
      <4>7. at[k - 1] \in Nat /\ at[k] = at[k - 1] + 2 + (k % 2)
        BY <4>1 DEF Places
      <4>8. /\ Len(g) = at[k - 1]
            /\ \A j \in 1..k - 1 : /\ g[at[j - 1] + 1] = Numa!Header(2 + (j % 2))
                                   /\ g[at[j - 1] + 2] = Numa!Body(j, machine[j])
        BY <4>3 DEF Laid
      <4>9. h \in Seq(W) /\ Len(h) = at[k]
        BY <4>4, <4>6, <4>8, <4>7
      <4>10. ASSUME NEW j \in 1..k
            PROVE  h[at[j - 1] + 1] = Numa!Header(2 + (j % 2)) /\ h[at[j - 1] + 2] = Numa!Body(j, machine[j])
        <5>1. CASE j = k
          <6>1. h[Len(g) + 1] = r[1] /\ h[Len(g) + 2] = r[2]
            <7>1. 2 <= Len(r)
              BY <4>4
            <7> QED
              BY <4>6, <7>1
          <6> QED
            BY <4>4, <4>8, <5>1, <6>1
        <5>2. CASE j \in 1..k - 1
          <6>1. at[j - 1] \in Nat /\ at[j] = at[j - 1] + 2 + (j % 2) /\ at[j] \in Nat
            <7>1. j \in 1..n /\ j - 1 \in 0..n /\ j \in 0..n
              BY <5>2
            <7> QED
              BY <7>1 DEF Places
          <6>2. PICK x \in Nat : x = at[j - 1]
            BY <6>1
          <6>3. x + 2 <= Len(g)
            <7>1. at[j] <= at[k - 1]
              <8>1. j \in 0..n /\ k - 1 \in 0..n /\ (j < k - 1 \/ j = k - 1)
                BY <5>2
              <8>2. j < k - 1 => at[j] < at[k - 1]
                BY <8>1 DEF Places
              <8> QED
                BY <4>7, <6>1, <8>1, <8>2
            <7> QED
              <8>1. PICK y \in Nat : y = at[k - 1] /\ y = Len(g)
                BY <4>7, <4>8
              <8>2. at[j] = x + 2 + (j % 2) /\ j % 2 \in Nat
                BY <6>1, <6>2
              <8> QED
                BY <7>1, <8>1, <8>2
          <6>4. h[x + 1] = g[x + 1] /\ h[x + 2] = g[x + 2]
            <7>1. PICK y \in Nat : y = Len(g) /\ \A u \in 1..y : h[u] = g[u]
              BY <4>7, <4>6, <4>8
            <7>2. x + 1 \in 1..y /\ x + 2 \in 1..y
              BY <6>3, <7>1
            <7> QED
              BY <7>1, <7>2
          <6> QED
            BY <4>8, <5>2, <6>2, <6>4
        <5> QED
          BY <5>1, <5>2
      <4>11. Laid(h, k)
        BY <4>9, <4>10 DEF Laid
      <4> QED
        BY <4>1, <4>5, <4>11
    <3> HIDE DEF S
    <3>4. PICK c \in Nat : c + 1 = n /\ c \in S
      <4>1. n - 1 \in Nat /\ (n - 1) + 1 = n
        BY <2>2
      <4> QED
        BY <3>2, <3>3, <4>1, NaturalsBySet
    <3> QED
      BY <3>1, <3>4 DEF S
  <2> QED
    BY <2>1, <2>2
<1> QED
  BY <1>4 DEF Laid

\* A map of the files: node k holds what its directory lists.
LEMMA NodeOfIs ==
  ASSUME NEW machine \in Machines, NEW n \in Nat, n = Len(machine),
         NEW k \in 1..n, NEW p
  PROVE  /\ p \in machine[k] => p \in DOMAIN Numa!NodeOf(machine) /\ Numa!NodeOf(machine)[p] = k
         /\ p \in DOMAIN Numa!NodeOf(machine) => Numa!NodeOf(machine)[p] \in 1..n
                                                 /\ p \in machine[Numa!NodeOf(machine)[p]]
<1> DEFINE U(c) == UNION {machine[j] : j \in 1..c}
           Holder(c, x) == CHOOSE j \in 1..c : x \in machine[j]
           Eq(m) == m = [c \in 0..n |->
                      IF c = 0 THEN <<>>
                      ELSE [x \in machine[c] \cup DOMAIN m[c - 1] |-> IF x \in machine[c] THEN c ELSE m[c - 1][x]]]
<1>1. \A j, l \in 1..n : j # l => machine[j] \cap machine[l] = {}
  <2>1. machine \in Seq(SUBSET Nat) /\ \A j, l \in DOMAIN machine : j # l => machine[j] \cap machine[l] = {}
    BY MainAssumption DEF Numa!NumaAssumption
  <2>2. DOMAIN machine = 1..n
    BY <2>1
  <2> QED
    BY <2>1, <2>2
<1> DEFINE h == [c \in 0..n |-> IF c = 0 THEN <<>> ELSE [x \in U(c) |-> Holder(c, x)]]
<1>2. Eq(h)
  <2>1. ASSUME NEW c \in 1..n
        PROVE  h[c] = [x \in machine[c] \cup DOMAIN h[c - 1] |-> IF x \in machine[c] THEN c ELSE h[c - 1][x]]
    <3>1. h[c] = [x \in U(c) |-> Holder(c, x)]
      OBVIOUS
    <3>2. DOMAIN h[c - 1] = U(c - 1) /\ \A x \in U(c - 1) : h[c - 1][x] = Holder(c - 1, x)
      <4>1. CASE c = 1
        <5>1. h[c - 1] = <<>> /\ U(c - 1) = {}
          BY <4>1
        <5> HIDE DEF h, U, Holder
        <5> QED
          BY <5>1
      <4>2. CASE c # 1
        <5>1. c - 1 \in 0..n /\ c - 1 # 0
          BY <4>2
        <5>2. h[c - 1] = [x \in U(c - 1) |-> Holder(c - 1, x)]
          BY <5>1
        <5> HIDE DEF h, U, Holder
        <5> QED
          BY <5>2
      <4> QED
        BY <4>1, <4>2
    <3>3. U(c) = machine[c] \cup U(c - 1)
      <4>1. \A x : x \in U(c) <=> \E j \in 1..c : x \in machine[j]
        OBVIOUS
      <4>2. \A x : x \in U(c - 1) <=> \E j \in 1..c - 1 : x \in machine[j]
        OBVIOUS
      <4>3. \A j : j \in 1..c <=> j \in 1..c - 1 \/ j = c
        OBVIOUS
      <4> HIDE DEF U
      <4> QED
        BY <4>1, <4>2, <4>3
    <3>4. ASSUME NEW x \in U(c) PROVE Holder(c, x) = IF x \in machine[c] THEN c ELSE Holder(c - 1, x)
      <4>1. PICK j \in 1..c : x \in machine[j]
        OBVIOUS
      <4>2. \A l \in 1..c : x \in machine[l] => l = j
        <5>1. \A l \in 1..c : l \in 1..n
          OBVIOUS
        <5> QED
          BY <1>1, <4>1, <5>1
      <4>3. Holder(c, x) = j
        BY <4>1, <4>2
      <4>4. j # c => j \in 1..c - 1 /\ \A l \in 1..c - 1 : l \in 1..c
        OBVIOUS
      <4>5. j # c => Holder(c - 1, x) = j
        BY <4>1, <4>2, <4>4
      <4> HIDE DEF Holder
      <4> QED
        BY <4>1, <4>2, <4>3, <4>5
    <3>5. [x \in U(c) |-> Holder(c, x)]
            = [x \in machine[c] \cup DOMAIN h[c - 1] |-> IF x \in machine[c] THEN c ELSE h[c - 1][x]]
      <4> HIDE DEF h, U, Holder
      <4> QED
        BY <3>2, <3>3, <3>4
    <3> QED
      BY <3>1, <3>5, Zenon
  <2>2. h[0] = <<>> /\ h = [c \in 0..n |-> h[c]]
    OBVIOUS
  <2> HIDE DEF h
  <2>3. \A c \in 0..n : c = 0 \/ c \in 1..n
    OBVIOUS
  <2> QED
    BY <2>1, <2>2, <2>3
<1> HIDE DEF h
<1>3. Numa!NodeOf(machine) = (CHOOSE m : Eq(m))[n]
  BY DEF Numa!NodeOf
<1> HIDE DEF Eq
<1>4. PICK m : Eq(m) /\ Numa!NodeOf(machine) = m[n]
  BY <1>2, <1>3
<1> DEFINE S == {c \in Nat : c <= n =>
             /\ DOMAIN m[c] = U(c)
             /\ \A x \in U(c) : m[c][x] \in 1..c /\ x \in machine[m[c][x]]}
<1>5. m[0] = <<>> /\ \A c \in 1..n :
        /\ DOMAIN m[c] = machine[c] \cup DOMAIN m[c - 1]
        /\ \A x \in DOMAIN m[c] : m[c][x] = IF x \in machine[c] THEN c ELSE m[c - 1][x]
  <2>1. \A c \in 0..n : m[c] =
        IF c = 0 THEN <<>>
        ELSE [x \in machine[c] \cup DOMAIN m[c - 1] |-> IF x \in machine[c] THEN c ELSE m[c - 1][x]]
    BY <1>4 DEF Eq
  <2>2. ASSUME NEW c \in 1..n
        PROVE  /\ DOMAIN m[c] = machine[c] \cup DOMAIN m[c - 1]
               /\ \A x \in DOMAIN m[c] : m[c][x] = IF x \in machine[c] THEN c ELSE m[c - 1][x]
    <3>1. c \in 0..n /\ c # 0
      OBVIOUS
    <3>2. m[c] = [x \in machine[c] \cup DOMAIN m[c - 1] |-> IF x \in machine[c] THEN c ELSE m[c - 1][x]]
      BY <2>1, <3>1, Zenon
    <3> QED
      BY <3>2
  <2>3. m[0] = <<>>
    <3>1. 0 \in 0..n
      OBVIOUS
    <3> QED
      BY <2>1, <3>1
  <2> QED
    BY <2>2, <2>3
<1>6. 0 \in S
  <2>1. U(0) = {}
    OBVIOUS
  <2> HIDE DEF U
  <2>2. DOMAIN m[0] = {}
    BY <1>5
  <2> QED
    BY <2>1, <2>2
<1>7. ASSUME NEW d \in Nat, d \in S PROVE d + 1 \in S
  <2> SUFFICES ASSUME NEW c \in 1..n, c = d + 1, d = c - 1
               PROVE  /\ DOMAIN m[c] = U(c)
                      /\ \A x \in U(c) : m[c][x] \in 1..c /\ x \in machine[m[c][x]]
    <3> HIDE DEF U
    <3> QED
      OBVIOUS
  <2>1. /\ DOMAIN m[d] = U(d)
        /\ \A x \in U(d) : m[d][x] \in 1..d /\ x \in machine[m[d][x]]
    <3> HIDE DEF U
    <3> QED
      BY <1>7
  <2>2. U(c) = machine[c] \cup U(d)
    <3>1. \A x : x \in U(c) <=> \E j \in 1..c : x \in machine[j]
      OBVIOUS
    <3>2. \A x : x \in U(d) <=> \E j \in 1..d : x \in machine[j]
      OBVIOUS
    <3>3. \A j : j \in 1..c <=> j \in 1..d \/ j = c
      OBVIOUS
    <3> HIDE DEF U
    <3> QED
      BY <3>1, <3>2, <3>3
  <2> HIDE DEF U
  <2>3. /\ DOMAIN m[c] = machine[c] \cup DOMAIN m[d]
        /\ \A x \in DOMAIN m[c] : m[c][x] = IF x \in machine[c] THEN c ELSE m[d][x]
    BY <1>5
  <2>4. \A j \in 1..d : j \in 1..c
    OBVIOUS
  <2>5. PICK v, w : v = m[d] /\ w = m[c]
    OBVIOUS
  <2>6. DOMAIN w = U(c) /\ \A x \in U(c) : w[x] = IF x \in machine[c] THEN c ELSE v[x]
    BY <2>1, <2>2, <2>3, <2>5
  <2>7. \A x \in U(c) : x \in machine[c] \/ (v[x] \in 1..d /\ x \in machine[v[x]])
    BY <2>1, <2>2, <2>5
  <2>8. \A x \in U(c) : w[x] \in 1..c /\ x \in machine[w[x]]
    BY <2>4, <2>6, <2>7
  <2> QED
    BY <2>5, <2>6, <2>8
<1> HIDE DEF S
<1>8. n \in S
  BY <1>6, <1>7, NaturalsBySet
<1>9. /\ DOMAIN m[n] = U(n)
      /\ \A x \in U(n) : m[n][x] \in 1..n /\ x \in machine[m[n][x]]
  <2> HIDE DEF U
  <2> QED
    BY <1>8 DEF S
<1>10. p \in machine[k] => p \in U(n)
  OBVIOUS
<1> HIDE DEF U
<1>11. p \in U(n) => m[n][p] \in 1..n /\ p \in machine[m[n][p]]
  BY <1>9
<1>12. p \in machine[k] => m[n][p] = k
  BY <1>1, <1>10, <1>11
<1> QED
  BY <1>4, <1>9, <1>10, <1>11, <1>12

\* The node that the loop makes of the record of node k.
NodeShown(machine, k) == [node |-> k, cpus |-> Cardinality(machine[k])]

\* The loop has read the records of the first j nodes.
ScanInv ==
  /\ numa.machine \in Machines /\ numa.buffer = Numa!Encoded(numa.machine) /\ numa.shown = <<>>
  /\ \E j \in 0..Len(numa.machine) : \E at :
       /\ Places(at, Len(numa.machine)) /\ numa.offset = at[j]
       /\ numa.nodes \in Seq([node : Nat, cpus : Nat]) /\ Len(numa.nodes) = j
       /\ \A k \in 1..j : numa.nodes[k] = NodeShown(numa.machine, k)

NumaInv ==
  /\ DOMAIN numa = {"stage", "machine", "buffer", "offset", "nodes", "shown"}
  /\ numa.stage = "scan" => ScanInv
  /\ numa.stage \notin {"scan", "returned"} => numa.offset = 0 /\ numa.nodes = <<>> /\ numa.shown = <<>>
  /\ TopologyFaithful

LEMMA MachineIs ==
  ASSUME NEW machine \in Machines
  PROVE  /\ machine \in Seq(SUBSET Nat) /\ Len(machine) \in Nat /\ DOMAIN machine = 1..Len(machine)
         /\ \A k \in 1..Len(machine) : /\ machine[k] \in SUBSET Nat /\ IsFiniteSet(machine[k])
                                       /\ NodeShown(machine, k) \in [node : Nat, cpus : Nat]
<1>1. machine \in Seq(SUBSET Nat) /\ \A k \in DOMAIN machine : IsFiniteSet(machine[k])
  <2>1. \A S : Numa!IsFiniteSet(S) <=> IsFiniteSet(S)
    BY DEF Numa!IsFiniteSet, IsFiniteSet
  <2> QED
    BY <2>1, MainAssumption DEF Numa!NumaAssumption
<1>2. Len(machine) \in Nat /\ DOMAIN machine = 1..Len(machine)
  BY <1>1
<1>3. ASSUME NEW k \in 1..Len(machine)
      PROVE  /\ machine[k] \in SUBSET Nat /\ IsFiniteSet(machine[k])
             /\ NodeShown(machine, k) \in [node : Nat, cpus : Nat]
  <2>1. machine[k] \in SUBSET Nat /\ IsFiniteSet(machine[k])
    BY <1>1, <1>2
  <2>2. Cardinality(machine[k]) \in Nat
    BY <2>1, FS_CardinalityType
  <2> QED
    BY <2>1, <2>2 DEF NodeShown
<1> QED
  BY <1>1, <1>2, <1>3

\* The steps of the display, one by one.
LEMMA NumaFill ==
  ASSUME NumaInv, Numa!Fill
  PROVE  NumaInv'
<1>1. CASE numa' = [numa EXCEPT !.stage = "returned", !.buffer = <<>>]
  BY <1>1 DEF NumaInv, Numa!Fill, TopologyFaithful, Numa!TopologyFaithful
<1>2. ASSUME NEW machine \in Machines,
             numa' = [numa EXCEPT !.stage = "scan", !.machine = machine,
                                  !.buffer = Numa!Encoded(machine)]
      PROVE  NumaInv'
  <2>1. /\ numa'.stage = "scan" /\ numa'.machine = machine /\ numa'.buffer = Numa!Encoded(machine)
        /\ numa'.offset = 0 /\ numa'.nodes = <<>> /\ numa'.shown = <<>>
        /\ DOMAIN numa' = DOMAIN numa
    BY <1>2 DEF NumaInv, Numa!Fill
  <2>2. Len(machine) \in Nat
    BY MachineIs
  <2>3. PICK at : Places(at, Len(machine))
    BY <2>2, PlacesExist
  <2>4. at[0] = 0 /\ 0 \in 0..Len(machine)
    BY <2>2, <2>3 DEF Places
  <2>5. numa'.nodes \in Seq([node : Nat, cpus : Nat]) /\ Len(numa'.nodes) = 0
    BY <2>1
  <2>6. ScanInv'
    BY <2>1, <2>3, <2>4, <2>5 DEF ScanInv
  <2> QED
    BY <2>1, <2>6 DEF NumaInv, TopologyFaithful, Numa!TopologyFaithful
<1> QED
  BY <1>1, <1>2 DEF Numa!Fill, Numa!Cut

LEMMA NumaScan ==
  ASSUME NumaInv, Numa!Scan
  PROVE  NumaInv'
<1>1. ScanInv
  BY DEF NumaInv, Numa!Scan
<1>2. PICK machine \in Machines : machine = numa.machine /\ numa.buffer = Numa!Encoded(machine)
  BY <1>1 DEF ScanInv
<1>3. PICK n \in Nat : n = Len(machine)
  BY MachineIs
<1>4. PICK j, at :
        /\ j \in 0..n /\ Places(at, n) /\ numa.offset = at[j]
        /\ numa.nodes \in Seq([node : Nat, cpus : Nat]) /\ Len(numa.nodes) = j
        /\ \A k \in 1..j : numa.nodes[k] = NodeShown(machine, k)
  BY <1>1, <1>2, <1>3 DEF ScanInv
<1>5. PICK e : e = numa.buffer /\ at[j] \in Nat
  BY <1>4 DEF Places
<1>6. PICK o \in Nat : o = at[j]
  BY <1>5
<1>7. Len(e) = at[n] /\ \A k \in 1..n : /\ e[at[k - 1] + 1] = Numa!Header(2 + (k % 2))
                                        /\ e[at[k - 1] + 2] = Numa!Body(k, machine[k])
  BY <1>2, <1>3, <1>4, <1>5, Layout
<1>8. j # n
  BY <1>3, <1>4, <1>5, <1>7 DEF Numa!Scan
<1>9. PICK k \in 1..n : k = j + 1 /\ k - 1 = j
  BY <1>4, <1>8
<1>10. at[k] \in Nat /\ at[n] \in Nat /\ at[k] <= at[n] /\ at[k] = o + 2 + (k % 2)
  <2>1. k \in 0..n /\ n \in 0..n /\ (k < n \/ k = n)
    OBVIOUS
  <2>2. at[k] \in Nat /\ at[n] \in Nat /\ at[k] = at[k - 1] + 2 + (k % 2) /\ (k < n => at[k] < at[n])
    BY <1>4, <2>1 DEF Places
  <2> QED
    BY <1>6, <1>9, <2>1, <2>2
<1>11. e[o + 1] = Numa!Header(2 + (k % 2)) /\ e[o + 2] = Numa!Body(k, machine[k])
  BY <1>6, <1>7, <1>9
<1>12. e[o + 1].relation = "numa" /\ e[o + 1].size = 2 + (k % 2)
  BY <1>11 DEF Numa!Header
<1>13. PICK size \in Nat : size = e[o + 1].size /\ o + size = at[k]
  <2>1. 2 + (k % 2) \in Nat
    OBVIOUS
  <2> QED
    BY <1>10, <1>12, <2>1
<1>14. Numa!Fits(o, e)
  BY <1>7, <1>10, <1>13 DEF Numa!Fits
<1>15. e[o + 2].node = k /\ Numa!countBits[e[o + 2].mask] = Cardinality(machine[k])
  <2>1. e[o + 2].mask = Numa!MapThenSumSet(LAMBDA p : Numa!Bit[p], machine[k]) /\ e[o + 2].node = k
    BY <1>11 DEF Numa!Body
  <2>2. machine[k] \in SUBSET Nat /\ IsFiniteSet(machine[k])
    BY <1>3, MachineIs
  <2> QED
    BY <2>1, <2>2, MaskCounted, Zenon
<1>16. /\ numa'.stage = "scan" /\ numa'.machine = machine /\ numa'.buffer = e /\ numa'.shown = <<>>
       /\ DOMAIN numa' = DOMAIN numa
       /\ numa'.offset = at[k]
       /\ numa'.nodes = Append(numa.nodes, NodeShown(machine, k))
  <2>1. numa.offset = o /\ numa.shown = <<>>
    BY <1>6, <1>1, <1>4 DEF ScanInv
  <2>2. numa' = [numa EXCEPT !.offset = @ + e[o + 1].size,
                             !.nodes = Append(@, [node |-> e[o + 2].node,
                                                  cpus |-> Numa!countBits[e[o + 2].mask]])]
    BY <1>5, <1>12, <1>14, <2>1 DEF Numa!Scan
  <2>3. numa' = [numa EXCEPT !.offset = @ + e[o + 1].size,
                             !.nodes = Append(@, NodeShown(machine, k))]
    BY <1>15, <2>2, Zenon DEF NodeShown
  <2>4. o + e[o + 1].size = at[k]
    BY <1>13
  <2> QED
    BY <1>2, <1>5, <2>1, <2>3, <2>4 DEF NumaInv, Numa!Scan
<1>17. /\ numa'.nodes \in Seq([node : Nat, cpus : Nat]) /\ Len(numa'.nodes) = k
       /\ \A x \in 1..k : numa'.nodes[x] = NodeShown(machine, x)
  <2>1. NodeShown(machine, k) \in [node : Nat, cpus : Nat]
    BY <1>3, MachineIs
  <2>2. PICK s \in [node : Nat, cpus : Nat] : s = NodeShown(machine, k)
    BY <2>1
  <2>3. PICK u, v : u = numa.nodes /\ v = numa'.nodes
    OBVIOUS
  <2>4. u \in Seq([node : Nat, cpus : Nat]) /\ Len(u) = j /\ v = Append(u, s)
    BY <1>4, <1>16, <2>2, <2>3
  <2>5. /\ v \in Seq([node : Nat, cpus : Nat]) /\ Len(v) = j + 1 /\ v[j + 1] = s
        /\ \A x \in 1..j : v[x] = u[x]
    BY <2>4
  <2>6. \A x \in 1..k : x \in 1..j \/ x = k
    BY <1>9
  <2>7. \A x \in 1..j : u[x] = NodeShown(machine, x)
    BY <1>4, <2>3
  <2>8. \A x \in 1..k : v[x] = NodeShown(machine, x)
    BY <1>9, <2>2, <2>5, <2>6, <2>7
  <2> QED
    BY <1>9, <2>3, <2>5, <2>8
<1>18. ScanInv'
  <2>1. k \in 0..n
    OBVIOUS
  <2>2. numa'.machine \in Machines /\ numa'.buffer = Numa!Encoded(numa'.machine) /\ Len(numa'.machine) = n
    BY <1>2, <1>3, <1>5, <1>16
  <2> QED
    BY <1>4, <1>16, <1>17, <2>1, <2>2 DEF ScanInv
<1> QED
  BY <1>16, <1>18 DEF NumaInv, TopologyFaithful, Numa!TopologyFaithful

LEMMA NumaDisplay ==
  ASSUME NumaInv, Numa!Display
  PROVE  NumaInv'
<1>1. ScanInv
  BY DEF NumaInv, Numa!Display
<1>2. PICK machine \in Machines : machine = numa.machine /\ numa.buffer = Numa!Encoded(machine)
  BY <1>1 DEF ScanInv
<1>3. PICK n \in Nat : n = Len(machine)
  BY MachineIs
<1>4. PICK j, at :
        /\ j \in 0..n /\ Places(at, n) /\ numa.offset = at[j]
        /\ numa.nodes \in Seq([node : Nat, cpus : Nat]) /\ Len(numa.nodes) = j
        /\ \A k \in 1..j : numa.nodes[k] = NodeShown(machine, k)
  BY <1>1, <1>2, <1>3 DEF ScanInv
<1>5. Len(numa.buffer) = at[n]
  BY <1>2, <1>3, <1>4, Layout
<1>6. j = n
  <2>1. at[j] \in Nat /\ at[n] \in Nat /\ (j < n => at[j] < at[n])
    BY <1>4 DEF Places
  <2> QED
    BY <1>4, <1>5, <2>1 DEF Numa!Display
<1>7. /\ numa'.stage = "returned" /\ numa'.machine = machine /\ numa'.shown = numa.nodes
      /\ DOMAIN numa' = DOMAIN numa
  BY <1>2 DEF NumaInv, Numa!Display
<1>8. numa.nodes = [k \in 1..n |-> NodeShown(machine, k)]
  BY <1>4, <1>6
<1>9. numa.nodes = [k \in DOMAIN machine |-> [node |-> k, cpus |-> Numa!Cardinality(machine[k])]]
  <2>1. DOMAIN machine = 1..n /\ \A k \in 1..n : Numa!Cardinality(machine[k]) = Cardinality(machine[k])
    BY <1>3, MachineIs DEF Numa!Cardinality, Cardinality
  <2> QED
    BY <1>8, <2>1 DEF NodeShown
<1> QED
  BY <1>7, <1>9 DEF NumaInv, TopologyFaithful, Numa!TopologyFaithful

LEMMA NumaFiles ==
  ASSUME NumaInv, Numa!DisplayFiles
  PROVE  NumaInv'
<1> DEFINE node(machine, p) == IF p \in DOMAIN Numa!NodeOf(machine) THEN Numa!NodeOf(machine)[p] ELSE -1
<1>1. PICK machine \in Machines : \E list :
        numa' = [numa EXCEPT !.stage = "returned", !.machine = machine,
                             !.shown = [x \in DOMAIN list |-> [cpu |-> list[x], on |-> node(machine, list[x])]]]
  BY Zenon DEF Numa!DisplayFiles
<1>2. PICK list :
        numa' = [numa EXCEPT !.stage = "returned", !.machine = machine,
                             !.shown = [x \in DOMAIN list |-> [cpu |-> list[x], on |-> node(machine, list[x])]]]
  BY <1>1, Zenon
<1>3. /\ numa'.stage = "returned" /\ numa'.machine = machine /\ DOMAIN numa' = DOMAIN numa
      /\ numa'.shown = [x \in DOMAIN list |-> [cpu |-> list[x], on |-> node(machine, list[x])]]
  BY <1>2 DEF NumaInv
<1>4. ASSUME NEW p, NEW k \in DOMAIN machine PROVE p \in machine[k] <=> node(machine, p) = k
  <2>1. PICK n \in Nat : n = Len(machine) /\ k \in 1..n
    BY MachineIs
  <2>2. /\ p \in machine[k] => p \in DOMAIN Numa!NodeOf(machine) /\ Numa!NodeOf(machine)[p] = k
        /\ p \in DOMAIN Numa!NodeOf(machine) => Numa!NodeOf(machine)[p] \in 1..n
                                                /\ p \in machine[Numa!NodeOf(machine)[p]]
    BY <2>1, NodeOfIs
  <2>3. k # -1
    BY <2>1
  <2> QED
    BY <2>2, <2>3
<1> HIDE DEF node
<1>5. \A x \in DOMAIN numa'.shown :
        /\ "cpu" \in DOMAIN numa'.shown[x]
        /\ \A k \in DOMAIN numa'.machine : numa'.shown[x].cpu \in numa'.machine[k] <=> numa'.shown[x].on = k
  BY <1>3, <1>4
<1> QED
  BY <1>3, <1>5 DEF NumaInv, TopologyFaithful, Numa!TopologyFaithful

LEMMA NumaStep ==
  ASSUME NumaInv, Numa!Step
  PROVE  NumaInv'
<1>1. CASE Numa!Begin
  BY <1>1 DEF NumaInv, Numa!Begin, TopologyFaithful, Numa!TopologyFaithful
<1>2. CASE Numa!AskSize
  BY <1>2 DEF NumaInv, Numa!AskSize, TopologyFaithful, Numa!TopologyFaithful
<1> QED
  BY <1>1, <1>2, NumaFill, NumaScan, NumaDisplay, NumaFiles DEF Numa!Step

\* Main calls the display, and is done with it.
LEMMA NumaCalls ==
  ASSUME NumaInv, NumaCalled \/ UNCHANGED numa
  PROVE  NumaInv'
<1>1. CASE UNCHANGED numa
  BY <1>1 DEF NumaInv, ScanInv, TopologyFaithful, Numa!TopologyFaithful
<1>2. CASE numa' = Numa!Idle \/ Numa!Start
  <2>1. /\ DOMAIN numa' = {"stage", "machine", "buffer", "offset", "nodes", "shown"}
        /\ numa'.stage \in {"idle", "begin"} /\ numa'.offset = 0 /\ numa'.nodes = <<>> /\ numa'.shown = <<>>
    BY <1>2 DEF Numa!Idle, Numa!Start
  <2> QED
    BY <2>1 DEF NumaInv, TopologyFaithful, Numa!TopologyFaithful
<1>3. ASSUME NumaCalled PROVE numa' = Numa!Idle \/ Numa!Start \/ UNCHANGED numa
  BY <1>3 DEF NumaCalled
<1> QED
  BY <1>1, <1>2, <1>3

\* What is displayed of the NUMA nodes is the machine as it was when it last
\* answered, whichever machines the system has (DisplayNumaTopology).
THEOREM NodesDisplayed == Spec => []TopologyFaithful
<1>1. Init => NumaInv
  <2> SUFFICES ASSUME Init PROVE NumaInv
    OBVIOUS
  <2>1. numa = Numa!Idle
    BY DEF Init
  <2> QED
    BY <2>1 DEF NumaInv, Numa!Idle, TopologyFaithful, Numa!TopologyFaithful
<1>2. NumaInv /\ [Next]_vars => NumaInv'
  <2> SUFFICES ASSUME NumaInv, [Next]_vars PROVE NumaInv'
    OBVIOUS
  <2>1. CASE DisplayNuma
    BY <2>1, NumaStep DEF DisplayNuma
  <2>2. ASSUME ~ DisplayNuma PROVE NumaCalled \/ UNCHANGED numa
    BY <2>2 DEF Next, StdBench, OltpBench, MeasureFreq, DisplayVersion, Usage, Exit, Terminated, vars
  <2> QED
    BY <2>1, <2>2, NumaCalls
<1>3. NumaInv => TopologyFaithful
  BY DEF NumaInv
<1> QED
  BY <1>1, <1>2, <1>3, PTL DEF Spec
=============================================================================
