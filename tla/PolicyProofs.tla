---------------------------- MODULE PolicyProofs ----------------------------
(***************************************************************************)
(* Theorems about a benchmark process under each of the two policies, for  *)
(* every number of workers, depth of the channel, size of the bursts and   *)
(* throughput.                                                             *)
(***************************************************************************)
EXTENDS Saturation, Oltp, RunnerProofs

(* The saturation policy. *)

\* A step of the policy is a step of the driver that RunnerProofs knows.
LEMMA SaturationStep ==
  ASSUME RunnerInv, [SaturationNext]_runnerVars
  PROVE  RunnerInv'
<1>1. CASE Default
  <2>1. NW * Burst \in Nat
    BY WorkerSets, BurstAssumption
  <2> QED
    BY <1>1, <2>1, StartBurstInv DEF Default
<1>2. CASE Terminated
  BY <1>2, RunnerStutter DEF Terminated
<1> QED
  BY <1>1, <1>2, CommonInv, EndBurstInv, RunnerStutter DEF SaturationNext

\* The invariant of the driver, its workers and their channels (runBench and
\* Worker.Run) holds in every state of every run.
THEOREM SaturationInvariant == SaturationSpec => []RunnerInv
<1>1. SaturationInit => RunnerInv
  BY RunnerInvInit DEF SaturationInit
<1>2. RunnerInv /\ [SaturationNext]_runnerVars => RunnerInv'
  BY SaturationStep
<1> QED
  BY <1>1, <1>2, PTL DEF SaturationSpec

\* Every variable of the process has its type: no channel exceeds its capacity.
THEOREM SaturationTypes == SaturationSpec => []TypeOK
<1>1. RunnerInv => TypeOK
  BY DEF RunnerInv
<1> QED
  BY <1>1, SaturationInvariant, PTL

\* No transaction is injected, and the timer is not armed, before every worker
\* has been initialised and every acknowledgement received.
THEOREM SaturationInitBarrier == SaturationSpec => []InitBarrier
BY InitBarrierHolds, SaturationInvariant, PTL

\* No worker leaves while a transaction is queued.
THEOREM SaturationDrain == SaturationSpec => []DrainBeforeExit
BY DrainBeforeExitHolds, SaturationInvariant, PTL

\* The acknowledgement and the result of a worker always find room.
THEOREM SaturationOutput == SaturationSpec => []OutputNeverBlocks
BY OutputNeverBlocksHolds, SaturationInvariant, PTL

\* The report leaves no goroutine and no message behind.
THEOREM SaturationQuiescent == SaturationSpec => []QuiescentAtReport
BY QuiescentAtReportHolds, SaturationInvariant, PTL

\* Every transaction injected is queued, being executed or completed, and the
\* count reported is the number of transactions injected.
THEOREM SaturationCount == SaturationSpec => []NoTransactionLost
BY NoTransactionLostHolds, SaturationInvariant, PTL

-----------------------------------------------------------------------------
(* The overshoot. *)

\* The part of the current burst that is sent bounds what was sent late.
OvershootInv ==
  /\ timer \in {"unset", "armed"} => late = 0
  /\ pc = "burst" => n = NW * Burst
  /\ pc = "burst" /\ timer = "firing" => late <= i
  /\ pc = "burst" => i <= n
  /\ late <= NW * Burst

\* Each action of the driver or of the timer preserves it; no worker disturbs it.
LEMMA OvershootStep ==
  ASSUME RunnerInv, OvershootInv, [SaturationNext]_runnerVars
  PROVE  OvershootInv'
<1> DEFINE B == NW * Burst
<1>1. NW \in Nat /\ B \in Nat /\ NW' = NW
  BY WorkerSets, BurstAssumption DEF NW
<1>2. i \in Nat /\ n \in Nat /\ late \in Nat
  BY DEF RunnerInv, TypeOK
<1> HIDE DEF B
<1>3. CASE UNCHANGED <<pc, i, n, timer, late>>
  BY <1>1, <1>3 DEF OvershootInv, B
<1>4. ASSUME pc' # "burst", UNCHANGED late, timer' = timer \/ late = 0 \/ timer' = "sent"
      PROVE  OvershootInv'
  BY <1>1, <1>2, <1>4 DEF OvershootInv, B
<1>5. ASSUME NEW w \in Workers, Spawn(w) PROVE OvershootInv'
  BY <1>4, <1>5 DEF Spawn, LoopOverWorkers
<1>6. CASE AwaitInit
  BY <1>4, <1>6 DEF AwaitInit, LoopOverWorkers
<1>7. CASE Start
  <2>1. timer = "unset"
    BY <1>7 DEF Start, RunnerInv, DriverInv, Setup
  <2> QED
    BY <1>4, <1>7, <2>1 DEF Start, OvershootInv
<1>8. CASE ReceiveStop
  BY <1>4, <1>8 DEF ReceiveStop
<1>9. CASE SendStep
  <2>1. timer \in {"armed", "firing"}
    BY <1>9 DEF SendStep, RunnerInv, DriverInv, TypeOK, Setup, Closed
  <2>2. pc = "burst" /\ i < n /\ i' = i + 1 /\ UNCHANGED <<pc, n, timer>>
    BY <1>9 DEF SendStep
  <2>3. n = B
    BY <2>2 DEF OvershootInv, B
  <2>4. late <= i /\ late' <= i + 1 /\ (timer = "armed" => late' = 0)
    BY <1>2, <1>9, <2>1, <2>2 DEF SendStep, OvershootInv
  <2>5. late' \in Nat
    BY <1>2, <1>9 DEF SendStep
  <2>6. late' <= i' /\ i' <= n' /\ n' = B /\ late' <= B
    BY <1>1, <1>2, <2>2, <2>3, <2>4, <2>5
  <2> QED
    BY <1>1, <2>1, <2>2, <2>4, <2>6 DEF OvershootInv, B
<1>10. CASE SendExit
  BY <1>4, <1>10 DEF SendExit, LoopOverWorkers
<1>11. CASE Collect
  BY <1>4, <1>11 DEF Collect, LoopOverWorkers
<1>12. CASE Fire
  <2>1. late = 0 /\ late' = 0 /\ timer' = "firing" /\ UNCHANGED <<pc, i, n>>
    BY <1>12 DEF Fire, driverVars, OvershootInv
  <2> QED
    BY <1>1, <1>2, <2>1 DEF OvershootInv, B
<1>13. CASE Default
  <2>1. timer = "armed"
    BY <1>13 DEF Default, StartBurst, RunnerInv, DriverInv, TypeOK, Setup, Closed
  <2>2. late = 0 /\ late' = 0 /\ timer' = timer /\ i' = 0 /\ n' = B
    BY <1>13, <2>1 DEF Default, StartBurst, OvershootInv, B
  <2> QED
    BY <1>1, <2>1, <2>2 DEF OvershootInv, B
<1>14. CASE EndBurst
  BY <1>4, <1>14 DEF EndBurst
<1>15. ASSUME NEW w \in Workers, Worker(w) PROVE OvershootInv'
  BY <1>3, <1>15 DEF Worker, TakeInit, AckInit, TakeStep, TakeExit, TakeOp, FinishStep, Exit,
                     driverVars
<1>16. CASE UNCHANGED runnerVars
  BY <1>3, <1>16 DEF runnerVars
<1> QED
  BY <1>5, <1>6, <1>7, <1>8, <1>9, <1>10, <1>11, <1>12, <1>13, <1>14, <1>15, <1>16
     DEF SaturationNext, Common, Driver, Terminated

\* After the timer has fired, at most one burst is still injected
\* (injectSaturation polls the stop channel between bursts only).
THEOREM SaturationOvershoot == SaturationSpec => []OvershootBounded
<1>1. SaturationInit => OvershootInv
  <2>1. NW * Burst \in Nat
    BY WorkerSets, BurstAssumption
  <2> QED
    BY <2>1 DEF SaturationInit, RunnerInit, OvershootInv
<1>2. RunnerInv /\ OvershootInv /\ [SaturationNext]_runnerVars => OvershootInv'
  BY OvershootStep
<1>3. OvershootInv => OvershootBounded
  BY DEF OvershootInv, OvershootBounded
<1> QED
  BY <1>1, <1>2, <1>3, SaturationInvariant, PTL DEF SaturationSpec

-----------------------------------------------------------------------------
\* A process under the saturation policy implements Batch: it executes what it
\* submits once, submits only inside the window, and reports what it submitted.
THEOREM SaturationRefinement == SaturationSpec => ImplementsBatch
<1>1. SaturationInit => Promise!Init
  BY BatchInit DEF SaturationInit
<1>2. RunnerInv /\ Counted' /\ [SaturationNext]_runnerVars => [Promise!Next]_(Promise!batchVars)
  <2> SUFFICES ASSUME RunnerInv, Counted', [SaturationNext]_runnerVars
               PROVE  [Promise!Next]_(Promise!batchVars)
    OBVIOUS
  <2>1. CASE Default \/ EndBurst
    <3>1. pc \in {"inject", "burst"} /\ pc' \in {"inject", "burst"}
      BY <2>1 DEF Default, StartBurst, EndBurst
    <3>2. UNCHANGED <<injected, workerVars>>
      BY <2>1 DEF Default, StartBurst, EndBurst, workerVars
    <3> QED
      BY <3>1, <3>2, BatchDriver
  <2>2. CASE Terminated \/ UNCHANGED runnerVars
    BY <2>2, BatchStutter DEF Terminated
  <2> QED
    BY <2>1, <2>2, BatchCommon DEF SaturationNext
<1>3. RunnerInv => Counted
  BY CountedHolds
<1> QED
  BY <1>1, <1>2, <1>3, SaturationInvariant, PTL DEF SaturationSpec, ImplementsBatch, Promise!Spec

-----------------------------------------------------------------------------
(* The OLTP policy. *)

(* The periods. *)

LEMMA PeriodCases ==
  ASSUME NEW tps \in Nat
  PROVE  \/ tps < 10 /\ Period(tps) = 1000 /\ NbPeriods(tps) = 1
         \/ tps >= 10 /\ Period(tps) = 100 /\ NbPeriods(tps) = 10
         \/ tps >= 100 /\ Period(tps) = 50 /\ NbPeriods(tps) = 20
         \/ tps >= 500 /\ Period(tps) = 20 /\ NbPeriods(tps) = 50
         \/ tps >= 1000 /\ Period(tps) = 10 /\ NbPeriods(tps) = 100
<1>1. CASE tps < 10
  BY <1>1 DEF Period, NbPeriods
<1>2. CASE tps >= 10 /\ tps < 100
  BY <1>2 DEF Period, NbPeriods
<1>3. CASE tps >= 100 /\ tps < 500
  BY <1>3 DEF Period, NbPeriods
<1>4. CASE tps >= 500 /\ tps < 1000
  BY <1>4 DEF Period, NbPeriods
<1>5. CASE tps >= 1000
  BY <1>5 DEF Period, NbPeriods
<1> QED
  BY <1>1, <1>2, <1>3, <1>4, <1>5

\* Whatever the -tps flag, the bursts of a second add up to it, and the
\* correction of the first of them stays below one transaction per period
\* (the computation of period, nbPeriods, nbTrans and nbTransFirst).
THEOREM OltpPeriods == PeriodsCoverThroughput
<1> SUFFICES ASSUME NEW tps \in Nat
             PROVE  /\ NbTransFirst(tps) \in 0..NbPeriods(tps) - 1
                    /\ NbTransFirst(tps) + NbPeriods(tps) * NbTrans(tps) = tps
                    /\ NbPeriods(tps) > 1 => NbTrans(tps) > 0
                    /\ Period(tps) * NbPeriods(tps) = 1000
  BY DEF PeriodsCoverThroughput
<1>1. NbPeriods(tps) \in Nat /\ NbPeriods(tps) >= 1 /\ Period(tps) * NbPeriods(tps) = 1000
  BY PeriodCases
<1>2. /\ NbTrans(tps) \in Nat
      /\ tps - NbTrans(tps) * NbPeriods(tps) \in 0..NbPeriods(tps) - 1
      /\ (tps - NbTrans(tps) * NbPeriods(tps)) + NbPeriods(tps) * NbTrans(tps) = tps
  <2>1. CASE NbPeriods(tps) = 1
    BY <2>1 DEF NbTrans
  <2>2. CASE NbPeriods(tps) = 10
    BY <2>2 DEF NbTrans
  <2>3. CASE NbPeriods(tps) = 20
    BY <2>3 DEF NbTrans
  <2>4. CASE NbPeriods(tps) = 50
    BY <2>4 DEF NbTrans
  <2>5. CASE NbPeriods(tps) = 100
    BY <2>5 DEF NbTrans
  <2> QED
    BY <2>1, <2>2, <2>3, <2>4, <2>5, PeriodCases
<1>3. NbTransFirst(tps) = tps - NbTrans(tps) * NbPeriods(tps)
  BY <1>1, <1>2 DEF NbTransFirst
<1>4. NbPeriods(tps) > 1 => NbTrans(tps) > 0
  <2> SUFFICES ASSUME NbPeriods(tps) > 1, NbTrans(tps) = 0 PROVE FALSE
    BY <1>2
  <2>1. tps < NbPeriods(tps)
    BY <1>1, <1>2
  <2> QED
    BY <2>1, PeriodCases
<1> QED
  BY <1>1, <1>2, <1>3, <1>4

-----------------------------------------------------------------------------
(* The process. *)

OltpInv == RunnerInv /\ OltpTypeOK

LEMMA BurstSizeType ==
  /\ NbPeriods(TPS) \in Nat /\ NbPeriods(TPS) >= 1
  /\ NbTrans(TPS) \in Nat /\ NbTransFirst(TPS) \in Nat
  /\ BurstSize \in Nat
<1>1. NbPeriods(TPS) \in Nat /\ NbPeriods(TPS) >= 1
  BY TPSAssumption, PeriodCases
<1>2. NbTransFirst(TPS) \in Nat
  BY TPSAssumption, OltpPeriods DEF PeriodsCoverThroughput
<1>3. NbTrans(TPS) \in Nat
  BY <1>1, TPSAssumption DEF NbTrans
<1> QED
  BY <1>1, <1>2, <1>3 DEF BurstSize

LEMMA OltpInvInit == OltpInit => OltpInv
<1> SUFFICES ASSUME OltpInit PROVE OltpInv
  OBVIOUS
<1>1. RunnerInv
  BY RunnerInvInit DEF OltpInit
<1>2. iPeriod \in 0..NbPeriods(TPS) - 1
  BY BurstSizeType DEF OltpInit
<1>3. tick \in BOOLEAN
  BY DEF OltpInit
<1> QED
  BY <1>1, <1>2, <1>3 DEF OltpInv, OltpTypeOK, RunnerInv

\* A step of the policy is a step of the driver that RunnerProofs knows.
LEMMA OltpStep ==
  ASSUME OltpInv, [OltpNext]_vars
  PROVE  OltpInv'
<1>1. RunnerInv'
  <2>1. CASE ReceiveTick
    BY <2>1, BurstSizeType, StartBurstInv DEF ReceiveTick, OltpInv
  <2>2. CASE EndPeriod
    BY <2>2, EndBurstInv DEF EndPeriod, OltpInv
  <2>3. CASE Tick \/ (Terminated /\ UNCHANGED oltpVars) \/ UNCHANGED vars
    BY <2>3, RunnerStutter DEF Tick, Terminated, vars, OltpInv
  <2> QED
    BY <2>1, <2>2, <2>3, CommonInv DEF OltpNext, OltpInv
<1>2. tick' \in BOOLEAN /\ iPeriod' \in 0..NbPeriods(TPS) - 1
  <2>1. iPeriod \in 0..NbPeriods(TPS) - 1 /\ tick \in BOOLEAN
    BY DEF OltpInv, OltpTypeOK
  <2>2. CASE EndPeriod
    BY <2>1, <2>2, BurstSizeType DEF EndPeriod
  <2>3. CASE Tick \/ ReceiveTick \/ UNCHANGED oltpVars
    BY <2>1, <2>3 DEF Tick, ReceiveTick, oltpVars
  <2> QED
    BY <2>2, <2>3 DEF OltpNext, vars
<1> QED
  BY <1>1, <1>2 DEF OltpInv, OltpTypeOK, RunnerInv

\* The invariant of the driver, its workers and their channels holds in every
\* state of every run.
THEOREM OltpInvariant == OltpSpec => []OltpInv
BY OltpInvInit, OltpStep, PTL DEF OltpSpec

\* Every variable of the process has its type.
THEOREM OltpTypes == OltpSpec => []OltpTypeOK
<1>1. OltpInv => OltpTypeOK
  BY DEF OltpInv
<1> QED
  BY <1>1, OltpInvariant, PTL

\* No transaction is injected, and the timer is not armed, before every worker
\* has been initialised; no worker leaves while a transaction is queued; no
\* worker waits for room in the output channel; nothing is left at the report.
THEOREM OltpSafety == OltpSpec => [](InitBarrier /\ DrainBeforeExit /\ OutputNeverBlocks /\ QuiescentAtReport)
<1>1. OltpInv => InitBarrier /\ DrainBeforeExit /\ OutputNeverBlocks /\ QuiescentAtReport
  BY InitBarrierHolds, DrainBeforeExitHolds, OutputNeverBlocksHolds, QuiescentAtReportHolds
     DEF OltpInv
<1> QED
  BY <1>1, OltpInvariant, PTL

\* Every transaction injected is queued, being executed or completed, and the
\* count reported is the number of transactions injected.
THEOREM OltpCount == OltpSpec => []NoTransactionLost
<1>1. OltpInv => NoTransactionLost
  BY NoTransactionLostHolds DEF OltpInv
<1> QED
  BY <1>1, OltpInvariant, PTL

\* A process under the OLTP policy implements Batch.
THEOREM OltpRefinement == OltpSpec => ImplementsBatch
<1>1. OltpInit => Promise!Init
  BY BatchInit DEF OltpInit
<1>2. RunnerInv /\ Counted' /\ [OltpNext]_vars => [Promise!Next]_(Promise!batchVars)
  <2> SUFFICES ASSUME RunnerInv, Counted', [OltpNext]_vars
               PROVE  [Promise!Next]_(Promise!batchVars)
    OBVIOUS
  <2>1. CASE ReceiveTick \/ EndPeriod
    <3>1. pc \in {"inject", "burst"} /\ pc' \in {"inject", "burst"}
      BY <2>1 DEF ReceiveTick, EndPeriod, StartBurst, EndBurst
    <3>2. UNCHANGED <<injected, workerVars>>
      BY <2>1 DEF ReceiveTick, EndPeriod, StartBurst, EndBurst, workerVars
    <3> QED
      BY <3>1, <3>2, BatchDriver
  <2>2. CASE Tick \/ Terminated \/ UNCHANGED vars
    BY <2>2, BatchStutter DEF Tick, Terminated, vars
  <2> QED
    BY <2>1, <2>2, BatchCommon DEF OltpNext
<1>3. OltpInv => RunnerInv /\ Counted
  BY CountedHolds DEF OltpInv
<1> QED
  BY <1>1, <1>2, <1>3, OltpInvariant, PTL DEF OltpSpec, ImplementsBatch, Promise!Spec

-----------------------------------------------------------------------------
(* The pace. *)

\* The transactions injected are those of whole seconds, of the periods elapsed
\* of the current one, and the first k of the current burst.
Progress(k) == \E r \in Nat : injected = r * TPS + InjectedThisSecond + k

PaceInv ==
  /\ pc \in Setup => iPeriod = 0
  /\ pc = "inject" => Progress(0)
  /\ pc = "burst" => n = BurstSize /\ i <= n /\ Progress(i)

LEMMA InjectedType ==
  ASSUME OltpInv
  PROVE  /\ InjectedThisSecond \in Nat
         /\ TPS > 0 => InjectedThisSecond < TPS
<1> DEFINE N == NbPeriods(TPS)  T == NbTrans(TPS)  F == NbTransFirst(TPS)
<1>1. /\ N \in Nat /\ T \in Nat /\ F \in Nat /\ F + N * T = TPS
      /\ N > 1 => T > 0
      /\ iPeriod \in 0..N - 1 /\ TPS \in Nat
  BY BurstSizeType, TPSAssumption, OltpPeriods DEF PeriodsCoverThroughput, OltpInv, OltpTypeOK
<1> HIDE DEF N, T, F
<1>2. CASE iPeriod = 0
  BY <1>1, <1>2 DEF InjectedThisSecond
<1>3. CASE iPeriod > 0
  <2>1. InjectedThisSecond = F + iPeriod * T
    BY <1>1, <1>3 DEF InjectedThisSecond, F, T
  <2>2. iPeriod * T \in Nat /\ T > 0 /\ iPeriod < N
    BY <1>1, <1>3
  <2>3. (N - iPeriod) * T > 0
    BY <1>1, <2>2
  <2>4. (N - iPeriod) * T = N * T - iPeriod * T /\ N * T \in Nat
    BY <1>1
  <2> QED
    BY <1>1, <2>1, <2>2, <2>3, <2>4
<1> QED
  BY <1>1, <1>2, <1>3

\* The end of a period: the burst is whole, and so is the second after the last.
LEMMA PaceEnd ==
  ASSUME OltpInv, PaceInv, EndPeriod
  PROVE  Progress(0)'
<1> DEFINE N == NbPeriods(TPS)  T == NbTrans(TPS)  F == NbTransFirst(TPS)
<1>1. /\ N \in Nat /\ T \in Nat /\ F \in Nat /\ F + N * T = TPS
      /\ iPeriod \in 0..N - 1 /\ TPS \in Nat
  BY BurstSizeType, TPSAssumption, OltpPeriods DEF PeriodsCoverThroughput, OltpInv, OltpTypeOK
<1>2. /\ pc = "burst" /\ i >= n /\ injected' = injected
      /\ iPeriod' = IF iPeriod + 1 = N THEN 0 ELSE iPeriod + 1
  BY DEF EndPeriod, EndBurst
<1>3. i = BurstSize
  BY <1>2 DEF PaceInv, OltpInv, RunnerInv, TypeOK
<1>4. PICK r \in Nat : injected = r * TPS + InjectedThisSecond + BurstSize
  BY <1>2, <1>3 DEF PaceInv, Progress
<1>5. InjectedThisSecond + BurstSize = F + (iPeriod + 1) * T
  <2>1. CASE iPeriod = 0
    BY <1>1, <2>1 DEF InjectedThisSecond, BurstSize
  <2>2. CASE iPeriod > 0
    <3>1. InjectedThisSecond + BurstSize = F + iPeriod * T + T
      BY <1>1, <2>2 DEF InjectedThisSecond, BurstSize
    <3> HIDE DEF F, T
    <3>2. (iPeriod + 1) * T = iPeriod * T + T /\ iPeriod * T \in Nat
      BY <1>1
    <3> QED
      BY <1>1, <3>1, <3>2
  <2> QED
    BY <1>1, <2>1, <2>2
<1>6. InjectedThisSecond \in Nat /\ BurstSize \in Nat /\ r * TPS \in Nat
  BY <1>1, InjectedType, BurstSizeType
<1>7. injected = r * TPS + (F + (iPeriod + 1) * T)
  BY <1>4, <1>5, <1>6
<1>8. CASE iPeriod + 1 = N
  <2>1. InjectedThisSecond' = 0
    BY <1>2, <1>8 DEF InjectedThisSecond
  <2>2. injected = r * TPS + TPS
    BY <1>1, <1>7, <1>8
  <2> HIDE DEF N, T, F
  <2>3. r * TPS + TPS = (r + 1) * TPS /\ (r + 1) * TPS \in Nat
    BY <1>1
  <2>4. injected' = (r + 1) * TPS + 0 + 0 /\ r + 1 \in Nat
    BY <1>2, <2>2, <2>3
  <2> QED
    BY <2>1, <2>4 DEF Progress
<1>9. CASE iPeriod + 1 # N
  <2>1. iPeriod' = iPeriod + 1 /\ iPeriod + 1 # 0
    BY <1>1, <1>2, <1>9
  <2>2. InjectedThisSecond' = F + (iPeriod + 1) * T
    BY <2>1 DEF InjectedThisSecond
  <2>3. InjectedThisSecond' = InjectedThisSecond + BurstSize
    BY <1>5, <2>2
  <2>4. injected' = r * TPS + InjectedThisSecond' + 0
    BY <1>2, <1>4, <1>6, <2>3
  <2> QED
    BY <2>4 DEF Progress
<1> QED
  BY <1>8, <1>9

LEMMA PaceStep ==
  ASSUME OltpInv, OltpInv', PaceInv, [OltpNext]_vars
  PROVE  PaceInv'
<1> USE DEF OltpInv, RunnerInv
<1>1. i \in Nat /\ n \in Nat /\ injected \in Nat /\ InjectedThisSecond \in Nat /\ TPS \in Nat
  BY InjectedType, TPSAssumption DEF TypeOK
<1>2. UNCHANGED iPeriod => UNCHANGED <<InjectedThisSecond, BurstSize>>
  BY DEF InjectedThisSecond, BurstSize
<1>3. CASE UNCHANGED <<pc, i, n, injected, iPeriod>>
  BY <1>2, <1>3 DEF PaceInv, Progress, Setup
<1>4. ASSUME pc' \notin {"inject", "burst"}, UNCHANGED iPeriod, pc' \in Setup => pc \in Setup
      PROVE  PaceInv'
  BY <1>4 DEF PaceInv
<1>5. ASSUME NEW w \in Workers, Spawn(w), UNCHANGED oltpVars PROVE PaceInv'
  BY <1>4, <1>5 DEF Spawn, LoopOverWorkers, oltpVars, Setup
<1>6. CASE AwaitInit /\ UNCHANGED oltpVars
  BY <1>4, <1>6 DEF AwaitInit, LoopOverWorkers, oltpVars, Setup
<1>7. CASE Start /\ UNCHANGED oltpVars
  <2>1. injected = 0 /\ iPeriod = 0
    BY <1>7 DEF Start, DriverInv, PaceInv, Setup
  <2>2. InjectedThisSecond' = 0 /\ injected' = 0 * TPS + 0 + 0
    BY <1>1, <1>7, <2>1 DEF Start, oltpVars, InjectedThisSecond
  <2>3. Progress(0)'
    BY <2>2 DEF Progress
  <2> QED
    BY <1>7, <2>3 DEF Start, PaceInv, Setup
<1>8. CASE (ReceiveStop \/ SendExit \/ Collect) /\ UNCHANGED oltpVars
  BY <1>4, <1>8 DEF ReceiveStop, SendExit, Collect, LoopOverWorkers, oltpVars, Setup
<1>9. CASE SendStep /\ UNCHANGED oltpVars
  <2>1. /\ pc = "burst" /\ pc' = "burst" /\ i < n /\ i' = i + 1 /\ n' = n
        /\ injected' = injected + 1 /\ iPeriod' = iPeriod
    BY <1>9 DEF SendStep, oltpVars
  <2>2. PICK r \in Nat : injected = r * TPS + InjectedThisSecond + i
    BY <2>1 DEF PaceInv, Progress
  <2>3. r * TPS \in Nat
    BY <1>1
  <2>4. injected' = r * TPS + InjectedThisSecond' + i'
    BY <1>1, <1>2, <2>1, <2>2, <2>3
  <2>5. n' = BurstSize' /\ i' <= n'
    BY <1>1, <1>2, <2>1 DEF PaceInv
  <2> QED
    BY <2>1, <2>4, <2>5 DEF PaceInv, Progress, Setup
<1>10. CASE ReceiveTick
  <2>1. /\ pc = "inject" /\ pc' = "burst" /\ i' = 0 /\ n' = BurstSize
        /\ injected' = injected /\ iPeriod' = iPeriod
    BY <1>10 DEF ReceiveTick, StartBurst
  <2>2. Progress(i)'
    BY <1>2, <2>1 DEF PaceInv, Progress
  <2> QED
    BY <1>2, <2>1, <2>2, BurstSizeType DEF PaceInv, Setup
<1>11. CASE EndPeriod
  BY <1>11, PaceEnd DEF PaceInv, EndPeriod, EndBurst, Setup
<1>12. CASE (Fire \/ \E w \in Workers : Worker(w)) /\ UNCHANGED oltpVars
  <2>1. UNCHANGED <<pc, i, n, injected, iPeriod>>
    BY <1>12 DEF Fire, Worker, TakeInit, AckInit, TakeStep, TakeExit, TakeOp, FinishStep, Exit,
                 driverVars, oltpVars
  <2> QED
    BY <1>3, <2>1
<1>13. CASE Tick \/ (Terminated /\ UNCHANGED oltpVars) \/ UNCHANGED vars
  <2>1. UNCHANGED <<pc, i, n, injected, iPeriod>>
    BY <1>13 DEF Tick, Terminated, runnerVars, oltpVars, vars
  <2> QED
    BY <1>3, <2>1
<1> HIDE DEF OltpInv, RunnerInv
<1>14. CASE Driver /\ UNCHANGED oltpVars
  BY <1>5, <1>6, <1>7, <1>8, <1>9, <1>14 DEF Driver
<1>15. CASE Common /\ UNCHANGED oltpVars
  BY <1>12, <1>14, <1>15 DEF Common
<1> QED
  BY <1>10, <1>11, <1>13, <1>15 DEF OltpNext

\* Each round of periods injects TPS transactions, whatever ticks were dropped
\* and however often the injector was blocked (the loop of injectOLTP).
THEOREM OltpPace == OltpSpec => []PaceKept
<1>1. OltpInit => PaceInv
  BY DEF OltpInit, RunnerInit, PaceInv
<1>2. OltpInv /\ OltpInv' /\ PaceInv /\ [OltpNext]_vars => PaceInv'
  BY PaceStep
<1>3. OltpInv /\ PaceInv => PaceKept
  <2> SUFFICES ASSUME OltpInv, PaceInv, pc = "inject", TPS > 0
               PROVE  injected % TPS = InjectedThisSecond
    BY DEF PaceKept
  <2>1. PICK r \in Nat : injected = r * TPS + InjectedThisSecond + 0
    BY DEF PaceInv, Progress
  <2>2. InjectedThisSecond \in Nat /\ InjectedThisSecond < TPS /\ TPS \in Nat
    BY InjectedType, TPSAssumption
  <2>3. r * TPS \in Nat
    BY <2>2
  <2>4. injected = r * TPS + InjectedThisSecond
    BY <2>1, <2>2, <2>3
  <2> QED
    BY <2>2, <2>4
<1> QED
  BY <1>1, <1>2, <1>3, OltpInvariant, PTL DEF OltpSpec
=============================================================================
