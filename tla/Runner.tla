------------------------------- MODULE Runner -------------------------------
(***************************************************************************)
(* One benchmark process: the driver (runBench, main.go), its workers      *)
(* (Worker, worker.go), the three channels between them and the timer that *)
(* ends the measured window.  The injection policy is a parameter of       *)
(* runBench: modules Saturation and Oltp complete this module with one     *)
(* policy each, and with the next-state relation.                          *)
(***************************************************************************)
EXTENDS Integers, Sequences, FiniteSets

CONSTANTS Workers,   \* identities of the -workers workers
          Depth,     \* slots of the input channel per worker (32 in the code)
          MaxSteps   \* bound of the model: transactions injected in a run

ASSUME RunnerAssumption ==
  /\ IsFiniteSet(Workers) /\ Workers # {}
  /\ Depth \in Nat \ {0}
  /\ MaxSteps \in Nat

NW == Cardinality(Workers)

\* Operations of the input channel.  OpInit is only ever sent on the init
\* channel, a counter of tokens here; OpNull is never sent.
OpStep == "OpStep"
OpExit == "OpExit"

VARIABLES
  pc,        \* control state of the driver
  i,         \* loop variable of the driver
  n,         \* transactions of the current burst (number of turns of its loop)
  nb,        \* transactions reported by the workers, summed by the driver
  init,      \* tokens in the init channel
  input,     \* the input channel
  output,    \* the output channel
  timer,     \* the AfterFunc goroutine: unset, armed, firing (blocked on stop), sent
  wpc,       \* control state of each worker
  wnb,       \* Worker.nb
  injected,  \* history: transactions sent to the input channel
  late       \* history: those of them sent after the timer fired

driverVars == <<pc, i, n, nb>>
workerVars == <<wpc, wnb>>
runnerVars == <<pc, i, n, nb, init, input, output, timer, wpc, wnb, injected, late>>

DriverStates == {"spawn", "await", "start", "inject", "burst", "exit", "collect", "done"}
WorkerStates == {"unborn", "born", "init", "idle", "step", "exit", "gone"}

TypeOK ==
  /\ pc \in DriverStates
  /\ i \in Nat /\ n \in Nat /\ nb \in Nat
  /\ init \in 0..NW
  /\ input \in Seq({OpStep, OpExit}) /\ Len(input) <= NW * Depth
  /\ output \in Seq(Nat) /\ Len(output) <= NW
  /\ timer \in {"unset", "armed", "firing", "sent"}
  /\ wpc \in [Workers -> WorkerStates]
  /\ wnb \in [Workers -> Nat]
  /\ injected \in Nat /\ late \in Nat

RunnerInit ==
  /\ pc = "spawn" /\ i = 0 /\ n = 0 /\ nb = 0
  /\ init = 0 /\ input = <<>> /\ output = <<>>
  /\ timer = "unset"
  /\ wpc = [w \in Workers |-> "unborn"] /\ wnb = [w \in Workers |-> 0]
  /\ injected = 0 /\ late = 0

-----------------------------------------------------------------------------
(* The driver. *)

\* Pass k of a loop over the workers: the driver stays in state here until the
\* last pass, then moves to there with a fresh loop variable.
LoopOverWorkers(here, there) ==
  /\ pc = here
  /\ i' = IF i + 1 = NW THEN 0 ELSE i + 1
  /\ pc' = IF i + 1 = NW THEN there ELSE here

\* go w.Run() and init <- OpInit, which finds room: one token per worker.
Spawn(w) ==
  /\ LoopOverWorkers("spawn", "await")
  /\ wpc[w] = "unborn"
  /\ init < NW
  /\ wpc' = [wpc EXCEPT ![w] = "born"]
  /\ init' = init + 1
  /\ UNCHANGED <<n, nb, input, output, timer, wnb, injected, late>>

\* Mutant: the measure starts at the first acknowledgement.
AwaitInitOne ==
  /\ pc = "await" /\ output # <<>>
  /\ pc' = "start"
  /\ output' = Tail(output)
  /\ UNCHANGED <<i, n, nb, init, input, timer, wpc, wnb, injected, late>>

\* for range workers { <-output }
AwaitInit ==
  /\ LoopOverWorkers("await", "start")
  /\ output # <<>>
  /\ output' = Tail(output)
  /\ UNCHANGED <<n, nb, init, input, timer, wpc, wnb, injected, late>>

\* The measured window opens: the timer is armed and the policy takes over.
Start ==
  /\ pc = "start"
  /\ pc' = "inject"
  /\ timer' = "armed"
  /\ UNCHANGED <<i, n, nb, init, input, output, wpc, wnb, injected, late>>

\* The duration elapses; the goroutine of the timer blocks on the stop channel.
Fire ==
  /\ timer = "armed"
  /\ timer' = "firing"
  /\ UNCHANGED <<driverVars, init, input, output, workerVars, injected, late>>

\* Mutant: break instead of return, which leaves the select but not the loop.
ReceiveStopBreak ==
  /\ pc = "inject" /\ timer = "firing"
  /\ timer' = "sent"
  /\ UNCHANGED <<driverVars, init, input, output, workerVars, injected, late>>

\* case <-stop: return, in both policies: the unbuffered channel is received.
ReceiveStop ==
  /\ pc = "inject"
  /\ timer = "firing"
  /\ timer' = "sent"
  /\ pc' = "exit"
  /\ i' = 0
  /\ UNCHANGED <<n, nb, init, input, output, wpc, wnb, injected, late>>

\* A policy starts the loop that sends k transactions.
StartBurst(k) ==
  /\ pc = "inject"
  /\ pc' = "burst"
  /\ i' = 0
  /\ n' = k
  /\ UNCHANGED <<nb, init, input, output, timer, wpc, wnb, injected, late>>

\* Mutant: the channel has no bound.
SendStepUnbounded ==
  /\ pc = "burst" /\ i < n
  /\ input' = Append(input, OpStep)
  /\ i' = i + 1
  /\ injected' = injected + 1
  /\ late' = IF timer = "firing" THEN late + 1 ELSE late
  /\ UNCHANGED <<pc, n, nb, init, output, timer, wpc, wnb>>

\* Mutant: a transaction may still be sent after the stop.
SendStepStopped ==
  /\ (pc = "burst" /\ i < n) \/ (pc = "exit" /\ i = 0)
  /\ Len(input) < NW * Depth
  /\ input' = Append(input, OpStep)
  /\ i' = i + 1
  /\ injected' = injected + 1
  /\ late' = IF timer = "firing" THEN late + 1 ELSE late
  /\ UNCHANGED <<pc, n, nb, init, output, timer, wpc, wnb>>

\* input <- OpStep, which blocks while the channel is full.
SendStep ==
  /\ pc = "burst" /\ i < n
  /\ Len(input) < NW * Depth
  /\ input' = Append(input, OpStep)
  /\ i' = i + 1
  /\ injected' = injected + 1
  /\ late' = IF timer = "firing" THEN late + 1 ELSE late
  /\ UNCHANGED <<pc, n, nb, init, output, timer, wpc, wnb>>

\* Mutant: the inner loop never hands back to the select.
EndBurstNever == pc = "burst" /\ i >= n /\ UNCHANGED runnerVars

\* The loop ends and the policy goes back to its select.
EndBurst ==
  /\ pc = "burst" /\ i >= n
  /\ pc' = "inject"
  /\ UNCHANGED <<i, n, nb, init, input, output, timer, wpc, wnb, injected, late>>

\* Mutant: the exits overtake the transactions.
SendExitUrgent ==
  /\ LoopOverWorkers("exit", "collect")
  /\ Len(input) < NW * Depth
  /\ input' = <<OpExit>> \o input
  /\ UNCHANGED <<n, nb, init, output, timer, wpc, wnb, injected, late>>

\* for range workers { input <- OpExit }
SendExit ==
  /\ LoopOverWorkers("exit", "collect")
  /\ Len(input) < NW * Depth
  /\ input' = Append(input, OpExit)
  /\ UNCHANGED <<n, nb, init, output, timer, wpc, wnb, injected, late>>

\* Mutant: one result is not waited for.
CollectAllButOne ==
  /\ pc = "collect" /\ output # <<>>
  /\ i' = i + 1
  /\ pc' = IF i + 2 >= NW THEN "done" ELSE "collect"
  /\ nb' = nb + Head(output)
  /\ output' = Tail(output)
  /\ UNCHANGED <<n, init, input, timer, wpc, wnb, injected, late>>

\* for range workers { nb += <-output }
Collect ==
  /\ LoopOverWorkers("collect", "done")
  /\ output # <<>>
  /\ nb' = nb + Head(output)
  /\ output' = Tail(output)
  /\ UNCHANGED <<n, init, input, timer, wpc, wnb, injected, late>>

-----------------------------------------------------------------------------
(* A worker. *)

Become(w, state) == wpc' = [wpc EXCEPT ![w] = state]

\* <-w.init
TakeInit(w) ==
  /\ wpc[w] = "born"
  /\ init > 0
  /\ init' = init - 1
  /\ Become(w, "init")
  /\ UNCHANGED <<driverVars, input, output, timer, wnb, injected, late>>

\* Mutant: an acknowledgement for each benchmark that is built.
AckInitMany(w) ==
  /\ wpc[w] = "init"
  /\ Len(output) < NW
  /\ output' = Append(output, 0)
  /\ \/ Become(w, "idle") \/ UNCHANGED wpc
  /\ UNCHANGED <<driverVars, init, input, timer, wnb, injected, late>>

\* w.Init() ends with w.output <- 0.
AckInit(w) ==
  /\ wpc[w] = "init"
  /\ Len(output) < NW
  /\ output' = Append(output, 0)
  /\ Become(w, "idle")
  /\ UNCHANGED <<driverVars, init, input, timer, wnb, injected, late>>

\* op := <-w.input, and the case it selects.
TakeOp(w, op, state) ==
  /\ wpc[w] = "idle"
  /\ input # <<>> /\ Head(input) = op
  /\ input' = Tail(input)
  /\ Become(w, state)
  /\ UNCHANGED <<driverVars, init, output, timer, wnb, injected, late>>

TakeStep(w) == TakeOp(w, OpStep, "step")
TakeExit(w) == TakeOp(w, OpExit, "exit")

\* Mutant: the transaction is not counted.
FinishStepUncounted(w) ==
  /\ wpc[w] = "step"
  /\ Become(w, "idle")
  /\ UNCHANGED <<driverVars, init, input, output, timer, wnb, injected, late>>

\* w.Step() returns, then w.nb++.
FinishStep(w) ==
  /\ wpc[w] = "step"
  /\ wnb' = [wnb EXCEPT ![w] = wnb[w] + 1]
  /\ Become(w, "idle")
  /\ UNCHANGED <<driverVars, init, input, output, timer, injected, late>>

\* w.Exit() sends w.nb, and the goroutine ends.
Exit(w) ==
  /\ wpc[w] = "exit"
  /\ Len(output) < NW
  /\ output' = Append(output, wnb[w])
  /\ Become(w, "gone")
  /\ UNCHANGED <<driverVars, init, input, timer, wnb, injected, late>>

Worker(w) ==
  \/ TakeInit(w) \/ AckInit(w)
  \/ TakeStep(w) \/ FinishStep(w)
  \/ TakeExit(w) \/ Exit(w)

\* What the driver does under every policy.
Driver ==
  \/ \E w \in Workers : Spawn(w)
  \/ AwaitInit \/ Start \/ ReceiveStop \/ SendStep \/ SendExit \/ Collect

Common == Driver \/ Fire \/ \E w \in Workers : Worker(w)

\* The process stops only after its report.
Terminated == pc = "done" /\ UNCHANGED runnerVars

-----------------------------------------------------------------------------
(* Properties. *)

At(states) == {w \in Workers : wpc[w] \in states}
Spawned == At(WorkerStates \ {"unborn"})
Born == At({"born"})
Running == At({"step"})
Initialised == At({"idle", "step", "exit", "gone"})
Leaving == At({"exit", "gone"})
Gone == At({"gone"})

ExitsQueued == {k \in DOMAIN input : input[k] = OpExit}
StepsQueued == {k \in DOMAIN input : input[k] = OpStep}

\* The transactions completed by the workers of S: the k-th of each of them.
Completed(S) == UNION {{w} \X (1..wnb[w]) : w \in S}
Executed == Cardinality(Completed(Workers))

\* The measured window never overlaps the initialisation: the timer is armed
\* and transactions flow only when every worker has built its benchmarks and
\* every acknowledgement was received, so that no 0 of an acknowledgement can
\* be summed as a result and no result consumed as an acknowledgement.
InitBarrier ==
  timer # "unset" \/ injected > 0 =>
    /\ Initialised = Workers
    /\ init = 0
    /\ Len(output) <= Cardinality(Leaving)

\* No worker leaves while a transaction is still queued: OpExit is queued
\* behind every OpStep and each worker takes exactly one, so the workers drain
\* the input channel before the first of them exits.
DrainBeforeExit ==
  /\ \A j, k \in DOMAIN input : j < k /\ input[k] = OpStep => input[j] = OpStep
  /\ Leaving # {} => \A k \in DOMAIN input : input[k] = OpExit
  /\ pc \in {"collect", "done"} =>
       Cardinality(ExitsQueued) + Cardinality(Leaving) = NW

\* The acknowledgement and the result of a worker always find room in the
\* output channel: no worker is held back by a slow driver.
OutputNeverBlocks ==
  \A w \in Workers : wpc[w] \in {"init", "exit"} => Len(output) < NW

\* Once the driver reports, nothing is left behind: no worker is running, the
\* three channels are empty and the timer's goroutine has delivered its stop.
QuiescentAtReport ==
  pc = "done" => /\ \A w \in Workers : wpc[w] = "gone"
                 /\ init = 0 /\ input = <<>> /\ output = <<>>
                 /\ timer = "sent"

\* Every transaction injected is, until the report, in exactly one place: in
\* the input channel, in a worker, or counted; the report counts them all.
NoTransactionLost ==
  /\ injected = Executed + Cardinality(Running) + Cardinality(StepsQueued)
  /\ pc = "done" => nb = injected

\* The run always ends with a report, however the goroutines interleave, even
\* when a tick of the OLTP policy is ready at every turn of the select and
\* competes with the stop.
Termination == <>(pc = "done")

-----------------------------------------------------------------------------
(* The inductive invariant from which the properties above are proved. *)

Setup == {"spawn", "await", "start"}
Closed == {"exit", "collect", "done"}

\* Values the driver has received from the output channel, and exits it has sent.
Received == CASE pc = "spawn"   -> 0
              [] pc = "await"   -> i
              [] pc = "collect" -> NW + i
              [] pc = "done"    -> NW + NW
              [] OTHER          -> NW
ExitsSent == CASE pc = "exit"              -> i
               [] pc \in {"collect", "done"} -> NW
               [] OTHER                    -> 0

\* Where the driver is tells what the timer did and how many workers exist.
DriverInv ==
  /\ pc \in {"spawn", "await", "exit", "collect"} => i < NW
  /\ timer = "unset" <=> pc \in Setup
  /\ timer = "sent" <=> pc \in Closed
  /\ Cardinality(Spawned) = IF pc = "spawn" THEN i ELSE NW
  /\ init = Cardinality(Born)
  /\ pc \notin {"spawn", "await"} => Initialised = Workers
  /\ pc \in Setup => nb = 0 /\ injected = 0

\* Every worker sends once when it is initialised and once when it leaves.
OutputInv == Received + Len(output) = Cardinality(Initialised) + Cardinality(Gone)

\* The input channel holds transactions, then exits.
InputInv ==
  /\ IsFiniteSet(Completed(Workers))
  /\ \E steps \in 0..Len(input) :
       /\ \A k \in DOMAIN input : input[k] = IF k <= steps THEN OpStep ELSE OpExit
       /\ injected = Executed + Cardinality(Running) + steps
       /\ ExitsSent = Len(input) - steps + Cardinality(Leaving)
       /\ Leaving # {} => steps = 0

\* Each value of the output channel is the count of a worker that is gone, no
\* two of the same; the driver has summed the counts of the others.
ResultInv ==
  pc \notin {"spawn", "await"} =>
    \E from \in [DOMAIN output -> Gone] :
      /\ \A j, k \in DOMAIN output : from[j] = from[k] => j = k
      /\ \A k \in DOMAIN output : output[k] = wnb[from[k]]
      /\ nb = Cardinality(Completed(Gone \ {from[k] : k \in DOMAIN output}))

RunnerInv == TypeOK /\ DriverInv /\ OutputInv /\ InputInv /\ ResultInv

-----------------------------------------------------------------------------
(* The abstract specification it implements, and the mapping to it. *)

Phase == CASE pc \in {"spawn", "await", "start"} -> "setup"
           [] pc \in {"inject", "burst"}         -> "open"
           [] pc \in {"exit", "collect"}         -> "closed"
           [] pc = "done"                        -> "reported"

Promise == INSTANCE Batch WITH
  phase <- Phase, submitted <- injected, executed <- Executed,
  result <- IF pc = "done" THEN nb ELSE 0

\* The process implements Batch: a report counts what was submitted, once.
ImplementsBatch == Promise!Spec
=============================================================================
