---------------------------- MODULE RunnerProofs ----------------------------
(***************************************************************************)
(* Lemmas about module Runner, for any injection policy: what a move of a  *)
(* worker does to the counts, and that each action preserves RunnerInv.    *)
(***************************************************************************)
EXTENDS Runner, TLAPS, FiniteSetTheorems

\* Sets of workers are finite, and there is at least one worker.
LEMMA WorkerSets ==
  /\ NW \in Nat /\ NW >= 1
  /\ \A S \in SUBSET Workers :
       /\ IsFiniteSet(S)
       /\ Cardinality(S) \in Nat /\ Cardinality(S) <= NW
       /\ Cardinality(S) = NW => S = Workers
       /\ Cardinality(S) = 0 <=> S = {}
<1>1. IsFiniteSet(Workers) /\ Workers # {}
  BY RunnerAssumption
<1>2. \A S \in SUBSET Workers :
        /\ IsFiniteSet(S)
        /\ Cardinality(S) \in Nat /\ Cardinality(S) <= NW
        /\ Cardinality(S) = NW => S = Workers
        /\ Cardinality(S) = 0 <=> S = {}
  <2> SUFFICES ASSUME NEW S \in SUBSET Workers
               PROVE  /\ IsFiniteSet(S)
                      /\ Cardinality(S) \in Nat /\ Cardinality(S) <= NW
                      /\ Cardinality(S) = NW => S = Workers
                      /\ Cardinality(S) = 0 <=> S = {}
    OBVIOUS
  <2>1. IsFiniteSet(S) /\ Cardinality(S) <= NW /\ (NW = Cardinality(S) => Workers = S)
    BY <1>1, FS_Subset DEF NW
  <2> QED
    BY <2>1, FS_CardinalityType, FS_EmptySet
<1>3. NW \in Nat /\ NW # 0
  BY <1>1, FS_CardinalityType, FS_EmptySet DEF NW
<1> QED
  BY <1>2, <1>3

\* A worker that changes state leaves the sets of its old state and joins those
\* of the new one.
LEMMA MoveCounts ==
  ASSUME wpc \in [Workers -> WorkerStates], NEW w \in Workers, NEW state, NEW states,
         Become(w, state)
  PROVE  /\ At(states)' = IF state \in states THEN At(states) \cup {w} ELSE At(states) \ {w}
         /\ Cardinality(At(states))' =
              Cardinality(At(states)) + (IF state \in states THEN 1 ELSE 0)
                                      - (IF wpc[w] \in states THEN 1 ELSE 0)
<1>1. At(states)' = IF state \in states THEN At(states) \cup {w} ELSE At(states) \ {w}
  BY DEF At, Become
<1>2. At(states) \in SUBSET Workers /\ (w \in At(states) <=> wpc[w] \in states)
  BY DEF At
<1>3. IsFiniteSet(At(states)) /\ Cardinality(At(states)) \in Nat
  BY <1>2, WorkerSets
<1>4. CASE state \in states
  <2>1. Cardinality(At(states) \cup {w}) =
          IF w \in At(states) THEN Cardinality(At(states)) ELSE Cardinality(At(states)) + 1
    BY <1>3, FS_AddElement
  <2>2. Cardinality(At(states))' = Cardinality(At(states) \cup {w})
    BY <1>1, <1>4
  <2> QED
    BY <1>1, <1>2, <1>3, <1>4, <2>1, <2>2
<1>5. CASE state \notin states
  <2>1. Cardinality(At(states) \ {w}) =
          IF w \in At(states) THEN Cardinality(At(states)) - 1 ELSE Cardinality(At(states))
    BY <1>3, FS_RemoveElement
  <2>2. Cardinality(At(states))' = Cardinality(At(states) \ {w})
    BY <1>1, <1>5
  <2> QED
    BY <1>1, <1>2, <1>3, <1>5, <2>1, <2>2
<1> QED
  BY <1>4, <1>5

\* Every set of workers in given states is a countable subset of Workers.
LEMMA AtCounts ==
  ASSUME NEW states
  PROVE  /\ At(states) \in SUBSET Workers
         /\ Cardinality(At(states)) \in Nat /\ Cardinality(At(states)) <= NW
         /\ Cardinality(At(states)) = NW => At(states) = Workers
         /\ Cardinality(At(states)) = 0 <=> At(states) = {}
<1>1. At(states) \in SUBSET Workers
  BY DEF At
<1> QED
  BY <1>1, WorkerSets

\* The transactions of one more worker are as many as it has completed.
LEMMA CompletedAdd ==
  ASSUME wnb \in [Workers -> Nat], NEW S \in SUBSET Workers, NEW w \in Workers, w \notin S,
         IsFiniteSet(Completed(S))
  PROVE  /\ IsFiniteSet(Completed(S \cup {w}))
         /\ Cardinality(Completed(S \cup {w})) = Cardinality(Completed(S)) + wnb[w]
<1> DEFINE Own == {w} \X (1..wnb[w])
<1>1. wnb[w] \in Nat
  OBVIOUS
<1>2. IsFiniteSet({w}) /\ Cardinality({w}) = 1
  BY FS_Singleton
<1>3. IsFiniteSet(1..wnb[w]) /\ Cardinality(1..wnb[w]) = wnb[w]
  BY <1>1, FS_Interval
<1>4. IsFiniteSet(Own) /\ Cardinality(Own) = wnb[w]
  <2>1. IsFiniteSet(Own) /\ Cardinality(Own) = 1 * wnb[w]
    BY <1>2, <1>3, FS_Product
  <2> QED
    BY <1>1, <2>1
<1>5. Completed(S \cup {w}) = Completed(S) \cup Own
  BY DEF Completed
<1>6. Completed(S) \cap Own = {}
  BY DEF Completed
<1>7. Cardinality(Completed(S)) \in Nat
  BY FS_CardinalityType
<1>8. Cardinality({}) = 0
  BY FS_EmptySet
<1>9. /\ IsFiniteSet(Completed(S) \cup Own)
      /\ Cardinality(Completed(S) \cup Own) =
           Cardinality(Completed(S)) + Cardinality(Own) - Cardinality(Completed(S) \cap Own)
  BY <1>4, FS_Union
<1> HIDE DEF Own
<1>10. Cardinality(Completed(S) \cap Own) = 0
  BY <1>6, <1>8
<1>11. Cardinality(Completed(S) \cup Own) = Cardinality(Completed(S)) + wnb[w]
  BY <1>1, <1>4, <1>7, <1>9, <1>10
<1> QED
  BY <1>5, <1>9, <1>11

\* A worker that completes a transaction adds it to those completed.
LEMMA CompletedStep ==
  ASSUME wnb \in [Workers -> Nat], NEW w \in Workers, IsFiniteSet(Completed(Workers)),
         wnb' = [wnb EXCEPT ![w] = wnb[w] + 1]
  PROVE  /\ IsFiniteSet(Completed(Workers))'
         /\ Executed' = Executed + 1
<1> DEFINE Tx == <<w, wnb[w] + 1>>
<1>1. Completed(Workers)' = Completed(Workers) \cup {Tx}
  <2>1. \A v \in Workers : v # w => wnb'[v] = wnb[v]
    OBVIOUS
  <2>2. wnb'[w] = wnb[w] + 1 /\ wnb[w] \in Nat
    OBVIOUS
  <2>3. 1..(wnb[w] + 1) = (1..wnb[w]) \cup {wnb[w] + 1}
    BY <2>2
  <2>4. {w} \X (1..wnb'[w]) = ({w} \X (1..wnb[w])) \cup {Tx}
    BY <2>2, <2>3
  <2> HIDE DEF Tx
  <2>5. Completed(Workers)' = UNION {{v} \X (1..wnb'[v]) : v \in Workers}
    BY DEF Completed
  <2>6. ASSUME NEW tx PROVE tx \in Completed(Workers)' <=> tx \in Completed(Workers) \cup {Tx}
    <3>1. tx \in Completed(Workers)' <=> \E v \in Workers : tx \in {v} \X (1..wnb'[v])
      BY <2>5
    <3>2. tx \in Completed(Workers) <=> \E v \in Workers : tx \in {v} \X (1..wnb[v])
      BY DEF Completed
    <3>3. \A v \in Workers : v # w =>
            (tx \in {v} \X (1..wnb'[v]) <=> tx \in {v} \X (1..wnb[v]))
      BY <2>1
    <3>4. tx \in {w} \X (1..wnb'[w]) <=> tx \in {w} \X (1..wnb[w]) \/ tx = Tx
      BY <2>4
    <3> QED
      BY <3>1, <3>2, <3>3, <3>4
  <2> QED
    BY <2>6
<1>2. Tx \notin Completed(Workers)
  BY DEF Completed
<1>3. /\ IsFiniteSet(Completed(Workers) \cup {Tx})
      /\ Cardinality(Completed(Workers) \cup {Tx}) = Cardinality(Completed(Workers)) + 1
  BY <1>2, FS_AddElement
<1> QED
  BY <1>1, <1>3 DEF Executed

-----------------------------------------------------------------------------
\* An action that leaves the workers alone leaves alone what is counted of them.
LEMMA WorkersFrame ==
  ASSUME UNCHANGED workerVars
  PROVE  /\ Spawned' = Spawned /\ Initialised' = Initialised
         /\ Leaving' = Leaving /\ Gone' = Gone
         /\ Born' = Born /\ Running' = Running
         /\ \A S : Completed(S)' = Completed(S)
         /\ Executed' = Executed
<1>1. wpc' = wpc /\ wnb' = wnb
  BY DEF workerVars
<1>2. /\ Spawned' = Spawned /\ Initialised' = Initialised
      /\ Leaving' = Leaving /\ Gone' = Gone
      /\ Born' = Born /\ Running' = Running
  BY <1>1 DEF Spawned, Initialised, Leaving, Gone, Born, Running, At
<1>3. \A S : Completed(S)' = Completed(S)
  BY <1>1 DEF Completed
<1>4. Executed' = Executed
  BY <1>1 DEF Executed, Completed
<1> QED
  BY <1>2, <1>3, <1>4

\* The sets of RunnerInv are countable subsets of Workers.
LEMMA Counts ==
  /\ Cardinality(Spawned) \in 0..NW /\ Cardinality(Initialised) \in 0..NW
  /\ Cardinality(Leaving) \in 0..NW /\ Cardinality(Gone) \in 0..NW
  /\ Cardinality(Born) \in Nat /\ Cardinality(Running) \in Nat
  /\ Cardinality(Initialised) = NW => Initialised = Workers
  /\ Cardinality(Gone) = NW => Gone = Workers
  /\ Cardinality(Leaving) = 0 => Leaving = {}
  /\ Cardinality(Workers) = NW /\ Cardinality({}) = 0
  /\ NW \in Nat /\ NW >= 1 /\ Gone \in SUBSET Leaving
<1>1. Cardinality(Spawned) \in 0..NW
  BY AtCounts, WorkerSets DEF Spawned
<1>2. Cardinality(Initialised) \in 0..NW /\ (Cardinality(Initialised) = NW => Initialised = Workers)
  BY AtCounts, WorkerSets DEF Initialised
<1>3. Cardinality(Leaving) \in 0..NW /\ (Cardinality(Leaving) = 0 => Leaving = {})
  BY AtCounts, WorkerSets DEF Leaving
<1>4. Cardinality(Gone) \in 0..NW /\ (Cardinality(Gone) = NW => Gone = Workers)
  BY AtCounts, WorkerSets DEF Gone
<1>5. Cardinality(Born) \in Nat /\ Cardinality(Running) \in Nat
  BY AtCounts DEF Born, Running
<1>6. Gone \in SUBSET Leaving
  BY DEF Gone, Leaving, At
<1> QED
  BY <1>1, <1>2, <1>3, <1>4, <1>5, <1>6, WorkerSets, FS_EmptySet DEF NW

\* The numbers of OutputInv.
LEMMA SentNumbers ==
  /\ Cardinality(Initialised) \in 0..NW /\ Cardinality(Gone) \in 0..NW /\ NW \in Nat /\ NW >= 1
BY Counts

\* Until the stop, no worker leaves; once the acknowledgements are received, the
\* output channel is then empty.
LEMMA BeforeStop ==
  ASSUME RunnerInv, pc \notin Closed
  PROVE  /\ Leaving = {} /\ Gone = {}
         /\ Cardinality(Leaving) = 0 /\ Cardinality(Gone) = 0
         /\ pc \notin {"spawn", "await"} => output = <<>>
<1>1. PICK steps \in 0..Len(input) : ExitsSent = Len(input) - steps + Cardinality(Leaving)
  BY DEF RunnerInv, InputInv
<1>2. Len(input) \in Nat /\ Len(output) \in Nat
  BY DEF RunnerInv, TypeOK
<1>3. ExitsSent = 0
  BY DEF ExitsSent, Closed
<1>4. Cardinality(Leaving) = 0 /\ Leaving = {}
  BY <1>1, <1>2, <1>3, Counts
<1>5. Gone = {} /\ Cardinality(Gone) = 0
  BY <1>4, Counts
<1>6. ASSUME pc \notin {"spawn", "await"} PROVE output = <<>>
  <2>1. Received = NW
    BY <1>6 DEF Received, Closed
  <2>2. Cardinality(Initialised) = NW
    BY <1>6, Counts DEF RunnerInv, DriverInv
  <2>3. Len(output) = 0
    BY <1>2, <1>5, <2>1, <2>2, Counts DEF RunnerInv, OutputInv
  <2> QED
    BY <2>3 DEF RunnerInv, TypeOK
<1> QED
  BY <1>4, <1>5, <1>6

\* With no worker gone and an empty output channel there is nothing to sum.
LEMMA NoResultYet ==
  ASSUME Gone' = {}, output' = <<>>, nb' = 0
  PROVE  ResultInv'
<1> DEFINE from == [k \in DOMAIN output' |-> {}]
<1>1. DOMAIN output' = {}
  OBVIOUS
<1>2. from \in [DOMAIN output' -> Gone']
  BY <1>1
<1>3. Gone' \ {from[k] : k \in DOMAIN output'} = {}
  OBVIOUS
<1>4. UNION {{w} \X (1..wnb'[w]) : w \in Gone' \ {from[k] : k \in DOMAIN output'}} = {}
  BY <1>3
<1>5. nb' = Cardinality(UNION {{w} \X (1..wnb'[w]) : w \in Gone' \ {from[k] : k \in DOMAIN output'}})
  BY <1>4, FS_EmptySet
<1> QED
  BY <1>1, <1>2, <1>5 DEF ResultInv, Completed

-----------------------------------------------------------------------------
LEMMA RunnerInvInit == RunnerInit => RunnerInv
<1> SUFFICES ASSUME RunnerInit PROVE RunnerInv
  OBVIOUS
<1> USE DEF RunnerInit
<1>1. TypeOK
  <2>1. NW \in Nat /\ NW * Depth \in Nat
    BY WorkerSets, RunnerAssumption
  <2>2. Len(input) <= NW * Depth /\ Len(output) <= NW
    BY <2>1
  <2>3. input \in Seq({OpStep, OpExit}) /\ output \in Seq(Nat)
    OBVIOUS
  <2>4. wpc \in [Workers -> WorkerStates] /\ wnb \in [Workers -> Nat]
    BY DEF WorkerStates
  <2> QED
    BY <2>1, <2>2, <2>3, <2>4 DEF TypeOK, DriverStates
<1>2. /\ Spawned = {} /\ Initialised = {} /\ Leaving = {} /\ Gone = {}
      /\ Born = {} /\ Running = {}
  BY DEF Spawned, Initialised, Leaving, Gone, Born, Running, At, WorkerStates
<1>3. Completed(Workers) = {}
  <2>1. \A w \in Workers : wnb[w] = 0
    OBVIOUS
  <2>2. \A w \in Workers : {w} \X (1..wnb[w]) = {}
    BY <2>1
  <2> QED
    BY <2>2 DEF Completed
<1>4. DriverInv
  BY <1>2, FS_EmptySet, WorkerSets DEF DriverInv, Setup, Closed
<1>5. OutputInv
  BY <1>2, FS_EmptySet DEF OutputInv, Received
<1>6. InputInv
  <2>1. IsFiniteSet(Completed(Workers)) /\ Executed = 0
    BY <1>3, FS_EmptySet DEF Executed
  <2>2. ExitsSent = 0
    BY DEF ExitsSent
  <2>3. 0 \in 0..Len(input) /\ DOMAIN input = {} /\ Len(input) = 0
    OBVIOUS
  <2>4. injected = Executed + Cardinality(Running) + 0
    BY <1>2, <2>1, FS_EmptySet
  <2>5. ExitsSent = Len(input) - 0 + Cardinality(Leaving)
    BY <1>2, <2>2, <2>3, FS_EmptySet
  <2> QED
    BY <1>2, <2>1, <2>3, <2>4, <2>5 DEF InputInv
<1>7. ResultInv
  BY DEF ResultInv
<1> QED
  BY <1>1, <1>4, <1>5, <1>6, <1>7 DEF RunnerInv

-----------------------------------------------------------------------------
(* The actions of the driver. *)

\* What InputInv and ResultInv say depends on few variables.
LEMMA InputFrame ==
  ASSUME InputInv, UNCHANGED <<input, injected, workerVars>>, ExitsSent' = ExitsSent
  PROVE  InputInv'
BY WorkersFrame DEF InputInv

LEMMA ResultFrame ==
  ASSUME ResultInv, pc \notin {"spawn", "await"}, UNCHANGED <<output, nb, workerVars>>
  PROVE  ResultInv'
BY WorkersFrame DEF ResultInv, workerVars

LEMMA SpawnInv ==
  ASSUME RunnerInv, NEW w \in Workers, Spawn(w)
  PROVE  RunnerInv'
<1> USE DEF RunnerInv
<1>a. Become(w, "born") /\ wpc \in [Workers -> WorkerStates] /\ "born" \in WorkerStates
  BY DEF Spawn, Become, TypeOK, WorkerStates
<1>b. i \in Nat /\ init \in 0..NW /\ pc = "spawn" /\ wpc[w] = "unborn"
  BY DEF Spawn, LoopOverWorkers, TypeOK
<1>c. NW \in Nat /\ NW >= 1
  BY WorkerSets
<1>1. /\ Cardinality(Spawned)' = Cardinality(Spawned) + 1
      /\ Cardinality(Born)' = Cardinality(Born) + 1
  <2>1. "born" \in WorkerStates \ {"unborn"} /\ wpc[w] \notin WorkerStates \ {"unborn"}
    BY <1>b DEF WorkerStates
  <2>2. Cardinality(At(WorkerStates \ {"unborn"}))' =
          Cardinality(At(WorkerStates \ {"unborn"})) + 1 - 0
    BY <1>a, <2>1, MoveCounts
  <2>3. Cardinality(Born)' = Cardinality(Born) + 1 - 0
    BY <1>a, <1>b, MoveCounts DEF Born
  <2> QED
    BY <2>2, <2>3, AtCounts DEF Spawned, Born
<1>2. /\ Initialised' = Initialised /\ Leaving' = Leaving /\ Gone' = Gone
      /\ Running' = Running
  BY <1>a, <1>b DEF Become, Initialised, Leaving, Gone, Running, At
<1>3. Completed(Workers)' = Completed(Workers) /\ Executed' = Executed
  BY DEF Spawn, Completed, Executed
<1>4. TypeOK'
  BY <1>b, <1>c DEF TypeOK, Spawn, LoopOverWorkers, DriverStates, WorkerStates
<1>5. DriverInv'
  <2>1. Cardinality(Spawned) = i /\ i < NW
    BY <1>b DEF DriverInv
  <2>2. i' = (IF i + 1 = NW THEN 0 ELSE i + 1) /\ pc' = (IF i + 1 = NW THEN "await" ELSE "spawn")
    BY DEF Spawn, LoopOverWorkers
  <2>3. Cardinality(Spawned)' = IF pc' = "spawn" THEN i' ELSE NW
    BY <1>1, <1>b, <1>c, <2>1, <2>2
  <2>4. pc' \in {"spawn", "await"} /\ i' < NW
    BY <1>b, <1>c, <2>1, <2>2
  <2>5. timer' = timer /\ nb' = nb /\ injected' = injected /\ init' = init + 1
    BY DEF Spawn
  <2> QED
    BY <1>1, <1>b, <2>3, <2>4, <2>5 DEF DriverInv, Setup, Closed
<1>6. OutputInv'
  <2>1. Gone = {} /\ Cardinality(Gone) = 0
    BY <1>b, BeforeStop DEF Closed
  <2>2. Received = 0 /\ Received' = 0
    BY <1>b DEF Received, Spawn, LoopOverWorkers
  <2> QED
    BY <1>2, <2>2 DEF OutputInv, Spawn
<1>7. InputInv'
  <2>1. ExitsSent = 0 /\ ExitsSent' = 0
    BY <1>b DEF ExitsSent, Spawn, LoopOverWorkers
  <2> QED
    BY <1>2, <1>3, <2>1 DEF InputInv, Spawn
<1>8. ResultInv'
  BY <1>b DEF ResultInv, Spawn, LoopOverWorkers
<1> QED
  BY <1>4, <1>5, <1>6, <1>7, <1>8

LEMMA AwaitInitInv ==
  ASSUME RunnerInv, AwaitInit
  PROVE  RunnerInv'
<1> USE DEF RunnerInv
<1>a. UNCHANGED workerVars /\ pc = "await" /\ UNCHANGED <<nb, init, input, timer, injected>>
  BY DEF AwaitInit, LoopOverWorkers, workerVars
<1>b. i \in Nat /\ i < NW /\ Len(output) \in Nat /\ output # <<>>
  BY <1>a DEF TypeOK, DriverInv, AwaitInit
<1>c. i' = (IF i + 1 = NW THEN 0 ELSE i + 1) /\ pc' = (IF i + 1 = NW THEN "start" ELSE "await")
  BY DEF AwaitInit, LoopOverWorkers
<1>d. Leaving = {} /\ Gone = {} /\ Cardinality(Gone) = 0
  BY <1>a, BeforeStop DEF Closed
<1>e. output' = Tail(output) /\ Len(output') = Len(output) - 1
  BY <1>b DEF AwaitInit, TypeOK
<1>f. Received = i /\ Received' = i + 1
  BY <1>a, <1>b, <1>c, Counts DEF Received
<1>1. TypeOK'
  BY <1>b, <1>c, Counts DEF TypeOK, AwaitInit, DriverStates
<1>2. OutputInv'
  BY <1>a, <1>b, <1>e, <1>f, SentNumbers, WorkersFrame DEF OutputInv
<1>3. ASSUME pc' = "start" PROVE Initialised = Workers /\ output' = <<>>
  <2>1. i + 1 = NW
    BY <1>c, <1>3
  <2>2. Cardinality(Initialised) = i + Len(output)
    BY <1>b, <1>d, <1>f, SentNumbers DEF OutputInv
  <2>3. Cardinality(Initialised) = NW /\ Len(output') = 0
    BY <1>b, <1>e, <2>1, <2>2, Counts
  <2> QED
    BY <1>1, <2>3, Counts DEF TypeOK
<1>4. DriverInv'
  <2>1. pc' \in {"await", "start"} /\ (pc' = "await" => i' < NW)
    BY <1>b, <1>c, Counts
  <2>2. Initialised' = Initialised /\ Spawned' = Spawned /\ Born' = Born
    BY <1>a, WorkersFrame
  <2>3. pc' # "await" => Initialised' = Workers
    BY <1>3, <2>1, <2>2
  <2> QED
    BY <1>a, <2>1, <2>2, <2>3 DEF DriverInv, Setup, Closed
<1>5. InputInv'
  <2>1. ExitsSent = 0 /\ ExitsSent' = 0
    BY <1>a, <1>c DEF ExitsSent
  <2> QED
    BY <1>a, <2>1, InputFrame
<1>6. ResultInv'
  <2>1. CASE pc' = "await"
    BY <2>1 DEF ResultInv
  <2>2. CASE pc' = "start"
    <3>1. nb = 0
      BY <1>a DEF DriverInv, Setup
    <3>2. Gone' = {} /\ output' = <<>> /\ nb' = 0
      BY <1>3, <1>a, <1>d, <2>2, <3>1, WorkersFrame
    <3> QED
      BY <3>2, NoResultYet
  <2> QED
    BY <1>c, <2>1, <2>2
<1> QED
  BY <1>1, <1>2, <1>4, <1>5, <1>6

\* Start, the stop, and the turns of the injection loops: the driver and the
\* timer move, nothing is sent or received but the stop.
LEMMA DriverMoves ==
  ASSUME RunnerInv, UNCHANGED <<nb, init, input, output, workerVars, injected>>,
         pc \notin {"spawn", "await", "exit", "collect", "done"},
         pc' \in {"inject", "burst", "exit"},
         pc' = "exit" => i' = 0,
         timer' = "unset" <=> pc' \in Setup,
         timer' = "sent" <=> pc' \in Closed,
         TypeOK'
  PROVE  RunnerInv'
<1> USE DEF RunnerInv
<1>a. pc \in {"start", "inject", "burst"}
  BY DEF TypeOK, DriverStates
<1>1. DriverInv'
  <2>1. Initialised' = Initialised /\ Spawned' = Spawned /\ Born' = Born
    BY WorkersFrame
  <2> QED
    BY <1>a, <2>1, Counts DEF DriverInv, Setup, Closed
<1>2. Received = NW /\ Received' = NW /\ ExitsSent = 0 /\ ExitsSent' = 0
  BY <1>a DEF Received, ExitsSent
<1>3. OutputInv'
  BY <1>2, WorkersFrame DEF OutputInv
<1>4. InputInv'
  BY <1>2, InputFrame
<1>5. ResultInv'
  BY <1>a, ResultFrame
<1> QED
  BY <1>1, <1>3, <1>4, <1>5

LEMMA StartInv ==
  ASSUME RunnerInv, Start
  PROVE  RunnerInv'
<1>1. TypeOK'
  BY DEF RunnerInv, TypeOK, Start, DriverStates
<1> QED
  BY <1>1, DriverMoves DEF Start, Setup, Closed, workerVars

LEMMA ReceiveStopInv ==
  ASSUME RunnerInv, ReceiveStop
  PROVE  RunnerInv'
<1>1. TypeOK'
  BY DEF RunnerInv, TypeOK, ReceiveStop, DriverStates
<1> QED
  BY <1>1, DriverMoves DEF ReceiveStop, Setup, Closed, workerVars

LEMMA StartBurstInv ==
  ASSUME RunnerInv, NEW k \in Nat, StartBurst(k)
  PROVE  RunnerInv'
<1>1. TypeOK'
  BY DEF RunnerInv, TypeOK, StartBurst, DriverStates
<1>2. timer' \notin {"unset", "sent"}
  BY DEF RunnerInv, DriverInv, StartBurst, Setup, Closed
<1> QED
  BY <1>1, <1>2, DriverMoves DEF StartBurst, Setup, Closed, workerVars

LEMMA EndBurstInv ==
  ASSUME RunnerInv, EndBurst
  PROVE  RunnerInv'
<1>1. TypeOK'
  BY DEF RunnerInv, TypeOK, EndBurst, DriverStates
<1>2. timer' \notin {"unset", "sent"}
  BY DEF RunnerInv, DriverInv, EndBurst, Setup, Closed
<1> QED
  BY <1>1, <1>2, DriverMoves DEF EndBurst, Setup, Closed, workerVars

LEMMA FireInv ==
  ASSUME RunnerInv, Fire
  PROVE  RunnerInv'
<1>1. TypeOK'
  BY DEF RunnerInv, TypeOK, Fire, driverVars, workerVars
<1>2. pc \in {"inject", "burst"} /\ pc' = pc
  BY DEF RunnerInv, DriverInv, TypeOK, DriverStates, Fire, Setup, Closed, driverVars
<1> QED
  BY <1>1, <1>2, DriverMoves DEF Fire, Setup, Closed, driverVars

\* Until the stop, the input channel holds transactions only.
LEMMA SendStepInv ==
  ASSUME RunnerInv, SendStep
  PROVE  RunnerInv'
<1> USE DEF RunnerInv
<1>a. UNCHANGED workerVars /\ UNCHANGED <<pc, nb, init, output, timer>> /\ pc = "burst"
  BY DEF SendStep, workerVars
<1>b. input \in Seq({OpStep, OpExit}) /\ Len(input) \in Nat /\ injected \in Nat
  BY DEF TypeOK
<1>c. /\ input' = Append(input, OpStep) /\ Len(input') = Len(input) + 1
      /\ injected' = injected + 1
  BY <1>b DEF SendStep
<1>1. TypeOK'
  <2>1. NW * Depth \in Nat
    BY Counts, RunnerAssumption
  <2>2. input' \in Seq({OpStep, OpExit}) /\ Len(input') <= NW * Depth
    BY <1>b, <1>c, <2>1 DEF SendStep
  <2> QED
    BY <2>2 DEF TypeOK, SendStep, DriverStates
<1>2. DriverInv'
  <2>1. Initialised' = Initialised /\ Spawned' = Spawned /\ Born' = Born
    BY <1>a, WorkersFrame
  <2> QED
    BY <1>a, <2>1 DEF DriverInv, Setup, Closed
<1>3. Received = NW /\ Received' = NW /\ ExitsSent = 0 /\ ExitsSent' = 0
  BY <1>a DEF Received, ExitsSent
<1>4. OutputInv'
  BY <1>3, <1>a, WorkersFrame DEF OutputInv
<1>5. InputInv'
  <2>1. Cardinality(Leaving) = 0 /\ Leaving = {}
    BY <1>a, BeforeStop DEF Closed
  <2>2. PICK steps \in 0..Len(input) :
          /\ \A k \in DOMAIN input : input[k] = IF k <= steps THEN OpStep ELSE OpExit
          /\ injected = Executed + Cardinality(Running) + steps
          /\ ExitsSent = Len(input) - steps + Cardinality(Leaving)
    BY DEF InputInv
  <2>3. steps = Len(input)
    BY <1>3, <1>b, <2>1, <2>2
  <2>4. steps + 1 \in 0..Len(input')
    BY <1>b, <1>c, <2>3
  <2>5. \A k \in DOMAIN input' : input'[k] = IF k <= steps + 1 THEN OpStep ELSE OpExit
    BY <1>b, <1>c, <2>2, <2>3
  <2>6. Executed' = Executed /\ Running' = Running /\ Leaving' = Leaving
    BY <1>a, WorkersFrame
  <2>7. Executed \in Nat
    BY FS_CardinalityType DEF InputInv, Executed
  <2>8. injected' = Executed' + Cardinality(Running') + (steps + 1)
    <3>1. Cardinality(Running) \in Nat /\ steps \in Nat
      BY <1>b, Counts
    <3>2. injected = Executed + Cardinality(Running) + steps
      BY <2>2
    <3>3. injected + 1 = Executed + Cardinality(Running) + (steps + 1)
      BY <2>7, <3>1, <3>2
    <3> QED
      BY <1>c, <2>6, <3>3
  <2>9. ExitsSent' = Len(input') - (steps + 1) + Cardinality(Leaving')
    BY <1>3, <1>b, <1>c, <2>1, <2>3, <2>6
  <2>10. IsFiniteSet(Completed(Workers))'
    BY <1>a, WorkersFrame DEF InputInv
  <2> QED
    BY <2>1, <2>4, <2>5, <2>6, <2>8, <2>9, <2>10 DEF InputInv
<1>6. ResultInv'
  BY <1>a, ResultFrame
<1> QED
  BY <1>1, <1>2, <1>4, <1>5, <1>6

LEMMA SendExitInv ==
  ASSUME RunnerInv, SendExit
  PROVE  RunnerInv'
<1> USE DEF RunnerInv
<1>a. UNCHANGED workerVars /\ UNCHANGED <<nb, init, output, timer, injected>> /\ pc = "exit"
  BY DEF SendExit, LoopOverWorkers, workerVars
<1>b. /\ input \in Seq({OpStep, OpExit}) /\ Len(input) \in Nat
      /\ i \in Nat /\ i < NW
  BY <1>a DEF TypeOK, DriverInv
<1>c. /\ input' = Append(input, OpExit) /\ Len(input') = Len(input) + 1
      /\ i' = (IF i + 1 = NW THEN 0 ELSE i + 1)
      /\ pc' = (IF i + 1 = NW THEN "collect" ELSE "exit")
  BY <1>b DEF SendExit, LoopOverWorkers
<1>1. TypeOK'
  <2>1. NW * Depth \in Nat
    BY Counts, RunnerAssumption
  <2>2. input' \in Seq({OpStep, OpExit}) /\ Len(input') <= NW * Depth
    BY <1>b, <1>c, <2>1 DEF SendExit
  <2>3. i' \in Nat /\ pc' \in DriverStates
    BY <1>b, <1>c DEF DriverStates
  <2> QED
    BY <2>2, <2>3 DEF TypeOK, SendExit
<1>2. DriverInv'
  <2>1. Initialised' = Initialised /\ Spawned' = Spawned /\ Born' = Born
    BY <1>a, WorkersFrame
  <2>2. i' < NW /\ pc' \in {"exit", "collect"}
    BY <1>b, <1>c, Counts
  <2> QED
    BY <1>a, <2>1, <2>2 DEF DriverInv, Setup, Closed
<1>3. Received = NW /\ Received' = NW /\ ExitsSent = i /\ ExitsSent' = i + 1
  BY <1>a, <1>b, <1>c, Counts DEF Received, ExitsSent
<1>4. OutputInv'
  BY <1>3, <1>a, WorkersFrame DEF OutputInv
<1>5. InputInv'
  <2>1. PICK steps \in 0..Len(input) :
          /\ \A k \in DOMAIN input : input[k] = IF k <= steps THEN OpStep ELSE OpExit
          /\ injected = Executed + Cardinality(Running) + steps
          /\ ExitsSent = Len(input) - steps + Cardinality(Leaving)
          /\ Leaving # {} => steps = 0
    BY DEF InputInv
  <2>2. steps \in 0..Len(input')
    BY <1>b, <1>c
  <2>3. \A k \in DOMAIN input' : input'[k] = IF k <= steps THEN OpStep ELSE OpExit
    BY <1>b, <1>c, <2>1
  <2>4. Executed' = Executed /\ Running' = Running /\ Leaving' = Leaving
    BY <1>a, WorkersFrame
  <2>5. ExitsSent' = Len(input') - steps + Cardinality(Leaving')
    <3>1. Cardinality(Leaving') = Cardinality(Leaving) /\ Cardinality(Leaving) \in Int
      BY <2>4, Counts
    <3>2. ExitsSent = i /\ ExitsSent' = i + 1 /\ i \in Int /\ Len(input) \in Int /\ steps \in Int
      BY <1>3, <1>b
    <3>3. i = Len(input) - steps + Cardinality(Leaving) /\ Len(input') = Len(input) + 1
      BY <1>c, <2>1, <3>2
    <3>4. i + 1 = Len(input') - steps + Cardinality(Leaving)
      BY <3>1, <3>2, <3>3
    <3> QED
      BY <3>1, <3>2, <3>4
  <2>6. IsFiniteSet(Completed(Workers))'
    BY <1>a, WorkersFrame DEF InputInv
  <2> QED
    BY <1>a, <2>1, <2>2, <2>3, <2>4, <2>5, <2>6 DEF InputInv
<1>6. ResultInv'
  BY <1>a, ResultFrame
<1> QED
  BY <1>1, <1>2, <1>4, <1>5, <1>6

\* The value received is the count of one more worker.
LEMMA CollectInv ==
  ASSUME RunnerInv, Collect
  PROVE  RunnerInv'
<1> USE DEF RunnerInv
<1>a. UNCHANGED workerVars /\ UNCHANGED <<init, input, timer, injected>> /\ pc = "collect"
  BY DEF Collect, LoopOverWorkers, workerVars
<1>b. /\ output \in Seq(Nat) /\ Len(output) \in Nat /\ output # <<>> /\ Len(output) >= 1
      /\ i \in Nat /\ i < NW /\ nb \in Nat /\ wnb \in [Workers -> Nat]
  BY <1>a DEF TypeOK, DriverInv, Collect
<1>c. /\ output' = Tail(output) /\ Len(output') = Len(output) - 1
      /\ nb' = nb + output[1]
      /\ i' = (IF i + 1 = NW THEN 0 ELSE i + 1)
      /\ pc' = (IF i + 1 = NW THEN "done" ELSE "collect")
  BY <1>b DEF Collect, LoopOverWorkers
<1>1. TypeOK'
  <2>1. output' \in Seq(Nat) /\ Len(output') <= NW /\ nb' \in Nat
    <3>1. output' \in Seq(Nat) /\ output[1] \in Nat
      BY <1>b, <1>c
    <3>2. Len(output) <= NW /\ nb \in Nat /\ NW \in Nat
      BY SentNumbers DEF TypeOK
    <3> QED
      BY <1>b, <1>c, <3>1, <3>2
  <2>2. i' \in Nat /\ pc' \in DriverStates
    BY <1>b, <1>c DEF DriverStates
  <2> QED
    BY <2>1, <2>2 DEF TypeOK, Collect
<1>2. DriverInv'
  <2>1. Initialised' = Initialised /\ Spawned' = Spawned /\ Born' = Born
    BY <1>a, WorkersFrame
  <2>2. pc' \in {"collect", "done"} /\ (pc' = "collect" => i' < NW)
    BY <1>b, <1>c, Counts
  <2> QED
    BY <1>a, <2>1, <2>2 DEF DriverInv, Setup, Closed
<1>3. Received = NW + i /\ Received' = NW + i + 1 /\ ExitsSent = NW /\ ExitsSent' = NW
  <2>1. Received = NW + i /\ ExitsSent = NW /\ NW \in Nat
    BY <1>a, Counts DEF Received, ExitsSent
  <2>2. ExitsSent' = NW
    BY <1>c DEF ExitsSent
  <2>3. CASE i + 1 = NW
    <3>1. Received' = NW + NW
      BY <1>c, <2>3 DEF Received
    <3> QED
      BY <1>b, <2>1, <2>2, <2>3, <3>1
  <2>4. CASE i + 1 # NW
    <3>1. Received' = NW + (i + 1)
      BY <1>c, <2>4 DEF Received
    <3> QED
      BY <1>b, <2>1, <2>2, <3>1
  <2> QED
    BY <2>3, <2>4
<1>4. OutputInv'
  BY <1>3, <1>a, <1>b, <1>c, WorkersFrame, SentNumbers DEF OutputInv
<1>5. InputInv'
  BY <1>3, <1>a, InputFrame
<1>6. ResultInv'
  <2>1. PICK from \in [DOMAIN output -> Gone] :
          /\ \A j, k \in DOMAIN output : from[j] = from[k] => j = k
          /\ \A k \in DOMAIN output : output[k] = wnb[from[k]]
          /\ nb = Cardinality(Completed(Gone \ {from[k] : k \in DOMAIN output}))
    BY <1>a DEF ResultInv
  <2> DEFINE w == from[1]
             next == [k \in 1..Len(output) - 1 |-> from[k + 1]]
             Sent == {from[k] : k \in 1..Len(output)}
             Left == {next[k] : k \in 1..Len(output) - 1}
             Summed == Gone \ Sent
  <2>2. /\ DOMAIN output = 1..Len(output) /\ DOMAIN output' = 1..Len(output) - 1
        /\ \A k \in 1..Len(output) - 1 : output'[k] = output[k + 1]
    BY <1>b, <1>c
  <2>3. w \in Gone /\ w \in Workers /\ Summed \in SUBSET Workers /\ w \notin Summed
    BY <1>b, <2>2 DEF Gone, At
  <2>4. next \in [1..Len(output) - 1 -> Gone]
    BY <1>b, <2>2
  <2>5. \A j, k \in 1..Len(output) - 1 : next[j] = next[k] => j = k
    <3> SUFFICES ASSUME NEW j \in 1..Len(output) - 1, NEW k \in 1..Len(output) - 1, next[j] = next[k]
                 PROVE  j = k
      OBVIOUS
    <3>1. from[j + 1] = from[k + 1]
      OBVIOUS
    <3>2. j + 1 \in DOMAIN output /\ k + 1 \in DOMAIN output /\ j \in Int /\ k \in Int
      BY <1>b, <2>2
    <3>3. j + 1 = k + 1
      BY <2>1, <3>1, <3>2
    <3> QED
      BY <3>2, <3>3
  <2>6. \A k \in 1..Len(output) - 1 : output'[k] = wnb[next[k]]
    <3> SUFFICES ASSUME NEW k \in 1..Len(output) - 1 PROVE output'[k] = wnb[next[k]]
      OBVIOUS
    <3>1. k + 1 \in DOMAIN output
      BY <1>b, <2>2
    <3>2. next[k] = from[k + 1] /\ output'[k] = output[k + 1]
      BY <2>2
    <3>3. output[k + 1] = wnb[from[k + 1]]
      BY <2>1, <3>1
    <3> QED
      BY <3>2, <3>3
  <2>7. Gone \ Left = Summed \cup {w}
    <3>1. ASSUME NEW v \in Sent PROVE v = w \/ v \in Left
      <4>1. PICK k \in 1..Len(output) : v = from[k]
        OBVIOUS
      <4>2. CASE k = 1
        BY <4>1, <4>2
      <4>3. CASE k # 1
        <5>1. k - 1 \in 1..Len(output) - 1 /\ next[k - 1] = from[k]
          BY <1>b, <4>3
        <5> QED
          BY <4>1, <5>1
      <4> QED
        BY <4>2, <4>3
    <3>2. Left \subseteq Sent /\ w \in Sent
      <4>1. \A k \in 1..Len(output) - 1 : k + 1 \in 1..Len(output) /\ next[k] = from[k + 1]
        BY <1>b
      <4>2. 1 \in 1..Len(output)
        BY <1>b
      <4> QED
        BY <4>1, <4>2
    <3>3. w \notin Left
      <4> SUFFICES ASSUME NEW k \in 1..Len(output) - 1, next[k] = w PROVE FALSE
        OBVIOUS
      <4>1. k + 1 \in DOMAIN output /\ 1 \in DOMAIN output /\ k + 1 # 1
        BY <1>b, <2>2
      <4>2. from[k + 1] = from[1]
        OBVIOUS
      <4> QED
        BY <2>1, <4>1, <4>2
    <3> HIDE DEF next, w, Sent, Left
    <3> QED
      BY <2>3, <3>1, <3>2, <3>3 DEF Summed
  <2>8. IsFiniteSet(Completed(Summed))
    <3>1. Completed(Summed) \in SUBSET Completed(Workers)
      BY <2>3 DEF Completed
    <3> QED
      BY <3>1, FS_Subset DEF InputInv
  <2>9. Cardinality(Completed(Summed \cup {w})) = Cardinality(Completed(Summed)) + wnb[w]
    <3> HIDE DEF w, Summed
    <3> QED
      BY <1>b, <2>3, <2>8, CompletedAdd
  <2>10. nb' = Cardinality(Completed(Summed \cup {w}))
    <3>1. output[1] = wnb[w] /\ nb = Cardinality(Completed(Summed))
      BY <1>b, <2>1, <2>2
    <3> QED
      BY <1>c, <2>9, <3>1
  <2>11. Gone' = Gone /\ wnb' = wnb
    BY <1>a, WorkersFrame DEF workerVars
  <2>12. Completed(Gone \ Left) = UNION {{v} \X (1..wnb'[v]) : v \in Gone' \ Left}
    BY <2>11 DEF Completed
  <2>13. nb' = Cardinality(UNION {{v} \X (1..wnb'[v]) : v \in Gone' \ Left})
    BY <2>7, <2>10, <2>12
  <2>14. /\ next \in [DOMAIN output' -> Gone']
         /\ \A j, k \in DOMAIN output' : next[j] = next[k] => j = k
         /\ \A k \in DOMAIN output' : output'[k] = wnb'[next[k]]
         /\ Left = {next[k] : k \in DOMAIN output'}
    BY <2>2, <2>4, <2>5, <2>6, <2>11
  <2> HIDE DEF next, w, Summed, Sent, Left
  <2>15. nb' = Cardinality(UNION {{v} \X (1..wnb'[v]) : v \in Gone' \ {next[k] : k \in DOMAIN output'}})
    BY <2>13, <2>14
  <2> QED
    BY <2>14, <2>15 DEF ResultInv, Completed
<1> QED
  BY <1>1, <1>2, <1>4, <1>5, <1>6

-----------------------------------------------------------------------------
(* The actions of a worker. *)

\* What a worker's move does to the counts of RunnerInv.
LEMMA WorkerMove ==
  ASSUME RunnerInv, NEW w \in Workers, NEW state \in WorkerStates \ {"unborn"},
         wpc[w] # "unborn", Become(w, state)
  PROVE  /\ Cardinality(Spawned)' = Cardinality(Spawned)
         /\ Cardinality(Born)' = Cardinality(Born) + (IF state \in {"born"} THEN 1 ELSE 0)
                                                   - (IF wpc[w] \in {"born"} THEN 1 ELSE 0)
         /\ Cardinality(Running)' = Cardinality(Running) + (IF state \in {"step"} THEN 1 ELSE 0)
                                                         - (IF wpc[w] \in {"step"} THEN 1 ELSE 0)
         /\ Cardinality(Initialised)' = Cardinality(Initialised)
              + (IF state \in {"idle", "step", "exit", "gone"} THEN 1 ELSE 0)
              - (IF wpc[w] \in {"idle", "step", "exit", "gone"} THEN 1 ELSE 0)
         /\ Cardinality(Leaving)' = Cardinality(Leaving)
              + (IF state \in {"exit", "gone"} THEN 1 ELSE 0)
              - (IF wpc[w] \in {"exit", "gone"} THEN 1 ELSE 0)
         /\ Cardinality(Gone)' = Cardinality(Gone) + (IF state \in {"gone"} THEN 1 ELSE 0)
                                                   - (IF wpc[w] \in {"gone"} THEN 1 ELSE 0)
         /\ state \in {"idle", "step", "exit", "gone"} /\ Initialised = Workers =>
              Initialised' = Workers
         /\ Gone' = IF state = "gone" THEN Gone \cup {w} ELSE Gone \ {w}
         /\ Leaving' = IF state \in {"exit", "gone"} THEN Leaving \cup {w} ELSE Leaving \ {w}
<1>1. wpc \in [Workers -> WorkerStates]
  BY DEF RunnerInv, TypeOK
<1>2. Cardinality(Spawned)' = Cardinality(Spawned)
  <2>1. wpc[w] \in WorkerStates \ {"unborn"}
    BY <1>1
  <2>2. Cardinality(At(WorkerStates \ {"unborn"}))' =
          Cardinality(At(WorkerStates \ {"unborn"})) + 1 - 1
    BY <1>1, <2>1, MoveCounts
  <2>3. Cardinality(At(WorkerStates \ {"unborn"})) \in Nat
    BY AtCounts
  <2> QED
    BY <2>2, <2>3 DEF Spawned
<1>3. Cardinality(Born)' = Cardinality(Born) + (IF state \in {"born"} THEN 1 ELSE 0)
                                             - (IF wpc[w] \in {"born"} THEN 1 ELSE 0)
  BY <1>1, MoveCounts DEF Born
<1>4. Cardinality(Running)' = Cardinality(Running) + (IF state \in {"step"} THEN 1 ELSE 0)
                                                   - (IF wpc[w] \in {"step"} THEN 1 ELSE 0)
  BY <1>1, MoveCounts DEF Running
<1>5. Cardinality(Initialised)' = Cardinality(Initialised)
        + (IF state \in {"idle", "step", "exit", "gone"} THEN 1 ELSE 0)
        - (IF wpc[w] \in {"idle", "step", "exit", "gone"} THEN 1 ELSE 0)
  BY <1>1, MoveCounts DEF Initialised
<1>6. /\ Cardinality(Leaving)' = Cardinality(Leaving)
           + (IF state \in {"exit", "gone"} THEN 1 ELSE 0)
           - (IF wpc[w] \in {"exit", "gone"} THEN 1 ELSE 0)
      /\ Leaving' = IF state \in {"exit", "gone"} THEN Leaving \cup {w} ELSE Leaving \ {w}
  BY <1>1, MoveCounts DEF Leaving
<1>7. /\ Cardinality(Gone)' = Cardinality(Gone) + (IF state \in {"gone"} THEN 1 ELSE 0)
                                                - (IF wpc[w] \in {"gone"} THEN 1 ELSE 0)
      /\ Gone' = IF state \in {"gone"} THEN Gone \cup {w} ELSE Gone \ {w}
  BY <1>1, MoveCounts DEF Gone
<1>8. state \in {"idle", "step", "exit", "gone"} /\ Initialised = Workers => Initialised' = Workers
  BY <1>1 DEF Initialised, At, Become
<1> QED
  BY <1>2, <1>3, <1>4, <1>5, <1>6, <1>7, <1>8

LEMMA TakeInitInv ==
  ASSUME RunnerInv, NEW w \in Workers, TakeInit(w)
  PROVE  RunnerInv'
<1> USE DEF RunnerInv
<1>a. /\ Become(w, "init") /\ wpc[w] = "born" /\ init > 0 /\ init' = init - 1
      /\ UNCHANGED <<pc, i, n, nb, input, output, timer, wnb, injected, late>>
  BY DEF TakeInit, driverVars
<1>b. "init" \in WorkerStates \ {"unborn"} /\ NW \in Nat
  BY Counts DEF WorkerStates
<1>1. TypeOK'
  <2>1. wpc' \in [Workers -> WorkerStates]
    BY <1>a, <1>b DEF TypeOK, Become
  <2>2. init' \in 0..NW
    BY <1>a, <1>b DEF TypeOK
  <2> QED
    BY <1>a, <2>1, <2>2 DEF TypeOK
<1>2. /\ Cardinality(Spawned)' = Cardinality(Spawned)
      /\ Cardinality(Born)' = Cardinality(Born) - 1
      /\ Cardinality(Running)' = Cardinality(Running)
      /\ Cardinality(Initialised)' = Cardinality(Initialised)
      /\ Cardinality(Leaving)' = Cardinality(Leaving)
      /\ Cardinality(Gone)' = Cardinality(Gone)
  BY <1>a, <1>b, WorkerMove, Counts
<1>3. pc \in {"spawn", "await"}
  BY <1>a DEF DriverInv, Initialised, At
<1>4. DriverInv'
  BY <1>a, <1>2, <1>3 DEF DriverInv, Setup, Closed
<1>5. Received' = Received /\ ExitsSent' = ExitsSent
  BY <1>a DEF Received, ExitsSent
<1>6. OutputInv'
  BY <1>a, <1>2, <1>5 DEF OutputInv
<1>7. InputInv'
  <2>1. Leaving = {} /\ Leaving' = {}
    BY <1>3, <1>a, BeforeStop DEF Closed, Leaving, At, Become
  <2>2. Completed(Workers)' = Completed(Workers) /\ Executed' = Executed
    BY <1>a DEF Completed, Executed
  <2> QED
    BY <1>a, <1>2, <1>5, <2>1, <2>2 DEF InputInv
<1>8. ResultInv'
  BY <1>a, <1>3 DEF ResultInv
<1> QED
  BY <1>1, <1>4, <1>6, <1>7, <1>8

LEMMA AckInitInv ==
  ASSUME RunnerInv, NEW w \in Workers, AckInit(w)
  PROVE  RunnerInv'
<1> USE DEF RunnerInv
<1>a. /\ Become(w, "idle") /\ wpc[w] = "init" /\ output' = Append(output, 0)
      /\ UNCHANGED <<pc, i, n, nb, init, input, timer, wnb, injected, late>>
  BY DEF AckInit, driverVars
<1>b. "idle" \in WorkerStates \ {"unborn"} /\ NW \in Nat /\ output \in Seq(Nat)
  BY Counts DEF WorkerStates, TypeOK
<1>c. Len(output') = Len(output) + 1 /\ Len(output) < NW /\ Len(output) \in Nat
  BY <1>a, <1>b DEF AckInit
<1>1. TypeOK'
  <2>1. wpc' \in [Workers -> WorkerStates]
    BY <1>a, <1>b DEF TypeOK, Become
  <2>2. output' \in Seq(Nat) /\ Len(output') <= NW
    BY <1>a, <1>b, <1>c
  <2> QED
    BY <1>a, <2>1, <2>2 DEF TypeOK
<1>2. /\ Cardinality(Spawned)' = Cardinality(Spawned)
      /\ Cardinality(Born)' = Cardinality(Born)
      /\ Cardinality(Running)' = Cardinality(Running)
      /\ Cardinality(Initialised)' = Cardinality(Initialised) + 1
      /\ Cardinality(Leaving)' = Cardinality(Leaving)
      /\ Cardinality(Gone)' = Cardinality(Gone)
  <2>1. /\ Cardinality(Spawned)' = Cardinality(Spawned)
        /\ Cardinality(Born)' = Cardinality(Born) + 0 - 0
        /\ Cardinality(Running)' = Cardinality(Running) + 0 - 0
        /\ Cardinality(Initialised)' = Cardinality(Initialised) + 1 - 0
        /\ Cardinality(Leaving)' = Cardinality(Leaving) + 0 - 0
        /\ Cardinality(Gone)' = Cardinality(Gone) + 0 - 0
    BY <1>a, <1>b, WorkerMove
  <2> QED
    BY <2>1, Counts
<1>3. pc \in {"spawn", "await"}
  BY <1>a DEF DriverInv, Initialised, At
<1>4. DriverInv'
  BY <1>a, <1>2, <1>3 DEF DriverInv, Setup, Closed
<1>5. Received' = Received /\ ExitsSent' = ExitsSent
  BY <1>a DEF Received, ExitsSent
<1>6. OutputInv'
  <2>1. Received \in Nat
    BY <1>3 DEF Received, TypeOK
  <2>2. Cardinality(Initialised) \in Int /\ Cardinality(Gone) \in Int /\ Len(output) \in Int
    BY <1>c, SentNumbers
  <2>3. Received + Len(output) = Cardinality(Initialised) + Cardinality(Gone)
    BY DEF OutputInv
  <2>4. Received + (Len(output) + 1) = (Cardinality(Initialised) + 1) + Cardinality(Gone)
    BY <2>1, <2>2, <2>3
  <2>5. Received' + Len(output') = Cardinality(Initialised)' + Cardinality(Gone)'
    BY <1>c, <1>2, <1>5, <2>4
  <2> QED
    BY <2>5 DEF OutputInv
<1>7. InputInv'
  <2>1. Leaving = {} /\ Leaving' = {}
    BY <1>3, <1>a, BeforeStop DEF Closed, Leaving, At, Become
  <2>2. Completed(Workers)' = Completed(Workers) /\ Executed' = Executed
    BY <1>a DEF Completed, Executed
  <2> QED
    BY <1>a, <1>2, <1>5, <2>1, <2>2 DEF InputInv
<1>8. ResultInv'
  BY <1>a, <1>3 DEF ResultInv
<1> QED
  BY <1>1, <1>4, <1>6, <1>7, <1>8

\* Moves of a worker that is neither gone nor going, between two states in which
\* it is initialised: what is left to prove is InputInv.
LEMMA IdleMoves ==
  ASSUME RunnerInv, NEW w \in Workers, NEW state \in {"idle", "step", "exit"},
         wpc[w] \in {"idle", "step"}, Become(w, state),
         UNCHANGED <<pc, i, n, nb, init, output, timer, injected, late>>,
         \A v \in Workers : v # w => wnb'[v] = wnb[v],
         TypeOK', InputInv'
  PROVE  RunnerInv'
<1> USE DEF RunnerInv
<1>1. state \in WorkerStates \ {"unborn"}
  BY DEF WorkerStates
<1>2. /\ Cardinality(Spawned)' = Cardinality(Spawned)
      /\ Cardinality(Born)' = Cardinality(Born)
      /\ Cardinality(Initialised)' = Cardinality(Initialised)
      /\ Cardinality(Gone)' = Cardinality(Gone)
      /\ Initialised = Workers => Initialised' = Workers
  BY <1>1, WorkerMove, Counts
<1>3. DriverInv'
  BY <1>2 DEF DriverInv, Setup, Closed
<1>4. OutputInv'
  BY <1>2 DEF OutputInv, Received
<1>5. ResultInv'
  <2>1. Gone' = Gone /\ w \notin Gone
    BY DEF Gone, At, Become
  <2>2. \A v \in Gone : wnb'[v] = wnb[v]
    BY <2>1 DEF Gone, At
  <2>3. CASE pc \in {"spawn", "await"}
    BY <2>3 DEF ResultInv
  <2>4. CASE pc \notin {"spawn", "await"}
    <3>1. PICK from \in [DOMAIN output -> Gone] :
            /\ \A j, k \in DOMAIN output : from[j] = from[k] => j = k
            /\ \A k \in DOMAIN output : output[k] = wnb[from[k]]
            /\ nb = Cardinality(Completed(Gone \ {from[k] : k \in DOMAIN output}))
      BY <2>4 DEF ResultInv
    <3>2. UNION {{v} \X (1..wnb'[v]) : v \in Gone' \ {from[k] : k \in DOMAIN output'}} =
            UNION {{v} \X (1..wnb[v]) : v \in Gone \ {from[k] : k \in DOMAIN output}}
      BY <2>1, <2>2
    <3>3. nb' = Cardinality(UNION {{v} \X (1..wnb'[v]) : v \in Gone' \ {from[k] : k \in DOMAIN output'}})
      BY <3>1, <3>2 DEF Completed
    <3>4. /\ from \in [DOMAIN output' -> Gone']
          /\ \A j, k \in DOMAIN output' : from[j] = from[k] => j = k
          /\ \A k \in DOMAIN output' : output'[k] = wnb'[from[k]]
      BY <2>1, <2>2, <3>1
    <3> QED
      BY <3>3, <3>4 DEF ResultInv, Completed
  <2> QED
    BY <2>3, <2>4
<1> QED
  BY <1>3, <1>4, <1>5

LEMMA TakeStepInv ==
  ASSUME RunnerInv, NEW w \in Workers, TakeStep(w)
  PROVE  RunnerInv'
<1> USE DEF RunnerInv
<1>a. /\ Become(w, "step") /\ wpc[w] = "idle" /\ input' = Tail(input)
      /\ input # <<>> /\ Head(input) = OpStep
      /\ UNCHANGED <<pc, i, n, nb, init, output, timer, wnb, injected, late>>
  BY DEF TakeStep, TakeOp, driverVars
<1>b. "step" \in WorkerStates \ {"unborn"} /\ input \in Seq({OpStep, OpExit})
  BY DEF WorkerStates, TypeOK
<1>c. /\ Len(input) \in Nat /\ Len(input) >= 1 /\ input[1] = OpStep
      /\ Len(input') = Len(input) - 1 /\ input' \in Seq({OpStep, OpExit})
      /\ DOMAIN input = 1..Len(input) /\ DOMAIN input' = 1..Len(input) - 1
      /\ \A k \in 1..Len(input) - 1 : input'[k] = input[k + 1]
  BY <1>a, <1>b
<1>1. TypeOK'
  <2>1. wpc' \in [Workers -> WorkerStates]
    BY <1>a, <1>b DEF TypeOK, Become
  <2>2. Len(input') <= NW * Depth
    BY <1>c, Counts, RunnerAssumption DEF TypeOK
  <2> QED
    BY <1>a, <1>c, <2>1, <2>2 DEF TypeOK
<1>2. /\ Cardinality(Running)' = Cardinality(Running) + 1
      /\ Cardinality(Leaving)' = Cardinality(Leaving) /\ Leaving' = Leaving
  <2>1. /\ Cardinality(Running)' = Cardinality(Running) + 1 - 0
        /\ Cardinality(Leaving)' = Cardinality(Leaving) + 0 - 0
        /\ Leaving' = Leaving \ {w} /\ w \notin Leaving
    BY <1>a, <1>b, WorkerMove DEF Leaving, At
  <2> QED
    BY <2>1, Counts
<1>3. InputInv'
  <2>1. PICK steps \in 0..Len(input) :
          /\ \A k \in DOMAIN input : input[k] = IF k <= steps THEN OpStep ELSE OpExit
          /\ injected = Executed + Cardinality(Running) + steps
          /\ ExitsSent = Len(input) - steps + Cardinality(Leaving)
          /\ Leaving # {} => steps = 0
    BY DEF InputInv
  <2>2. steps >= 1 /\ Leaving = {}
    BY <1>c, <2>1 DEF OpStep, OpExit
  <2>3. steps - 1 \in 0..Len(input')
    BY <1>c, <2>2
  <2>4. \A k \in DOMAIN input' : input'[k] = IF k <= steps - 1 THEN OpStep ELSE OpExit
    <3> SUFFICES ASSUME NEW k \in 1..Len(input) - 1
                 PROVE  input'[k] = IF k <= steps - 1 THEN OpStep ELSE OpExit
      BY <1>c
    <3>1. k + 1 \in DOMAIN input /\ input'[k] = input[k + 1]
      BY <1>c
    <3>2. k + 1 <= steps <=> k <= steps - 1
      BY <1>c
    <3> QED
      BY <2>1, <3>1, <3>2
  <2>5. IsFiniteSet(Completed(Workers))' /\ Executed' = Executed
    BY <1>a DEF InputInv, Completed, Executed
  <2>6. injected' = Executed' + Cardinality(Running)' + (steps - 1)
    <3>1. Executed \in Nat
      BY FS_CardinalityType DEF InputInv, Executed
    <3>2. Cardinality(Running) \in Nat
      BY Counts
    <3>3. injected = Executed + (Cardinality(Running) + 1) + (steps - 1)
      BY <2>1, <3>1, <3>2
    <3> QED
      BY <1>a, <1>2, <2>5, <3>3
  <2>7. ExitsSent' = Len(input') - (steps - 1) + Cardinality(Leaving)'
    <3>1. ExitsSent' = ExitsSent
      BY <1>a DEF ExitsSent
    <3> QED
      BY <1>c, <1>2, <2>1, <3>1, Counts
  <2> QED
    BY <1>2, <2>2, <2>3, <2>4, <2>5, <2>6, <2>7 DEF InputInv
<1> QED
  BY <1>a, <1>1, <1>3, IdleMoves

LEMMA TakeExitInv ==
  ASSUME RunnerInv, NEW w \in Workers, TakeExit(w)
  PROVE  RunnerInv'
<1> USE DEF RunnerInv
<1>a. /\ Become(w, "exit") /\ wpc[w] = "idle" /\ input' = Tail(input)
      /\ input # <<>> /\ Head(input) = OpExit
      /\ UNCHANGED <<pc, i, n, nb, init, output, timer, wnb, injected, late>>
  BY DEF TakeExit, TakeOp, driverVars
<1>b. "exit" \in WorkerStates \ {"unborn"} /\ input \in Seq({OpStep, OpExit})
  BY DEF WorkerStates, TypeOK
<1>c. /\ Len(input) \in Nat /\ Len(input) >= 1 /\ input[1] = OpExit
      /\ Len(input') = Len(input) - 1 /\ input' \in Seq({OpStep, OpExit})
      /\ DOMAIN input = 1..Len(input) /\ DOMAIN input' = 1..Len(input) - 1
      /\ \A k \in 1..Len(input) - 1 : input'[k] = input[k + 1]
  BY <1>a, <1>b
<1>1. TypeOK'
  <2>1. wpc' \in [Workers -> WorkerStates]
    BY <1>a, <1>b DEF TypeOK, Become
  <2>2. Len(input') <= NW * Depth
    BY <1>c, Counts, RunnerAssumption DEF TypeOK
  <2> QED
    BY <1>a, <1>c, <2>1, <2>2 DEF TypeOK
<1>2. /\ Cardinality(Running)' = Cardinality(Running)
      /\ Cardinality(Leaving)' = Cardinality(Leaving) + 1
  <2>1. /\ Cardinality(Running)' = Cardinality(Running) + 0 - 0
        /\ Cardinality(Leaving)' = Cardinality(Leaving) + 1 - 0
    BY <1>a, <1>b, WorkerMove
  <2> QED
    BY <2>1, Counts
<1>3. InputInv'
  <2>1. PICK steps \in 0..Len(input) :
          /\ \A k \in DOMAIN input : input[k] = IF k <= steps THEN OpStep ELSE OpExit
          /\ injected = Executed + Cardinality(Running) + steps
          /\ ExitsSent = Len(input) - steps + Cardinality(Leaving)
    BY DEF InputInv
  <2>2. steps = 0
    BY <1>c, <2>1 DEF OpStep, OpExit
  <2>3. 0 \in 0..Len(input')
    BY <1>c
  <2>4. \A k \in DOMAIN input' : input'[k] = IF k <= 0 THEN OpStep ELSE OpExit
    <3> SUFFICES ASSUME NEW k \in 1..Len(input) - 1 PROVE input'[k] = OpExit /\ ~(k <= 0)
      BY <1>c
    <3>1. k + 1 \in DOMAIN input /\ ~(k + 1 <= 0) /\ ~(k <= 0)
      BY <1>c
    <3>2. input[k + 1] = OpExit
      BY <2>1, <2>2, <3>1
    <3> QED
      BY <1>c, <3>1, <3>2
  <2>5. IsFiniteSet(Completed(Workers))' /\ Executed' = Executed
    BY <1>a DEF InputInv, Completed, Executed
  <2>6. injected' = Executed' + Cardinality(Running)' + 0
    BY <1>a, <1>2, <2>1, <2>2, <2>5
  <2>7. ExitsSent' = Len(input') - 0 + Cardinality(Leaving)'
    <3>1. ExitsSent' = ExitsSent
      BY <1>a DEF ExitsSent
    <3> QED
      <4>1. ExitsSent = Len(input) - 0 + Cardinality(Leaving)
        BY <2>1, <2>2
      <4>2. Len(input) \in Int /\ Cardinality(Leaving) \in Int
        BY <1>c, Counts
      <4>3. Len(input) - 0 + Cardinality(Leaving) = (Len(input) - 1) - 0 + (Cardinality(Leaving) + 1)
        BY <4>2
      <4> QED
        BY <1>c, <1>2, <3>1, <4>1, <4>3
  <2> QED
    BY <2>3, <2>4, <2>5, <2>6, <2>7 DEF InputInv
<1> QED
  BY <1>a, <1>1, <1>3, IdleMoves

LEMMA FinishStepInv ==
  ASSUME RunnerInv, NEW w \in Workers, FinishStep(w)
  PROVE  RunnerInv'
<1> USE DEF RunnerInv
<1>a. /\ Become(w, "idle") /\ wpc[w] = "step" /\ wnb' = [wnb EXCEPT ![w] = wnb[w] + 1]
      /\ UNCHANGED <<pc, i, n, nb, init, input, output, timer, injected, late>>
  BY DEF FinishStep, driverVars
<1>b. "idle" \in WorkerStates \ {"unborn"} /\ wnb \in [Workers -> Nat]
  BY DEF WorkerStates, TypeOK
<1>1. TypeOK'
  <2>1. wpc' \in [Workers -> WorkerStates] /\ wnb' \in [Workers -> Nat]
    BY <1>a, <1>b DEF TypeOK, Become
  <2> QED
    BY <1>a, <2>1 DEF TypeOK
<1>2. /\ Cardinality(Running)' = Cardinality(Running) - 1
      /\ Cardinality(Leaving)' = Cardinality(Leaving) /\ Leaving' = Leaving
  <2>1. /\ Cardinality(Running)' = Cardinality(Running) + 0 - 1
        /\ Cardinality(Leaving)' = Cardinality(Leaving) + 0 - 0
        /\ Leaving' = Leaving \ {w} /\ w \notin Leaving
    BY <1>a, <1>b, WorkerMove DEF Leaving, At
  <2> QED
    BY <2>1, Counts
<1>3. InputInv'
  <2>1. IsFiniteSet(Completed(Workers))' /\ Executed' = Executed + 1
    BY <1>a, <1>b, CompletedStep DEF InputInv
  <2>2. ExitsSent' = ExitsSent
    BY <1>a DEF ExitsSent
  <2>3. Executed + Cardinality(Running) = (Executed + 1) + (Cardinality(Running) - 1)
    <3>1. Executed \in Nat
      BY FS_CardinalityType DEF InputInv, Executed
    <3> QED
      BY <3>1, Counts
  <2>4. Executed' + Cardinality(Running)' = Executed + Cardinality(Running)
    BY <1>2, <2>1, <2>3
  <2> QED
    BY <1>a, <1>2, <2>1, <2>2, <2>4 DEF InputInv
<1> QED
  BY <1>a, <1>1, <1>3, IdleMoves

\* The value sent is the count of the worker, which joins those that are gone.
LEMMA ExitInv ==
  ASSUME RunnerInv, NEW w \in Workers, Exit(w)
  PROVE  RunnerInv'
<1> USE DEF RunnerInv
<1>a. /\ Become(w, "gone") /\ wpc[w] = "exit" /\ output' = Append(output, wnb[w])
      /\ UNCHANGED <<pc, i, n, nb, init, input, timer, wnb, injected, late>>
  BY DEF Exit, driverVars
<1>b. /\ "gone" \in WorkerStates \ {"unborn"} /\ output \in Seq(Nat)
      /\ wnb \in [Workers -> Nat] /\ NW \in Nat
  BY Counts DEF WorkerStates, TypeOK
<1>c. /\ Len(output') = Len(output) + 1 /\ Len(output) < NW /\ Len(output) \in Nat
      /\ DOMAIN output = 1..Len(output) /\ DOMAIN output' = 1..Len(output) + 1
      /\ \A k \in 1..Len(output) : output'[k] = output[k]
      /\ output'[Len(output) + 1] = wnb[w]
  BY <1>a, <1>b DEF Exit
<1>1. TypeOK'
  <2>1. wpc' \in [Workers -> WorkerStates]
    BY <1>a, <1>b DEF TypeOK, Become
  <2>2. output' \in Seq(Nat) /\ Len(output') <= NW
    BY <1>a, <1>b, <1>c
  <2> QED
    BY <1>a, <2>1, <2>2 DEF TypeOK
<1>2. /\ Cardinality(Spawned)' = Cardinality(Spawned)
      /\ Cardinality(Born)' = Cardinality(Born)
      /\ Cardinality(Running)' = Cardinality(Running)
      /\ Cardinality(Initialised)' = Cardinality(Initialised)
      /\ Cardinality(Leaving)' = Cardinality(Leaving)
      /\ Cardinality(Gone)' = Cardinality(Gone) + 1
      /\ Initialised = Workers => Initialised' = Workers
      /\ Gone' = Gone \cup {w}
  <2>1. /\ Cardinality(Spawned)' = Cardinality(Spawned)
        /\ Cardinality(Born)' = Cardinality(Born) + 0 - 0
        /\ Cardinality(Running)' = Cardinality(Running) + 0 - 0
        /\ Cardinality(Initialised)' = Cardinality(Initialised) + 1 - 1
        /\ Cardinality(Leaving)' = Cardinality(Leaving) + 1 - 1
        /\ Cardinality(Gone)' = Cardinality(Gone) + 1 - 0
        /\ Initialised = Workers => Initialised' = Workers
        /\ Gone' = Gone \cup {w}
    BY <1>a, <1>b, WorkerMove
  <2> QED
    BY <2>1, Counts
<1>3. Leaving # {} /\ w \notin Gone /\ w \in Leaving'
  BY <1>a DEF Leaving, Gone, At, Become
<1>4. pc \notin {"spawn", "await"}
  BY <1>3, BeforeStop DEF Closed
<1>5. DriverInv'
  BY <1>a, <1>2 DEF DriverInv, Setup, Closed
<1>6. Received' = Received /\ ExitsSent' = ExitsSent
  BY <1>a DEF Received, ExitsSent
<1>7. OutputInv'
  <2>1. Received \in Nat
    BY <1>b, <1>4 DEF Received, TypeOK
  <2>2. Cardinality(Initialised) \in Int /\ Cardinality(Gone) \in Int /\ Len(output) \in Int
    BY <1>c, Counts
  <2>3. Received + Len(output) = Cardinality(Initialised) + Cardinality(Gone)
    BY DEF OutputInv
  <2>4. Received + (Len(output) + 1) = Cardinality(Initialised) + (Cardinality(Gone) + 1)
    BY <2>1, <2>2, <2>3
  <2>5. Received' + Len(output') = Cardinality(Initialised)' + Cardinality(Gone)'
    BY <1>c, <1>2, <1>6, <2>4
  <2> QED
    BY <2>5 DEF OutputInv
<1>8. InputInv'
  <2>1. Completed(Workers)' = Completed(Workers) /\ Executed' = Executed
    BY <1>a DEF Completed, Executed
  <2> QED
    BY <1>a, <1>2, <1>3, <1>6, <2>1 DEF InputInv
<1>9. ResultInv'
  <2>1. PICK from \in [DOMAIN output -> Gone] :
          /\ \A j, k \in DOMAIN output : from[j] = from[k] => j = k
          /\ \A k \in DOMAIN output : output[k] = wnb[from[k]]
          /\ nb = Cardinality(Completed(Gone \ {from[k] : k \in DOMAIN output}))
    BY <1>4 DEF ResultInv
  <2> DEFINE next == [k \in 1..Len(output) + 1 |-> IF k <= Len(output) THEN from[k] ELSE w]
  <2>2. /\ \A k \in 1..Len(output) : next[k] = from[k] /\ from[k] \in Gone
        /\ next[Len(output) + 1] = w
        /\ \A k \in 1..Len(output) + 1 : k \in 1..Len(output) \/ k = Len(output) + 1
    BY <1>c
  <2>3. next \in [DOMAIN output' -> Gone']
    BY <1>c, <1>2
  <2> HIDE DEF next
  <2>4. \A j, k \in DOMAIN output' : next[j] = next[k] => j = k
    <3> SUFFICES ASSUME NEW j \in DOMAIN output', NEW k \in DOMAIN output', next[j] = next[k]
                 PROVE  j = k
      OBVIOUS
    <3>1. (j \in 1..Len(output) \/ j = Len(output) + 1) /\ (k \in 1..Len(output) \/ k = Len(output) + 1)
      BY <1>c, <2>2
    <3>2. CASE j \in 1..Len(output) /\ k \in 1..Len(output)
      BY <1>c, <2>1, <2>2, <3>2
    <3>3. CASE j = Len(output) + 1 /\ k \in 1..Len(output)
      BY <1>3, <2>2, <3>3
    <3>4. CASE j \in 1..Len(output) /\ k = Len(output) + 1
      BY <1>3, <2>2, <3>4
    <3> QED
      BY <3>1, <3>2, <3>3, <3>4
  <2>5. \A k \in DOMAIN output' : output'[k] = wnb'[next[k]]
    BY <1>a, <1>c, <2>1, <2>2
  <2>6. Gone' \ {next[k] : k \in DOMAIN output'} = Gone \ {from[k] : k \in DOMAIN output}
    <3>1. \A k \in DOMAIN output' : next[k] = w \/ next[k] \in {from[j] : j \in DOMAIN output}
      BY <1>c, <2>2
    <3>2. \A k \in DOMAIN output : k \in DOMAIN output' /\ from[k] = next[k]
      BY <1>c, <2>2
    <3>3. Len(output) + 1 \in DOMAIN output'
      BY <1>c
    <3> QED
      BY <1>2, <1>3, <2>2, <3>1, <3>2, <3>3
  <2>7. nb' = Cardinality(UNION {{v} \X (1..wnb'[v]) : v \in Gone' \ {next[k] : k \in DOMAIN output'}})
    <3>1. nb = Cardinality(UNION {{v} \X (1..wnb[v]) : v \in Gone \ {from[k] : k \in DOMAIN output}})
      BY <2>1 DEF Completed
    <3> QED
      BY <1>a, <2>6, <3>1
  <2> QED
    BY <2>3, <2>4, <2>5, <2>7 DEF ResultInv, Completed
<1> QED
  BY <1>1, <1>5, <1>7, <1>8, <1>9

-----------------------------------------------------------------------------
\* Steps that change nothing of the runner.
LEMMA RunnerStutter ==
  ASSUME RunnerInv, UNCHANGED runnerVars
  PROVE  RunnerInv'
<1> USE DEF RunnerInv, runnerVars
<1>1. UNCHANGED workerVars
  BY DEF workerVars
<1>2. TypeOK'
  BY DEF TypeOK
<1>3. DriverInv' /\ OutputInv'
  BY <1>1, WorkersFrame DEF DriverInv, OutputInv, Received
<1>4. InputInv'
  BY <1>1, InputFrame DEF ExitsSent
<1>5. ResultInv'
  BY <1>1, ResultFrame DEF ResultInv
<1> QED
  BY <1>2, <1>3, <1>4, <1>5

\* Every action common to the policies preserves RunnerInv.
LEMMA CommonInv ==
  ASSUME RunnerInv, Common
  PROVE  RunnerInv'
<1>1. CASE Driver
  BY <1>1, SpawnInv, AwaitInitInv, StartInv, ReceiveStopInv, SendStepInv, SendExitInv, CollectInv
     DEF Driver
<1>2. CASE Fire
  BY <1>2, FireInv
<1>3. ASSUME NEW w \in Workers, Worker(w) PROVE RunnerInv'
  BY <1>3, TakeInitInv, AckInitInv, TakeStepInv, FinishStepInv, TakeExitInv, ExitInv DEF Worker
<1> QED
  BY <1>1, <1>2, <1>3 DEF Common

-----------------------------------------------------------------------------
(* What RunnerInv implies. *)

\* A worker outside of Initialised keeps the window from opening.
LEMMA InitBarrierHolds == RunnerInv => InitBarrier
<1> SUFFICES ASSUME RunnerInv, timer # "unset" \/ injected > 0
             PROVE  Initialised = Workers /\ init = 0 /\ Len(output) <= Cardinality(Leaving)
  BY DEF InitBarrier
<1> USE DEF RunnerInv
<1>1. pc \notin Setup
  BY DEF DriverInv, TypeOK
<1>2. Initialised = Workers
  BY <1>1 DEF DriverInv, Setup
<1>3. Born = {}
  BY <1>2 DEF Initialised, Born, At
<1>4. init = 0
  BY <1>3, FS_EmptySet DEF DriverInv
<1>5. Received \in Nat /\ Received >= NW
  <2>1. NW \in Nat /\ i \in Nat
    BY Counts DEF TypeOK
  <2>2. Received \in {NW, NW + i, NW + NW}
    BY <1>1 DEF Received, Setup
  <2> QED
    BY <2>1, <2>2
<1>6. Cardinality(Gone) <= Cardinality(Leaving)
  <2>1. IsFiniteSet(Leaving)
    BY WorkerSets DEF Leaving, At
  <2> QED
    BY <2>1, Counts, FS_Subset
<1>7. Len(output) <= Cardinality(Gone)
  <2>1. Cardinality(Initialised) = NW /\ Len(output) \in Nat
    BY <1>2, Counts DEF TypeOK
  <2> QED
    BY <1>5, <2>1, SentNumbers DEF OutputInv
<1>8. Len(output) \in Nat
  BY DEF TypeOK
<1> QED
  BY <1>2, <1>4, <1>6, <1>7, <1>8, Counts

\* The channel holds transactions, then exits; each exit sent is queued or taken.
LEMMA DrainBeforeExitHolds == RunnerInv => DrainBeforeExit
<1> SUFFICES ASSUME RunnerInv PROVE DrainBeforeExit
  OBVIOUS
<1> USE DEF RunnerInv
<1>1. PICK steps \in 0..Len(input) :
        /\ \A k \in DOMAIN input : input[k] = IF k <= steps THEN OpStep ELSE OpExit
        /\ ExitsSent = Len(input) - steps + Cardinality(Leaving)
        /\ Leaving # {} => steps = 0
  BY DEF InputInv
<1>2. Len(input) \in Nat /\ DOMAIN input = 1..Len(input) /\ OpStep # OpExit
  BY DEF TypeOK, OpStep, OpExit
<1>3. ASSUME NEW j \in DOMAIN input, NEW k \in DOMAIN input, j < k, input[k] = OpStep
      PROVE  input[j] = OpStep
  <2>1. k <= steps
    BY <1>1, <1>2, <1>3
  <2>2. j <= steps
    BY <1>2, <1>3, <2>1
  <2> QED
    BY <1>1, <2>2
<1>4. Leaving # {} => \A k \in DOMAIN input : input[k] = OpExit
  BY <1>1, <1>2
<1>5. ExitsQueued = steps + 1 .. Len(input)
  BY <1>1, <1>2 DEF ExitsQueued
<1>6. Cardinality(ExitsQueued) = Len(input) - steps
  <2>1. steps + 1 \in Int /\ Len(input) \in Int
    BY <1>1, <1>2
  <2>2. Cardinality(steps + 1 .. Len(input)) =
          IF steps + 1 > Len(input) THEN 0 ELSE Len(input) - (steps + 1) + 1
    BY <2>1, FS_Interval
  <2> QED
    BY <1>1, <1>2, <1>5, <2>2
<1>7. pc \in {"collect", "done"} => ExitsSent = NW
  BY DEF ExitsSent
<1> QED
  BY <1>1, <1>3, <1>4, <1>6, <1>7 DEF DrainBeforeExit

\* A worker about to send has not sent yet what it sends.
LEMMA OutputNeverBlocksHolds == RunnerInv => OutputNeverBlocks
<1> SUFFICES ASSUME RunnerInv, NEW w \in Workers, wpc[w] \in {"init", "exit"}
             PROVE  Len(output) < NW
  BY DEF OutputNeverBlocks
<1> USE DEF RunnerInv
<1>1. Len(output) \in Nat
  BY DEF TypeOK
<1>2. CASE wpc[w] = "init"
  <2>1. Initialised # Workers
    BY <1>2 DEF Initialised, At
  <2>2. pc \in {"spawn", "await"}
    BY <2>1 DEF DriverInv
  <2>3. Received \in Nat /\ Cardinality(Gone) = 0
    BY <2>2, BeforeStop DEF Received, TypeOK, Closed
  <2> QED
    BY <1>1, <2>1, <2>3, Counts DEF OutputInv
<1>3. CASE wpc[w] = "exit"
  <2>1. w \in Leaving /\ Gone # Workers
    BY <1>3 DEF Leaving, Gone, At
  <2>2. pc \notin {"spawn", "await"}
    BY <2>1, BeforeStop DEF Closed
  <2>3. Received \in Nat /\ Received >= NW
    <3>1. NW \in Nat /\ i \in Nat
      BY Counts DEF TypeOK
    <3>2. Received \in {NW, NW + i, NW + NW}
      BY <2>2 DEF Received
    <3> QED
      BY <3>1, <3>2
  <2> QED
    BY <1>1, <2>1, <2>3, Counts DEF OutputInv
<1> QED
  BY <1>2, <1>3

\* At the report, every worker has sent its result and every result is summed.
LEMMA AllGoneAtReport ==
  ASSUME RunnerInv, pc = "done"
  PROVE  Gone = Workers /\ output = <<>> /\ input = <<>>
<1> USE DEF RunnerInv
<1>1. Len(output) \in Nat /\ Len(input) \in Nat
  BY DEF TypeOK
<1>2. Received = NW + NW /\ ExitsSent = NW
  BY DEF Received, ExitsSent
<1>3. Len(output) = 0 /\ Cardinality(Gone) = NW
  BY <1>1, <1>2, SentNumbers DEF OutputInv
<1>4. Gone = Workers
  BY <1>3, Counts
<1>5. Leaving = Workers /\ Leaving # {}
  <2>1. Leaving \in SUBSET Workers
    BY DEF Leaving, At
  <2> QED
    BY <1>4, <2>1, Counts, RunnerAssumption
<1>6. Len(input) = 0
  <2>1. ExitsSent = Len(input) - 0 + Cardinality(Leaving)
    BY <1>5 DEF InputInv
  <2> QED
    BY <1>1, <1>2, <1>5, <2>1, Counts
<1> QED
  BY <1>3, <1>4, <1>6 DEF TypeOK

\* Hence nothing is left in the channels, and the timer has delivered its stop.
LEMMA QuiescentAtReportHolds == RunnerInv => QuiescentAtReport
<1> SUFFICES ASSUME RunnerInv, pc = "done"
             PROVE  /\ \A w \in Workers : wpc[w] = "gone"
                    /\ init = 0 /\ input = <<>> /\ output = <<>>
                    /\ timer = "sent"
  BY DEF QuiescentAtReport
<1>1. \A w \in Workers : wpc[w] = "gone"
  BY AllGoneAtReport DEF Gone, At
<1>2. Born = {}
  BY <1>1 DEF Born, At
<1>3. init = 0
  BY <1>2, FS_EmptySet DEF RunnerInv, DriverInv
<1>4. timer = "sent"
  BY DEF RunnerInv, DriverInv, Closed
<1> QED
  BY <1>1, <1>3, <1>4, AllGoneAtReport

\* What is injected is completed, being executed, or queued.
LEMMA NoTransactionLostHolds == RunnerInv => NoTransactionLost
<1> SUFFICES ASSUME RunnerInv PROVE NoTransactionLost
  OBVIOUS
<1> USE DEF RunnerInv
<1>1. PICK steps \in 0..Len(input) :
        /\ \A k \in DOMAIN input : input[k] = IF k <= steps THEN OpStep ELSE OpExit
        /\ injected = Executed + Cardinality(Running) + steps
        /\ Leaving # {} => steps = 0
  BY DEF InputInv
<1>2. Len(input) \in Nat /\ DOMAIN input = 1..Len(input) /\ OpStep # OpExit
  BY DEF TypeOK, OpStep, OpExit
<1>3. StepsQueued = 1..steps
  BY <1>1, <1>2 DEF StepsQueued
<1>4. Cardinality(StepsQueued) = steps
  <2>1. Cardinality(1..steps) = IF 1 > steps THEN 0 ELSE steps - 1 + 1
    BY <1>2, FS_Interval
  <2> QED
    BY <1>2, <1>3, <2>1
<1>5. ASSUME pc = "done" PROVE nb = injected
  <2>1. Gone = Workers /\ output = <<>> /\ input = <<>>
    BY <1>5, AllGoneAtReport
  <2>2. Running = {} /\ Cardinality(Running) = 0 /\ steps = 0
    BY <1>2, <2>1, FS_EmptySet DEF Running, Gone, At
  <2>3. nb = Executed
    <3>1. PICK from \in [DOMAIN output -> Gone] :
            nb = Cardinality(Completed(Gone \ {from[k] : k \in DOMAIN output}))
      BY <1>5 DEF ResultInv
    <3>2. Gone \ {from[k] : k \in DOMAIN output} = Workers
      BY <2>1
    <3> QED
      BY <3>1, <3>2 DEF Executed
  <2>4. Executed \in Nat
    BY FS_CardinalityType DEF InputInv, Executed
  <2> QED
    BY <1>1, <2>2, <2>3, <2>4
<1> QED
  BY <1>1, <1>4, <1>5 DEF NoTransactionLost

-----------------------------------------------------------------------------
(* The refinement of Batch. *)

\* What the report claims: it is the state from which the throughput is computed.
Counted == pc = "done" => nb = injected /\ Executed = injected

LEMMA CountedHolds == RunnerInv => Counted
<1> SUFFICES ASSUME RunnerInv, pc = "done" PROVE nb = injected /\ Executed = injected
  BY DEF Counted
<1>1. Gone = Workers /\ input = <<>>
  BY AllGoneAtReport
<1>2. StepsQueued = {} /\ Running = {}
  BY <1>1 DEF StepsQueued, Running, Gone, At
<1>3. injected = Executed + 0 + 0 /\ nb = injected
  BY <1>2, NoTransactionLostHolds, FS_EmptySet DEF NoTransactionLost
<1>4. Executed \in Nat
  BY FS_CardinalityType DEF RunnerInv, InputInv, Executed
<1> QED
  BY <1>3, <1>4

\* The initial states map to an initial state of Batch.
LEMMA BatchInit == RunnerInit => Promise!Init
<1> SUFFICES ASSUME RunnerInit PROVE Promise!Init
  OBVIOUS
<1>1. Completed(Workers) = {}
  BY DEF RunnerInit, Completed
<1>2. Executed = 0
  BY <1>1, FS_EmptySet DEF Executed
<1> QED
  BY <1>2 DEF RunnerInit, Promise!Init, Phase

\* A worker that completes a transaction finds it submitted and not executed.
LEMMA BatchExecute ==
  ASSUME RunnerInv, NEW w \in Workers, FinishStep(w)
  PROVE  Promise!Execute
<1> USE DEF RunnerInv
<1>1. /\ wpc[w] = "step" /\ wnb' = [wnb EXCEPT ![w] = wnb[w] + 1]
      /\ UNCHANGED <<pc, nb, injected>>
  BY DEF FinishStep, driverVars
<1>2. Executed' = Executed + 1
  BY <1>1, CompletedStep DEF InputInv, TypeOK
<1>3. w \in Running /\ w \notin Gone
  BY <1>1 DEF Running, Gone, At
<1>4. Executed < injected
  <2>1. PICK steps \in 0..Len(input) : injected = Executed + Cardinality(Running) + steps
    BY DEF InputInv
  <2>2. Cardinality(Running) \in Nat /\ Cardinality(Running) # 0
    BY <1>3, AtCounts DEF Running
  <2>3. Executed \in Nat /\ steps \in Nat
    BY FS_CardinalityType DEF InputInv, Executed, TypeOK
  <2> QED
    BY <2>1, <2>2, <2>3
<1>5. pc # "done"
  BY <1>3, AllGoneAtReport
<1>6. pc \notin {"spawn", "await", "start"}
  <2>1. Executed \in Nat /\ injected \in Nat
    BY FS_CardinalityType DEF InputInv, Executed, TypeOK
  <2>2. injected # 0
    BY <1>4, <2>1
  <2> QED
    BY <2>2 DEF DriverInv, Setup
<1>7. Phase \in {"open", "closed"} /\ Phase' = Phase
  BY <1>1, <1>5, <1>6 DEF Phase, TypeOK, DriverStates
<1> QED
  BY <1>1, <1>2, <1>4, <1>5, <1>7 DEF Promise!Execute

\* A driver that keeps the workers and the count of the transactions.
LEMMA BatchDriver ==
  ASSUME RunnerInv, Counted', UNCHANGED <<injected, workerVars>>,
         \/ pc' = pc /\ nb' = nb
         \/ pc \in Setup /\ pc' \in Setup
         \/ pc = "start" /\ pc' = "inject"
         \/ pc \in {"inject", "burst"} /\ pc' \in {"inject", "burst"}
         \/ pc = "inject" /\ pc' = "exit"
         \/ pc \in {"exit", "collect"} /\ pc' \in {"exit", "collect"}
         \/ pc = "collect" /\ pc' = "done"
  PROVE  [Promise!Next]_(Promise!batchVars)
<1>1. Executed' = Executed
  BY WorkersFrame
<1>2. CASE pc = "collect" /\ pc' = "done"
  <2>1. nb' = injected /\ Executed = injected
    BY <1>1, <1>2 DEF Counted
  <2>2. Phase = "closed" /\ Phase' = "reported"
    BY <1>2 DEF Phase
  <2> QED
    BY <1>1, <1>2, <2>1, <2>2 DEF Promise!Next, Promise!Report
<1>3. CASE pc = "start" /\ pc' = "inject"
  BY <1>1, <1>3 DEF Phase, Promise!Next, Promise!Open
<1>4. CASE pc = "inject" /\ pc' = "exit"
  BY <1>1, <1>4 DEF Phase, Promise!Next, Promise!Close
<1>5. CASE Phase' = Phase /\ ((pc' = pc /\ nb' = nb) \/ (pc # "done" /\ pc' # "done"))
  BY <1>1, <1>5 DEF Promise!batchVars
<1>6. CASE pc' = pc /\ nb' = nb
  <2>1. Phase' = Phase
    BY <1>6 DEF Phase
  <2> QED
    BY <1>1, <1>6, <2>1 DEF Promise!batchVars
<1>7. CASE pc \in Setup /\ pc' \in Setup
  BY <1>5, <1>7 DEF Phase, Setup
<1>8. CASE pc \in {"inject", "burst"} /\ pc' \in {"inject", "burst"}
  <2>1. Phase = "open" /\ Phase' = "open"
    BY <1>8 DEF Phase
  <2> QED
    BY <1>5, <1>8, <2>1
<1>9. CASE pc \in {"exit", "collect"} /\ pc' \in {"exit", "collect"}
  <2>1. Phase = "closed" /\ Phase' = "closed"
    BY <1>9 DEF Phase
  <2> QED
    BY <1>5, <1>9, <2>1
<1> QED
  BY <1>2, <1>3, <1>4, <1>6, <1>7, <1>8, <1>9

\* A transaction enters the channel only while the window is open.
LEMMA BatchSubmit ==
  ASSUME SendStep
  PROVE  Promise!Submit
<1>1. pc = "burst" /\ injected' = injected + 1 /\ UNCHANGED <<pc, nb, workerVars>>
  BY DEF SendStep, workerVars
<1> QED
  BY <1>1, WorkersFrame DEF Phase, Promise!Submit

\* Each step of the driver, of the timer and of a worker is a step of Batch or
\* leaves it alone.
LEMMA BatchCommon ==
  ASSUME RunnerInv, Counted', Common
  PROVE  [Promise!Next]_(Promise!batchVars)
<1>1. ASSUME NEW w \in Workers, Spawn(w) PROVE [Promise!Next]_(Promise!batchVars)
  <2>1. Completed(Workers)' = Completed(Workers)
    BY <1>1 DEF Spawn, Completed
  <2>2. Executed' = Executed
    BY <2>1 DEF Executed
  <2>3. Phase' = "setup" /\ Phase = "setup" /\ pc # "done" /\ pc' # "done" /\ injected' = injected
    BY <1>1 DEF Spawn, LoopOverWorkers, Phase
  <2> QED
    BY <2>2, <2>3 DEF Promise!batchVars
<1>2. CASE AwaitInit
  BY <1>2, BatchDriver DEF AwaitInit, LoopOverWorkers, Setup, workerVars
<1>3. CASE Start
  BY <1>3, BatchDriver DEF Start, workerVars
<1>4. CASE ReceiveStop
  BY <1>4, BatchDriver DEF ReceiveStop, workerVars
<1>5. CASE SendStep
  BY <1>5, BatchSubmit DEF Promise!Next
<1>6. CASE SendExit
  BY <1>6, BatchDriver DEF SendExit, LoopOverWorkers, workerVars
<1>7. CASE Collect
  BY <1>7, BatchDriver DEF Collect, LoopOverWorkers, workerVars
<1>8. CASE Fire
  BY <1>8, BatchDriver DEF Fire, driverVars
<1>9. ASSUME NEW w \in Workers, Worker(w) PROVE [Promise!Next]_(Promise!batchVars)
  <2>1. CASE FinishStep(w)
    BY <2>1, BatchExecute DEF Promise!Next
  <2>2. CASE TakeInit(w) \/ AckInit(w) \/ TakeStep(w) \/ TakeExit(w) \/ Exit(w)
    <3>1. UNCHANGED <<pc, nb, injected, wnb>>
      BY <2>2 DEF TakeInit, AckInit, TakeStep, TakeExit, TakeOp, Exit, driverVars
    <3>2. Executed' = Executed /\ Phase' = Phase
      BY <3>1 DEF Executed, Completed, Phase
    <3> QED
      BY <3>1, <3>2 DEF Promise!batchVars
  <2> QED
    BY <1>9, <2>1, <2>2 DEF Worker
<1> QED
  BY <1>1, <1>2, <1>3, <1>4, <1>5, <1>6, <1>7, <1>8, <1>9 DEF Common, Driver

\* A step that changes nothing of the runner changes nothing of Batch.
LEMMA BatchStutter ==
  ASSUME RunnerInv, Counted', UNCHANGED runnerVars
  PROVE  [Promise!Next]_(Promise!batchVars)
BY BatchDriver DEF runnerVars, workerVars
=============================================================================
