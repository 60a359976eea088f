# A formal model of cpubench1a

cpubench1a measures the computing power of a machine: a driver injects transactions into a queue,
workers execute them (a transaction runs fourteen small algorithms), and the score is the number of
transactions per second. This directory holds TLA+ modules that model the program, the TLC
configurations that check them on small instances, and proofs, checked by TLAPS, of what holds for every value of the constants: any
number of workers, any depth of the queue, any throughput, any graph, any lists of intervals.

    tlc -workers 2 -config MCSaturation.cfg Saturation    # model-check one run
    tlapm PolicyProofs.tla                            # check the proofs of a module

`PROJECT.json` lists the components, the runs, the correspondence of every definition with the lines
of code it models, the hazards of the code, and the theorems.

## 1. Inventory

### The benchmark process (`main.go:81-214`, `worker.go`)

`runBench` is the driver of one measure. It creates three channels: `init` (one slot per worker),
`input` (32 slots per worker) and `output` (one slot per worker). It starts the workers, waits for
one acknowledgement of each, arms a timer that will send on the unbuffered channel `stop`, hands over to an
injection policy, and when the policy returns sends one `OpExit` per worker, sums one result per worker and
reports. `Worker.Run` waits for its initialisation, then takes operations from the channel all the workers
share; it counts the transactions it finishes and sends the count when it takes an `OpExit`.

* State: the three channels, the counters of the workers, the timer, the position of the driver.
* Hard behaviour: every goroutine interleaves with the others; acknowledgements and results share one
  channel; the timer may fire while the driver is blocked inside a burst; nothing tells a worker that
  the window is over but a message at the end of the queue.
* What makes it correct: the measure begins after the last initialisation; every transaction injected
  is executed once and counted once; nobody blocks for ever; nothing is left when the report is written.

Two policies. `injectSaturation` (`main.go:155`) sends bursts of 16 transactions per worker and looks at the stop
channel only between two bursts: what it injects after the timer must stay below a burst.
`injectOLTP` (`main.go:173`) sends a burst at each tick of a ticker that drops the ticks nobody
receives; the bursts of one second must add up to the throughput of the flag `-tps` although each
is the result of an integer division.

### The campaigns (`main.go:37-78`, `218-376`, `stat.go`)

`main` dispatches on the flags: a benchmark process (`-run`, `-runoltp`), a campaign of them (`-bench`, `-oltp`), the measure of
the CPU frequency, the version, or the usage with status 255. Both campaigns first display the CPU and its NUMA nodes, which
on Windows takes three calls of the system and a loop over records of varying size. `stdBench` runs `-nb` single-threaded and `-nb` multi-threaded benchmark
processes one after the other; each appends one line to a results file, temporary or named by
`-res`; statistics of the two categories are displayed from the file. `oltpBench` runs processes with
a throughput that grows from zero, and reads the CPU usage after each.

* State: the loop variables, the results file, the exit status.
* Hard behaviour: any process may fail, before or after it has recorded its result, or succeed without having recorded it; errors are
  sometimes returned and sometimes not; the machine may change between two calls that describe it; the file is created, emptied, appended to, read and removed by
  different functions of different processes.
* What makes it correct: the statistics are those of the results of this campaign, each in its category; a failure
  stops the campaign and reaches the exit status; the temporary file does not stay (it does on Windows, see 3, Findings); the load grows
  evenly and meets its target; each load has its own CPU measure.

### The benchmarks of a transaction

`Worker.Init` builds fourteen objects that live as long as the worker; `Worker.Step` runs them in
turn. What one `Run` leaves in its object is what the next one finds.

| Benchmark | State | Hard behaviour | What makes it correct |
|---|---|---|---|
| log formatting (`logging.go`) | a pool of buffers under a mutex, a queue, the output, statistics, the last entry | two goroutines; a queue that fills; a close and an acknowledgement; buffers reused over the runs | a buffer has one owner; the output is the deduplicated script without card numbers; `Run` returns |
| route exploring (`graph.go`) | an explicit stack of edges and markers, the current path, a top-k heap, a pool of paths shared by all the workers | backtracking by markers; objects that move between heaps and the shared pool | no route is lost nor found twice; the heap keeps the lightest; an object has one owner |
| availability simulation (`simulation.go`) | lists of intervals per node, per zone and for the cluster, statistics | a merge of seven cases that cuts its arguments in place; boundaries and joined intervals; unsigned differences | the view of the cluster is right at every second of the year; each failure is counted once |
| eight queens (`eightqueens.go`) | a board and a mask per call, the solutions | a mask shared by accident would prune a sibling | each solution is found, once |
| Dijkstra's pearls (`pearls.go`) | a string of three colours | only the end of the string is checked; backtracking | the whole string is valid; the search advances |
| travelling salesman (`haversine.go`) | the order of the cities, the shortest journey | the swaps of Heap's algorithm depend on parity | each journey is tried once; the shortest is kept |
| B-tree (`btree.go`) | two trees by different keys, a map, a list of users | repeated values and keys; trees filled, checked and emptied at each call | trees, map and list agree on the items that stay; the trees are empty at the end |
| sorting (`sort.go`) | one array of items, shuffled and sorted three times | a sort that is not stable on keys that are not distinct | the last sort undoes the shuffle |
| compression (`compression.go`) | five codecs and two buffers handed from the one to the other | codecs used again after their `Close`; a stage that appends to what another left | the text comes back through each codec, and `log.Fatal` is never reached |
| crypto (`crypto.go`) | a writer with a buffer kept between calls | writes of different lengths; a key stream whose position must be the same on both sides | the plain text comes back whole |
| image (`image.go`) | one image composed again at each call, one output buffer | a half transparent window over what the last call left | the same image each time, once in the buffer |
| awk, JSON (`awk.go`, `json.go`) | a configuration and a buffer each | the reader and the buffers are used again | each program reads its whole input; the buffers are empty between the calls |
| memory (`memory.go`) | the offsets of the blocks, a generator | a shuffle that goes on from call to call | each block is read once, within the data |

## 2. Modules

| Module | Models | Parameters |
|---|---|---|
| `Batch` | what a benchmark process promises: submit during a window, execute each once, report the number | |
| `Runner` | driver, workers, channels and timer, for any policy | `Workers`, `Depth`, `MaxSteps` |
| `Saturation` | `Runner` with `injectSaturation` | `Burst` |
| `Oltp` | `Runner` with `injectOLTP` | `TPS` |
| `RunnerProofs`, `PolicyProofs` | their theorems | |
| `Campaign` | `stdBench`, `spawnBench` and `stat.go`; each process is an instance of `Batch` | `Nbs`, `WorkerCounts`, `MaxTransactions` |
| `Progression` | `oltpBench`, `spawnOLTP` | `Nbs`, `Tpss` |
| `NumaTopology` | `DisplayNumaTopology`, on Windows and elsewhere | `Machines` |
| `Frequency` | `measureFreq` and the assembly loop | `Width`, `Unroll`, `NFREQ` |
| `Main` | the process the user starts: composes the four above, adds the default flags and the exit status | those, `WorkerFlags`, `ThreadFlags`, `NumCPU` |
| `LogSink` | what the log benchmark promises: its output and its statistics, without buffers, queue nor goroutines | `Script` |
| `LogPipeline` | the two goroutines of the log benchmark, over several calls of `Run` | `Script`, `QueueCap`, `Buffers`, `MaxRuns` |
| `RouteSearch` | several searchers of one graph, the heap and the shared pool | `Edge`, `Queries`, `K`, `Searchers`, `Objects` |
| `Intervals` | operators on lists of intervals: collision, canonical form, one turn of the merge | `MAXSECS` |
| `MergeIntervals` | the merge as a state machine, for any two slices | `Slices` |
| `Availability` | a year of the simulation, step by step, and the statistics of the years | the constants of the code |
| `EightQueens`, `Pearls`, `Haversine` | the three searches; a recursive function is a stack of frames | the constants of the code |
| `Btree`, `Sorting`, `Compression`, `Crypto`, `Image`, `Documents` (awk and JSON), `Memory` | one object of the worker each, in one variable; `Product` says what a call has made when it ends | small data |
| `Transaction` | `Worker.Step` over those ten, on objects that outlive a transaction | `Transactions` |
| `LogPipelineProofs`, `MainProofs`, `RouteSearchProofs`, `MergeIntervalsProofs`, `AvailabilityProofs`, `TransactionProofs` | the theorems of the module each is named after | |

How they fit together: `Runner` has the variables and the actions of a process; `Saturation` and `Oltp`
extend it with one policy each, which gives the next-state relation. Both implement `Batch`, under the mapping
`Promise` at the end of `Runner`: the phase is a function of the position of the driver, `executed` is
the sum of the counters of the workers. `Campaign` instantiates `Batch` in turn for the inside of the process it waits for, so that
what is displayed is compared with what the processes of the refined models promise. `Main` instantiates `Campaign`, `Progression`,
`NumaTopology` and `Frequency`. `LogPipeline` implements `LogSink` under the mapping `Sink`: the abstract statistics count a line
when the goroutine that reads the queue has taken it into account. `Intervals` is shared by `MergeIntervals` and `Availability`.
`Transaction` instantiates the searches and the other objects.

### Correspondence with the code

* **Channels** are sequences, and a send has the room of the channel as a guard. `init` is a number of
  tokens, since its messages are all the same. The unbuffered `stop` has no state: the timer is `firing`
  while its goroutine is blocked on the send, and `ReceiveStop` is the rendezvous. A `select` with a default
  takes the default only when no sender waits; a `select` of two cases is two actions.
* **Atomicity.** A step is what a goroutine does between two operations that others can observe:
  sends, receives, lock and unlock, a loop turn that reads shared state. `FinishStep` is the end of a
  transaction; its inside is in the other modules. In `LogPipeline` the lock, the pop of the pool and the unlock are
  separate steps. In `RouteSearch`, `Get` and `Put` of the `sync.Pool` are atomic, as that type promises; it
  may return a new object although it has others, and may lose all of them to the garbage collector.
* **Processes** of a campaign submit and execute transactions as `Batch` says, and end with an outcome: reported and recorded (and
  failed after that, or not), reported and not recorded, failed without a line. The history `exits` says how each process of either benchmark ended. A throughput is the number reported, the duration being the same for all; the result of
  an earlier campaign is larger than any of this one, so that a property can tell it. The median is doubled and the average is a sum and a number,
  to stay within whole numbers; a mean of logarithms is the product of the values.
* **Codes and pictures.** What an encoder makes is a label of what it was given; a pixel is the list of the layers that show through it; a cipher
  text is the pairing of the data with positions of the key stream. The buffers that hold them are modelled as the code fills, reads, cuts and resets them.
* **The system** the program was built for is a variable that does not change, `system`. It decides which display of the NUMA nodes runs, and whether a
  file that is still open can be removed: `stdBench` closes its file only before its last return, so that the deferred `os.Remove` of the other
  returns, and of a panic, fails on Windows. Other reasons for `os.Remove` to fail are left out.
* **Records of the system** (`NumaTopology`) are words, a header with a size, a body, and padding that depends on the node: the loop
  finds a record only where the sizes before it lead.
* **Arrays.** In `Availability` a list of intervals is an array with an identity: `zones`, `cluster`, `tmp` and `acc` hold the numbers of arrays, `mem`
  their contents, so that two lists may share one, and a merge that cuts its arguments changes what other lists see.
* **Numbers.** A share of the keys (`float32`) is an integer, in units of one node of a zone; a
  difference of two `uint32` is taken modulo `Word`. Weights of routes and lengths of journeys are
  naturals. The index of `b.idx` is shifted by one.
* **Random draws** are choices: any value of `Times`, any outcome of the comparison with a probability.
* **History variables** are marked "history" where they are declared (`injected`, `late`, `past`, `recorded`,
  `exits`, `offered`, `found`, `built`, `seen`, `runs`): no action reads them but to bound the model.
* A definition whose comment begins with **"Mutant:"** is not part of a specification. It is
  a wrong variant of the definition that follows it, the way a plausible mistake would have it; each property of
  a run is violated by at least one of them, which `PROJECT.json` names.

## 3. Runs

| Run | Module, configuration | What it asks | Bounds |
|---|---|---|---|
| `saturation` | `Saturation`, `MCSaturation.cfg` | start barrier, drain before the exits, room in the output channel, quiescence at the report, conservation of transactions, overshoot, refinement of `Batch`, termination | 3 workers, `Depth` 1, `Burst` 2, 12 transactions |
| `oltp` | `Oltp`, `MCOltp.cfg` | the pace: what each second of pacing injects | 2 workers, `Depth` 1, `TPS` 13, 20 transactions |
| `oltp_live` | `Oltp`, `MCOltpLive.cfg` | termination though ticker and stop compete at each turn | 3 workers, `TPS` 0 |
| `main` | `MCMain` | statistics, failures of the processes of both benchmarks, the results file, growth of the load, NUMA nodes, completion | up to 3 processes of each kind and 2 transactions in each, 1, 2 or 4 workers, throughputs 0, 2, 10, 13, 3 machines, both kinds of systems |
| `append_file` | `Campaign`, `MCAppendFile.cfg` | violation: is the named file appended to? | 1 process of each kind |
| `log_pipeline` | `MCLogPipeline` | ownership of buffers, their number, refinement of `LogSink` (the output without cards, the statistics), completion | 3 calls of `Run`, 6 entries, queue of 2, 5 buffers |
| `route_search` | `MCRouteSearch` | no route lost, the heap, ownership of the pooled objects | 2 searchers, 4 nodes, 10 edges, a heap of 2 for 4 routes |
| `route_repeat` | `MCRouteSearch`, `MCRouteRepeat.cfg` | the display, after a second search on the objects of the first; completion | 1 searcher, 2 searches, a heap of 3 |
| `merge_intervals` | `MCMergeIntervals` | the merge against its meaning second by second, order of the result, completion | every two sorted slices of at most 2 intervals in 4 seconds, 2 shares, 1 or 2 zones (1 in a merge of nodes) |
| `availability` | `Availability`, `MCAvailability.cfg` | the view of the cluster second by second, exclusion of the events, the counts and the tails displayed, arrays that are not shared, over two years | 2 zones of 2 nodes, years of 20 seconds, 4 times |
| `late_upgrade` | `Availability`, `MCLateUpgrade.cfg` | violation: are the intervals within the year? | a year of 15 seconds |
| `transaction` | `MCTransaction` | solutions of the queens, validity of the string, order of the search, journeys, the products of the other seven objects, the same at each call; completion in spite of the checks these benchmarks make of their own work, unless a library fails an AWK program or a JSON encoding | 2 transactions, a board of 6, 500 beads, 8 cities, small data for the other objects |

The core is checked for its types too (`TypeOK` of `Runner`). In the other modules `TypeOK` says what the
variables hold; the runs do not list it, because every variable is read by a property that says more. The modules
that `Main` and `Transaction` instantiate name what they assume of their constants, and the module that instantiates them assumes it.

Why these bounds are enough to see the interesting cases:

* `saturation`: `Burst` exceeds `Depth`, so that the driver blocks inside a burst and the timer can fire
  there; two bursts, so that there is a turn between them; three workers, so that one may leave, one
  execute and one wait. `MaxSteps` is a guard of `Default` and `ReceiveTick`, which bounds the bursts of a run, not what a
  burst does; the theorems hold for every value of it.
* `oltp`: 13 transactions per second are ten periods with a correction of 3, so that the first burst (four transactions)
  overfills a channel of two slots; 20 transactions are more than a second, so that the position in the second wraps.
* `oltp_live`: with empty bursts the ticker can keep the driver busy for ever without the bound of the model
  cutting the run, which is the case the fairness on `ReceiveStop` is for.
* `main`: each of up to six processes may fail, so that an error that one loop or the other lets pass is followed by more processes; `-nb 0` and one worker are included, where categories are empty or the same; lists of one to six results have
  medians of both kinds and results that are equal or zero; 13 and 10 are not multiples of 2 or 3, so that the throughputs are rounded. The machines have one to
  three nodes, one of them without a processor, and records of two sizes; the register of the frequency loop has a byte and its body four instructions.
* `log_pipeline`: the script has the shapes of the one in the code (distinct entries, a repeated entry, cards), the queue
  fills, and the third call finds a pool that two calls have filled.
* `route_search`: there are routes of equal weight at the boundary of the heap, and twice as many as it holds; six
  objects are enough for two heaps and two hands.
* `merge_intervals` enumerates all inputs of its size: each of the seven cases of the loop, with touching and nested intervals. An interval
  of a node counts one zone, as `normalize` makes it (`simulation.go:378`): the combination for nodes adds shares and keeps one of the two counts.
* `availability`: the times make intervals touch, overlap, join and reach the end of the year; hardware
  failures may happen on each node and network failures in each zone. `N_REBOOTS` is 0 there, since a reboot is an
  interval like that of a hardware failure, drawn by the same function; `late_upgrade` has one.
* `transaction`: 500 beads and eight cities, as in the code (with a table of distances in kilometres); a board of six
  has 4 solutions, which the reference enumerates in a second where that of eight would not finish. The other objects have two or three items
  each, with repeated keys in the trees and the sorts, every shuffle of the blocks and every length of a read: the second transaction finds what the first one left.

`CHECK_DEADLOCK` is left on in every run: a system that has ended stutters by its action `Terminated`.
Symmetry is used in `route_search` only, where searchers and objects are interchangeable and no
liveness is checked; the one `CHOOSE` of a model value is among objects that are all blank.

### Findings

* `append_file`: `-res` is described as an "append file" (`main.go:33`), but `stdBench` opens the file with
  `os.Create` (`main.go:235`), which empties it: a second campaign with the same file loses the results of the first.
* `late_upgrade`: `Interval.Normalize` is said to keep intervals in the range (`simulation.go:62`) and bounds only their
  end. A rolling upgrade that begins near the end of the year gives its last nodes intervals that begin after the year
  and end before they begin; the duration of an outage is then a difference of `uint32` that may wrap (`simulation.go:459`).
  The run `availability` keeps its upgrades inside the year, and shows that everything else is right then.

Observed, and not settled by what the repository says: on Windows the temporary file of a campaign that fails stays, because it is open when the deferred
`os.Remove` runs and the error of that is dropped (`main.go:244`); `FileDisposed` makes that the only exception, and says what the file then holds. Also `oltpBench` goes on for three processes beyond
the target of the flag, on purpose (`main.go:294`); an empty category of results makes `displayStat` panic (`stat.go:82`),
which `Main` models as exit status 2, like the division by zero of `-nb 0` (`main.go:360`); the error of `DisplayResult` is not looked at (`main.go:268`), so that a campaign may display nothing and
exit with 0; the first of an empty list of CPUs is read (`main.go:390`), and on Windows the first byte of a buffer of no byte, when the call that asks for its
size fails otherwise than expected (`numa_windows.go:125`); the display of a histogram stops at its first empty bar
(`simulation.go:578`); `FinalResult` of the simulation accumulates over the transactions of a worker; with `-workers 1` the two categories are the same one; with `-workers 0` the
OLTP policy would block for ever on a channel without slots, and the models assume at least one worker.

## 4. Fairness

* **Goroutines.** The Go runtime runs a goroutine that can take a step, so there is weak fairness on the driver, on each worker, on the
  timer, on each goroutine of the log benchmark and on each searcher. It is on the goroutine, never on one of its branches.
* **`select`.** When several cases are ready Go chooses one at random. `ReceiveStop` in `Oltp` therefore has strong
  fairness: ready again and again, it is chosen at some time. `Saturation` needs none: a stop that waits disables the default.
  The ticker has no fairness: nothing depends on a tick.
* **Sequential programs** (`Main`, `MergeIntervals`, `Transaction`) have weak fairness on their next-state relation. In `Main` it says that a
  benchmark process ends, which `Termination` of `Saturation` and of `Oltp` supports.
* **Mutexes** in `LogPipeline` need weak fairness only: a goroutine that waits for the lock holds nothing, and the
  other one cannot take it for ever.
* **Random draws** have none: that the loops of the simulation which draw until a time fits do end is a matter of
  probability, and is not claimed.

## 5. Proofs

Assumptions of the core: `Workers` is a finite set that is not empty, `Depth` and `Burst` are positive, `MaxSteps` and `TPS` are
natural numbers. These are the named assumptions of `Runner`, `Saturation` and `Oltp`; `LogAssumption` says that the queue has a slot and that
`None` is no buffer. Every theorem is about the `Spec` of its module, without fairness.

**The invariant.** None of the safety properties of `Runner` is inductive. That no transaction is lost at the report, for
example, needs to know that every worker has left, that what was left in the output channel was the rest of their counts, and that
no transaction was queued behind an exit. `RunnerInv` is what carries all of it, in five parts:

* `TypeOK`;
* `DriverInv`: the position of the driver tells the state of the timer, how many workers exist, and when all are initialised;
* `OutputInv`: values received plus values in the output channel are the initialised workers plus those gone. With two values per
  worker in all, it bounds the channel;
* `InputInv`: the input channel is a block of transactions followed by a block of exits; injected = executed + running + queued;
  exits sent = exits queued + workers leaving; once a worker leaves no transaction is queued;
* `ResultInv`: each value of the output channel is the counter of a worker that is gone, by an injective function, and the driver's sum is that
  of the others. Sums are cardinalities: `Completed(S)` is the set of the transactions completed by the workers of `S`,
  each a pair of a worker and a number, which avoids a recursive sum and lets the theorems on finite sets do the arithmetic.

`RunnerProofs` has the lemmas on counting (a worker that moves from one state to another changes two
cardinalities by one), then one lemma per action (`SpawnInv`, `CollectInv`, `TakeExitInv`, ...), then what follows from the
invariant (`NoTransactionLostHolds`, ...). Those do not know the policy: `StartBurstInv` is for a burst of any size,
so that both policies reuse them.

**Saturation** (`PolicyProofs`): the invariant, `TypeOK`, `InitBarrier`, `DrainBeforeExit`, `OutputNeverBlocks`,
`QuiescentAtReport`, `NoTransactionLost`, and `ImplementsBatch`. `OvershootBounded` has an invariant of its own, `OvershootInv`: what is late is
at most the part of the current burst that is sent.

**OLTP**: the same properties; `OltpPeriods`, that the burst sizes of a second add up to the
throughput and the correction is below one transaction per period, *for every* throughput; and `PaceKept`, by `PaceInv`:
the transactions injected are those of whole seconds, of the periods elapsed, and of the part of the current burst that is sent.

**Refinement.** `BatchDriver`, `BatchExecute` and `BatchSubmit` map each action to one of `Batch` or to a stutter. The only step that needs the
invariant is the report, where the sum must be what was submitted and all of it executed.

**The log benchmark** (`LogPipelineProofs`): `OwnedOnce` and `BuffersBounded`, for every script, queue, supply of buffers and number of
calls of `Run`. That no buffer is at two places is not inductive: `get` and `put` each read the pool under the lock and write it at the
unlock. `LogInv` has four parts:

* `PlaceInv`: where a buffer can be, and when a hand is empty;
* `LockInv`: between lock and unlock a goroutine has the mutex, and the pool it has read is still the pool;
* `OwnInv`: no two places hold the same buffer, and those of the pool are empty;
* `BoundInv`: pool, queue and hands hold at most `QueueCap + 2` buffers, because `get` makes one only when the pool is empty, and then the queue and
  the other hand are all there is.

`StillInv` settles in one lemma the actions that move no buffer; `get`, `send`, `receive`, `conceal` and `put` have one each.

That the benchmark implements `LogSink` (`LogRefinement`) needs two more facts. What `Expected` says of a script is a fold over its entries, and `LinesTo` gives it entry by entry: where the
producer is in the script tells the lines it has sent. And the output, the line in the consumer's hand, the queue and the line being formatted are, in this order, those lines, because a buffer holds
what its owner wrote until the same owner gives it back. The step that writes a line maps to the step of `LogSink` that consumes one, the return of `Run` to the end of a call, and every other step to a stutter.

**The route search** (`RouteSearchProofs`): `ObjectsOwnedOnce`, `NoRouteLost`, `HeapHoldsLightest`, `LightestDisplayed` and `TypeOK`, for every
graph, list of queries between different nodes, `K` and number of searchers (`RouteAssumption`; `MarkerAssumption` says that the marker is no edge). None of the four
is inductive: the stack of the walk must be read as the set of the routes it still leads to. The invariant has three parts:

* `Types`, and that a searcher holds an object exactly while it collects a route;
* `ObjectsOwnedOnce`;
* `Phases`, one `Phase` per searcher. While it walks, `Walk` says what the stack is (a marker for each edge of the path, no edge twice, each edge
  leaving the node of its depth), and `Search` that the routes found, the one being collected and those `Ahead` are a partition of the routes of the query. `Best` says of heap and
  output together that they are the `K` lightest of the routes found, those displayed the heaviest.

The lemmas are about values alone, one for each step of the walk (pop a marker, extend, arrive) and of the heap (fill, replace, drop, display). `PhaseKept` is the frame:
the steps of another searcher leave a phase as it is, because an object that moves is not one of this searcher's. This is where ownership is needed.

**The merge** (`MergeIntervalsProofs`): `OutputSorted`, `SecondsMerged` and `TypeOK`, for a year of any length and any two sorted slices without empty intervals
(`SlicesAssumption`; a late upgrade, see the findings, makes one that is not). `IInv` says besides the types that what is left of each slice is sorted, that the
result ends where both begin, and, second by second (`Meant`), that the result and the merge of what is left are together the merge of the inputs. There is one lemma per case of the
loop (`TurnTakeA` ... `TurnBothB`); `At(s, t)`, what a slice says of second `t`, is a set, so that a slice cut in two is a union.

**The process the user starts** (`MainProofs`): `FailureReported`, `FileDisposed`, `EvenProgression`, `StatisticsFaithful` and `TopologyFaithful`, for all flags, machines and numbers of processes and transactions
(`MainAssumption`). The invariant has a part for each benchmark, which holds in its mode: of `stdBench`, how far the loops are, which outcomes the control allows, and that the lines of the file are
those of the results recorded; of `oltpBench`, that the throughputs offered are those of the iterations so far (`Grown`), of which the growth follows by the arithmetic of `Throughput`.
`FailureReported` speaks of all the processes that have run, in the history `exits`; `ExitsInv` says that only the last one may have failed, and that the benchmark then stands at the return of its error.

**The statistics** (`MainProofs`): `StatisticsFaithful`, for any number of results, in any order. The lines of a category are a list of the results recorded for its number of workers, each once
(`CategoryList`: a bijection between places and results, which grows with each line read); sorted by rank it still is one (`SortedLists`), so that its `k`-th element is the `k`-th smallest value
(`KthSmallest`). Sums and products do not depend on the order, but the folds of the community modules are `CHOOSE`s, of which nothing is known before a function that satisfies their equation is exhibited: the sum of some
numbers is how many pairs there are of an index and a number up to its value (`Parts`), their product how many ways to choose a number up to each (`Choices`). `TotalUnique` shows that
every order of summation gives that number.

**The NUMA nodes** (`MainProofs`): `TopologyFaithful`, for all machines the system may have at each call, of any number of nodes and processors (`NumaAssumption`: a node is a finite set of processors, and no
processor is of two). `ScanInv` says that the loop of `GetNumaTopology` stands where the record of a node begins and has the nodes before it; `Layout` says where in the buffer that is, and that the words there are
the header and the body of that node. `MaskCounted` is why `countBits` gives the number of processors: the lowest bit of a mask is that of its least processor, all the others being multiples of its double, so that
clearing it leaves the mask of the others. `NodeOfIs` is the same for the map that the other systems fill from files.

**The availability simulation** (`AvailabilityProofs`): `ArraysDistinct` and `EventsExclusive`, for any numbers of zones, nodes and events, any durations and any draws (`SimulationAssumption`, `YearAssumption`).
`ArraysInv` says which array each slice is on, the local one included, and where the simulation can be when there is a local slice; a turn of a merge exchanges two entries of it. `EventsInv` says that the events drawn
so far have the duration of their kind and keep apart (`Calendar`), which needs `ArraysInv`: the view of the cluster is written between two draws, and must not be on the array of the events. What `Retrofit` gives to a node is
then within the event it comes from, so that two of them overlap only if the events did, and the events of two zones have different indices.

**The searches** (`TransactionProofs`). Each is compared with a definition that does not search.

* Pearls (`StringValid`, `SearchAdvances`), for every `PEARLS_N`: a string that is valid without its last bead and that no square ends is valid (`CheckEnough`), and so is the beginning of a valid string
  (`SquareFreePrefix`), which is what `backtrack` leaves. The order of the search is that of the first bead where two strings differ.
* Queens (`AllFoundOnce`), for a board of any size: `SearchInv` says of each call of `rowIterate` which solutions are still `Ahead` of it. A solution is found, or ahead of exactly
  one of the calls, since each call has the queen that those before it are trying. The mask holds the squares that the queens placed attack, no fewer and no more.
* Salesman (`ShortestOfAll`), for every number of cities and all distances: the invariant must know what a call of `heap(k)` does to the cities, which its code does not say. It moves them in a way that depends
  on `k` only: `Source(k, p)` tells where the city that ends at place `p` was, and `From(k, c, p)` the same when the `c`-th inner call begins. For an odd `k` the turns of the loop move the cities along a
  ring of `k` places; for an even one all but a few stay. `FromNextOdd`, `FromNextEven` and `FromEnd` show that the two fit: an inner call and the swap after it, and all of them, do what `From` and `Source` say. `LastPlace` is why the algorithm is
  right: each inner call has another city at the last place, and each city has its turn. Then an order of the cities is tried when, and only when, an inner call that has returned could make it (`Covered`), at every step.

**The objects of a worker** (`TransactionProofs`): `SameWork` and `ChecksPass`, for any data and any number of transactions. Each object has an invariant of its own (`CompressionInv`, `BtreeInv`, ...) that says what its
buffers hold in each stage and what is left when it is idle, and is changed by its own steps only (`CompressionAlone`, ...). The decoding of a prefix of the encodings (`CodecInverse`), the shuffle and the three
sorts as permutations (`IncreasingIsIdentity`), the blocks read in the order of the shuffled offsets (`OffsetsListed`), the layers of each pixel (`ImageCompose`) and the scan of a tree as the list of its items in order
(`PlaceInListing`) are lemmas on values. `ChecksPass`, that the checks of these benchmarks on themselves never end the process, follows. (AWK and JSON are not in it: they make no check, and end the process when their library fails.)

Assumptions on the data (`TransactionAssumption`, the conjunction of one per object): texts, lists of items and of blocks have the shapes of the code's; the chessboard has an even number of squares; no two users have the same
key; `math.MaxFloat64` is longer than any journey.

**Recursive functions.** The theorems of induction of the library take an operator as a parameter, which the provers cannot instantiate. `NaturalsBySet` is
the same principle for sets of natural numbers; with it the proofs show that a recursive function is what its equation says, and what holds of each of its values (`ToDef`, `WeightType`, `AddFailuresType`, `LengthType`, `CategoryDef`, `CountBitsDef`). `FollowsExists` makes one of a recursion
where each number refers to a smaller one, however far. The
functions were written for that: `f[k \in 0..n]` rather than a fold or a `RECURSIVE` operator.

Only model-checked:

* liveness under fairness, which the prover does not reach (`Termination`, the `Completion` properties);
* of `Availability`, what is said of whole lists and whole years: `ClusterIsPointwise`, `FailuresCounted` and `TailsCounted`. A year's merges are folds over merges, and `Canonical` sorts; one merge is
  proved in `MergeIntervalsProofs`.

## 6. Not modelled

* The data of the benchmarks: `data.go` is 177 319 of the 180 913 lines of the implementation, constants without any code. The definitions
  stand for more than 60 % of the other lines, and for about 1 % of all of them; no model of the program can stand for more.
* What the libraries compute: AWK programs, JSON queries, codecs, ciphers and JPEG; their failures, but for those of AWK programs and JSON encodings; and the dump of the image, compiled out.
* The failures that the data of the code excludes: a location that is not in the graph (`graph.go:190`), a write into memory that fails (`image.go:103`), data of the constructors that cannot be parsed, and
  `log.Fatal` there.
* Of the simulation, `Aggregate` and its test for an overflow (`simulation.go:451`), `Equal`, `Format` and the averages displayed, which nothing else reads.
* Wall-clock time: the timer may fire at any step, and a tick may come at any step of the window. Throughput as a quotient is left out.
* NUMA nodes with more than one group of processors: `GetNumaTopology` reads the first group of a record.
* The parsing of the flags, and values of `-workers` below one.

## 7. Plan

Done, in this order: `Batch`, `Runner`, the two policies and their proofs; the campaigns and `Main`; the log benchmark; the route benchmark; the
simulation; the searches; `LogSink` and the refinement of the log; the other objects of a worker; the arrays of the simulation; `Main` composed with `Batch`, with
the statistics, the NUMA nodes and the frequency; the proofs on the log benchmark, the route search, the merge, `Main` and the arrays and events of the simulation; those on the refinement of the log, on the three searches, on the objects of a worker, on the statistics and on the NUMA nodes.

To do, most important first:

1. `ClusterIsPointwise`: `SecondsMerged` carried through the folds of `simulateZones` and `simulateCluster`.
2. `Aggregate` of the simulation and the averages it feeds; nodes of several processor groups.
