---------------------------- MODULE LogPipeline ----------------------------
(***************************************************************************)
(* The logging benchmark (logging.go): the goroutine that calls            *)
(* BenchLogging.Run formats entries into buffers taken from a pool and     *)
(* queues them; the goroutine it starts (processLogs) hides credit card    *)
(* numbers, writes the lines, counts them and puts the buffers back.       *)
(*                                                                         *)
(* A buffer is an identity whose content is in mem; an entry is a record   *)
(* with a severity, a text and a flag that tells a credit card number in   *)
(* its message.  Text is not formatted.                                    *)
(***************************************************************************)
EXTENDS Naturals, Sequences, FiniteSets, SequencesExt

CONSTANTS Script,    \* the entries one Run logs, in order
          QueueCap,  \* slots of the queue (8 in the code)
          Buffers,   \* identities of buffers the allocator can use
          MaxRuns,   \* bound of the model: calls of Run
          None       \* no buffer

Severities == {Script[k].sev : k \in DOMAIN Script}
Lines == [t : Nat, entry : Range(Script), rep : Nat, hidden : BOOLEAN]

ASSUME LogAssumption ==
  /\ Script \in Seq(Range(Script)) /\ Script # <<>>
  /\ \A k \in DOMAIN Script : DOMAIN Script[k] = {"sev", "text", "card"} /\ Script[k].card \in BOOLEAN
  \* The entry that ends the code's script is not the one that begins it:
  \* b.last outlives a Run.
  /\ Script[1] # Script[Len(Script)]
  /\ QueueCap \in Nat \ {0} /\ MaxRuns \in Nat \ {0}
  /\ None \notin Buffers

VARIABLES
  mutex,    \* "free", or the goroutine in a critical section
  pool,     \* b.pool, a stack of buffers
  mem,      \* content of each buffer: an empty sequence or one line
  queue,    \* b.queue, the channel of this Run
  closed,   \* b.queue is closed
  stats,    \* b.stats
  output,   \* b.output
  last,     \* b.last: a sequence of at most one entry
  cnt,      \* b.cnt
  t,        \* b.t, seconds since the date Run starts from
  log,      \* the logging goroutine: [pc, k, line, buf, seen]
  proc,     \* the processing goroutine: [pc, buf, seen]
  runs      \* history: completed calls of Run

vars == <<mutex, pool, mem, queue, closed, stats, output, last, cnt, t, log, proc, runs>>
shared == <<mutex, pool, mem, queue, closed>>
processing == <<stats, output>>
dedup == <<last, cnt, t>>

\* A repeat entry keeps all of the entry but its message.
Line(e, rep) == [t |-> 0, entry |-> e, rep |-> rep, hidden |-> FALSE]
HasCard(line) == line.entry.card /\ line.rep = 0 /\ ~line.hidden

TypeOK ==
  /\ mutex \in {"free", "log", "proc"}
  /\ pool \in Seq(Buffers)
  /\ \A b \in Buffers : mem[b] = <<>> \/ (Len(mem[b]) = 1 /\ mem[b][1] \in Lines)
  /\ queue \in Seq(Buffers) /\ Len(queue) <= QueueCap
  /\ closed \in BOOLEAN
  /\ stats \in [Severities -> Nat]
  /\ output \in Seq(Lines)
  /\ \A k \in DOMAIN last : last[k] \in Range(Script)
  /\ cnt \in Nat /\ t \in Nat /\ runs \in 0..MaxRuns
  /\ log.pc \in {"start", "log", "get", "locked", "send", "close", "ack", "end"}
  /\ log.k \in 1..Len(Script) + 1
  /\ proc.pc \in {"none", "reset", "range", "conceal", "write", "stats", "put", "locked", "ack"}

Init ==
  /\ mutex = "free" /\ pool = <<>>
  /\ mem = [b \in Buffers |-> <<>>]
  /\ queue = <<>> /\ closed = FALSE
  /\ stats = [s \in Severities |-> 0] /\ output = <<>>
  /\ last = <<>> /\ cnt = 0 /\ t = 0 /\ runs = 0
  /\ log = [pc |-> "start", k |-> 1, line |-> Line(Script[1], 0), buf |-> None, seen |-> <<>>]
  /\ proc = [pc |-> "none", buf |-> None, seen |-> <<>>]

-----------------------------------------------------------------------------
(* The logging goroutine. *)

\* Run sets the date, makes a queue and starts the processing goroutine.
StartRun ==
  /\ log.pc = "start"
  /\ t' = 0 /\ queue' = <<>> /\ closed' = FALSE
  /\ log' = [log EXCEPT !.pc = "log", !.k = 1]
  /\ proc' = [proc EXCEPT !.pc = "reset"]
  /\ UNCHANGED <<mutex, pool, mem, processing, last, cnt, runs>>

\* logEntry(e) begins: the date advances, a buffer is needed.
LogEntry(e, rep) ==
  /\ t' = t + 1
  /\ log' = [log EXCEPT !.pc = "get", !.line = [Line(e, rep) EXCEPT !.t = t + 1]]

\* log(e) when e repeats the last entry: it is only counted.
Repeated ==
  /\ log.pc = "log" /\ log.k <= Len(Script)
  /\ last = <<Script[log.k]>>
  /\ cnt' = cnt + 1
  /\ log' = [log EXCEPT !.k = @ + 1]
  /\ UNCHANGED <<shared, processing, last, t, proc, runs>>

\* flush() with repeated entries, by log(e) for an entry that differs and at
\* the end of Run.
Flush ==
  /\ log.pc = "log" /\ cnt > 0
  /\ log.k <= Len(Script) => last # <<Script[log.k]>>
  /\ LogEntry(last[1], cnt + 1)
  /\ cnt' = 0
  /\ UNCHANGED <<shared, processing, last, proc, runs>>

\* log(e) for an entry that differs from the last one, after flush().
Fresh ==
  /\ log.pc = "log" /\ log.k <= Len(Script)
  /\ last # <<Script[log.k]>> /\ cnt = 0
  /\ LogEntry(Script[log.k], 0)
  /\ last' = <<Script[log.k]>>
  /\ UNCHANGED <<shared, processing, cnt, proc, runs>>

\* get(): the mutex is taken and the pool is read ...
GetLock ==
  /\ log.pc = "get" /\ mutex = "free"
  /\ mutex' = "log"
  /\ log' = [log EXCEPT !.pc = "locked", !.seen = pool]
  /\ UNCHANGED <<pool, mem, queue, closed, processing, dedup, proc, runs>>

Live == Range(pool) \cup Range(queue) \cup {log.buf, proc.buf}

\* Mutant: the pool is never popped.
GetUnlockFresh ==
  /\ log.pc = "locked"
  /\ Buffers \ Live # {}
  /\ LET b == CHOOSE b \in Buffers \ Live : TRUE IN
       /\ log' = [log EXCEPT !.pc = "send", !.buf = b]
       /\ mem' = [mem EXCEPT ![b] = <<log.line>>]
  /\ mutex' = "free"
  /\ UNCHANGED <<pool, queue, closed, processing, dedup, proc, runs>>

\* ... and a buffer popped, or allocated when the pool was empty; the entry is
\* formatted at the end of what the buffer holds.
GetUnlock ==
  /\ log.pc = "locked"
  /\ IF log.seen = <<>>
       THEN /\ Buffers \ Live # {}
            /\ LET b == CHOOSE b \in Buffers \ Live : TRUE IN
                 /\ log' = [log EXCEPT !.pc = "send", !.buf = b]
                 /\ mem' = [mem EXCEPT ![b] = <<log.line>>]
            /\ pool' = pool
       ELSE LET b == log.seen[Len(log.seen)] IN
            /\ log' = [log EXCEPT !.pc = "send", !.buf = b]
            /\ mem' = [mem EXCEPT ![b] = Append(@, log.line)]
            /\ pool' = Front(log.seen)
  /\ mutex' = "free"
  /\ UNCHANGED <<queue, closed, processing, dedup, proc, runs>>

\* b.queue <- buf blocks while the queue is full.  A fresh entry is then done
\* with; a repeat entry leaves log(e) to format e itself.
Send ==
  /\ log.pc = "send" /\ Len(queue) < QueueCap
  /\ queue' = Append(queue, log.buf)
  /\ log' = [log EXCEPT !.pc = "log", !.buf = None, !.k = IF log.line.rep = 0 THEN @ + 1 ELSE @]
  /\ UNCHANGED <<mutex, pool, mem, closed, processing, dedup, proc, runs>>

\* close(b.queue), once everything is logged and flushed.
Close ==
  /\ log.pc = "log" /\ log.k > Len(Script) /\ cnt = 0
  /\ closed' = TRUE
  /\ log' = [log EXCEPT !.pc = "ack"]
  /\ UNCHANGED <<mutex, pool, mem, queue, processing, dedup, proc, runs>>

\* <-b.ack meets b.ack <- true (unbuffered): both goroutines are done, and Run
\* may be called again.
Ack ==
  /\ log.pc = "ack" /\ proc.pc = "ack"
  /\ runs' = runs + 1
  /\ log' = [log EXCEPT !.pc = IF runs + 1 < MaxRuns THEN "start" ELSE "end"]
  /\ proc' = [proc EXCEPT !.pc = "none"]
  /\ UNCHANGED <<shared, processing, dedup>>

-----------------------------------------------------------------------------
(* The processing goroutine. *)

\* b.output.Reset(), in the goroutine and not in Run.
Reset ==
  /\ proc.pc = "reset"
  /\ output' = <<>>
  /\ proc' = [proc EXCEPT !.pc = "range"]
  /\ UNCHANGED <<shared, stats, dedup, log, runs>>

\* for x := range b.queue
Receive ==
  /\ proc.pc = "range" /\ queue # <<>>
  /\ proc' = [proc EXCEPT !.pc = "conceal", !.buf = Head(queue)]
  /\ queue' = Tail(queue)
  /\ UNCHANGED <<mutex, pool, mem, closed, processing, dedup, log, runs>>

\* Mutant: the processing goroutine polls the closed queue for ever.
EndRangePolls == proc.pc = "range" /\ queue = <<>> /\ closed /\ UNCHANGED vars

\* The range ends when the queue is closed and empty.
EndRange ==
  /\ proc.pc = "range" /\ queue = <<>> /\ closed
  /\ proc' = [proc EXCEPT !.pc = "ack"]
  /\ UNCHANGED <<shared, processing, dedup, log, runs>>

\* conceal(x): ReplaceAll returns a new buffer when there is a card to hide,
\* and the old one becomes garbage.
Conceal ==
  /\ proc.pc = "conceal"
  /\ LET x == mem[proc.buf] IN
     IF \E k \in DOMAIN x : HasCard(x[k])
       THEN /\ Buffers \ Live # {}
            /\ LET b == CHOOSE b \in Buffers \ Live : TRUE IN
                 /\ mem' = [mem EXCEPT ![b] =
                      [k \in DOMAIN x |-> [x[k] EXCEPT !.hidden = @ \/ HasCard(x[k])]]]
                 /\ proc' = [proc EXCEPT !.pc = "write", !.buf = b]
       ELSE /\ proc' = [proc EXCEPT !.pc = "write"]
            /\ mem' = mem
  /\ UNCHANGED <<mutex, pool, queue, closed, processing, dedup, log, runs>>

\* b.output.Write(x)
Write ==
  /\ proc.pc = "write"
  /\ output' = output \o mem[proc.buf]
  /\ proc' = [proc EXCEPT !.pc = "stats"]
  /\ UNCHANGED <<shared, stats, dedup, log, runs>>

\* Mutant: repeat lines are not counted.
MaintainStatsFresh ==
  /\ proc.pc = "stats"
  /\ stats' = IF mem[proc.buf] = <<>> \/ mem[proc.buf][1].rep > 0 THEN stats
              ELSE [stats EXCEPT ![mem[proc.buf][1].entry.sev] = @ + 1]
  /\ proc' = [proc EXCEPT !.pc = "put"]
  /\ UNCHANGED <<shared, output, dedup, log, runs>>

\* maintainStats(x) counts the severity of the line that begins the buffer.
MaintainStats ==
  /\ proc.pc = "stats"
  /\ stats' = IF mem[proc.buf] = <<>> THEN stats
              ELSE [stats EXCEPT ![mem[proc.buf][1].entry.sev] = @ + 1]
  /\ proc' = [proc EXCEPT !.pc = "put"]
  /\ UNCHANGED <<shared, output, dedup, log, runs>>

\* Mutant: put does not wait for the mutex.
PutLockFree ==
  /\ proc.pc = "put"
  /\ proc' = [proc EXCEPT !.pc = "locked", !.seen = pool]
  /\ UNCHANGED <<shared, processing, dedup, log, runs>>

\* put(x): the mutex is taken and the pool is read ...
PutLock ==
  /\ proc.pc = "put" /\ mutex = "free"
  /\ mutex' = "proc"
  /\ proc' = [proc EXCEPT !.pc = "locked", !.seen = pool]
  /\ UNCHANGED <<pool, mem, queue, closed, processing, dedup, log, runs>>

\* ... and the buffer, emptied, pushed.
PutUnlock ==
  /\ proc.pc = "locked"
  /\ pool' = Append(proc.seen, proc.buf)
  /\ mem' = [mem EXCEPT ![proc.buf] = <<>>]
  /\ proc' = [proc EXCEPT !.pc = "range", !.buf = None]
  /\ mutex' = "free"
  /\ UNCHANGED <<queue, closed, processing, dedup, log, runs>>

-----------------------------------------------------------------------------
Logger == \/ StartRun \/ Repeated \/ Flush \/ Fresh
          \/ GetLock \/ GetUnlock \/ Send \/ Close \/ Ack
Processor == \/ Reset \/ Receive \/ EndRange \/ Conceal
             \/ Write \/ MaintainStats \/ PutLock \/ PutUnlock
Terminated == log.pc = "end" /\ UNCHANGED vars

Next == Logger \/ Processor \/ Terminated

\* Both goroutines are runnable whenever they can take a step.
Fairness == WF_vars(Logger) /\ WF_vars(Processor)

Spec == Init /\ [][Next]_vars
FairSpec == Spec /\ Fairness

-----------------------------------------------------------------------------
(* Properties. *)

\* No buffer is at two places at once: it is in the pool, in the queue, being
\* filled or being processed, never written while the other goroutine reads it.
OwnedOnce ==
  /\ IsInjective(pool \o queue)
  /\ Range(pool) \cap Range(queue) = {}
  /\ {log.buf, proc.buf} \cap (Range(pool) \cup Range(queue)) = {}
  /\ log.buf = proc.buf => log.buf = None
  /\ \A b \in Range(pool) : mem[b] = <<>>

\* The pool feeds on what was in flight: the queue, the logger and the
\* processor bound the buffers ever alive, whatever the number of calls of Run.
BuffersBounded == Cardinality(Live \ {None}) <= QueueCap + 2

\* Whatever the two goroutines interleave, the calls of Run do what LogSink says:
\* the output and the statistics of each call are those of the whole script,
\* deduplicated, in order, with the cards hidden, each line counted once, with
\* nothing left from an earlier call.
Sink == INSTANCE LogSink WITH
  busy <- proc.pc \notin {"none", "reset"},
  pending <- proc.pc = "stats"
ImplementsSink == Sink!Spec

\* Every call of Run returns: neither goroutine waits for the other for ever.
Completion == <>(log.pc = "end")
=============================================================================
