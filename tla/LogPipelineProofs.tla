-------------------------- MODULE LogPipelineProofs --------------------------
(***************************************************************************)
(* Who owns the buffers of the log benchmark, and how many there are, for  *)
(* every script, every capacity of the queue, every number of calls of Run *)
(* and every supply of buffers; and that the benchmark implements LogSink. *)
(***************************************************************************)
EXTENDS LogPipeline, TLAPS, SequenceTheorems, FiniteSetTheorems, WellFoundedInduction

Holding == {"conceal", "write", "stats", "put", "locked"}
Held(b) == IF b = None THEN 0 ELSE 1

\* The places where a buffer can be; a hand is empty but between a pop and a
\* push, and both goroutines are done between two calls of Run.
PlaceInv ==
  /\ pool \in Seq(Buffers) /\ queue \in Seq(Buffers)
  /\ DOMAIN mem = Buffers
  /\ log = [pc |-> log.pc, k |-> log.k, line |-> log.line, buf |-> log.buf, seen |-> log.seen]
  /\ proc = [pc |-> proc.pc, buf |-> proc.buf, seen |-> proc.seen]
  /\ log.pc \in {"start", "end"} => proc.pc = "none"
  /\ IF log.pc = "send" THEN log.buf \in Buffers ELSE log.buf = None
  /\ IF proc.pc \in Holding THEN proc.buf \in Buffers ELSE proc.buf = None

\* A goroutine between its lock and its unlock has the mutex, and what it has
\* read of the pool is the pool.
LockInv ==
  /\ log.pc = "locked" => mutex = "log" /\ log.seen = pool
  /\ proc.pc = "locked" => mutex = "proc" /\ proc.seen = pool

\* No buffer is at two places, and those of the pool are empty.
OwnInv ==
  /\ \A i, j \in DOMAIN pool : pool[i] = pool[j] => i = j
  /\ \A i, j \in DOMAIN queue : queue[i] = queue[j] => i = j
  /\ \A i \in DOMAIN pool : \A j \in DOMAIN queue : pool[i] # queue[j]
  /\ \A i \in DOMAIN pool : pool[i] \notin {log.buf, proc.buf} /\ mem[pool[i]] = <<>>
  /\ \A j \in DOMAIN queue : queue[j] \notin {log.buf, proc.buf}
  /\ log.buf = proc.buf => log.buf = None

\* A buffer is made only when the pool is empty, so that the queue and the two
\* hands bound what is alive.
BoundInv ==
  /\ Len(queue) <= QueueCap
  /\ Len(pool) + Len(queue) + Held(log.buf) + Held(proc.buf) <= QueueCap + 2

LogInv == PlaceInv /\ LockInv /\ OwnInv /\ BoundInv

-----------------------------------------------------------------------------
\* What the proofs need of the constants.
LEMMA Constants == QueueCap \in Nat \ {0} /\ None \notin Buffers
BY LogAssumption

\* Run starts with an empty pool, an empty queue and empty hands.
LEMMA LogInvInit == Init => LogInv
<1> SUFFICES ASSUME Init PROVE LogInv
  OBVIOUS
<1>1. PlaceInv
  BY DEF Init, PlaceInv, Holding, Line
<1>2. LockInv
  BY DEF Init, LockInv
<1>3. OwnInv
  BY DEF Init, OwnInv
<1>4. BoundInv
  BY Constants DEF Init, BoundInv, Held
<1> QED
  BY <1>1, <1>2, <1>3, <1>4 DEF LogInv

\* The actions that move no buffer and take no lock: the fields they change are
\* those that say how far a goroutine is.
Still ==
  /\ UNCHANGED <<mutex, pool, mem>>
  /\ queue' \in {queue, <<>>}
  /\ log'.buf = log.buf /\ proc'.buf = proc.buf
  /\ \/ log' = log
     \/ {log.pc, log'.pc} \cap {"locked", "send"} = {}
  /\ \/ proc' = proc
     \/ /\ proc.pc # "locked" /\ proc'.pc # "locked"
        /\ proc.pc \in Holding <=> proc'.pc \in Holding
  /\ log'.pc \in {"start", "end"} => proc'.pc = "none"
  /\ log' = [pc |-> log'.pc, k |-> log'.k, line |-> log'.line, buf |-> log'.buf, seen |-> log'.seen]
  /\ proc' = [pc |-> proc'.pc, buf |-> proc'.buf, seen |-> proc'.seen]

\* Such an action keeps the invariant, whatever else it does.
LEMMA StillInv ==
  ASSUME LogInv, Still
  PROVE  LogInv'
<1>1. PlaceInv'
  <2>1. queue' \in Seq(Buffers)
    BY EmptySeq DEF LogInv, PlaceInv, Still
  <2> QED
    BY <2>1 DEF LogInv, PlaceInv, Still
<1>2. LockInv'
  BY DEF LogInv, LockInv, Still
<1>3. OwnInv'
  BY DEF LogInv, OwnInv, Still
<1>4. BoundInv'
  BY Constants DEF LogInv, BoundInv, PlaceInv, Still, Held
<1> QED
  BY <1>1, <1>2, <1>3, <1>4 DEF LogInv

\* The logging goroutine between the operations on buffers.
LEMMA LoggerStill ==
  ASSUME LogInv, StartRun \/ Repeated \/ Flush \/ Fresh \/ Close \/ Ack \/ UNCHANGED vars
  PROVE  LogInv'
<1>1. Still
  <2>1. CASE StartRun
    BY <2>1 DEF StartRun, Still, LogInv, PlaceInv, Holding
  <2>2. CASE Repeated
    BY <2>2 DEF Repeated, Still, LogInv, PlaceInv, shared
  <2>3. CASE Flush
    BY <2>3 DEF Flush, LogEntry, Still, LogInv, PlaceInv, shared
  <2>4. CASE Fresh
    BY <2>4 DEF Fresh, LogEntry, Still, LogInv, PlaceInv, shared
  <2>5. CASE Close
    BY <2>5 DEF Close, Still, LogInv, PlaceInv
  <2>6. CASE Ack
    BY <2>6 DEF Ack, Still, LogInv, PlaceInv, shared, Holding
  <2>7. CASE UNCHANGED vars
    BY <2>7 DEF vars, Still, LogInv, PlaceInv
  <2> QED
    BY <2>1, <2>2, <2>3, <2>4, <2>5, <2>6, <2>7
<1> QED
  BY <1>1, StillInv

-----------------------------------------------------------------------------
\* The processing goroutine between the operations on buffers.
LEMMA ProcessorStill ==
  ASSUME LogInv, Reset \/ EndRange \/ Write \/ MaintainStats
  PROVE  LogInv'
<1>1. Still
  <2>1. CASE Reset
    BY <2>1 DEF Reset, Still, LogInv, PlaceInv, shared, Holding
  <2>2. CASE EndRange
    BY <2>2 DEF EndRange, Still, LogInv, PlaceInv, shared, Holding
  <2>3. CASE Write
    BY <2>3 DEF Write, Still, LogInv, PlaceInv, shared, Holding
  <2>4. CASE MaintainStats
    BY <2>4 DEF MaintainStats, Still, LogInv, PlaceInv, shared, Holding
  <2> QED
    BY <2>1, <2>2, <2>3, <2>4
<1> QED
  BY <1>1, StillInv

\* get(): the lock.
LEMMA GetLockInv ==
  ASSUME LogInv, GetLock
  PROVE  LogInv'
<1>1. PlaceInv'
  BY DEF LogInv, PlaceInv, GetLock
<1>2. LockInv'
  BY DEF LogInv, LockInv, PlaceInv, GetLock
<1>3. OwnInv'
  BY DEF LogInv, OwnInv, PlaceInv, GetLock
<1>4. BoundInv'
  BY DEF LogInv, BoundInv, PlaceInv, GetLock, Held
<1> QED
  BY <1>1, <1>2, <1>3, <1>4 DEF LogInv

\* put(x): the lock.
LEMMA PutLockInv ==
  ASSUME LogInv, PutLock
  PROVE  LogInv'
<1>1. PlaceInv'
  BY DEF LogInv, PlaceInv, PutLock, Holding
<1>2. LockInv'
  BY DEF LogInv, LockInv, PlaceInv, PutLock
<1>3. OwnInv'
  BY DEF LogInv, OwnInv, PlaceInv, PutLock
<1>4. BoundInv'
  BY DEF LogInv, BoundInv, PlaceInv, PutLock, Held
<1> QED
  BY <1>1, <1>2, <1>3, <1>4 DEF LogInv

\* A buffer that the allocator makes is nowhere else.
LEMMA NewBuffer ==
  ASSUME LogInv, Buffers \ Live # {},
         NEW b, b = CHOOSE x \in Buffers \ Live : TRUE
  PROVE  /\ b \in Buffers /\ b \notin {None, log.buf, proc.buf}
         /\ \A i \in DOMAIN pool : pool[i] # b
         /\ \A j \in DOMAIN queue : queue[j] # b
<1>1. b \in Buffers \ Live
  OBVIOUS
<1> QED
  BY <1>1, Constants DEF Live, Range

\* get(): a buffer is made, or popped, and the unlock.
LEMMA GetUnlockInv ==
  ASSUME LogInv, GetUnlock
  PROVE  LogInv'
<1>1. log.pc = "locked" /\ log.seen = pool /\ log.buf = None /\ mutex = "log" /\ proc.pc # "locked"
  BY DEF GetUnlock, LogInv, LockInv, PlaceInv
<1>2. CASE pool = <<>>
  <2> DEFINE b == CHOOSE x \in Buffers \ Live : TRUE
  <2>1. /\ Buffers \ Live # {}
        /\ log' = [log EXCEPT !.pc = "send", !.buf = b]
        /\ mem' = [mem EXCEPT ![b] = <<log.line>>]
        /\ pool' = pool /\ mutex' = "free"
        /\ UNCHANGED <<queue, proc>>
    BY <1>1, <1>2 DEF GetUnlock
  <2>2. /\ b \in Buffers /\ b \notin {None, log.buf, proc.buf}
        /\ \A i \in DOMAIN pool : pool[i] # b
        /\ \A j \in DOMAIN queue : queue[j] # b
    BY <2>1, NewBuffer
  <2> HIDE DEF b
  <2>3. log'.pc = "send" /\ log'.buf = b
    BY <2>1 DEF LogInv, PlaceInv
  <2>4. PlaceInv'
    BY <2>1, <2>2 DEF LogInv, PlaceInv
  <2>5. LockInv'
    BY <1>1, <2>1, <2>3 DEF LogInv, LockInv
  <2>6. OwnInv'
    BY <1>2, <2>1, <2>2, <2>3 DEF LogInv, OwnInv
  <2>7. BoundInv'
    <3>1. Len(pool) = 0 /\ Len(queue) \in Nat
      BY <1>2, LenProperties DEF LogInv, PlaceInv
    <3>2. Len(pool') = 0 /\ queue' = queue /\ proc' = proc
      BY <2>1, <3>1
    <3>3. Len(queue) <= QueueCap /\ Held(proc.buf) <= 1 /\ Held(log'.buf) <= 1
          /\ Held(proc.buf) \in Nat /\ Held(log'.buf) \in Nat
      BY DEF LogInv, BoundInv, Held
    <3> QED
      BY <3>1, <3>2, <3>3, Constants DEF BoundInv
  <2> QED
    BY <2>4, <2>5, <2>6, <2>7 DEF LogInv
<1>3. CASE pool # <<>>
  <2> DEFINE n == Len(pool)
             b == pool[n]
  <2>1. /\ log' = [log EXCEPT !.pc = "send", !.buf = b]
        /\ mem' = [mem EXCEPT ![b] = Append(@, log.line)]
        /\ pool' = SubSeq(pool, 1, n - 1) /\ mutex' = "free"
        /\ UNCHANGED <<queue, proc>>
    BY <1>1, <1>3 DEF GetUnlock, Front
  <2>2. pool \in Seq(Buffers) /\ n \in Nat \ {0} /\ DOMAIN pool = 1..n /\ b \in Buffers
    BY <1>3, EmptySeq, LenProperties, ElementOfSeq DEF LogInv, PlaceInv
  <2>3. /\ pool' \in Seq(Buffers) /\ Len(pool') = n - 1 /\ DOMAIN pool' = 1..n - 1
        /\ \A i \in 1..n - 1 : pool'[i] = pool[i] /\ pool[i] # b
    <3>1. \A i \in 1..n - 1 : pool[i] \in Buffers
      BY <2>2, ElementOfSeq
    <3>2. /\ pool' \in Seq(Buffers) /\ Len(pool') = n - 1
          /\ \A i \in 1..n - 1 : pool'[i] = pool[i]
      BY <2>1, <2>2, <3>1, SubSeqProperties
    <3>3. \A i \in 1..n - 1 : pool[i] # b
      BY <2>2 DEF LogInv, OwnInv
    <3> QED
      BY <3>2, <3>3, LenProperties
  <2>4. b # None /\ b # proc.buf /\ \A j \in DOMAIN queue : queue[j] # b
    BY <2>2, Constants DEF LogInv, OwnInv
  <2> HIDE DEF b, n
  <2>5. log'.pc = "send" /\ log'.buf = b
    BY <2>1 DEF LogInv, PlaceInv
  <2>6. PlaceInv'
    BY <2>1, <2>2, <2>3 DEF LogInv, PlaceInv
  <2>7. LockInv'
    BY <1>1, <2>1, <2>5 DEF LogInv, LockInv
  <2>8. OwnInv'
    <3>1. /\ \A i, j \in DOMAIN pool' : pool'[i] = pool'[j] => i = j
          /\ \A i \in DOMAIN pool' : \A j \in DOMAIN queue : pool'[i] # queue[j]
      BY <2>2, <2>3 DEF LogInv, OwnInv
    <3>2. \A i \in DOMAIN pool' : pool'[i] \notin {b, proc.buf} /\ mem'[pool'[i]] = <<>>
      BY <2>1, <2>2, <2>3 DEF LogInv, OwnInv, PlaceInv
    <3> QED
      BY <2>1, <2>4, <2>5, <3>1, <3>2 DEF LogInv, OwnInv
  <2>9. BoundInv'
    <3>1. Len(pool) = n
      BY DEF n
    <3>2. Len(queue) \in Nat
      BY LenProperties DEF LogInv, PlaceInv
    <3> QED
      BY <1>1, <2>1, <2>2, <2>3, <2>5, <3>1, <3>2, Constants DEF LogInv, BoundInv, Held
  <2> QED
    BY <2>6, <2>7, <2>8, <2>9 DEF LogInv
<1> QED
  BY <1>2, <1>3

\* The queue gets a buffer ...
LEMMA SendInv ==
  ASSUME LogInv, Send
  PROVE  LogInv'
<1> DEFINE b == log.buf
           n == Len(queue)
<1>1. /\ log.pc = "send" /\ b \in Buffers /\ n < QueueCap
      /\ queue' = Append(queue, b)
      /\ UNCHANGED <<mutex, pool, mem, proc>>
  BY DEF Send, LogInv, PlaceInv
<1>2. log'.pc = "log" /\ log'.buf = None
  BY DEF Send, LogInv, PlaceInv
<1>3. /\ queue \in Seq(Buffers) /\ n \in Nat /\ DOMAIN queue = 1..n
      /\ queue' \in Seq(Buffers) /\ Len(queue') = n + 1 /\ DOMAIN queue' = 1..n + 1
      /\ \A j \in 1..n : queue'[j] = queue[j]
      /\ queue'[n + 1] = b
  <2>1. queue \in Seq(Buffers)
    BY DEF LogInv, PlaceInv
  <2> QED
    BY <1>1, <2>1, AppendProperties, LenProperties
<1> HIDE DEF b, n
<1>4. PlaceInv'
  BY <1>1, <1>2, <1>3 DEF Send, LogInv, PlaceInv
<1>5. LockInv'
  BY <1>1, <1>2 DEF LogInv, LockInv
<1>6. OwnInv'
  <2>1. b # None /\ b # proc.buf /\ b = log.buf
    BY <1>1, Constants DEF LogInv, OwnInv, b
  <2>2. \A i \in DOMAIN pool : pool[i] # None
    <3>1. \A i \in 1..Len(pool) : pool[i] \in Buffers
      BY ElementOfSeq DEF LogInv, PlaceInv
    <3>2. DOMAIN pool = 1..Len(pool)
      BY LenProperties DEF LogInv, PlaceInv
    <3> QED
      BY <3>1, <3>2, Constants
  <2>3. \A j \in DOMAIN queue' : queue'[j] \in Buffers
    BY <1>3, ElementOfSeq
  <2>4. \A i, j \in DOMAIN queue' : queue'[i] = queue'[j] => i = j
    <3>1. \A j \in 1..n : queue[j] # b
      BY <1>3, <2>1 DEF LogInv, OwnInv
    <3>2. \A i, j \in 1..n : queue[i] = queue[j] => i = j
      BY <1>3 DEF LogInv, OwnInv
    <3> QED
      BY <1>3, <3>1, <3>2
  <2>5. \A i \in DOMAIN pool : \A j \in DOMAIN queue' : pool[i] # queue'[j]
    BY <1>3, <2>1 DEF LogInv, OwnInv
  <2>6. \A j \in DOMAIN queue' : queue'[j] # proc.buf
    BY <1>3, <2>1 DEF LogInv, OwnInv
  <2> QED
    BY <1>1, <1>2, <2>2, <2>3, <2>4, <2>5, <2>6, Constants DEF LogInv, OwnInv
<1>7. BoundInv'
  <2>1. Len(pool) \in Nat /\ n = Len(queue) /\ b = log.buf
    BY LenProperties DEF LogInv, PlaceInv, b, n
  <2> QED
    BY <1>1, <1>2, <1>3, <2>1, Constants DEF LogInv, BoundInv, Held
<1> QED
  BY <1>4, <1>5, <1>6, <1>7 DEF LogInv

\* ... and loses the first one.
LEMMA ReceiveInv ==
  ASSUME LogInv, Receive
  PROVE  LogInv'
<1> DEFINE b == Head(queue)
           n == Len(queue)
<1>1. /\ proc.pc = "range" /\ queue # <<>> /\ proc.buf = None
      /\ queue' = Tail(queue)
      /\ UNCHANGED <<mutex, pool, mem, log>>
  BY DEF Receive, LogInv, PlaceInv, Holding
<1>2. proc'.pc = "conceal" /\ proc'.buf = b
  BY DEF Receive, LogInv, PlaceInv
<1>3. /\ n \in Nat \ {0} /\ DOMAIN queue = 1..n /\ b \in Buffers /\ b = queue[1]
      /\ queue' \in Seq(Buffers) /\ Len(queue') = n - 1 /\ DOMAIN queue' = 1..n - 1
      /\ \A j \in 1..n - 1 : queue'[j] = queue[j + 1]
  <2>1. queue \in Seq(Buffers)
    BY DEF LogInv, PlaceInv
  <2>2. b = queue[1]
    BY <1>1, <2>1
  <2> QED
    BY <1>1, <2>1, <2>2, EmptySeq, HeadTailProperties, LenProperties
<1> HIDE DEF b, n
<1>4. PlaceInv'
  BY <1>1, <1>2, <1>3 DEF Receive, LogInv, PlaceInv, Holding
<1>5. LockInv'
  BY <1>1, <1>2 DEF LogInv, LockInv
<1>6. OwnInv'
  <2>1. 1 \in DOMAIN queue /\ \A j \in DOMAIN queue' : j + 1 \in DOMAIN queue /\ j + 1 # 1
    BY <1>3
  <2>2. b # log.buf /\ \A i \in DOMAIN pool : pool[i] # b
    BY <1>3, <2>1 DEF LogInv, OwnInv
  <2>3. \A j \in DOMAIN queue' : queue'[j] # b /\ queue'[j] # log.buf
    BY <1>3, <2>1 DEF LogInv, OwnInv
  <2>4. \A i, j \in DOMAIN queue' : queue'[i] = queue'[j] => i = j
    <3> SUFFICES ASSUME NEW i \in DOMAIN queue', NEW j \in DOMAIN queue', queue'[i] = queue'[j]
                 PROVE  i = j
      OBVIOUS
    <3>1. queue[i + 1] = queue[j + 1]
      BY <1>3
    <3>2. i + 1 = j + 1
      BY <2>1, <3>1 DEF LogInv, OwnInv
    <3> QED
      BY <1>3, <3>2
  <2>5. \A i \in DOMAIN pool : \A j \in DOMAIN queue' : pool[i] # queue'[j]
    BY <1>3, <2>1 DEF LogInv, OwnInv
  <2> QED
    BY <1>1, <1>2, <1>3, <2>2, <2>3, <2>4, <2>5, Constants DEF LogInv, OwnInv
<1>7. BoundInv'
  <2>1. Len(pool) \in Nat /\ n = Len(queue)
    BY LenProperties DEF LogInv, PlaceInv, n
  <2> QED
    BY <1>1, <1>2, <1>3, <2>1, Constants DEF LogInv, BoundInv, Held
<1> QED
  BY <1>4, <1>5, <1>6, <1>7 DEF LogInv

\* conceal(x): the buffer in hand stays, or a new one takes its place.
LEMMA ConcealInv ==
  ASSUME LogInv, Conceal
  PROVE  LogInv'
<1>1. /\ proc.pc = "conceal" /\ proc'.pc = "write" /\ proc.buf \in Buffers
      /\ UNCHANGED <<mutex, pool, queue, log>>
      /\ proc' = [pc |-> proc'.pc, buf |-> proc'.buf, seen |-> proc'.seen]
  BY DEF Conceal, LogInv, PlaceInv, Holding
<1> DEFINE b == proc'.buf
<1>2. /\ b \in Buffers /\ b # log.buf
      /\ \A i \in DOMAIN pool : pool[i] # b /\ mem'[pool[i]] = <<>>
      /\ \A j \in DOMAIN queue : queue[j] # b
      /\ DOMAIN mem' = Buffers
  <2> DEFINE x == mem[proc.buf]
  <2>1. CASE \E k \in DOMAIN x : HasCard(x[k])
    <3> DEFINE c == CHOOSE y \in Buffers \ Live : TRUE
               masked == [k \in DOMAIN x |-> [x[k] EXCEPT !.hidden = @ \/ HasCard(x[k])]]
    <3>1. /\ Buffers \ Live # {}
          /\ mem' = [mem EXCEPT ![c] = masked]
          /\ proc' = [proc EXCEPT !.pc = "write", !.buf = c]
      BY <2>1 DEF Conceal
    <3>2. /\ c \in Buffers /\ c \notin {None, log.buf, proc.buf}
          /\ \A i \in DOMAIN pool : pool[i] # c
          /\ \A j \in DOMAIN queue : queue[j] # c
      BY <3>1, NewBuffer
    <3> HIDE DEF c, masked
    <3>3. b = c
      BY <3>1 DEF LogInv, PlaceInv
    <3> QED
      BY <3>1, <3>2, <3>3 DEF LogInv, OwnInv, PlaceInv
  <2>2. CASE ~ \E k \in DOMAIN x : HasCard(x[k])
    <3>1. mem' = mem /\ proc' = [proc EXCEPT !.pc = "write"]
      BY <2>2 DEF Conceal
    <3>2. b = proc.buf
      BY <3>1 DEF LogInv, PlaceInv
    <3> QED
      BY <1>1, <3>1, <3>2, Constants DEF LogInv, OwnInv, PlaceInv
  <2> QED
    BY <2>1, <2>2
<1> HIDE DEF b
<1>3. PlaceInv'
  BY <1>1, <1>2 DEF LogInv, PlaceInv, Holding, b
<1>4. LockInv'
  BY <1>1 DEF LogInv, LockInv
<1>5. OwnInv'
  BY <1>1, <1>2 DEF LogInv, OwnInv, b
<1>6. BoundInv'
  BY <1>1, <1>2, Constants DEF LogInv, BoundInv, Held, b
<1> QED
  BY <1>3, <1>4, <1>5, <1>6 DEF LogInv

\* put(x): the push and the unlock.
LEMMA PutUnlockInv ==
  ASSUME LogInv, PutUnlock
  PROVE  LogInv'
<1> DEFINE b == proc.buf
           n == Len(pool)
<1>1. /\ proc.pc = "locked" /\ mutex = "proc" /\ proc.seen = pool /\ b \in Buffers
      /\ pool' = Append(pool, b)
      /\ mem' = [mem EXCEPT ![b] = <<>>]
      /\ UNCHANGED <<queue, log>>
  BY DEF PutUnlock, LogInv, LockInv, PlaceInv, Holding
<1>2. proc'.pc = "range" /\ proc'.buf = None
  BY DEF PutUnlock, LogInv, PlaceInv
<1>3. /\ n \in Nat /\ DOMAIN pool = 1..n
      /\ pool' \in Seq(Buffers) /\ Len(pool') = n + 1 /\ DOMAIN pool' = 1..n + 1
      /\ \A i \in 1..n : pool'[i] = pool[i]
      /\ pool'[n + 1] = b
  <2>1. pool \in Seq(Buffers)
    BY DEF LogInv, PlaceInv
  <2> QED
    BY <1>1, <2>1, AppendProperties, LenProperties
<1>4. /\ b # None /\ b # log.buf
      /\ \A i \in 1..n : pool[i] # b /\ mem[pool[i]] = <<>> /\ pool[i] # log.buf
      /\ \A j \in DOMAIN queue : queue[j] # b
  BY <1>1, <1>3, Constants DEF LogInv, OwnInv
<1>5. \A i \in DOMAIN pool' : pool'[i] \in Buffers
  BY <1>3, ElementOfSeq
<1>6. \A j \in DOMAIN queue : queue[j] \in Buffers
  BY ElementOfSeq, LenProperties DEF LogInv, PlaceInv
<1>7. log.pc # "locked"
  BY <1>1 DEF LogInv, LockInv
<1> HIDE DEF n
<1>8. PlaceInv'
  <2> HIDE DEF b
  <2> QED
    BY <1>1, <1>2, <1>3 DEF PutUnlock, LogInv, PlaceInv, Holding
<1>9. LockInv'
  BY <1>1, <1>2, <1>7 DEF LogInv, LockInv
<1>10. OwnInv'
  <2>1. \A i, j \in DOMAIN pool' : pool'[i] = pool'[j] => i = j
    <3>1. \A i, j \in 1..n : pool[i] = pool[j] => i = j
      BY <1>3 DEF LogInv, OwnInv
    <3> QED
      BY <1>3, <1>4, <3>1
  <2>2. \A i \in DOMAIN pool' : \A j \in DOMAIN queue : pool'[i] # queue[j]
    BY <1>3, <1>4 DEF LogInv, OwnInv
  <2>3. \A i \in DOMAIN pool' : pool'[i] # log.buf /\ mem'[pool'[i]] = <<>>
    <3>1. \A i \in 1..n : pool[i] \in DOMAIN mem
      BY <1>3, <1>5 DEF LogInv, PlaceInv
    <3> QED
      BY <1>1, <1>3, <1>4, <3>1 DEF LogInv, PlaceInv
  <2> QED
    BY <1>1, <1>2, <1>5, <1>6, <2>1, <2>2, <2>3, Constants DEF LogInv, OwnInv
<1>11. BoundInv'
  <2>1. Len(queue) \in Nat /\ n = Len(pool)
    BY LenProperties DEF LogInv, PlaceInv, n
  <2> QED
    BY <1>1, <1>2, <1>3, <1>4, <2>1, Constants DEF LogInv, BoundInv, Held
<1> QED
  BY <1>8, <1>9, <1>10, <1>11 DEF LogInv

-----------------------------------------------------------------------------
\* The pool, the queue and the hands of the two goroutines (get, put, conceal
\* and the queue of Run) keep the invariant whatever the interleaving.
THEOREM LogInvariant == Spec => []LogInv
<1>1. LogInv /\ [Next]_vars => LogInv'
  <2> SUFFICES ASSUME LogInv, [Next]_vars PROVE LogInv'
    OBVIOUS
  <2>1. CASE Logger
    BY <2>1, LoggerStill, GetLockInv, GetUnlockInv, SendInv DEF Logger
  <2>2. CASE Processor
    BY <2>2, ProcessorStill, ReceiveInv, ConcealInv, PutLockInv, PutUnlockInv DEF Processor
  <2>3. CASE Terminated \/ UNCHANGED vars
    BY <2>3, LoggerStill DEF Terminated
  <2> QED
    BY <2>1, <2>2, <2>3 DEF Next
<1> QED
  BY <1>1, LogInvInit, PTL DEF Spec

\* A buffer is never at two places: in the pool, in the queue, being filled by
\* log or being processed by processLogs; those of the pool are empty.
THEOREM LogOwnedOnce == Spec => []OwnedOnce
<1>1. LogInv => OwnedOnce
  <2> SUFFICES ASSUME LogInv PROVE OwnedOnce
    OBVIOUS
  <2> DEFINE m == Len(pool)
             n == Len(queue)
             both == pool \o queue
  <2>1. /\ pool \in Seq(Buffers) /\ queue \in Seq(Buffers)
        /\ m \in Nat /\ n \in Nat /\ DOMAIN pool = 1..m /\ DOMAIN queue = 1..n
    BY LenProperties DEF LogInv, PlaceInv
  <2>2. /\ DOMAIN both = 1..m + n
        /\ \A i \in 1..m + n : both[i] = IF i <= m THEN pool[i] ELSE queue[i - m]
    BY <2>1, ConcatProperties, LenProperties
  <2> HIDE DEF m, n, both
  <2>3. IsInjective(both)
    <3> SUFFICES ASSUME NEW i \in 1..m + n, NEW j \in 1..m + n, both[i] = both[j]
                 PROVE  i = j
      BY <2>2 DEF IsInjective
    <3>1. CASE i <= m /\ j <= m
      BY <2>1, <2>2, <3>1 DEF LogInv, OwnInv
    <3>2. CASE i > m /\ j > m
      <4>1. i - m \in 1..n /\ j - m \in 1..n /\ queue[i - m] = queue[j - m]
        BY <2>1, <2>2, <3>2
      <4>2. i - m = j - m
        BY <2>1, <4>1 DEF LogInv, OwnInv
      <4> QED
        BY <2>1, <4>2
    <3>3. CASE i <= m /\ j > m
      <4>1. i \in 1..m /\ j - m \in 1..n /\ pool[i] = queue[j - m]
        BY <2>1, <2>2, <3>3
      <4> QED
        BY <2>1, <4>1 DEF LogInv, OwnInv
    <3>4. CASE i > m /\ j <= m
      <4>1. j \in 1..m /\ i - m \in 1..n /\ pool[j] = queue[i - m]
        BY <2>1, <2>2, <3>4
      <4> QED
        BY <2>1, <4>1 DEF LogInv, OwnInv
    <3> QED
      BY <2>1, <3>1, <3>2, <3>3, <3>4
  <2> QED
    BY <2>3 DEF OwnedOnce, LogInv, OwnInv, Range, both
<1> QED
  BY <1>1, LogInvariant, PTL

\* A set that a sequence lists has no more elements than the sequence.
LEMMA RangeSmall ==
  ASSUME NEW S, NEW s \in Seq(S)
  PROVE  IsFiniteSet(Range(s)) /\ Cardinality(Range(s)) <= Len(s)
<1>1. s \in [1..Len(s) -> S] /\ DOMAIN s = 1..Len(s) /\ Len(s) \in Nat
  BY LenProperties
<1>2. s \in Surjection(1..Len(s), Range(s))
  BY <1>1 DEF Surjection, Range
<1>3. IsFiniteSet(1..Len(s)) /\ Cardinality(1..Len(s)) = Len(s)
  <2>1. \A n \in Nat : IsFiniteSet(1..n) /\ Cardinality(1..n) = IF 1 > n THEN 0 ELSE n - 1 + 1
    BY FS_Interval
  <2>2. \A n \in Nat : (IF 1 > n THEN 0 ELSE n - 1 + 1) = n
    OBVIOUS
  <2> QED
    BY <1>1, <2>1, <2>2
<1> QED
  BY <1>2, <1>3, FS_Surjection

\* However many calls of Run, there are never more buffers than the queue has
\* slots, and one for each goroutine.
THEOREM LogBuffersBounded == Spec => []BuffersBounded
<1>1. LogInv => BuffersBounded
  <2> SUFFICES ASSUME LogInv PROVE Cardinality(Live \ {None}) <= QueueCap + 2
    BY DEF BuffersBounded
  <2> DEFINE P == Range(pool)
             Q == Range(queue)
             hand(b) == IF b = None THEN {} ELSE {b}
  <2>1. /\ IsFiniteSet(P) /\ Cardinality(P) <= Len(pool) /\ Len(pool) \in Nat
        /\ IsFiniteSet(Q) /\ Cardinality(Q) <= Len(queue) /\ Len(queue) \in Nat
    BY RangeSmall, LenProperties DEF LogInv, PlaceInv
  <2>2. \A b : IsFiniteSet(hand(b)) /\ Cardinality(hand(b)) = Held(b)
    BY FS_Singleton, FS_EmptySet DEF Held
  <2>3. None \notin P /\ None \notin Q
    BY Constants, ElementOfSeq, LenProperties DEF LogInv, PlaceInv, Range
  <2>4. Live \ {None} = (P \cup Q) \cup (hand(log.buf) \cup hand(proc.buf))
    BY <2>3 DEF Live
  <2> HIDE DEF P, Q, hand
  <2>5. \A A, B : IsFiniteSet(A) /\ IsFiniteSet(B) =>
          /\ IsFiniteSet(A \cup B)
          /\ Cardinality(A \cup B) \in Nat
          /\ Cardinality(A \cup B) <= Cardinality(A) + Cardinality(B)
    <3> SUFFICES ASSUME NEW A, NEW B, IsFiniteSet(A), IsFiniteSet(B)
                 PROVE  /\ IsFiniteSet(A \cup B)
                        /\ Cardinality(A \cup B) \in Nat
                        /\ Cardinality(A \cup B) <= Cardinality(A) + Cardinality(B)
      OBVIOUS
    <3>1. IsFiniteSet(A \cap B) /\ IsFiniteSet(A \cup B)
      BY FS_Subset, FS_Union
    <3>2. /\ Cardinality(A) \in Nat /\ Cardinality(B) \in Nat
          /\ Cardinality(A \cap B) \in Nat /\ Cardinality(A \cup B) \in Nat
      BY <3>1, FS_CardinalityType
    <3>3. Cardinality(A \cup B) = Cardinality(A) + Cardinality(B) - Cardinality(A \cap B)
      BY FS_Union
    <3> QED
      BY <3>1, <3>2, <3>3
  <2>6. /\ Cardinality(P) \in Nat /\ Cardinality(Q) \in Nat
        /\ Cardinality(P \cup Q) <= Len(pool) + Len(queue)
        /\ Cardinality(P \cup Q) \in Nat /\ IsFiniteSet(P \cup Q)
    BY <2>1, <2>5, FS_CardinalityType
  <2>7. LET H == hand(log.buf) \cup hand(proc.buf)
        IN  /\ IsFiniteSet(H) /\ Cardinality(H) \in Nat
            /\ Cardinality(H) <= Held(log.buf) + Held(proc.buf)
    BY <2>2, <2>5
  <2>8. /\ Held(log.buf) \in Nat /\ Held(proc.buf) \in Nat
        /\ Len(pool) + Len(queue) + Held(log.buf) + Held(proc.buf) <= QueueCap + 2
    BY DEF LogInv, BoundInv, Held
  <2>9. Cardinality(Live \ {None}) \in Nat
        /\ Cardinality(Live \ {None}) <=
             Cardinality(P \cup Q) + Cardinality(hand(log.buf) \cup hand(proc.buf))
    BY <2>4, <2>5, <2>6, <2>7
  <2> QED
    BY <2>1, <2>6, <2>7, <2>8, <2>9, Constants
<1> QED
  BY <1>1, LogInvariant, PTL

-----------------------------------------------------------------------------
(* The refinement of LogSink. *)

E == Sink!Expected

\* The mark of a line before its card is hidden; the provers want a name for it.
Shown == FALSE
Raw(line) == [line EXCEPT !.hidden = Shown]

\* The lines of the first k entries.
Upto(k) == Len(Sink!LinesTo[k])

Idle == {"start", "end"}
Formatting == {"get", "locked", "send"}

\* What is logged so far, by the position in the script: every line up to the entry
\* before, but the one that ends its group when repeated entries are to be flushed.
DedupInv ==
  /\ log.pc \in {"log", "ack"} \cup Idle \cup Formatting
  /\ log.k \in 1..Len(Script) + 1 /\ cnt \in Nat /\ t \in Nat
  /\ log.pc # "log" => cnt = 0
  /\ log.pc \in Idle => last \in {<<>>, <<Script[Len(Script)]>>}
  /\ log.pc = "ack" => t = Len(E) /\ last = <<Script[Len(Script)]>>
  /\ log.pc = "log" =>
       IF log.k = 1 THEN t = 0 /\ cnt = 0 /\ last # <<Script[1]>>
       ELSE /\ last = <<Script[log.k - 1]>>
            /\ IF cnt > 0 THEN /\ cnt + 1 = Sink!Number(log.k - 1)
                               /\ t = Upto(log.k - 1) - (IF Sink!Ends(log.k - 1) THEN 1 ELSE 0)
               ELSE /\ t = Upto(log.k - 1)
                    /\ Sink!Number(log.k - 1) = 1 \/ Sink!Ends(log.k - 1)
  /\ log.pc \in Formatting =>
       /\ t \in DOMAIN E /\ log.line = Raw(E[t])
       /\ IF log.line.rep = 0
            THEN /\ log.k <= Len(Script) /\ Sink!Begins(log.k)
                 /\ last = <<Script[log.k]>> /\ t = Upto(log.k - 1) + 1
            ELSE /\ log.k > 1 /\ Sink!Ends(log.k - 1)
                 /\ last = <<Script[log.k - 1]>> /\ t = Upto(log.k - 1)

\* The lines written by this call, the one that is going to be, the one that is not
\* sent.
Written == IF proc.pc \in {"none", "reset"} THEN 0 ELSE Len(output)
Taken == IF proc.pc \in {"conceal", "write"} THEN 1 ELSE 0
Unsent == IF log.pc \in Formatting THEN 1 ELSE 0

\* The output, the hand of the processing goroutine, the queue and the line being
\* formatted are in this order the lines logged so far, one to a buffer.
FlowInv ==
  /\ proc.pc \in {"none", "reset", "range", "ack"} \cup Holding
  /\ proc.pc = "none" <=> log.pc \in Idle
  /\ log.pc \in Idle => queue = <<>>
  /\ log.pc \notin Idle => t = Written + Taken + Len(queue) + Unsent
  /\ proc.pc \notin {"none", "reset"} => Len(output) \in Nat /\ output = [n \in 1..Len(output) |-> E[n]]
  /\ \A j \in DOMAIN queue : mem[queue[j]] = <<Raw(E[Written + Taken + j])>>
  /\ log.pc = "send" => mem[log.buf] = <<log.line>>
  /\ proc.pc = "conceal" => mem[proc.buf] = <<Raw(E[Written + 1])>>
  /\ proc.pc = "write" => mem[proc.buf] = <<E[Written + 1]>>
  /\ proc.pc = "stats" => Written > 0 /\ mem[proc.buf] = <<E[Written]>>
  /\ closed => log.pc \in {"ack"} \cup Idle
  /\ proc.pc = "ack" => queue = <<>> /\ log.pc = "ack"

-----------------------------------------------------------------------------
(* The lines of the script. *)

\* Induction over the naturals, for sets of naturals.
LEMMA NaturalsBySet ==
  ASSUME NEW S, 0 \in S, \A n \in Nat : n \in S => n + 1 \in S
  PROVE  \A n \in Nat : n \in S
<1> DEFINE T == Nat \ S
<1>1. SUFFICES ASSUME T # {} PROVE FALSE
  OBVIOUS
<1>2. PICK x \in T : \A y \in T : ~ (<<y, x>> \in OpToRel(<, Nat))
  BY <1>1, NatLessThanWellFounded, WFMin
<1>3. x \in Nat /\ x # 0
  OBVIOUS
<1>4. x - 1 \in Nat /\ x - 1 < x
  BY <1>3
<1>5. <<x - 1, x>> \in OpToRel(<, Nat)
  BY <1>3, <1>4 DEF OpToRel
<1>6. x - 1 \notin T
  BY <1>2, <1>5
<1> QED
  BY <1>3, <1>4, <1>6

L == Len(Script)

\* What the proofs need of the script.
LEMMA ScriptType ==
  /\ L \in Nat /\ L > 1 /\ DOMAIN Script = 1..L
  /\ \A k \in 1..L : Script[k] \in Range(Script) /\ Script[k].card \in BOOLEAN
  /\ Script[1] # Script[L]
<1>1. Script \in Seq(Range(Script)) /\ Script # <<>> /\ Script[1] # Script[L]
  BY LogAssumption DEF L
<1>2. L \in Nat /\ DOMAIN Script = 1..L
  BY <1>1, LenProperties DEF L
<1>3. L # 0
  BY <1>1, EmptySeq DEF L
<1>4. L # 1
  BY <1>1
<1>5. \A k \in 1..L : Script[k] \in Range(Script) /\ Script[k].card \in BOOLEAN
  BY <1>2, LogAssumption DEF Range
<1> QED
  BY <1>1, <1>2, <1>3, <1>4, <1>5

\* The entries of the group of entry i, up to it.
Group(i) == {j \in 1..i : \A h \in j..i : Script[h] = Script[i]}

LEMMA GroupType ==
  ASSUME NEW i \in 1..L
  PROVE  /\ i \in Group(i) /\ Group(i) \subseteq 1..i
         /\ IsFiniteSet(Group(i)) /\ Cardinality(Group(i)) \in Nat \ {0}
         /\ Sink!Number(i) = Cardinality(Group(i))
<1>1. i \in Group(i) /\ Group(i) \subseteq 1..i /\ i \in Nat
  BY ScriptType DEF Group
<1>2. IsFiniteSet(1..i)
  BY <1>1, FS_Interval
<1>3. IsFiniteSet(Group(i)) /\ Cardinality(Group(i)) \in Nat
  BY <1>1, <1>2, FS_Subset, FS_CardinalityType
<1>4. Cardinality(Group(i)) # 0
  BY <1>1, <1>3, FS_EmptySet
<1>5. Sink!Number(i) = Cardinality(Group(i))
  BY DEF Sink!Number, Group, Sink!Cardinality, Cardinality
<1> QED
  BY <1>1, <1>3, <1>4, <1>5

\* The number of an entry in its group is one more than that of the entry before.
LEMMA NumberNext ==
  ASSUME NEW k \in 1..L
  PROVE  /\ Sink!Number(k) \in Nat \ {0}
         /\ Sink!Begins(k) => Sink!Number(k) = 1
         /\ ~Sink!Begins(k) =>
              /\ k - 1 \in 1..L /\ Script[k - 1] = Script[k] /\ ~Sink!Ends(k - 1)
              /\ Sink!Number(k - 1) \in Nat \ {0}
              /\ Sink!Number(k) = Sink!Number(k - 1) + 1
<1>1. Sink!Number(k) \in Nat \ {0}
  BY GroupType
<1>2. ASSUME Sink!Begins(k) PROVE Sink!Number(k) = 1
  <2>1. ASSUME NEW j \in Group(k), j # k PROVE FALSE
    <3>1. j \in 1..k /\ j < k /\ k # 1 /\ k - 1 \in j..k
      BY <2>1, ScriptType DEF Group
    <3>2. Script[k - 1] = Script[k]
      BY <3>1 DEF Group
    <3> QED
      BY <1>2, <3>1, <3>2 DEF Sink!Begins
  <2>2. Group(k) = {k}
    BY <2>1, GroupType
  <2>3. Cardinality({k}) = 1
    BY FS_Singleton
  <2> QED
    BY <2>2, <2>3, GroupType
<1>3. ASSUME ~Sink!Begins(k)
      PROVE  /\ k - 1 \in 1..L /\ Script[k - 1] = Script[k] /\ ~Sink!Ends(k - 1)
             /\ Sink!Number(k - 1) \in Nat \ {0}
             /\ Sink!Number(k) = Sink!Number(k - 1) + 1
  <2>1. k - 1 \in 1..L /\ Script[k - 1] = Script[k] /\ k - 1 # L /\ (k - 1) + 1 = k
    BY <1>3, ScriptType DEF Sink!Begins
  <2>2. ~Sink!Ends(k - 1)
    BY <2>1 DEF Sink!Ends, L
  <2>3. ASSUME NEW j \in Group(k), j # k PROVE j \in Group(k - 1)
    <3>1. j \in 1..k - 1
      BY <2>3, ScriptType DEF Group
    <3>2. ASSUME NEW h \in j..k - 1 PROVE Script[h] = Script[k - 1]
      <4>1. h \in j..k
        BY <3>1, ScriptType
      <4> QED
        BY <2>1, <4>1 DEF Group
    <3> QED
      BY <3>1, <3>2 DEF Group
  <2>4. ASSUME NEW j \in Group(k - 1) PROVE j \in Group(k)
    <3>1. j \in 1..k
      BY ScriptType DEF Group
    <3>2. ASSUME NEW h \in j..k PROVE Script[h] = Script[k]
      <4>1. h \in j..k - 1 \/ h = k
        BY <3>1, ScriptType
      <4> QED
        BY <2>1, <4>1 DEF Group
    <3> QED
      BY <3>1, <3>2 DEF Group
  <2>5. Group(k) = Group(k - 1) \cup {k}
    BY <2>3, <2>4, GroupType
  <2>6. k \notin Group(k - 1)
    BY ScriptType DEF Group
  <2>7. IsFiniteSet(Group(k - 1)) /\ Cardinality(Group(k - 1)) \in Nat \ {0}
    BY <2>1, GroupType
  <2>8. Cardinality(Group(k)) = Cardinality(Group(k - 1)) + 1
    BY <2>5, <2>6, <2>7, FS_AddElement
  <2>9. Sink!Number(k) = Cardinality(Group(k)) /\ Sink!Number(k - 1) = Cardinality(Group(k - 1))
    BY <2>1, GroupType
  <2> QED
    BY <2>1, <2>2, <2>7, <2>8, <2>9
<1> QED
  BY <1>1, <1>2, <1>3

\* The recursive function of LogSink is what its equation says.
LEMMA LinesDef ==
  /\ Sink!LinesTo[0] = <<>>
  /\ \A k \in 1..L : Sink!LinesTo[k] = Sink!Again(Sink!Once(Sink!LinesTo[k - 1], k), k)
<1> DEFINE Step(f, k) == IF k = 0 THEN <<>> ELSE Sink!Again(Sink!Once(f[k - 1], k), k)
           Is(f, n) == f = [k \in 0..n |-> Step(f, k)]
           S == {n \in Nat : \E f : Is(f, n)}
<1>1. \A f, g : \A k \in Nat : (k # 0 => f[k - 1] = g[k - 1]) => Step(f, k) = Step(g, k)
  OBVIOUS
<1>2. Sink!LinesTo = CHOOSE f : Is(f, L)
  BY DEF Sink!LinesTo, L
<1>3. \A f : Step(f, 0) = <<>>
  OBVIOUS
<1>4. \A f : \A k \in 1..L : Step(f, k) = Sink!Again(Sink!Once(f[k - 1], k), k)
  OBVIOUS
<1> HIDE DEF Step
<1>5. 0 \in S
  <2> DEFINE g == [k \in 0..0 |-> Step(<<>>, k)]
  <2>1. \A k \in 0..0 : Step(g, k) = Step(<<>>, k)
    BY <1>1
  <2>2. Is(g, 0)
    BY <2>1
  <2> QED
    BY <2>2
<1>6. ASSUME NEW n \in Nat, n \in S PROVE n + 1 \in S
  <2>1. PICK f : Is(f, n)
    BY <1>6
  <2> DEFINE g == [k \in 0..n + 1 |-> IF k = n + 1 THEN Step(f, k) ELSE f[k]]
  <2>2. \A k \in 0..n + 1 : g[k] = Step(g, k)
    <3> SUFFICES ASSUME NEW k \in 0..n + 1 PROVE g[k] = Step(g, k)
      OBVIOUS
    <3>1. k # 0 => g[k - 1] = f[k - 1]
      OBVIOUS
    <3>2. Step(g, k) = Step(f, k)
      BY <1>1, <3>1
    <3>3. k # n + 1 => f[k] = Step(f, k)
      BY <2>1
    <3> QED
      BY <3>2, <3>3
  <2>3. Is(g, n + 1)
    BY <2>2
  <2> HIDE DEF g, Is
  <2> QED
    BY <2>3
<1> HIDE DEF Is
<1>7. \A n \in Nat : n \in S
  <2> HIDE DEF S
  <2> QED
    BY <1>5, <1>6, NaturalsBySet
<1>8. Is(Sink!LinesTo, L)
  BY <1>2, <1>7, ScriptType
<1>9. \A k \in 0..L : Sink!LinesTo[k] = Step(Sink!LinesTo, k)
  BY <1>8 DEF Is
<1>10. Sink!LinesTo[0] = <<>>
  BY <1>3, <1>9, ScriptType
<1>11. ASSUME NEW k \in 1..L
       PROVE  Sink!LinesTo[k] = Sink!Again(Sink!Once(Sink!LinesTo[k - 1], k), k)
  <2>1. k \in 0..L
    BY ScriptType
  <2>2. Sink!LinesTo[k] = Step(Sink!LinesTo, k)
    BY <1>9, <2>1
  <2> QED
    BY <1>4, <2>2
<1> QED
  BY <1>10, <1>11

\* A sequence with one more line.
LEMMA OneMore ==
  ASSUME NEW S, NEW s \in Seq(S), NEW x \in S
  PROVE  /\ Append(s, x) \in Seq(S) /\ Len(s) \in Nat
         /\ Len(Append(s, x)) = Len(s) + 1
         /\ Append(s, x)[Len(s) + 1] = x
         /\ \A n \in 1..Len(s) : Append(s, x)[n] = s[n]
  OBVIOUS

\* The lines of entry k: the entry when it begins a group, else the number of the
\* group when it ends it.
NewLine(k) ==
  IF Sink!Begins(k)
    THEN [t |-> Upto(k - 1) + 1, entry |-> Script[k], rep |-> 0, hidden |-> Script[k].card]
    ELSE [t |-> Upto(k - 1) + 1, entry |-> Script[k], rep |-> Sink!Number(k), hidden |-> Shown]
Speaks(k) == Sink!Begins(k) \/ Sink!Ends(k)

\* The lines that a call can write: the card of an entry is hidden, a repeat line has
\* none.
Said == {line \in Lines : line.hidden <=> line.entry.card /\ line.rep = 0}

LEMMA LinesNext ==
  ASSUME NEW k \in 1..L, Sink!LinesTo[k - 1] \in Seq(Said)
  PROVE  /\ Sink!LinesTo[k] \in Seq(Said)
         /\ Speaks(k) => NewLine(k) \in Said /\ Sink!LinesTo[k] = Append(Sink!LinesTo[k - 1], NewLine(k))
         /\ ~Speaks(k) => Sink!LinesTo[k] = Sink!LinesTo[k - 1]
<1> DEFINE s == Sink!LinesTo[k - 1]
<1>1. s \in Seq(Said) /\ Len(s) \in Nat /\ Len(s) + 1 \in Nat /\ Len(s) = Upto(k - 1)
  BY LenProperties DEF Upto
<1>2. Script[k] \in Range(Script) /\ Script[k].card \in BOOLEAN
  BY ScriptType
<1>3. Sink!LinesTo[k] = Sink!Again(Sink!Once(s, k), k)
  BY LinesDef
<1>4. NewLine(k) \in Said
  <2>1. NewLine(k) \in Lines
    BY <1>1, <1>2, NumberNext DEF NewLine, Lines, Shown
  <2>2. NewLine(k).hidden <=> NewLine(k).entry.card /\ NewLine(k).rep = 0
    BY NumberNext DEF NewLine, Shown
  <2> QED
    BY <2>1, <2>2 DEF Said
<1> HIDE DEF s
<1>5. CASE Sink!Begins(k)
  <2>1. Sink!Number(k) = 1
    BY <1>5, NumberNext
  <2>2. Sink!LinesTo[k] = Append(s, NewLine(k))
    BY <1>1, <1>3, <1>5, <2>1 DEF Sink!Again, Sink!Once, NewLine
  <2> QED
    BY <1>1, <1>4, <1>5, <2>2, OneMore DEF Speaks, s
<1>6. CASE ~Sink!Begins(k)
  <2>1. Sink!Number(k) > 1
    BY <1>6, NumberNext
  <2>2. Sink!LinesTo[k] = IF Sink!Ends(k) THEN Append(s, NewLine(k)) ELSE s
    BY <1>1, <1>3, <1>6, <2>1 DEF Sink!Again, Sink!Once, NewLine, Shown
  <2> QED
    BY <1>1, <1>4, <1>6, <2>2, OneMore DEF Speaks, s
<1> QED
  BY <1>5, <1>6

LEMMA LinesType == \A k \in 0..L : Sink!LinesTo[k] \in Seq(Said)
<1> DEFINE S == {k \in Nat : k <= L => Sink!LinesTo[k] \in Seq(Said)}
<1>1. 0 \in S
  BY LinesDef, EmptySeq
<1>2. ASSUME NEW k \in Nat, k \in S PROVE k + 1 \in S
  <2>1. CASE k + 1 <= L
    <3>1. k + 1 \in 1..L /\ (k + 1) - 1 = k /\ Sink!LinesTo[k] \in Seq(Said)
      BY <1>2, <2>1, ScriptType
    <3>2. Sink!LinesTo[k + 1] \in Seq(Said)
      BY <3>1, LinesNext
    <3> QED
      BY <3>2
  <2>2. CASE ~(k + 1 <= L)
    BY <2>2
  <2> QED
    BY <2>1, <2>2
<1>3. \A k \in Nat : k \in S
  <2> HIDE DEF S
  <2> QED
    BY <1>1, <1>2, NaturalsBySet
<1> QED
  BY <1>3, ScriptType

\* What a later entry adds leaves the lines there were.
LEMMA LinesGrow ==
  ASSUME NEW k \in 1..L
  PROVE  /\ Upto(k - 1) \in Nat /\ Upto(k) \in Nat
         /\ Upto(k) = IF Speaks(k) THEN Upto(k - 1) + 1 ELSE Upto(k - 1)
         /\ Speaks(k) => Sink!LinesTo[k][Upto(k)] = NewLine(k)
         /\ \A n \in 1..Upto(k - 1) : Sink!LinesTo[k][n] = Sink!LinesTo[k - 1][n]
<1> DEFINE s == Sink!LinesTo[k - 1]
           r == Sink!LinesTo[k]
<1>1. k - 1 \in 0..L /\ k \in 0..L
  BY ScriptType
<1>2. s \in Seq(Said) /\ r \in Seq(Said)
  BY <1>1, LinesType
<1>3. Len(s) \in Nat /\ Len(r) \in Nat /\ Upto(k - 1) = Len(s) /\ Upto(k) = Len(r)
  BY <1>2, LenProperties DEF Upto
<1>4. /\ Speaks(k) => NewLine(k) \in Said /\ r = Append(s, NewLine(k))
      /\ ~Speaks(k) => r = s
  BY <1>2, LinesNext
<1> HIDE DEF s, r
<1>5. CASE Speaks(k)
  <2>1. /\ Len(r) = Len(s) + 1 /\ r[Len(s) + 1] = NewLine(k)
        /\ \A n \in 1..Len(s) : r[n] = s[n]
    BY <1>2, <1>4, <1>5, OneMore
  <2> QED
    BY <1>3, <1>5, <2>1 DEF s, r
<1>6. CASE ~Speaks(k)
  BY <1>3, <1>4, <1>6 DEF s, r
<1> QED
  BY <1>5, <1>6

LEMMA LinesPrefix ==
  \A k \in 0..L : Upto(k) <= Len(E) /\ \A n \in 1..Upto(k) : E[n] = Sink!LinesTo[k][n]
<1> DEFINE Pre(k) == Upto(k) <= Len(E) /\ \A n \in 1..Upto(k) : E[n] = Sink!LinesTo[k][n]
           S == {d \in Nat : d <= L => Pre(L - d)}
<1>1. E = Sink!LinesTo[L] /\ Upto(L) = Len(E) /\ L \in Nat
  BY ScriptType DEF E, Upto, L, Sink!Expected
<1>2. Len(E) \in Nat
  BY <1>1, LinesType, LenProperties
<1>3. 0 \in S
  <2>1. Pre(L)
    BY <1>1, <1>2
  <2>2. L - 0 = L
    BY <1>1
  <2> HIDE DEF Pre
  <2> QED
    BY <2>1, <2>2
<1>4. ASSUME NEW d \in Nat, d \in S PROVE d + 1 \in S
  <2> SUFFICES ASSUME d + 1 <= L PROVE Pre(L - (d + 1))
    OBVIOUS
  <2> DEFINE k == L - d
  <2>1. k \in 1..L /\ L - (d + 1) = k - 1
    BY <1>1
  <2>2. Pre(k)
    BY <1>1, <1>4
  <2> HIDE DEF k
  <2>3. /\ Upto(k - 1) \in Nat /\ Upto(k) \in Nat /\ Upto(k - 1) <= Upto(k)
        /\ \A n \in 1..Upto(k - 1) : Sink!LinesTo[k][n] = Sink!LinesTo[k - 1][n]
    BY <2>1, LinesGrow
  <2>4. Pre(k - 1)
    BY <1>2, <2>2, <2>3
  <2> QED
    BY <2>1, <2>4
<1>5. \A d \in Nat : d \in S
  <2> HIDE DEF S
  <2> QED
    BY <1>3, <1>4, NaturalsBySet
<1> SUFFICES ASSUME NEW k \in 0..L PROVE Pre(k)
  OBVIOUS
<1>6. L - k \in Nat /\ L - k <= L /\ L - (L - k) = k
  BY <1>1
<1>7. Pre(L - (L - k))
  BY <1>5, <1>6
<1> HIDE DEF Pre
<1> QED
  BY <1>6, <1>7

\* What a call writes, entry by entry.
LEMMA LinesExpected ==
  /\ E \in Seq(Said) /\ Len(E) \in Nat /\ DOMAIN E = 1..Len(E)
  /\ Upto(0) = 0 /\ Upto(L) = Len(E)
  /\ \A k \in 1..L :
       /\ Upto(k - 1) \in Nat /\ Upto(k) \in Nat /\ Upto(k) <= Len(E)
       /\ Upto(k) = IF Speaks(k) THEN Upto(k - 1) + 1 ELSE Upto(k - 1)
       /\ Speaks(k) => Upto(k) \in DOMAIN E /\ E[Upto(k)] = NewLine(k)
<1>1. E = Sink!LinesTo[L] /\ Upto(L) = Len(E) /\ L \in 0..L
  BY ScriptType DEF E, Upto, L, Sink!Expected
<1>2. E \in Seq(Said)
  BY <1>1, LinesType
<1>3. Len(E) \in Nat /\ DOMAIN E = 1..Len(E)
  BY <1>2, LenProperties
<1>4. Upto(0) = 0
  BY LinesDef, EmptySeq DEF Upto
<1>5. ASSUME NEW k \in 1..L
      PROVE  /\ Upto(k - 1) \in Nat /\ Upto(k) \in Nat /\ Upto(k) <= Len(E)
             /\ Upto(k) = IF Speaks(k) THEN Upto(k - 1) + 1 ELSE Upto(k - 1)
             /\ Speaks(k) => Upto(k) \in DOMAIN E /\ E[Upto(k)] = NewLine(k)
  <2>1. k \in 0..L
    BY ScriptType
  <2>2. Upto(k) <= Len(E) /\ \A n \in 1..Upto(k) : E[n] = Sink!LinesTo[k][n]
    BY <2>1, LinesPrefix
  <2>3. /\ Upto(k - 1) \in Nat /\ Upto(k) \in Nat
        /\ Upto(k) = IF Speaks(k) THEN Upto(k - 1) + 1 ELSE Upto(k - 1)
        /\ Speaks(k) => Sink!LinesTo[k][Upto(k)] = NewLine(k)
    BY LinesGrow
  <2>4. Speaks(k) => Upto(k) \in 1..Upto(k) /\ Upto(k) \in 1..Len(E)
    BY <1>3, <2>2, <2>3
  <2> QED
    BY <1>3, <2>2, <2>3, <2>4
<1> QED
  BY <1>1, <1>2, <1>3, <1>4, <1>5

-----------------------------------------------------------------------------
(* The position in the script. *)

FullInv == LogInv /\ DedupInv /\ FlowInv

\* A line as log(e) formats it, and a line before its card is hidden.
LEMMA RawLine ==
  ASSUME NEW e, NEW rep, NEW n, NEW h
  PROVE  /\ [Line(e, rep) EXCEPT !.t = n] = Raw([t |-> n, entry |-> e, rep |-> rep, hidden |-> h])
         /\ [Line(e, rep) EXCEPT !.t = n].rep = rep
<1> DEFINE raw == [t |-> n, entry |-> e, rep |-> rep, hidden |-> Shown]
<1>1. Line(e, rep) = [t |-> 0, entry |-> e, rep |-> rep, hidden |-> Shown]
  BY DEF Line, Shown
<1>2. [Line(e, rep) EXCEPT !.t = n] = raw
  BY <1>1
<1>3. Raw([t |-> n, entry |-> e, rep |-> rep, hidden |-> h]) = raw
  BY DEF Raw
<1> QED
  BY <1>2, <1>3

\* What is logged at any time is a part of what the call writes.
LEMMA TimeBound ==
  ASSUME DedupInv, log.pc \notin Idle
  PROVE  t \in Nat /\ t <= Len(E)
<1>1. Len(E) \in Nat /\ Upto(L) = Len(E) /\ Upto(0) = 0 /\ DOMAIN E = 1..Len(E)
  BY LinesExpected
<1>2. t \in Nat /\ log.k \in 1..L + 1 /\ log.pc \in {"log", "ack"} \cup Formatting
  BY DEF DedupInv, L
<1>3. CASE log.pc = "log"
  <2>1. log.k # 1 => log.k - 1 \in 1..L
    BY <1>2, ScriptType
  <2>2. log.k # 1 => Upto(log.k - 1) \in Nat /\ Upto(log.k - 1) <= Len(E)
    BY <2>1, LinesExpected
  <2>3. log.k = 1 => t = 0
    BY <1>3 DEF DedupInv
  <2>4. log.k # 1 => t = Upto(log.k - 1) \/ t = Upto(log.k - 1) - 1
    <3> SUFFICES ASSUME log.k # 1 PROVE t = Upto(log.k - 1) \/ t = Upto(log.k - 1) - 1
      OBVIOUS
    <3>1. \/ t = Upto(log.k - 1) - (IF Sink!Ends(log.k - 1) THEN 1 ELSE 0)
          \/ t = Upto(log.k - 1)
      BY <1>3 DEF DedupInv
    <3> QED
      BY <2>2, <3>1
  <2> QED
    BY <1>1, <1>2, <2>2, <2>3, <2>4
<1>4. CASE log.pc = "ack"
  BY <1>1, <1>2, <1>4 DEF DedupInv
<1>5. CASE log.pc \in Formatting
  BY <1>1, <1>2, <1>5 DEF DedupInv
<1> QED
  BY <1>2, <1>3, <1>4, <1>5

LEMMA DedupInit == Init => DedupInv
  BY ScriptType DEF Init, DedupInv, Idle, Formatting, L

LEMMA StartRunDedup ==
  ASSUME FullInv, StartRun
  PROVE  DedupInv'
<1>1. cnt = 0 /\ last \in {<<>>, <<Script[L]>>}
  BY DEF FullInv, DedupInv, StartRun, Idle, L
<1>2. last # <<Script[1]>>
  BY <1>1, ScriptType
<1>3. log'.pc = "log" /\ log'.k = 1 /\ t' = 0 /\ cnt' = 0 /\ last' = last
  BY <1>1 DEF StartRun, FullInv, LogInv, PlaceInv
<1> QED
  BY <1>2, <1>3, ScriptType DEF DedupInv, Idle, Formatting, L

LEMMA RepeatedDedup ==
  ASSUME FullInv, Repeated
  PROVE  DedupInv'
<1> DEFINE k == log.k
<1>1. log.pc = "log" /\ k \in 1..L /\ last = <<Script[k]>>
  BY ScriptType DEF FullInv, DedupInv, Repeated, L
<1>2. log'.pc = "log" /\ log'.k = k + 1 /\ t' = t /\ cnt' = cnt + 1 /\ last' = last
  BY DEF Repeated, FullInv, LogInv, PlaceInv
<1>3. k # 1
  BY <1>1 DEF FullInv, DedupInv
<1>4. /\ last = <<Script[k - 1]>> /\ t \in Nat /\ cnt \in Nat
      /\ IF cnt > 0 THEN /\ cnt + 1 = Sink!Number(k - 1)
                         /\ t = Upto(k - 1) - (IF Sink!Ends(k - 1) THEN 1 ELSE 0)
         ELSE /\ t = Upto(k - 1)
              /\ Sink!Number(k - 1) = 1 \/ Sink!Ends(k - 1)
  BY <1>1, <1>3 DEF FullInv, DedupInv
<1> HIDE DEF k
<1>5. Script[k - 1] = Script[k]
  BY <1>1, <1>4
<1>6. ~Sink!Begins(k)
  BY <1>3, <1>5 DEF Sink!Begins
<1>7. ~Sink!Ends(k - 1) /\ Sink!Number(k) = Sink!Number(k - 1) + 1
  BY <1>1, <1>6, NumberNext
<1>8. Upto(k - 1) \in Nat /\ Upto(k) = IF Sink!Ends(k) THEN Upto(k - 1) + 1 ELSE Upto(k - 1)
  BY <1>1, <1>6, LinesExpected DEF Speaks
<1>9. cnt + 1 = Sink!Number(k - 1) /\ t = Upto(k - 1)
  <2>1. CASE cnt > 0
    BY <1>4, <1>7, <1>8, <2>1
  <2>2. CASE ~(cnt > 0)
    BY <1>4, <1>7, <2>2
  <2> QED
    BY <2>1, <2>2
<1>10. t = Upto(k) - (IF Sink!Ends(k) THEN 1 ELSE 0) /\ cnt' + 1 = Sink!Number(k) /\ cnt' > 0 /\ cnt' \in Nat
  BY <1>2, <1>4, <1>7, <1>8, <1>9
<1>11. k + 1 \in 1..L + 1 /\ k + 1 # 1 /\ (k + 1) - 1 = k
  BY <1>1, ScriptType
<1> QED
  BY <1>1, <1>2, <1>4, <1>10, <1>11 DEF DedupInv, Idle, Formatting, L

LEMMA FlushDedup ==
  ASSUME FullInv, Flush
  PROVE  DedupInv'
<1> DEFINE k == log.k - 1
<1>1. log.pc = "log" /\ log.k \in 1..L + 1 /\ cnt \in Nat /\ cnt > 0 /\ t \in Nat
  BY DEF FullInv, DedupInv, Flush, L
<1>2. log.k # 1
  BY <1>1 DEF FullInv, DedupInv
<1>3. /\ last = <<Script[k]>> /\ cnt + 1 = Sink!Number(k)
      /\ t = Upto(k) - (IF Sink!Ends(k) THEN 1 ELSE 0)
  BY <1>1, <1>2 DEF FullInv, DedupInv
<1>4. k \in 1..L /\ log.k = k + 1
  BY <1>1, <1>2, ScriptType
<1>5. log.k <= L => last # <<Script[log.k]>>
  BY DEF Flush, L
<1>6. /\ log'.pc = "get" /\ log'.k = k + 1 /\ t' = t + 1 /\ cnt' = 0 /\ last' = last
      /\ log'.line = [Line(last[1], cnt + 1) EXCEPT !.t = t + 1]
  BY <1>4 DEF Flush, LogEntry, FullInv, LogInv, PlaceInv
<1> HIDE DEF k
<1>7. Sink!Ends(k)
  BY <1>3, <1>4, <1>5, ScriptType DEF Sink!Ends, L
<1>8. ~Sink!Begins(k)
  BY <1>1, <1>3, <1>4, NumberNext
<1>9. /\ Upto(k - 1) \in Nat /\ Upto(k) = Upto(k - 1) + 1 /\ Upto(k) \in DOMAIN E
      /\ E[Upto(k)] = NewLine(k)
  BY <1>4, <1>7, LinesExpected DEF Speaks
<1>10. t' = Upto(k) /\ t' \in Nat
  BY <1>1, <1>3, <1>6, <1>7, <1>9
<1>11. E[t'] = [t |-> t + 1, entry |-> Script[k], rep |-> cnt + 1, hidden |-> Shown]
  BY <1>3, <1>6, <1>8, <1>9, <1>10 DEF NewLine
<1>12. log'.line = Raw(E[t']) /\ log'.line.rep = cnt + 1 /\ log'.line.rep # 0
  BY <1>1, <1>3, <1>6, <1>11, RawLine
<1>13. k + 1 \in 1..L + 1 /\ k + 1 > 1 /\ (k + 1) - 1 = k
  BY <1>4, ScriptType
<1>14. E' = E
  BY DEF E
<1> QED
  BY <1>3, <1>6, <1>7, <1>9, <1>10, <1>12, <1>13, <1>14 DEF DedupInv, Idle, Formatting, L, Raw

LEMMA FreshDedup ==
  ASSUME FullInv, Fresh
  PROVE  DedupInv'
<1> DEFINE k == log.k
<1>1. log.pc = "log" /\ k \in 1..L /\ cnt = 0 /\ t \in Nat /\ last # <<Script[k]>>
  BY ScriptType DEF FullInv, DedupInv, Fresh, L
<1>2. /\ log'.pc = "get" /\ log'.k = k /\ t' = t + 1 /\ cnt' = 0 /\ last' = <<Script[k]>>
      /\ log'.line = [Line(Script[k], 0) EXCEPT !.t = t + 1]
  BY <1>1 DEF Fresh, LogEntry, FullInv, LogInv, PlaceInv
<1>3. k = 1 => t = 0
  BY <1>1 DEF FullInv, DedupInv
<1>4. k # 1 => last = <<Script[k - 1]>> /\ t = Upto(k - 1)
  BY <1>1 DEF FullInv, DedupInv
<1> HIDE DEF k
<1>5. t = Upto(k - 1)
  BY <1>1, <1>3, <1>4, LinesExpected
<1>6. Sink!Begins(k)
  BY <1>1, <1>4 DEF Sink!Begins
<1>7. /\ Upto(k - 1) \in Nat /\ Upto(k) = Upto(k - 1) + 1 /\ Upto(k) \in DOMAIN E
      /\ E[Upto(k)] = NewLine(k)
  BY <1>1, <1>6, LinesExpected DEF Speaks
<1>8. E[t'] = [t |-> t + 1, entry |-> Script[k], rep |-> 0, hidden |-> Script[k].card]
  BY <1>2, <1>5, <1>6, <1>7 DEF NewLine
<1>9. log'.line = Raw(E[t']) /\ log'.line.rep = 0
  BY <1>2, <1>8, RawLine
<1>10. k \in 1..L + 1 /\ k <= L
  BY <1>1, ScriptType
<1>11. E' = E /\ t' \in Nat /\ t' \in DOMAIN E /\ t' = Upto(k - 1) + 1
  BY <1>1, <1>2, <1>5, <1>7 DEF E
<1> QED
  BY <1>2, <1>6, <1>9, <1>10, <1>11 DEF DedupInv, Idle, Formatting, L, Raw

LEMMA SendDedup ==
  ASSUME FullInv, Send
  PROVE  DedupInv'
<1> DEFINE k == log.k
<1>1. log.pc = "send" /\ k \in 1..L + 1 /\ t \in Nat /\ cnt = 0
  BY DEF FullInv, DedupInv, Send, L
<1>2. /\ log'.pc = "log" /\ t' = t /\ cnt' = cnt /\ last' = last
      /\ log'.k = IF log.line.rep = 0 THEN k + 1 ELSE k
  BY DEF Send, FullInv, LogInv, PlaceInv, dedup
<1>3. CASE log.line.rep = 0
  <2>1. k <= L /\ Sink!Begins(k) /\ last = <<Script[k]>> /\ t = Upto(k - 1) + 1
    BY <1>1, <1>3 DEF FullInv, DedupInv, Formatting, L
  <2> HIDE DEF k
  <2>2. k \in 1..L
    BY <1>1, <2>1, ScriptType
  <2>3. Upto(k) = Upto(k - 1) + 1 /\ Sink!Number(k) = 1
    BY <2>1, <2>2, NumberNext, LinesExpected DEF Speaks
  <2>4. k + 1 \in 1..L + 1 /\ k + 1 # 1 /\ (k + 1) - 1 = k
    BY <2>2, ScriptType
  <2> QED
    BY <1>1, <1>2, <1>3, <2>1, <2>3, <2>4 DEF DedupInv, Idle, Formatting, L
<1>4. CASE log.line.rep # 0
  <2>1. k > 1 /\ Sink!Ends(k - 1) /\ last = <<Script[k - 1]>> /\ t = Upto(k - 1)
    BY <1>1, <1>4 DEF FullInv, DedupInv, Formatting
  <2> HIDE DEF k
  <2> QED
    BY <1>1, <1>2, <1>4, <2>1 DEF DedupInv, Idle, Formatting, L
<1> QED
  BY <1>3, <1>4

LEMMA CloseDedup ==
  ASSUME FullInv, Close
  PROVE  DedupInv'
<1>1. log.pc = "log" /\ log.k = L + 1 /\ cnt = 0 /\ t \in Nat
  BY ScriptType DEF FullInv, DedupInv, Close, L
<1>2. log'.pc = "ack" /\ log'.k = log.k /\ t' = t /\ cnt' = cnt /\ last' = last
  BY DEF Close, FullInv, LogInv, PlaceInv, dedup
<1>3. log.k # 1 /\ log.k - 1 = L
  BY <1>1, ScriptType
<1>4. last = <<Script[log.k - 1]>> /\ t = Upto(log.k - 1)
  BY <1>1, <1>3 DEF FullInv, DedupInv
<1>5. last = <<Script[L]>> /\ t = Len(E) /\ Len(E)' = Len(E)
  BY <1>3, <1>4, LinesExpected DEF E
<1> QED
  BY <1>1, <1>2, <1>5, ScriptType DEF DedupInv, Idle, Formatting, L

\* The steps that leave the position where it is.
LEMMA StillDedup ==
  ASSUME FullInv, UNCHANGED dedup,
         log'.k = log.k, log'.line = log.line,
         \/ log'.pc = log.pc
         \/ log.pc \in Formatting /\ log'.pc \in Formatting
         \/ log.pc = "ack" /\ log'.pc \in Idle
  PROVE  DedupInv'
<1>1. E' = E /\ Raw(E[t])' = Raw(E[t]) /\ t' = t /\ cnt' = cnt /\ last' = last
  BY DEF E, Raw, dedup
<1>2. CASE log'.pc = log.pc
  BY <1>1, <1>2 DEF FullInv, DedupInv
<1>3. CASE log.pc \in Formatting /\ log'.pc \in Formatting
  BY <1>1, <1>3 DEF FullInv, DedupInv, Formatting, Idle
<1>4. CASE log.pc = "ack" /\ log'.pc \in Idle
  BY <1>1, <1>4 DEF FullInv, DedupInv, Formatting, Idle
<1> QED
  BY <1>2, <1>3, <1>4

-----------------------------------------------------------------------------
(* The lines on their way. *)

\* Concealing a line gives the one the call is to write.
LEMMA HideCard ==
  ASSUME NEW e \in Said
  PROVE  /\ HasCard(Raw(e)) => [Raw(e) EXCEPT !.hidden = @ \/ HasCard(Raw(e))] = e
         /\ ~HasCard(Raw(e)) => Raw(e) = e
<1> DEFINE r == Raw(e)
           h == r.hidden \/ HasCard(r)
<1>1. /\ e = [t |-> e.t, entry |-> e.entry, rep |-> e.rep, hidden |-> e.hidden]
      /\ e.hidden \in BOOLEAN /\ (e.hidden <=> e.entry.card /\ e.rep = 0)
  BY DEF Said, Lines
<1>2. r = [t |-> e.t, entry |-> e.entry, rep |-> e.rep, hidden |-> Shown]
  BY <1>1 DEF Raw
<1>3. r.entry = e.entry /\ r.rep = e.rep /\ ~r.hidden
  BY <1>2 DEF Shown
<1>4. HasCard(r) <=> e.entry.card /\ e.rep = 0
  BY <1>3 DEF HasCard
<1>5. ASSUME HasCard(r) PROVE [r EXCEPT !.hidden = @ \/ HasCard(r)] = e
  <2>1. h = e.hidden
    BY <1>1, <1>4, <1>5
  <2> HIDE DEF h
  <2>2. [r EXCEPT !.hidden = h] = [t |-> e.t, entry |-> e.entry, rep |-> e.rep, hidden |-> h]
    BY <1>2
  <2>3. [r EXCEPT !.hidden = h] = e
    BY <1>1, <2>1, <2>2
  <2> QED
    BY <2>3 DEF h
<1>6. ASSUME ~HasCard(r) PROVE r = e
  <2>1. e.hidden = Shown
    BY <1>1, <1>4, <1>6 DEF Shown
  <2> QED
    BY <1>1, <1>2, <2>1
<1> QED
  BY <1>5, <1>6

\* What the steps need of the invariants.
LEMMA FlowFacts ==
  ASSUME FullInv
  PROVE  /\ queue \in Seq(Buffers) /\ Len(queue) \in Nat /\ DOMAIN queue = 1..Len(queue)
         /\ DOMAIN mem = Buffers
         /\ \A j \in DOMAIN queue : queue[j] \in Buffers
         /\ Written \in Nat /\ Taken \in {0, 1} /\ Unsent \in {0, 1}
         /\ log.pc \notin Idle => t \in Nat /\ t = Written + Taken + Len(queue) + Unsent /\ t <= Len(E)
         /\ E \in Seq(Said) /\ Len(E) \in Nat /\ DOMAIN E = 1..Len(E)
         /\ \A n \in 1..Len(E) : E[n] \in Said
<1>1. queue \in Seq(Buffers) /\ DOMAIN mem = Buffers
  BY DEF FullInv, LogInv, PlaceInv
<1>2. Len(queue) \in Nat /\ DOMAIN queue = 1..Len(queue) /\ \A j \in DOMAIN queue : queue[j] \in Buffers
  BY <1>1, LenProperties, ElementOfSeq
<1>3. Written \in Nat
  BY DEF Written, FullInv, FlowInv
<1>4. Taken \in {0, 1} /\ Unsent \in {0, 1}
  BY DEF Taken, Unsent
<1>5. log.pc \notin Idle => t \in Nat /\ t = Written + Taken + Len(queue) + Unsent /\ t <= Len(E)
  BY TimeBound DEF FullInv, FlowInv
<1>6. E \in Seq(Said) /\ Len(E) \in Nat /\ DOMAIN E = 1..Len(E)
  BY LinesExpected
<1>7. \A n \in 1..Len(E) : E[n] \in Said
  BY <1>6, ElementOfSeq
<1> QED
  BY <1>1, <1>2, <1>3, <1>4, <1>5, <1>6, <1>7

LEMMA FlowInit == Init => FlowInv
  BY EmptySeq DEF Init, FlowInv, Written, Taken, Unsent, Idle, Formatting, Holding

LEMMA StartRunFlow ==
  ASSUME FullInv, StartRun
  PROVE  FlowInv'
<1>1. log'.pc = "log" /\ proc'.pc = "reset" /\ t' = 0 /\ queue' = <<>> /\ ~closed'
  BY DEF StartRun, FullInv, LogInv, PlaceInv
<1>2. Written' = 0 /\ Taken' = 0 /\ Unsent' = 0
  BY <1>1 DEF Written, Taken, Unsent, Formatting
<1> QED
  BY <1>1, <1>2, EmptySeq DEF FlowInv, Idle, Holding

\* The steps of the logging goroutine that touch no buffer: they log or they do not.
LEMMA LoggerFlow ==
  ASSUME FullInv, UNCHANGED <<mem, queue, output, proc>>,
         log.pc \notin Idle, log'.pc \notin Idle \cup {"send"},
         t' = t + Unsent' - Unsent,
         closed' => closed \/ log'.pc = "ack",
         log.pc = "ack" => log'.pc = "ack",
         log'.pc = log.pc \/ log.pc # "ack"
  PROVE  FlowInv'
<1>1. /\ Written' = Written /\ Taken' = Taken /\ E' = E
      /\ Unsent \in {0, 1} /\ Unsent' \in {0, 1}
  BY DEF Written, Taken, E, Unsent
<1>2. log'.pc \notin Idle => t' = Written' + Taken' + Len(queue)' + Unsent'
  BY <1>1, FlowFacts
<1>3. closed' => log'.pc \in {"ack"} \cup Idle
  BY DEF FullInv, FlowInv
<1> QED
  BY <1>1, <1>2, <1>3 DEF FullInv, FlowInv, Raw

LEMMA LoggerSteps ==
  ASSUME FullInv, Repeated \/ Flush \/ Fresh \/ GetLock \/ Close
  PROVE  FlowInv'
<1>1. UNCHANGED <<mem, queue, output, proc>>
  BY DEF Repeated, Flush, Fresh, GetLock, Close, LogEntry, shared, processing
<1>2. t \in Nat
  BY DEF FullInv, DedupInv
<1>3. CASE Repeated
  <2>1. log.pc = "log" /\ log'.pc = "log" /\ t' = t /\ closed' = closed
    BY <1>3 DEF Repeated, FullInv, LogInv, PlaceInv, shared
  <2>2. Unsent = 0 /\ Unsent' = 0
    BY <2>1 DEF Unsent, Formatting
  <2> QED
    BY <1>1, <1>2, <2>1, <2>2, LoggerFlow DEF Idle
<1>4. CASE Flush \/ Fresh
  <2>1. log.pc = "log" /\ log'.pc = "get" /\ t' = t + 1 /\ closed' = closed
    BY <1>4 DEF Flush, Fresh, LogEntry, FullInv, LogInv, PlaceInv, shared
  <2>2. Unsent = 0 /\ Unsent' = 1
    BY <2>1 DEF Unsent, Formatting
  <2> QED
    BY <1>1, <1>2, <2>1, <2>2, LoggerFlow DEF Idle
<1>5. CASE GetLock
  <2>1. log.pc = "get" /\ log'.pc = "locked" /\ t' = t /\ closed' = closed
    BY <1>5 DEF GetLock, FullInv, LogInv, PlaceInv, dedup
  <2>2. Unsent = 1 /\ Unsent' = 1
    BY <2>1 DEF Unsent, Formatting
  <2> QED
    BY <1>1, <1>2, <2>1, <2>2, LoggerFlow DEF Idle
<1>6. CASE Close
  <2>1. log.pc = "log" /\ log'.pc = "ack" /\ t' = t
    BY <1>6 DEF Close, FullInv, LogInv, PlaceInv, dedup
  <2>2. Unsent = 0 /\ Unsent' = 0
    BY <2>1 DEF Unsent, Formatting
  <2> QED
    BY <1>1, <1>2, <2>1, <2>2, LoggerFlow DEF Idle
<1> QED
  BY <1>3, <1>4, <1>5, <1>6

\* The buffer that the line is formatted in is nobody's, and empty.
LEMMA GetUnlockFlow ==
  ASSUME FullInv, GetUnlock
  PROVE  FlowInv'
<1>1. PICK b \in Buffers :
        /\ mem' = [mem EXCEPT ![b] = <<log.line>>]
        /\ log' = [log EXCEPT !.pc = "send", !.buf = b]
        /\ b \notin Range(queue) /\ b # proc.buf
  <2>1. CASE log.seen = <<>>
    BY <2>1 DEF GetUnlock, Live
  <2>2. CASE log.seen # <<>>
    <3> DEFINE b == log.seen[Len(log.seen)]
    <3>1. log.seen = pool /\ pool \in Seq(Buffers) /\ pool # <<>>
      BY <2>2 DEF GetUnlock, FullInv, LogInv, LockInv, PlaceInv
    <3>2. Len(pool) \in DOMAIN pool /\ pool[Len(pool)] \in Buffers
      BY <3>1, EmptySeq, LenProperties, ElementOfSeq
    <3>3. mem[b] = <<>> /\ b # proc.buf /\ b \in Buffers
      BY <3>1, <3>2 DEF FullInv, LogInv, OwnInv
    <3>4. b \notin Range(queue)
      BY <3>1, <3>2 DEF FullInv, LogInv, OwnInv, Range
    <3>5. /\ mem' = [mem EXCEPT ![b] = Append(@, log.line)]
          /\ log' = [log EXCEPT !.pc = "send", !.buf = b]
      BY <2>2 DEF GetUnlock
    <3> HIDE DEF b
    <3>6. Append(mem[b], log.line) = <<log.line>>
      BY <3>3
    <3>7. mem' = [mem EXCEPT ![b] = <<log.line>>]
      BY <3>5, <3>6
    <3> QED
      BY <3>3, <3>4, <3>5, <3>7
  <2> QED
    BY <2>1, <2>2
<1>2. log.pc = "locked" /\ UNCHANGED <<queue, closed, output, proc, t>>
  BY DEF GetUnlock, processing, dedup
<1>3. log'.pc = "send" /\ log'.buf = b /\ log'.line = log.line
  BY <1>1 DEF FullInv, LogInv, PlaceInv
<1>4. Written' = Written /\ Taken' = Taken /\ Unsent' = Unsent /\ E' = E
  BY <1>2, <1>3 DEF Written, Taken, Unsent, E, Formatting
<1>5. \A c \in Buffers : c # b => mem'[c] = mem[c]
  BY <1>1, FlowFacts
<1>6. mem'[b] = <<log.line>>
  BY <1>1, FlowFacts
<1>7. \A j \in DOMAIN queue' : mem'[queue'[j]] = <<Raw(E[Written + Taken + j])>>
  <2>1. \A j \in DOMAIN queue : queue[j] # b /\ queue[j] \in Buffers
    BY <1>1, FlowFacts DEF Range
  <2> QED
    BY <1>2, <1>5, <2>1 DEF FullInv, FlowInv
<1>8. proc.pc \in Holding => mem'[proc.buf] = mem[proc.buf]
  BY <1>1, <1>5 DEF FullInv, LogInv, PlaceInv
<1> QED
  BY <1>2, <1>3, <1>4, <1>6, <1>7, <1>8 DEF FullInv, FlowInv, Idle, Formatting, Holding, Raw

LEMMA SendFlow ==
  ASSUME FullInv, Send
  PROVE  FlowInv'
<1>1. /\ log.pc = "send" /\ log'.pc = "log" /\ queue' = Append(queue, log.buf)
      /\ UNCHANGED <<mem, closed, output, proc, t>>
  BY DEF Send, processing, dedup, FullInv, LogInv, PlaceInv
<1>2. Written' = Written /\ Taken' = Taken /\ Unsent = 1 /\ Unsent' = 0 /\ E' = E
  BY <1>1 DEF Written, Taken, Unsent, E, Formatting
<1>3. log.buf \in Buffers /\ mem[log.buf] = <<log.line>> /\ log.line = Raw(E[t])
  BY <1>1 DEF FullInv, LogInv, PlaceInv, FlowInv, DedupInv, Formatting
<1>4. t \in Nat /\ t = Written + Taken + Len(queue) + 1
  BY <1>1, <1>2, FlowFacts DEF Idle
<1>5. /\ Len(queue') = Len(queue) + 1 /\ Len(queue) \in Nat
      /\ queue'[Len(queue) + 1] = log.buf
      /\ \A n \in 1..Len(queue) : queue'[n] = queue[n]
      /\ DOMAIN queue' = 1..Len(queue) + 1 /\ DOMAIN queue = 1..Len(queue)
  <2>1. queue \in Seq(Buffers)
    BY FlowFacts
  <2>2. queue' \in Seq(Buffers) /\ Len(queue) \in Nat
    BY <1>1, <1>3, <2>1, OneMore
  <2> QED
    BY <1>1, <1>3, <2>1, <2>2, OneMore, LenProperties
<1>6. \A j \in DOMAIN queue' : mem'[queue'[j]] = <<Raw(E[Written + Taken + j])>>
  <2> SUFFICES ASSUME NEW j \in 1..Len(queue) + 1
               PROVE  mem[queue'[j]] = <<Raw(E[Written + Taken + j])>>
    BY <1>1, <1>5
  <2>1. CASE j \in 1..Len(queue)
    BY <1>5, <2>1 DEF FullInv, FlowInv
  <2>2. CASE j = Len(queue) + 1
    <3>1. Written + Taken + j = t
      BY <1>4, <1>5, <2>2, FlowFacts
    <3> QED
      BY <1>3, <1>5, <2>2, <3>1
  <2> QED
    BY <1>5, <2>1, <2>2
<1>7. t' = Written' + Taken' + Len(queue') + Unsent'
  <2>1. Written \in Nat /\ Taken \in {0, 1}
    BY FlowFacts
  <2>2. t' = t
    BY <1>1
  <2> QED
    BY <1>2, <1>4, <1>5, <2>1, <2>2
<1> QED
  BY <1>1, <1>2, <1>6, <1>7 DEF FullInv, FlowInv, Idle, Formatting, Raw

LEMMA AckFlow ==
  ASSUME FullInv, Ack
  PROVE  FlowInv'
<1>1. /\ log.pc = "ack" /\ proc.pc = "ack" /\ log'.pc \in Idle /\ proc'.pc = "none"
      /\ UNCHANGED <<mem, queue, closed, output, t>>
  BY DEF Ack, shared, processing, dedup, FullInv, LogInv, PlaceInv, Idle
<1>2. queue = <<>> /\ DOMAIN queue = {}
  BY <1>1, EmptySeq DEF FullInv, FlowInv
<1> QED
  BY <1>1, <1>2 DEF FlowInv, Idle, Holding

LEMMA ResetFlow ==
  ASSUME FullInv, Reset
  PROVE  FlowInv'
<1>1. /\ proc.pc = "reset" /\ proc'.pc = "range" /\ output' = <<>>
      /\ UNCHANGED <<mem, queue, closed, log, t>>
  BY DEF Reset, shared, dedup, FullInv, LogInv, PlaceInv
<1>2. Len(output') = 0 /\ E' = E
  BY <1>1 DEF E
<1>3. Written = 0 /\ Written' = 0 /\ Taken = 0 /\ Taken' = 0 /\ Unsent' = Unsent
  BY <1>1, <1>2 DEF Written, Taken, Unsent
<1>4. output' = [n \in 1..Len(output') |-> E[n]]
  BY <1>1, <1>2
<1> QED
  BY <1>1, <1>2, <1>3, <1>4 DEF FullInv, FlowInv, Idle, Holding, Raw

LEMMA ReceiveFlow ==
  ASSUME FullInv, Receive
  PROVE  FlowInv'
<1>1. /\ proc.pc = "range" /\ proc'.pc = "conceal" /\ proc'.buf = Head(queue)
      /\ queue # <<>> /\ queue' = Tail(queue)
      /\ UNCHANGED <<mem, closed, output, log, t>>
  BY DEF Receive, processing, dedup, FullInv, LogInv, PlaceInv
<1>2. Written' = Written /\ Taken = 0 /\ Taken' = 1 /\ Unsent' = Unsent /\ E' = E
  BY <1>1 DEF Written, Taken, Unsent, E
<1>3. queue \in Seq(Buffers) /\ Len(queue) \in Nat /\ DOMAIN queue = 1..Len(queue) /\ Written \in Nat
  BY FlowFacts
<1>4. /\ Len(queue) > 0 /\ 1 \in DOMAIN queue /\ Head(queue) = queue[1]
      /\ Len(queue') = Len(queue) - 1 /\ DOMAIN queue' = 1..Len(queue) - 1
      /\ \A j \in 1..Len(queue) - 1 : queue'[j] = queue[j + 1]
  BY <1>1, <1>3, EmptySeq, HeadTailProperties
<1>5. \A j \in DOMAIN queue : mem[queue[j]] = <<Raw(E[Written + j])>>
  <2>1. ASSUME NEW j \in DOMAIN queue PROVE Written + Taken + j = Written + j
    BY <1>2, <1>3
  <2> QED
    BY <2>1 DEF FullInv, FlowInv
<1>6. mem'[proc'.buf] = <<Raw(E[Written + 1])>>
  BY <1>1, <1>4, <1>5
<1>7. \A j \in DOMAIN queue' : mem'[queue'[j]] = <<Raw(E[Written' + Taken' + j])>>
  <2> SUFFICES ASSUME NEW j \in DOMAIN queue'
               PROVE  mem'[queue'[j]] = <<Raw(E[Written' + Taken' + j])>>
    OBVIOUS
  <2>1. j \in 1..Len(queue) - 1 /\ j + 1 \in DOMAIN queue
    BY <1>3, <1>4
  <2>2. Written' + Taken' + j = Written + (j + 1)
    BY <1>2, <1>3, <2>1
  <2>3. mem[queue[j + 1]] = <<Raw(E[Written + (j + 1)])>>
    BY <1>5, <2>1
  <2> QED
    BY <1>1, <1>4, <2>1, <2>2, <2>3
<1>8. log.pc \notin Idle => t' = Written' + Taken' + Len(queue') + Unsent'
  <2> SUFFICES ASSUME log.pc \notin Idle PROVE t' = Written' + Taken' + Len(queue') + Unsent'
    OBVIOUS
  <2>1. t = Written + Taken + Len(queue) + Unsent /\ Unsent \in {0, 1}
    BY FlowFacts
  <2>2. t' = t
    BY <1>1
  <2> QED
    BY <1>2, <1>3, <1>4, <2>1, <2>2
<1>9. log.pc \notin Idle
  BY <1>1 DEF FullInv, FlowInv
<1> QED
  BY <1>1, <1>2, <1>6, <1>7, <1>8, <1>9 DEF FullInv, FlowInv, Idle, Holding, Raw

LEMMA EndRangeFlow ==
  ASSUME FullInv, EndRange
  PROVE  FlowInv'
<1>1. /\ proc.pc = "range" /\ proc'.pc = "ack" /\ queue = <<>> /\ closed
      /\ UNCHANGED <<mem, queue, closed, output, log, t>>
  BY DEF EndRange, shared, processing, dedup, FullInv, LogInv, PlaceInv
<1>2. Written' = Written /\ Taken = 0 /\ Taken' = 0 /\ Unsent' = Unsent /\ E' = E
  BY <1>1 DEF Written, Taken, Unsent, E
<1> QED
  BY <1>1, <1>2 DEF FullInv, FlowInv, Idle, Holding, Raw

\* The line concealed, and the buffers that the other lines are in.
LEMMA ConcealFlow ==
  ASSUME FullInv, Conceal
  PROVE  FlowInv'
<1>1. /\ proc.pc = "conceal" /\ proc'.pc = "write"
      /\ UNCHANGED <<queue, closed, output, log, t>>
  BY DEF Conceal, processing, dedup, FullInv, LogInv, PlaceInv
<1>2. Written' = Written /\ Taken = 1 /\ Taken' = 1 /\ Unsent' = Unsent /\ E' = E
  BY <1>1 DEF Written, Taken, Unsent, E
<1>3. log.pc \notin Idle
  BY <1>1 DEF FullInv, FlowInv
<1> DEFINE e == E[Written + 1]
<1>4. e \in Said
  <2>1. t = Written + Taken + Len(queue) + Unsent /\ t <= Len(E) /\ Len(E) \in Nat
    BY <1>3, FlowFacts
  <2>2. Written \in Nat /\ Len(queue) \in Nat /\ Unsent \in {0, 1}
    BY FlowFacts
  <2>3. Written + 1 \in 1..Len(E)
    BY <1>2, <2>1, <2>2
  <2> QED
    BY <2>3, FlowFacts
<1>5. mem[proc.buf] = <<Raw(e)>> /\ proc.buf \in Buffers
  BY <1>1 DEF FullInv, FlowInv, LogInv, PlaceInv, Holding
<1>6. /\ HasCard(Raw(e)) => [Raw(e) EXCEPT !.hidden = @ \/ HasCard(Raw(e))] = e
      /\ ~HasCard(Raw(e)) => Raw(e) = e
  BY <1>4, HideCard
<1> DEFINE x == mem[proc.buf]
<1>7. DOMAIN x = {1} /\ x[1] = Raw(e)
  BY <1>5
<1>8. /\ mem'[proc'.buf] = <<e>>
      /\ \A c \in Live : c \in Buffers => mem'[c] = mem[c]
  <2>1. CASE \E k \in DOMAIN x : HasCard(x[k])
    <3> DEFINE f == [k \in DOMAIN x |-> [x[k] EXCEPT !.hidden = @ \/ HasCard(x[k])]]
    <3>1. PICK b \in Buffers \ Live : mem' = [mem EXCEPT ![b] = f] /\ proc'.buf = b
      <4>1. /\ Buffers \ Live # {}
            /\ LET b == CHOOSE b \in Buffers \ Live : TRUE IN
                 mem' = [mem EXCEPT ![b] = f] /\ proc' = [proc EXCEPT !.pc = "write", !.buf = b]
        BY <2>1 DEF Conceal
      <4> HIDE DEF f, x
      <4> QED
        BY <4>1 DEF FullInv, LogInv, PlaceInv
    <3>2. f = <<e>>
      <4>1. HasCard(Raw(e))
        BY <1>7, <2>1
      <4>2. f[1] = e
        BY <1>6, <1>7, <4>1
      <4> QED
        BY <1>7, <4>2
    <3> HIDE DEF f
    <3> QED
      BY <3>1, <3>2, FlowFacts
  <2>2. CASE ~\E k \in DOMAIN x : HasCard(x[k])
    <3>1. mem' = mem /\ proc'.buf = proc.buf
      BY <2>2 DEF Conceal, FullInv, LogInv, PlaceInv
    <3>2. Raw(e) = e
      BY <1>6, <1>7, <2>2
    <3> QED
      BY <1>5, <3>1, <3>2
  <2> QED
    BY <2>1, <2>2
<1> HIDE DEF e, x
<1>9. \A j \in DOMAIN queue' : mem'[queue'[j]] = <<Raw(E[Written + Taken + j])>>
  <2>1. \A j \in DOMAIN queue : queue[j] \in Live /\ queue[j] \in Buffers
    BY FlowFacts DEF Live, Range
  <2> QED
    BY <1>1, <1>8, <2>1 DEF FullInv, FlowInv
<1>10. log.pc = "send" => mem'[log.buf] = mem[log.buf]
  BY <1>8 DEF Live, FullInv, LogInv, PlaceInv
<1>11. mem'[proc'.buf] = <<E[Written + 1]>>
  BY <1>8 DEF e
<1>12. log'.pc \notin Idle => t' = Written' + Taken' + Len(queue)' + Unsent'
  BY <1>1, <1>2 DEF FullInv, FlowInv
<1> QED
  BY <1>1, <1>2, <1>3, <1>9, <1>10, <1>11, <1>12 DEF FullInv, FlowInv, Idle, Holding, Raw

LEMMA WriteFlow ==
  ASSUME FullInv, Write
  PROVE  /\ FlowInv'
         /\ Written + 1 \in 1..Len(E) /\ output' = Append(output, E[Len(output) + 1])
<1>1. /\ proc.pc = "write" /\ proc'.pc = "stats" /\ proc'.buf = proc.buf
      /\ output' = output \o mem[proc.buf]
      /\ UNCHANGED <<mem, queue, closed, log, t>>
  BY DEF Write, shared, dedup, FullInv, LogInv, PlaceInv
<1>2. /\ Written = Len(output) /\ Taken = 1 /\ Taken' = 0 /\ Unsent' = Unsent /\ E' = E
      /\ Written' = Len(output')
  BY <1>1 DEF Written, Taken, Unsent, E
<1>3. log.pc \notin Idle /\ mem[proc.buf] = <<E[Written + 1]>>
  BY <1>1 DEF FullInv, FlowInv
<1>4. /\ t = Written + 1 + Len(queue) + Unsent /\ t <= Len(E) /\ Len(E) \in Nat
      /\ Written \in Nat /\ Len(queue) \in Nat /\ Unsent \in {0, 1}
  BY <1>2, <1>3, FlowFacts
<1>5. Written + 1 \in 1..Len(E) /\ E[Written + 1] \in Said
  <2>1. Written + 1 \in 1..Len(E)
    BY <1>4
  <2> QED
    BY <2>1, FlowFacts
<1>6. output = [n \in 1..Written |-> E[n]]
  BY <1>1, <1>2 DEF FullInv, FlowInv
<1>7. output \in Seq(Said)
  <2>1. \A n \in 1..Written : E[n] \in Said
    <3>1. \A n \in 1..Written : n \in 1..Len(E)
      BY <1>4, <1>5
    <3> QED
      BY <3>1, FlowFacts
  <2> QED
    BY <1>4, <1>6, <2>1, IsASeq
<1>8. output' = Append(output, E[Written + 1])
  BY <1>1, <1>3, <1>5, <1>7, AppendIsConcat
<1>9. /\ Written' = Written + 1 /\ output' \in Seq(Said)
      /\ output'[Written + 1] = E[Written + 1]
      /\ \A n \in 1..Written : output'[n] = output[n]
  BY <1>2, <1>5, <1>7, <1>8, OneMore
<1>10. output' = [n \in 1..Written' |-> E[n]]
  <2>1. Len(output') = Written' /\ DOMAIN output' = 1..Written'
    BY <1>2, <1>9, LenProperties
  <2>2. \A n \in 1..Written' : output'[n] = E[n]
    BY <1>4, <1>6, <1>9
  <2> QED
    BY <1>9, <2>1, <2>2, LenProperties
<1>11. mem'[proc'.buf] = <<E[Written']>> /\ Written' > 0
  BY <1>1, <1>3, <1>4, <1>9
<1>12. /\ t' = Written' + Taken' + Len(queue)' + Unsent'
       /\ \A j \in Nat : Written' + Taken' + j = Written + Taken + j
  BY <1>1, <1>2, <1>4, <1>9
<1>13. \A j \in DOMAIN queue' : mem'[queue'[j]] = <<Raw(E[Written' + Taken' + j])>>
  <2> SUFFICES ASSUME NEW j \in DOMAIN queue
               PROVE  mem[queue[j]] = <<Raw(E[Written' + Taken' + j])>>
    BY <1>1
  <2>1. j \in Nat
    BY FlowFacts
  <2> QED
    BY <1>12, <2>1 DEF FullInv, FlowInv
<1>14. Len(output') \in Nat /\ output' = [n \in 1..Len(output') |-> E[n]]
  BY <1>2, <1>4, <1>9, <1>10
<1>15. FlowInv'
  BY <1>1, <1>2, <1>3, <1>11, <1>12, <1>13, <1>14 DEF FullInv, FlowInv, Idle, Holding, Raw
<1> QED
  BY <1>2, <1>5, <1>8, <1>15

\* The steps of the processing goroutine after it has written.
LEMMA WrittenFlow ==
  ASSUME FullInv, MaintainStats \/ PutLock
  PROVE  FlowInv'
<1>1. /\ proc.pc \in {"stats", "put"} /\ proc'.pc \in {"put", "locked"}
      /\ UNCHANGED <<mem, queue, closed, output, log, t>>
  BY DEF MaintainStats, PutLock, shared, processing, dedup, FullInv, LogInv, PlaceInv
<1>2. Written' = Written /\ Taken' = Taken /\ Unsent' = Unsent /\ E' = E
  BY <1>1 DEF Written, Taken, Unsent, E
<1> QED
  BY <1>1, <1>2 DEF FullInv, FlowInv, Idle, Holding, Raw

LEMMA PutUnlockFlow ==
  ASSUME FullInv, PutUnlock
  PROVE  FlowInv'
<1>1. /\ proc.pc = "locked" /\ proc'.pc = "range" /\ mem' = [mem EXCEPT ![proc.buf] = <<>>]
      /\ UNCHANGED <<queue, closed, output, log, t>>
  BY DEF PutUnlock, processing, dedup, FullInv, LogInv, PlaceInv
<1>2. Written' = Written /\ Taken = 0 /\ Taken' = 0 /\ Unsent' = Unsent /\ E' = E
  BY <1>1 DEF Written, Taken, Unsent, E
<1>3. proc.buf \in Buffers
  BY <1>1 DEF FullInv, LogInv, PlaceInv, Holding
<1>4. \A c \in Buffers : c # proc.buf => mem'[c] = mem[c]
  BY <1>1, FlowFacts
<1>5. \A j \in DOMAIN queue' : mem'[queue'[j]] = <<Raw(E[Written + Taken + j])>>
  <2>1. \A j \in DOMAIN queue : queue[j] \in Buffers /\ queue[j] # proc.buf
    BY FlowFacts DEF FullInv, LogInv, OwnInv
  <2> QED
    BY <1>1, <1>4, <2>1 DEF FullInv, FlowInv
<1>6. log.pc = "send" => mem'[log.buf] = mem[log.buf]
  BY <1>3, <1>4, Constants DEF FullInv, LogInv, PlaceInv, OwnInv
<1> QED
  BY <1>1, <1>2, <1>5, <1>6 DEF FullInv, FlowInv, Idle, Holding, Raw

-----------------------------------------------------------------------------
(* The refinement. *)

LEMMA FullInvNext ==
  ASSUME FullInv, [Next]_vars, LogInv'
  PROVE  FullInv'
<1>1. CASE StartRun
  BY <1>1, StartRunDedup, StartRunFlow DEF FullInv
<1>2. CASE Repeated
  BY <1>2, RepeatedDedup, LoggerSteps DEF FullInv
<1>3. CASE Flush
  BY <1>3, FlushDedup, LoggerSteps DEF FullInv
<1>4. CASE Fresh
  BY <1>4, FreshDedup, LoggerSteps DEF FullInv
<1>5. CASE GetLock
  <2>1. DedupInv'
    BY <1>5, StillDedup DEF GetLock, FullInv, LogInv, PlaceInv, Formatting
  <2> QED
    BY <1>5, <2>1, LoggerSteps DEF FullInv
<1>6. CASE GetUnlock
  <2>1. /\ log.pc = "locked" /\ log'.pc = "send" /\ log'.k = log.k /\ log'.line = log.line
        /\ UNCHANGED dedup
    BY <1>6 DEF GetUnlock, FullInv, LogInv, PlaceInv
  <2>2. DedupInv'
    BY <2>1, StillDedup DEF Formatting
  <2> QED
    BY <1>6, <2>2, GetUnlockFlow DEF FullInv
<1>7. CASE Send
  BY <1>7, SendDedup, SendFlow DEF FullInv
<1>8. CASE Close
  BY <1>8, CloseDedup, LoggerSteps DEF FullInv
<1>9. CASE Ack
  <2>1. DedupInv'
    BY <1>9, StillDedup DEF Ack, FullInv, LogInv, PlaceInv, Idle
  <2> QED
    BY <1>9, <2>1, AckFlow DEF FullInv
<1>10. CASE Processor
  <2>1. DedupInv'
    BY <1>10, StillDedup
    DEF Processor, Reset, Receive, EndRange, Conceal, Write, MaintainStats, PutLock, PutUnlock
  <2> QED
    BY <1>10, <2>1, ResetFlow, ReceiveFlow, EndRangeFlow, ConcealFlow, WriteFlow, WrittenFlow,
       PutUnlockFlow DEF Processor, FullInv
<1>11. CASE UNCHANGED vars
  <2>1. DedupInv'
    BY <1>11, StillDedup DEF vars, dedup
  <2>2. FlowInv'
    BY <1>11 DEF vars, FullInv, FlowInv, Written, Taken, Unsent, E, Raw
  <2> QED
    BY <2>1, <2>2 DEF FullInv
<1> QED
  BY <1>1, <1>2, <1>3, <1>4, <1>5, <1>6, <1>7, <1>8, <1>9, <1>10, <1>11
  DEF Next, Logger, Terminated

\* Every step of the two goroutines is a step of LogSink or changes nothing of it.
LEMMA SinkStep ==
  ASSUME FullInv, [Next]_vars
  PROVE  [Sink!Next]_(Sink!vars)
<1> USE DEF Sink!vars
<1>1. CASE StartRun \/ Repeated \/ Flush \/ Fresh \/ GetLock \/ GetUnlock \/ Send \/ Close
  <2>1. UNCHANGED <<output, stats, runs>>
    BY <1>1 DEF StartRun, Repeated, Flush, Fresh, GetLock, GetUnlock, Send, Close, processing
  <2>2. proc'.pc = proc.pc \/ (proc.pc = "none" /\ proc'.pc = "reset")
    BY <1>1 DEF StartRun, Repeated, Flush, Fresh, GetLock, GetUnlock, Send, Close, FullInv,
                FlowInv, LogInv, PlaceInv, Idle
  <2> QED
    BY <2>1, <2>2
<1>2. CASE Ack
  <2>1. /\ log.pc = "ack" /\ proc.pc = "ack" /\ proc'.pc = "none" /\ runs' = runs + 1
        /\ UNCHANGED <<output, stats>>
    BY <1>2 DEF Ack, processing, FullInv, LogInv, PlaceInv
  <2>2. t = Len(E) /\ queue = <<>>
    BY <2>1 DEF FullInv, DedupInv, FlowInv
  <2>3. Len(queue) = 0 /\ Written = Len(output) /\ Taken = 0 /\ Unsent = 0
    BY <2>1, <2>2, EmptySeq DEF Written, Taken, Unsent, Formatting
  <2>4. t = Written + Taken + Len(queue) + Unsent /\ Written \in Nat
    BY <2>1, FlowFacts DEF Idle
  <2>5. Len(output) = Len(Sink!Expected)
    BY <2>2, <2>3, <2>4 DEF E
  <2>6. Sink!Return
    BY <2>1, <2>5 DEF Sink!Return
  <2> QED
    BY <2>6 DEF Sink!Next
<1>3. CASE Reset
  <2>1. /\ proc.pc = "reset" /\ proc'.pc = "range" /\ output' = <<>>
        /\ UNCHANGED <<stats, runs>>
    BY <1>3 DEF Reset, FullInv, LogInv, PlaceInv
  <2>2. Sink!Begin
    BY <2>1 DEF Sink!Begin
  <2> QED
    BY <2>2 DEF Sink!Next
<1>4. CASE Write
  <2>1. /\ proc.pc = "write" /\ proc'.pc = "stats" /\ UNCHANGED <<stats, runs>>
    BY <1>4 DEF Write, FullInv, LogInv, PlaceInv
  <2>2. Written + 1 \in 1..Len(E) /\ output' = Append(output, E[Len(output) + 1])
    BY <1>4, WriteFlow
  <2>3. Len(output) < Len(Sink!Expected)
    <3>1. Written = Len(output) /\ Written \in Nat /\ Len(E) \in Nat
      BY <2>1, FlowFacts DEF Written
    <3> QED
      BY <2>2, <3>1 DEF E
  <2>4. output' = Append(output, Sink!Expected[Len(output) + 1])
    BY <2>2 DEF E
  <2>5. Sink!Emit
    BY <2>1, <2>3, <2>4 DEF Sink!Emit
  <2> QED
    BY <2>5 DEF Sink!Next
<1>5. CASE MaintainStats
  <2>1. /\ proc.pc = "stats" /\ proc'.pc = "put" /\ UNCHANGED <<output, runs>>
    BY <1>5 DEF MaintainStats, FullInv, LogInv, PlaceInv
  <2>2. mem[proc.buf] = <<E[Written]>> /\ Written > 0 /\ Written = Len(output)
    BY <2>1 DEF FullInv, FlowInv, Written
  <2>3. Written \in Nat /\ output = [n \in 1..Written |-> E[n]]
    BY <2>1, <2>2 DEF FullInv, FlowInv
  <2>4. Sink!Last(output) = E[Written]
    BY <2>2, <2>3 DEF Sink!Last
  <2>5. mem[proc.buf] # <<>> /\ mem[proc.buf][1] = E[Written]
    BY <2>2
  <2>6. stats' = [stats EXCEPT ![mem[proc.buf][1].entry.sev] = @ + 1]
    BY <1>5, <2>5 DEF MaintainStats
  <2>7. Sink!Count
    BY <2>1, <2>4, <2>5, <2>6 DEF Sink!Count
  <2> QED
    BY <2>7 DEF Sink!Next
<1>6. CASE Receive \/ EndRange \/ Conceal \/ PutLock \/ PutUnlock
  <2>1. UNCHANGED <<output, stats, runs>>
    BY <1>6 DEF Receive, EndRange, Conceal, PutLock, PutUnlock, processing
  <2>2. {proc.pc, proc'.pc} \cap {"none", "reset", "stats"} = {}
    BY <1>6 DEF Receive, EndRange, Conceal, PutLock, PutUnlock, FullInv, LogInv, PlaceInv
  <2> QED
    BY <2>1, <2>2
<1>7. CASE UNCHANGED vars
  BY <1>7 DEF vars
<1> QED
  BY <1>1, <1>2, <1>3, <1>4, <1>5, <1>6, <1>7 DEF Next, Logger, Processor, Terminated

\* Whatever the two goroutines interleave, and for every script, queue and supply
\* of buffers, each call of Run empties the output, writes the deduplicated lines of
\* the script one after the other with the cards hidden, counts each once after it
\* is written, and returns when all are.
THEOREM LogRefinement == Spec => ImplementsSink
<1>1. Init => FullInv
  BY LogInvInit, DedupInit, FlowInit DEF FullInv
<1>2. FullInv /\ [Next]_vars /\ LogInv' => FullInv'
  BY FullInvNext
<1>3. Init => Sink!Init
  BY DEF Init, Sink!Init, Severities
<1>4. FullInv /\ [Next]_vars => [Sink!Next]_(Sink!vars)
  BY SinkStep
<1> QED
  BY <1>1, <1>2, <1>3, <1>4, LogInvariant, PTL DEF Spec, ImplementsSink, Sink!Spec
=============================================================================
