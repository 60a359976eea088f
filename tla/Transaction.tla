---------------------------- MODULE Transaction -----------------------------
(***************************************************************************)
(* The transactions of one worker: Step (worker.go) runs its benchmarks    *)
(* one after the other, on objects that live as long as the worker.  Each  *)
(* has its module; those of the simulation, of the routes and of the log   *)
(* are checked by runs of their own and do nothing here.                   *)
(***************************************************************************)
EXTENDS Naturals, Sequences

CONSTANTS
  Text,                             \* of Compression
  Firstname, Lastname,              \* of Sorting
  Excerpt, Copies,                  \* of Documents
  Users, Others, Absent,            \* of Btree
  Size, Runs, NbSolutions,          \* of EightQueens
  Bytes, Stride, Block, Shuffles,   \* of Memory
  Squares, SquareSide, Wilson, BeforeCorner, AfterCorner,  \* of Image
  CryptoSize,                       \* of Crypto
  PEARLS_N, NbPearls,               \* of Pearls
  NbCities, Distance, MaxFloat64,   \* of Haversine
  Transactions                      \* executed by the worker

VARIABLES
  compression, sorting, documents, btree, memory, image, crypto,
  res, qstack, turn, qpc,                 \* Bench8Queens
  buf, iter, color, ppc,                  \* BenchPearls
  idx, journey, best, hstack, seen, hpc,  \* BenchHaversine
  at,                                     \* benchmark that Step has reached
  nb                                      \* w.nb

queens == <<res, qstack, turn, qpc>>
pearls == <<buf, iter, color, ppc>>
haversine == <<idx, journey, best, hstack, seen, hpc>>
vars == <<compression, sorting, documents, btree, memory, image, crypto,
          queens, pearls, haversine, at, nb>>

C == INSTANCE Compression WITH b <- compression, Input <- Text
S == INSTANCE Sorting WITH b <- sorting
D == INSTANCE Documents WITH b <- documents
B == INSTANCE Btree WITH b <- btree
Q == INSTANCE EightQueens WITH stack <- qstack, pc <- qpc, Expected <- NbSolutions
M == INSTANCE Memory WITH b <- memory, Length <- Bytes
I == INSTANCE Image WITH b <- image, Square <- SquareSide, Before <- BeforeCorner, After <- AfterCorner
X == INSTANCE Crypto WITH b <- crypto, Size <- CryptoSize
P == INSTANCE Pearls WITH pc <- ppc, Expected <- NbPearls
H == INSTANCE Haversine WITH stack <- hstack, pc <- hpc

ASSUME TransactionAssumption ==
  /\ Transactions \in Nat
  /\ C!CompressionAssumption /\ S!SortingAssumption /\ D!DocumentsAssumption
  /\ B!BtreeAssumption /\ Q!QueensAssumption /\ M!MemoryAssumption /\ I!ImageAssumption
  /\ X!CryptoAssumption /\ P!PearlsAssumption /\ H!HaversineAssumption

\* The order of Worker.Init, AWK and JSON being Documents.
Benchmarks == <<"compression", "sorting", "documents", "btree", "simulation", "queens", "memory",
                "image", "crypto", "pearls", "graph", "logging", "haversine">>

\* Worker.Init.
Init ==
  /\ C!Init /\ S!Init /\ D!Init /\ B!Init /\ Q!Init /\ M!Init /\ I!Init /\ X!Init
  /\ P!Init /\ H!Init
  /\ at = 1 /\ nb = 0

\* Step has reached a benchmark.
At(name) == nb < Transactions /\ at <= Len(Benchmarks) /\ Benchmarks[at] = name

\* A step of the benchmark brings it to pc, "idle" when its Run returns.  The
\* objects of the others are not touched.
To(pc) ==
  LET other(name) == Benchmarks[at] # name IN
  /\ at' = IF pc = "idle" THEN at + 1 ELSE at
  /\ nb' = nb
  /\ other("compression") => UNCHANGED compression
  /\ other("sorting") => UNCHANGED sorting
  /\ other("documents") => UNCHANGED documents
  /\ other("btree") => UNCHANGED btree
  /\ other("queens") => UNCHANGED queens
  /\ other("memory") => UNCHANGED memory
  /\ other("image") => UNCHANGED image
  /\ other("crypto") => UNCHANGED crypto
  /\ other("pearls") => UNCHANGED pearls
  /\ other("haversine") => UNCHANGED haversine

Compression == At("compression") /\ C!Step /\ To(compression'.pc)
Sorting == At("sorting") /\ S!Step /\ To(sorting'.pc)
Documents == At("documents") /\ D!Step /\ To(documents'.pc)
Btree == At("btree") /\ B!Step /\ To(btree'.pc)
Queens == At("queens") /\ Q!Step /\ To(qpc')
Memory == At("memory") /\ M!Step /\ To(memory'.pc)
Image == At("image") /\ I!Step /\ To(image'.pc)
Crypto == At("crypto") /\ X!Step /\ To(crypto'.pc)
Pearls == At("pearls") /\ P!Step /\ To(ppc')
Haversine == At("haversine") /\ H!Step /\ To(hpc')

\* The benchmarks that Availability, RouteSearch and LogPipeline model.
Elsewhere == (At("simulation") \/ At("graph") \/ At("logging")) /\ To("idle")

\* Step returns to Worker.Run, which counts the transaction.
FinishStep ==
  /\ at = Len(Benchmarks) + 1
  /\ at' = 1 /\ nb' = nb + 1
  /\ UNCHANGED <<compression, sorting, documents, btree, memory, image, crypto,
                 queens, pearls, haversine>>

\* log.Fatal or a panic ends the process.
Fatal == "fatal" \in {compression.pc, sorting.pc, documents.pc, btree.pc, qpc, memory.pc, crypto.pc, ppc}

Terminated == (nb = Transactions \/ Fatal) /\ UNCHANGED vars

Next ==
  \/ Compression \/ Sorting \/ Documents \/ Btree \/ Queens \/ Memory \/ Image \/ Crypto
  \/ Pearls \/ Haversine \/ Elsewhere
  \/ FinishStep \/ Terminated

Spec == Init /\ [][Next]_vars /\ WF_vars(Next)

-----------------------------------------------------------------------------
(* Properties. *)

\* The solutions are found, each once, in every transaction (eightqueens.go).
AllFoundOnce == Q!AllFoundOnce

\* The whole string of pearls is valid (pearls.go).
StringValid == P!StringValid

\* No string of pearls is tried twice in a transaction (pearls.go).
SearchAdvances == P!SearchAdvances

\* The journey found is a shortest of all, each of which was tried once (haversine.go).
ShortestOfAll == H!ShortestOfAll

\* Every transaction makes the same things, on the objects that the one before
\* left: the encodings, lists, blocks, image and documents of each, which most
\* of these benchmarks do not look at, are those of a first call.
SameWork ==
  C!Product /\ S!Product /\ D!Product /\ B!Product /\ M!Product /\ I!Product /\ X!Product

\* The worker finishes its transactions: neither the checks of compression.go,
\* sort.go, btree.go, eightqueens.go, crypto.go and pearls.go on their own work nor
\* a slice out of range in memory.go or crypto.go ends the process.  Only an AWK
\* program or an encoding in JSON that fails in its library may.  (Nothing is said
\* of simulation.go, graph.go and logging.go, see Elsewhere.)
Completion == <>(nb = Transactions \/ documents.pc = "fatal")
=============================================================================
