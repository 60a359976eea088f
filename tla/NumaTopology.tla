---------------------------- MODULE NumaTopology ----------------------------
(***************************************************************************)
(* The display of the NUMA nodes.  On Windows (numa_windows.go) it takes   *)
(* three calls of the system: the highest node number, the size of a       *)
(* buffer, and what the buffer holds, a sequence of records of which each  *)
(* says its own size; the machine may change between two calls.  On the    *)
(* other systems (numa_unix.go) it reads the names of files.  It returns   *)
(* no error: a failure is logged.                                          *)
(*                                                                         *)
(* The machine is a sequence of nodes, each a set of processors of one     *)
(* group.  A buffer is counted in words: a header, a body, some padding.   *)
(***************************************************************************)
EXTENDS Integers, Sequences, FiniteSetsExt, SequencesExt

CONSTANT Machines   \* what the system may answer, at each call

\* A processor is of one node.  A group has 64 of them at most, so that a mask holds
\* them all; nothing depends on that number.
NumaAssumption ==
  \A machine \in Machines :
    /\ machine \in Seq(SUBSET Nat)
    /\ \A k \in DOMAIN machine : IsFiniteSet(machine[k])
    /\ \A j, k \in DOMAIN machine : j # k => machine[j] \cap machine[k] = {}

VARIABLES
  system,  \* "windows", or another one
  numa     \* the state of DisplayNumaTopology, see Idle

\* stage is the control state; machine is what the system described in its last
\* answer; buffer, offset and nodes are the variables of GetNumaTopology; shown is
\* what is displayed.
Idle == [stage |-> "idle", machine |-> <<>>, buffer |-> <<>>, offset |-> 0,
         nodes |-> <<>>, shown |-> <<>>]

Start == numa' = [Idle EXCEPT !.stage = "begin"]

Bit[p \in Nat] == IF p = 0 THEN 1 ELSE 2 * Bit[p - 1]

\* The system's record of a node: its number says whether it has padding.
Header(size) == [relation |-> "numa", size |-> size]
Body(k, processors) == [node |-> k, mask |-> MapThenSumSet(LAMBDA p : Bit[p], processors)]
ZeroWord == [relation |-> "core", size |-> 0]
RecordOf(k, processors) ==
  <<Header(2 + (k % 2)), Body(k, processors)>> \o [x \in 1..(k % 2) |-> ZeroWord]
Encoded(machine) == FlattenSeq([k \in DOMAIN machine |-> RecordOf(k, machine[k])])

\* GetNumaHighestNodeNumber: the number only serves a warning.
Begin ==
  /\ numa.stage = "begin" /\ system = "windows"
  /\ \E stage \in {"size", "returned"} : numa' = [numa EXCEPT !.stage = stage]

\* GetLogicalProcessorInformationEx without a buffer fails, and says the size
\* it needs; a failure of another kind is not told apart and says no size.  A
\* success would be an error.
AskSize ==
  /\ numa.stage = "size"
  /\ \/ \E size \in {0} \cup {Len(Encoded(machine)) : machine \in Machines} :
          numa' = [numa EXCEPT !.buffer = [x \in 1..size |-> ZeroWord],
                               !.stage = IF size = 0 THEN "panic" ELSE "fill"]   \* &buffer[0]
     \/ numa' = [numa EXCEPT !.stage = "returned"]

\* Mutant: what the system did not fill of the buffer is kept.
CutNever(data, buffer) ==
  data \o SubSeq(buffer, Len(data) + 1, Len(buffer))

\* buffer[:bufferSize]
Cut(data, buffer) == data

\* The second call fails when the machine has grown since the first one.
Fill ==
  /\ numa.stage = "fill"
  /\ \/ \E machine \in Machines :
          /\ Len(Encoded(machine)) <= Len(numa.buffer)
          /\ numa' = [numa EXCEPT !.stage = "scan", !.machine = machine,
                                  !.buffer = Cut(Encoded(machine), numa.buffer)]
     \/ numa' = [numa EXCEPT !.stage = "returned", !.buffer = <<>>]

\* mask & (mask - 1): without its lowest bit, that only zeros follow.
Lowest(mask) == CHOOSE bit \in {Bit[p] : p \in 0..mask} : mask % (2 * bit) = bit
WithoutLowest(mask) == mask - Lowest(mask)

\* countBits: the lowest bit is cleared until none is left.
countBits[mask \in Nat] == IF mask = 0 THEN 0 ELSE 1 + countBits[WithoutLowest(mask)]

\* Mutant: the record that ends the buffer does not fit.
FitsBefore(offset, buffer) == offset + buffer[offset + 1].size < Len(buffer)

Fits(offset, buffer) == offset + buffer[offset + 1].size <= Len(buffer)

\* The loop of GetNumaTopology: one record.
Scan ==
  /\ numa.stage = "scan" /\ numa.offset + 1 <= Len(numa.buffer)
  /\ LET header == numa.buffer[numa.offset + 1]
         taken == header.relation = "numa" /\ Fits(numa.offset, numa.buffer)
     IN  numa' = [numa EXCEPT
           !.offset = @ + header.size,
           !.nodes = IF taken
                       THEN LET body == numa.buffer[numa.offset + 2]
                            IN  Append(@, [node |-> body.node, cpus |-> countBits[body.mask]])
                       ELSE @]

\* DisplayNumaTopology, once the loop is over; a number of nodes that the highest
\* one does not announce is only logged.
Display ==
  /\ numa.stage = "scan" /\ numa.offset + 1 > Len(numa.buffer)
  /\ numa' = [numa EXCEPT !.stage = "returned", !.shown = numa.nodes]

\* The other systems: a map from processors to nodes is filled from the directory
\* of one node after the other ...
NodeOf(machine) ==
  LET m[k \in 0..Len(machine)] ==
        IF k = 0 THEN <<>>
        ELSE [p \in machine[k] \cup DOMAIN m[k - 1] |-> IF p \in machine[k] THEN k ELSE m[k - 1][p]]
  IN  m[Len(machine)]

\* ... and looked up for each processor of the CPU list, which the system gave
\* earlier and may hold others.
DisplayFiles ==
  /\ numa.stage = "begin" /\ system # "windows"
  /\ \E machine, earlier \in Machines :
       LET numaMap == NodeOf(machine)
           node(p) == IF p \in DOMAIN numaMap THEN numaMap[p] ELSE -1
           list == SetToSortSeq(UNION Range(earlier), <)
       IN  numa' = [numa EXCEPT !.stage = "returned", !.machine = machine,
                                !.shown = [x \in DOMAIN list |-> [cpu |-> list[x], on |-> node(list[x])]]]

Step == Begin \/ AskSize \/ Fill \/ Scan \/ Display \/ DisplayFiles

-----------------------------------------------------------------------------
(* Properties. *)

\* What is displayed is the machine of the system's last answer, however it has
\* changed since the earlier ones: its nodes in order, each with the number of its
\* processors; or each processor of the list with the node that holds it, or -1.
TopologyFaithful ==
  numa.stage = "returned" /\ numa.shown # <<>> =>
    \/ numa.shown = [k \in DOMAIN numa.machine |->
                       [node |-> k, cpus |-> Cardinality(numa.machine[k])]]
    \/ \A x \in DOMAIN numa.shown :
         LET s == numa.shown[x] IN
         /\ "cpu" \in DOMAIN s
         /\ \A k \in DOMAIN numa.machine : s.cpu \in numa.machine[k] <=> s.on = k
=============================================================================
