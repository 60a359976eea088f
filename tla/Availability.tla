---------------------------- MODULE Availability ----------------------------
(***************************************************************************)
(* The Monte-Carlo simulation of a cluster's availability (simulation.go): *)
(* a year of random failures and scheduled events is built node by node,   *)
(* merged into zones and then into the cluster, evaluated, and added to    *)
(* the statistics of the years before it.  The merges write in a temporary *)
(* array that changes places with the one they read: lists of zones and of *)
(* the cluster are known by their arrays.  The random generator may give   *)
(* any value of Times, and any outcome of HwFails and NetFails.            *)
(***************************************************************************)
EXTENDS Intervals, FiniteSets, FiniteSetsExt

CONSTANTS
  N_ZONES, ZONE_SIZE,
  N_REBOOTS, MTBR_REBOOT, MTBR_HW_FAILURE, MTBR_NET_FAILURE,
  N_ROLLING_UPGRADES, MTBR_ROLLING_UPGRADE, IDLE_ROLLING_UPGRADE,
  N_ZONE_SHUTDOWNS, MTBR_ZONE_SHUTDOWN,
  N_HISTO,     \* bars of a histogram
  Times,       \* what r.Uint32N(MAXSECS) may return
  HwFails,     \* the outcomes of the draw against PROB_HW_FAILURE
  NetFails,    \* the outcomes of the draw against PROB_NET_FAILURE
  Word,        \* 2^32 in the code
  YearBound    \* years simulated (100 in the code)

N_NODES == N_ZONES * ZONE_SIZE
Node == 1..N_NODES
Zone == 1..N_ZONES
ZoneOf(n) == (n - 1) \div ZONE_SIZE + 1
NodesOf(z) == (z - 1) * ZONE_SIZE + 1 .. z * ZONE_SIZE
Scheduled == N_ROLLING_UPGRADES + N_ZONE_SHUTDOWNS * N_ZONES
UpgradeStep == MTBR_ROLLING_UPGRADE + IDLE_ROLLING_UPGRADE

ASSUME SimulationAssumption ==
  /\ {N_ZONES, ZONE_SIZE, N_ROLLING_UPGRADES, N_ZONE_SHUTDOWNS, N_HISTO, YearBound} \subseteq Nat \ {0}
  /\ N_REBOOTS \in Nat
  /\ {MTBR_REBOOT, MTBR_HW_FAILURE, MTBR_NET_FAILURE, MTBR_ROLLING_UPGRADE,
      IDLE_ROLLING_UPGRADE, MTBR_ZONE_SHUTDOWN} \subseteq Nat \ {0}
  /\ Times \subseteq 0..MAXSECS - 1
  /\ HwFails \subseteq BOOLEAN /\ NetFails \subseteq BOOLEAN
  \* A year cannot wrap: an upgrade that begins in the year ends below Word.
  /\ Word > MAXSECS + N_NODES * UpgradeStep

VARIABLES
  pc, at,    \* the step of the simulation, and the node or zone it has reached
  nodes,                 \* the lists of the nodes, in AvailabilityYear
  zones, cluster, tmp,   \* its other slices: the array that each is on
  acc,       \* the local slice of simulateZones and simulateCluster
  mem,       \* the list that each of these arrays holds
  res,       \* its Result: the statistics of the year
  total,     \* the FinalResult: those of all the years
  year,      \* years simulated
  built,     \* history: the nodes as Build left them
  past       \* history: the counts of each year, up to N_HISTO

arrays == <<zones, cluster, tmp, acc>>
vars == <<pc, at, nodes, arrays, mem, res, total, year, built, past>>

\* The arrays NewAvailabilityYear makes.  One that grows is replaced by a copy,
\* which keeps its name here.
Array == 1..N_ZONES + 2
None == 0
Blank == [a \in Array |-> <<>>]

Statistic == [n : Nat, dur : Nat]
NoStatistic == [n |-> 0, dur |-> 0]
NoResult ==
  [atLeast2 |-> NoStatistic, outages |-> [z \in Zone |-> NoStatistic], failures |-> [z \in Zone |-> NoStatistic]]
Result == [atLeast2 : Statistic, outages : [Zone -> Statistic], failures : [Zone -> Statistic]]

TypeOK ==
  /\ pc \in {"nodes", "net", "upgrades", "shutdowns", "retrofit", "normalize",
             "zones", "cluster", "evaluate", "update", "done"}
  /\ at \in 1..N_NODES + 1
  /\ nodes \in [Node -> Seq(Interval)] /\ built \in [Node -> Seq(Interval)]
  /\ zones \in [Zone -> Array] /\ cluster \in Array /\ tmp \in Array
  /\ acc \in Array \cup {None}
  /\ mem \in [Array -> Seq(Interval)]
  /\ res \in Result /\ year \in 0..YearBound
  /\ total \in [proba : [Zone -> [0..N_HISTO - 1 -> Nat]], z1Cnt : Nat, z1Sum : Nat]

Empty == [n \in Node |-> <<>>]

Init ==
  /\ pc = "nodes" /\ at = 1 /\ year = 0
  /\ nodes = Empty /\ built = Empty
  /\ zones = [z \in Zone |-> z] /\ cluster = N_ZONES + 1 /\ tmp = N_ZONES + 2
  /\ acc = None /\ mem = Blank
  /\ res = NoResult /\ past = <<>>
  /\ total = [proba |-> [z \in Zone |-> [k \in 0..N_HISTO - 1 |-> 0]], z1Cnt |-> 0, z1Sum |-> 0]

-----------------------------------------------------------------------------
(* Build *)

\* The lists AddFailures may leave: a time that collides is drawn again.
AddFailures(s, n, mttr) ==
  LET lists[k \in 0..n] ==
        IF k = 0 THEN {s}
        ELSE UNION {{Append(list, Failure(t, mttr)) :
                       t \in {u \in Times : ~CheckCollision(list, Failure(u, mttr))}} : list \in lists[k - 1]}
  IN  lists[n]

\* buildNodes, one node: its reboots, and maybe a hardware failure.
BuildNode ==
  /\ pc = "nodes"
  /\ \E rebooted \in AddFailures(nodes[at], N_REBOOTS, MTBR_REBOOT), hw \in HwFails :
       \E list \in AddFailures(rebooted, IF hw THEN 1 ELSE 0, MTBR_HW_FAILURE) :
         nodes' = [nodes EXCEPT ![at] = list]
  /\ IF at < N_NODES THEN at' = at + 1 /\ UNCHANGED pc ELSE at' = 1 /\ pc' = "net"
  /\ UNCHANGED <<arrays, mem, res, total, year, built, past>>

\* The network failure of a zone, and after the last zone the global view.
BuildNet ==
  /\ pc = "net"
  /\ \/ TRUE \in NetFails /\ \E t \in Times :
          nodes' = [n \in Node |-> IF ZoneOf(n) = at THEN Append(nodes[n], Failure(t, MTBR_NET_FAILURE)) ELSE nodes[n]]
     \/ FALSE \in NetFails /\ UNCHANGED nodes
  /\ IF at < N_ZONES
       THEN at' = at + 1 /\ UNCHANGED <<pc, mem>>
       ELSE at' = 1 /\ pc' = "upgrades" /\ mem' = [mem EXCEPT ![cluster] = @ \o FlattenSeq(nodes')]
  /\ UNCHANGED <<arrays, res, total, year, built, past>>

UpgradeLasts == (N_NODES - 1) * UpgradeStep + MTBR_ROLLING_UPGRADE

\* Mutant: the upgrade is thought to be over when its last node begins.
ScheduleShort(lasts) ==
  /\ \E t \in {u \in Times : ~CheckCollisionTime(mem[cluster], u)} :
       LET x == Failure(t, IF lasts = UpgradeLasts THEN (N_NODES - 1) * UpgradeStep ELSE lasts)
       IN  ~CheckCollision(mem[tmp], x) /\ mem' = [mem EXCEPT ![tmp] = Append(@, x)]
  /\ UNCHANGED <<at, nodes, arrays, res, total, year, built, past>>

\* An event goes to a time when no node is down, away from the other events.
Schedule(lasts) ==
  /\ \E t \in {u \in Times : ~CheckCollisionTime(mem[cluster], u)} :
       LET x == Failure(t, lasts)
       IN  ~CheckCollision(mem[tmp], x) /\ mem' = [mem EXCEPT ![tmp] = Append(@, x)]
  /\ UNCHANGED <<at, nodes, arrays, res, total, year, built, past>>

Events == Len(mem[tmp])

RollingUpgrade ==
  /\ pc = "upgrades" /\ Events < N_ROLLING_UPGRADES
  /\ Schedule(UpgradeLasts)
  /\ pc' = IF Events + 1 = N_ROLLING_UPGRADES THEN "shutdowns" ELSE pc

ZoneShutdown ==
  /\ pc = "shutdowns" /\ Events < Scheduled
  /\ Schedule(MTBR_ZONE_SHUTDOWN)
  /\ pc' = IF Events + 1 = Scheduled THEN "retrofit" ELSE pc

\* Both loops draw again when the time will not do.
Redraw ==
  /\ pc \in {"upgrades", "shutdowns"}
  /\ LET lasts == IF pc = "upgrades" THEN UpgradeLasts ELSE MTBR_ZONE_SHUTDOWN IN
     \E t \in Times : CheckCollisionTime(mem[cluster], t) \/ CheckCollision(mem[tmp], Failure(t, lasts))
  /\ UNCHANGED vars

\* retrofitGlobalEvents: what the events add to node n, in their order.
Upgrades(n) ==
  [i \in 1..N_ROLLING_UPGRADES |-> Failure(mem[tmp][i].beg + (n - 1) * UpgradeStep, MTBR_ROLLING_UPGRADE)]
Shutdowns(n) ==
  [i \in 1..N_ZONE_SHUTDOWNS |->
     Failure(mem[tmp][N_ROLLING_UPGRADES + (i - 1) * N_ZONES + ZoneOf(n)].beg, MTBR_ZONE_SHUTDOWN)]

Retrofit ==
  /\ pc = "retrofit" /\ pc' = "normalize"
  /\ nodes' = [n \in Node |-> nodes[n] \o Upgrades(n) \o Shutdowns(n)]
  /\ built' = nodes'
  /\ UNCHANGED <<at, arrays, mem, res, total, year, past>>

-----------------------------------------------------------------------------
(* Simulate *)

\* Mutant: the list is not brought to its canonical form.
NormalizeRaw(list) == [k \in DOMAIN list |-> [list[k] EXCEPT !.cnt = 1, !.ratio = 1]]

\* A canonical list whose intervals are the outage of one node.
NormalizeNode(list) ==
  LET s == Canonical(list) IN [k \in DOMAIN s |-> [s[k] EXCEPT !.cnt = 1, !.ratio = 1]]

Normalize ==
  /\ pc = "normalize" /\ pc' = "zones"
  /\ nodes' = [n \in Node |-> NormalizeNode(nodes[n])]
  /\ mem' = [mem EXCEPT ![tmp] = <<>>, ![cluster] = <<>>]
  /\ UNCHANGED <<at, arrays, res, total, year, built, past>>

\* The local slice begins as a copy of the first list, on the array of the zone
\* or of the cluster.
Begin(array, list) == acc' = array /\ mem' = [mem EXCEPT ![array] = @ \o list]

\* tmp, emptied, takes the merge of the local slice and a list, and they change
\* places.  The old local slice was cut on the way and counts as empty.  The lists
\* are read whole, which is right as long as tmp is on none of their arrays.
MergeSwap(kind, list) ==
  /\ mem' = [mem EXCEPT ![acc] = <<>>,
                        ![tmp] = Merge(kind, mem[acc], list)]
  /\ acc' = tmp /\ tmp' = acc

\* simulateZones: a zone begins with its first node ...
BeginZone ==
  /\ pc = "zones" /\ acc = None
  /\ Begin(zones[ZoneOf(at)], nodes[at])
  /\ nodes' = [nodes EXCEPT ![at] = <<>>]
  /\ at' = at + 1
  /\ UNCHANGED <<pc, zones, cluster, tmp, res, total, year, built, past>>

\* Mutant: the slice of the last merge does not become that of the zone.
MergeNodeLost ==
  /\ pc = "zones" /\ acc # None
  /\ IF ZoneOf(at) = ZoneOf(at - 1)
       THEN /\ MergeSwap("nodes", nodes[at])
            /\ nodes' = [nodes EXCEPT ![at] = <<>>] /\ at' = at + 1
            /\ UNCHANGED <<pc, zones>>
       ELSE /\ acc' = None
            /\ IF at <= N_NODES THEN UNCHANGED <<pc, at>> ELSE pc' = "cluster" /\ at' = 1
            /\ UNCHANGED <<nodes, tmp, mem, zones>>
  /\ UNCHANGED <<cluster, res, total, year, built, past>>

\* ... takes the others, cut by the merge and no longer read, and keeps the slice
\* of the last merge.
MergeNode ==
  /\ pc = "zones" /\ acc # None
  /\ IF ZoneOf(at) = ZoneOf(at - 1)
       THEN /\ MergeSwap("nodes", nodes[at])
            /\ nodes' = [nodes EXCEPT ![at] = <<>>] /\ at' = at + 1
            /\ UNCHANGED <<pc, zones>>
       ELSE /\ zones' = [zones EXCEPT ![ZoneOf(at - 1)] = acc]
            /\ acc' = None
            /\ IF at <= N_NODES THEN UNCHANGED <<pc, at>> ELSE pc' = "cluster" /\ at' = 1
            /\ UNCHANGED <<nodes, tmp, mem>>
  /\ UNCHANGED <<cluster, res, total, year, built, past>>

\* simulateCluster, the same with the zones.
BeginCluster ==
  /\ pc = "cluster" /\ acc = None
  /\ Begin(cluster, mem[zones[1]])
  /\ at' = 2
  /\ UNCHANGED <<pc, nodes, zones, cluster, tmp, res, total, year, built, past>>

MergeZone ==
  /\ pc = "cluster" /\ acc # None
  /\ IF at <= N_ZONES
       THEN /\ MergeSwap("zones", mem[zones[at]])
            /\ at' = at + 1 /\ UNCHANGED <<pc, cluster>>
       ELSE /\ cluster' = acc /\ acc' = None
            /\ pc' = "evaluate" /\ at' = 1
            /\ UNCHANGED <<tmp, mem>>
  /\ UNCHANGED <<nodes, zones, res, total, year, built, past>>

-----------------------------------------------------------------------------
(* Evaluate *)

\* Statistic.Update.  The duration is a difference of two uint32.
Updated(stat, x) == [n |-> stat.n + 1, dur |-> stat.dur + ((x.end - x.beg) % Word)]

\* Mutant: one more zone does not make a failure when an outage is going on.
BeginsApart(list, k) == k = 1 \/ list[k - 1].end # list[k].beg

\* The k-th interval begins a failure: it does not prolong one of as many zones.
Begins(list, k) == k = 1 \/ list[k - 1].end # list[k].beg \/ list[k - 1].cnt < list[k].cnt

\* One turn of the loop of Evaluate; no interval of the cluster has cnt = 0.
EvaluateInterval(r, k) ==
  LET list == mem[cluster]  x == list[k]  n == x.cnt IN
  [outages |-> [r.outages EXCEPT ![n] = Updated(@, x)],
   failures |-> IF Begins(list, k) THEN [r.failures EXCEPT ![n] = Updated(@, x)] ELSE r.failures,
   atLeast2 |-> IF x.cnt > 1 \/ x.ratio # 1 THEN Updated(r.atLeast2, x) ELSE r.atLeast2]

Evaluate ==
  /\ pc = "evaluate" /\ pc' = "update"
  /\ res' = FoldLeft(EvaluateInterval, res, [k \in DOMAIN mem[cluster] |-> k])
  /\ UNCHANGED <<at, nodes, arrays, mem, total, year, built, past>>

\* A bar of a histogram: bar 0 is for the counts beyond the last one.
Bar(n) == IF n >= N_HISTO THEN 0 ELSE n

\* Mutant: a year without an event counts in bar 0.
CountedAlways(histo, n) == [histo EXCEPT ![IF n < 0 THEN 0 ELSE Bar(n)] = @ + 1]

Counted(histo, n) == IF n > 0 THEN [histo EXCEPT ![Bar(n)] = @ + 1] ELSE histo

\* The events of the year, the shutdowns that were expected apart.
Count(z) == IF z = 1 THEN res.atLeast2.n - N_ZONE_SHUTDOWNS * N_ZONES ELSE res.failures[z].n

\* FinalResult.Update.
Update ==
  /\ pc = "update"
  /\ LET n == res.failures[1].n IN
     total' = [proba |-> [z \in Zone |-> Counted(total.proba[z], Count(z))],
               z1Cnt |-> total.z1Cnt + (IF n > 0 THEN 1 ELSE 0),
               z1Sum |-> total.z1Sum + n]
  /\ year' = year + 1
  /\ pc' = "done"
  /\ past' = Append(past, [z \in Zone |-> IF Count(z) > N_HISTO THEN N_HISTO ELSE Count(z)])
  /\ UNCHANGED <<at, nodes, arrays, mem, res, built>>

\* displayRangeProb: the lines "at least k" come until the first empty bar.
AtLeast(t, k) == t[0] + MapThenSumSet(LAMBDA j : t[j], k..N_HISTO - 1)
Displayed(t) == {k \in 1..N_HISTO - 1 : \A j \in 1..k : t[j] # 0}

\* The next turn of Simulator.Run: AvailabilityYear.Reset, which
\* leaves the arrays where the merges put them.
NextYear ==
  /\ pc = "done" /\ year < YearBound
  /\ pc' = "nodes"
  /\ nodes' = Empty /\ built' = Empty /\ mem' = Blank /\ res' = NoResult
  /\ UNCHANGED <<at, arrays, total, year, past>>

Terminated == pc = "done" /\ year = YearBound /\ UNCHANGED vars

Next ==
  \/ BuildNode \/ BuildNet \/ RollingUpgrade \/ ZoneShutdown \/ Redraw \/ Retrofit
  \/ Normalize \/ BeginZone \/ MergeNode \/ BeginCluster \/ MergeZone
  \/ Evaluate \/ Update \/ NextYear \/ Terminated

Spec == Init /\ [][Next]_vars

-----------------------------------------------------------------------------
(* Properties. *)

Covers(x, t) == x.beg <= t /\ t < x.end
Down(t) == {n \in Node : \E k \in DOMAIN built[n] : Covers(built[n][k], t)}
ZonesDown(t) == {ZoneOf(n) : n \in Down(t)}
Share(t) == MapThenFoldSet(LAMBDA x, y : x * y, 1,
                           LAMBDA z : Cardinality(Down(t) \cap NodesOf(z)), LAMBDA S : CHOOSE z \in S : TRUE,
                           ZonesDown(t))

\* The view of the cluster is right at every second of the year: it shows no
\* outage when no node is down, else one, with the number of zones hit and the
\* product of the shares of the nodes they lost.
ClusterIsPointwise ==
  pc \in {"evaluate", "update", "done"} =>
    \A t \in 0..MAXSECS - 1 :
      {[cnt |-> x.cnt, ratio |-> x.ratio] : x \in {y \in Range(mem[cluster]) : Covers(y, t)}}
        = IF Down(t) = {} THEN {} ELSE {[cnt |-> Cardinality(ZonesDown(t)), ratio |-> Share(t)]}

Level(t) == IF t < 0 THEN 0 ELSE Cardinality(ZonesDown(t))

\* A failure of n zones is counted once, when the number of zones that are down
\* rises to n, and its outages last as long as n zones are down.
FailuresCounted ==
  pc = "update" => \A n \in Zone :
    /\ res.failures[n].n = Cardinality({t \in 0..MAXSECS - 1 : Level(t) = n /\ Level(t - 1) < n})
    /\ res.outages[n].dur = Cardinality({t \in 0..MAXSECS - 1 : Level(t) = n})

\* The scheduled events exclude each other: while a zone is shut down, no node
\* is upgraded and no other zone is shut down.
EventsExclusive ==
  pc = "normalize" => \A n, o \in Node :
    LET last(node, k) == built[node][Len(built[node]) - k]
        upgrades(node) == {last(node, N_ZONE_SHUTDOWNS + k) : k \in 0..N_ROLLING_UPGRADES - 1}
        shutdowns(node) == {last(node, k) : k \in 0..N_ZONE_SHUTDOWNS - 1}
    IN  /\ \A x \in upgrades(n), y \in shutdowns(o) : ~Overlap(x, y)
        /\ ZoneOf(n) # ZoneOf(o) => \A x \in shutdowns(n), y \in shutdowns(o) : ~Overlap(x, y)

\* What is displayed is what happened: the line "at least k" of a histogram shows
\* the years that had k events or more, those beyond the last bar among them;
\* and no year has fewer events than the shutdowns that are taken away.
TailsCounted ==
  pc = "done" => \A z \in Zone :
    /\ \A y \in DOMAIN past : past[y][z] >= 0
    /\ \A k \in Displayed(total.proba[z]) :
         AtLeast(total.proba[z], k) = Cardinality({y \in DOMAIN past : past[y][z] >= k})

\* The arrays of the zones, of the cluster and of tmp, those of the local slice in
\* place of the slice that it began on.
InUse ==
  [z \in Zone |-> IF acc # None /\ pc = "zones" /\ z = ZoneOf(at - 1) THEN acc ELSE zones[z]]
  \o <<IF acc # None /\ pc = "cluster" THEN acc ELSE cluster, tmp>>

\* The slices that changed places never share an array: no merge writes what it
\* reads, nor what a zone or the cluster still needs, this year or the next.
ArraysDistinct == IsInjective(InUse)

\* What the comment of Normalize (simulation.go:62) says of the intervals a node
\* has: they are within the range of the year, and none ends before it begins.
IntervalsInRange ==
  \A n \in Node : \A k \in DOMAIN nodes[n] :
    nodes[n][k].beg <= nodes[n][k].end /\ nodes[n][k].end <= MAXSECS
=============================================================================
