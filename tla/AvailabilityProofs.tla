------------------------- MODULE AvailabilityProofs -------------------------
(***************************************************************************)
(* Proofs about Availability, for any numbers of zones, nodes and events,  *)
(* any durations and any random draws: the merges never share an array,    *)
(* and the scheduled events exclude each other.  The second needs the      *)
(* first, since the view of the cluster and the list of events are slices  *)
(* that change places from year to year.                                   *)
(***************************************************************************)
EXTENDS Availability, TLAPS, SequenceTheorems, WellFoundedInduction

\* Induction over the naturals, for sets of naturals.
LEMMA NaturalsBySet ==
  ASSUME NEW S, 0 \in S, \A n \in Nat : n \in S => n + 1 \in S
  PROVE  \A n \in Nat : n \in S
<1> DEFINE T == Nat \ S
<1>1. SUFFICES ASSUME T # {} PROVE FALSE
  OBVIOUS
<1>2. PICK x \in T : \A y \in T : ~ (<<y, x>> \in OpToRel(<, Nat))
  BY <1>1, NatLessThanWellFounded, WFMin
<1>3. x \in Nat /\ x # 0
  OBVIOUS
<1>4. x - 1 \in Nat /\ x - 1 < x
  BY <1>3
<1>5. <<x - 1, x>> \in OpToRel(<, Nat)
  BY <1>3, <1>4 DEF OpToRel
<1>6. x - 1 \notin T
  BY <1>2, <1>5
<1> QED
  BY <1>3, <1>4, <1>6

-----------------------------------------------------------------------------
(* The constants, and the nodes of the zones. *)

\* What the proofs need of the constants.
LEMMA Constants ==
  /\ N_ZONES \in Nat \ {0} /\ ZONE_SIZE \in Nat \ {0} /\ MAXSECS \in Nat \ {0}
  /\ N_REBOOTS \in Nat /\ N_ROLLING_UPGRADES \in Nat \ {0} /\ N_ZONE_SHUTDOWNS \in Nat \ {0}
  /\ MTBR_REBOOT \in Nat /\ MTBR_HW_FAILURE \in Nat /\ MTBR_NET_FAILURE \in Nat
  /\ MTBR_ROLLING_UPGRADE \in Nat /\ IDLE_ROLLING_UPGRADE \in Nat /\ MTBR_ZONE_SHUTDOWN \in Nat
  /\ Times \subseteq Nat
  /\ \A t \in Times : t < MAXSECS
  BY SimulationAssumption, YearAssumption

\* Products of naturals.
LEMMA Times2 ==
  ASSUME NEW m \in Nat, NEW n \in Nat
  PROVE  m * n \in Nat
  OBVIOUS

LEMMA Grows ==
  ASSUME NEW a \in Nat, NEW b \in Nat, NEW c \in Nat, a <= b
  PROVE  a * c <= b * c
<1>1. PICK d \in Nat : b = a + d
  <2>1. b - a \in Nat /\ b = a + (b - a)
    OBVIOUS
  <2> QED
    BY <2>1
<1>2. b * c = a * c + d * c
  BY <1>1
<1>3. a * c \in Nat /\ b * c \in Nat /\ d * c \in Nat
  BY <1>1
<1> QED
  BY <1>2, <1>3

LEMMA Sizes ==
  /\ N_NODES \in Nat \ {0} /\ UpgradeStep \in Nat /\ UpgradeLasts \in Nat /\ Scheduled \in Nat
  /\ N_ZONE_SHUTDOWNS * N_ZONES \in Nat \ {0}
  /\ Scheduled = N_ROLLING_UPGRADES + N_ZONE_SHUTDOWNS * N_ZONES
<1>1. N_NODES \in Nat \ {0} /\ N_ZONE_SHUTDOWNS * N_ZONES \in Nat \ {0}
  BY Constants DEF N_NODES
<1>2. UpgradeStep \in Nat
  BY Constants DEF UpgradeStep
<1>3. (N_NODES - 1) * UpgradeStep \in Nat
  BY <1>1, <1>2
<1> QED
  BY <1>1, <1>2, <1>3, Constants DEF UpgradeLasts, Scheduled

\* A node is in one of the zones.
LEMMA ZoneOfNode ==
  ASSUME NEW n \in Node
  PROVE  ZoneOf(n) \in Zone
<1> DEFINE q == (n - 1) \div ZONE_SIZE
<1>1. n \in Nat /\ 1 <= n /\ n <= N_ZONES * ZONE_SIZE
  BY Sizes DEF Node, N_NODES
<1>2. q \in Nat /\ q * ZONE_SIZE <= n - 1
  BY <1>1, Constants
<1> HIDE DEF q
<1>3. q < N_ZONES
  <2> SUFFICES ASSUME N_ZONES <= q PROVE FALSE
    BY <1>2, Constants
  <2>1. N_ZONES * ZONE_SIZE <= q * ZONE_SIZE
    BY <1>2, Constants, Grows
  <2>2. N_ZONES * ZONE_SIZE \in Nat /\ q * ZONE_SIZE \in Nat
    BY <1>2, Constants
  <2> QED
    BY <1>1, <1>2, <2>1, <2>2
<1> QED
  BY <1>2, <1>3, Constants DEF ZoneOf, Zone, q

\* No node after the last one is in its zone.
LEMMA ZoneAfter ==
  ZoneOf(N_NODES + 1) \notin Zone
<1> DEFINE n == N_NODES + 1
<1>1. n - 1 = N_ZONES * ZONE_SIZE
  BY Sizes DEF N_NODES
<1>2. (N_ZONES * ZONE_SIZE) \div ZONE_SIZE = N_ZONES
  BY Constants
<1> HIDE DEF n
<1>3. (n - 1) \div ZONE_SIZE = N_ZONES
  BY <1>1, <1>2
<1>4. ZoneOf(n) = N_ZONES + 1
  BY <1>3 DEF ZoneOf
<1>5. ZoneOf(n) \notin Zone
  BY <1>4, Constants DEF Zone
<1> QED
  BY <1>5 DEF n

-----------------------------------------------------------------------------
(* The arrays. *)

\* The array of a zone and that of the cluster, the local slice included.
ZoneArray(z) == IF acc # None /\ pc = "zones" /\ z = ZoneOf(at - 1) THEN acc ELSE zones[z]
ClusterArray == IF acc # None /\ pc = "cluster" THEN acc ELSE cluster

ArrayTypes ==
  /\ zones \in [Zone -> Array] /\ cluster \in Array /\ tmp \in Array
  /\ acc \in Array \cup {None}
  /\ DOMAIN mem = Array /\ mem = [a \in Array |-> mem[a]]

\* Where the local slice is in use, and which node or zone is next.
Control ==
  /\ pc \in {"nodes", "net", "upgrades", "shutdowns", "retrofit", "normalize",
             "zones", "cluster", "evaluate", "update", "done"}
  /\ acc # None => pc \in {"zones", "cluster"}
  /\ pc = "nodes" => at \in Node
  /\ pc = "net" => at \in Zone
  /\ pc \notin {"nodes", "net", "zones", "cluster"} => at = 1
  /\ pc = "zones" /\ acc = None => at \in Node
  /\ pc = "zones" /\ acc # None => at \in Nat /\ at - 1 \in Node
  /\ pc = "cluster" => at \in Nat

Distinct ==
  /\ \A y, z \in Zone : ZoneArray(y) = ZoneArray(z) => y = z
  /\ \A z \in Zone : ZoneArray(z) # ClusterArray /\ ZoneArray(z) # tmp
  /\ ClusterArray # tmp

ArraysInv == ArrayTypes /\ Control /\ Distinct

\* The numbers of arrays are not None.
LEMMA ArrayNumbers ==
  None \notin Array /\ N_ZONES + 1 \in Array /\ N_ZONES + 2 \in Array /\ Zone \subseteq Array
  BY Constants DEF None, Array, Zone

\* The property, as it is checked, from the invariant.
LEMMA DistinctArrays ==
  ASSUME ArraysInv
  PROVE  ArraysDistinct
<1> DEFINE u == [z \in Zone |-> ZoneArray(z)]
           v == <<ClusterArray, tmp>>
<1>1. u \in Seq(Array) /\ Len(u) = N_ZONES
  <2>1. \A z \in Zone : ZoneArray(z) \in Array
    BY DEF ArraysInv, ArrayTypes, ZoneArray
  <2> QED
    BY <2>1, Constants DEF Zone
<1>2. v \in Seq(Array) /\ Len(v) = 2 /\ v[1] = ClusterArray /\ v[2] = tmp
  BY DEF ArraysInv, ArrayTypes, ClusterArray
<1>3. InUse = u \o v
  BY DEF InUse, ZoneArray, ClusterArray
<1>4. \A z \in Zone : u[z] = ZoneArray(z)
  OBVIOUS
<1> HIDE DEF u, v
<1>5. /\ DOMAIN (u \o v) = 1..N_ZONES + 2
      /\ \A z \in Zone : (u \o v)[z] = ZoneArray(z)
      /\ (u \o v)[N_ZONES + 1] = ClusterArray
      /\ (u \o v)[N_ZONES + 2] = tmp
  <2>1. /\ u \o v \in Seq(Array) /\ Len(u \o v) = Len(u) + Len(v)
        /\ \A k \in 1..Len(u) + Len(v) : (u \o v)[k] = IF k <= Len(u) THEN u[k] ELSE v[k - Len(u)]
    BY <1>1, <1>2, ConcatProperties
  <2>2. /\ Len(u \o v) = N_ZONES + 2
        /\ \A k \in 1..N_ZONES + 2 : (u \o v)[k] = IF k <= N_ZONES THEN u[k] ELSE v[k - N_ZONES]
    BY <2>1, <1>1, <1>2
  <2>3. DOMAIN (u \o v) = 1..N_ZONES + 2
    BY <2>1, <2>2, LenProperties
  <2>4. ASSUME NEW z \in Zone PROVE (u \o v)[z] = ZoneArray(z)
    BY <2>2, <1>4, Constants DEF Zone
  <2>5. (u \o v)[N_ZONES + 1] = v[1] /\ (u \o v)[N_ZONES + 2] = v[2]
    BY <2>2, Constants
  <2> QED
    BY <2>3, <2>4, <2>5, <1>2
<1>6. \A j \in 1..N_ZONES + 2 : j \in Zone \/ j = N_ZONES + 1 \/ j = N_ZONES + 2
  BY Constants DEF Zone
<1>7. ASSUME NEW j \in 1..N_ZONES + 2, NEW k \in 1..N_ZONES + 2, (u \o v)[j] = (u \o v)[k]
      PROVE  j = k
  <2>1. CASE j \in Zone /\ k \in Zone
    <3>1. ZoneArray(j) = ZoneArray(k)
      BY <1>5, <1>7, <2>1
    <3> QED
      BY <2>1, <3>1 DEF ArraysInv, Distinct
  <2>2. CASE j \in Zone /\ k \notin Zone
    BY <1>5, <1>6, <1>7, <2>2 DEF ArraysInv, Distinct
  <2>3. CASE j \notin Zone /\ k \in Zone
    BY <1>5, <1>6, <1>7, <2>3 DEF ArraysInv, Distinct
  <2>4. CASE j \notin Zone /\ k \notin Zone
    BY <1>5, <1>6, <1>7, <2>4 DEF ArraysInv, Distinct
  <2> QED
    BY <2>1, <2>2, <2>3, <2>4
<1> QED
  BY <1>3, <1>5, <1>7 DEF ArraysDistinct, IsInjective

\* The steps that neither use the local slice nor move an array.
LEMMA ArraysStill ==
  ASSUME ArraysInv, acc = None, UNCHANGED <<zones, cluster, tmp, acc>>
  PROVE  Distinct'
<1>1. ClusterArray = cluster /\ ClusterArray' = cluster
  BY DEF ClusterArray
<1>2. \A z \in Zone : ZoneArray(z) = zones[z] /\ ZoneArray(z)' = zones[z]
  BY DEF ZoneArray
<1> QED
  BY <1>1, <1>2 DEF ArraysInv, Distinct

\* A local slice on the array of its zone or of the cluster changes nothing.
LEMMA ArraysSame ==
  ASSUME ArraysInv, tmp' = tmp, ClusterArray' = ClusterArray,
         \A z \in Zone : ZoneArray(z)' = ZoneArray(z)
  PROVE  Distinct'
  BY DEF ArraysInv, Distinct

\* An update of mem leaves an array for each number.
LEMMA MemUpdated ==
  ASSUME ArrayTypes, NEW a \in Array, NEW s, mem' = [mem EXCEPT ![a] = s]
  PROVE  DOMAIN mem' = Array /\ mem' = [b \in Array |-> mem'[b]]
  BY DEF ArrayTypes

LEMMA MemUpdatedTwice ==
  ASSUME ArrayTypes, NEW a \in Array, NEW b \in Array, NEW s, NEW t,
         mem' = [mem EXCEPT ![a] = s, ![b] = t]
  PROVE  DOMAIN mem' = Array /\ mem' = [c \in Array |-> mem'[c]]
  BY DEF ArrayTypes

\* The steps of the simulation, one by one.
LEMMA ArraysBuildNode ==
  ASSUME ArraysInv, BuildNode
  PROVE  ArraysInv'
<1>1. pc = "nodes" /\ acc = None /\ at \in Node /\ UNCHANGED <<zones, cluster, tmp, acc, mem>>
  BY DEF ArraysInv, Control, BuildNode, arrays
<1>2. (at < N_NODES /\ at' = at + 1 /\ pc' = pc) \/ (at' = 1 /\ pc' = "net")
  BY DEF BuildNode
<1>3. 1 \in Zone /\ (at < N_NODES => at + 1 \in Node)
  BY <1>1, Constants, Sizes DEF Zone, Node
<1>4. ArrayTypes'
  BY <1>1 DEF ArraysInv, ArrayTypes
<1>5. Control'
  BY <1>1, <1>2, <1>3 DEF Control
<1> QED
  BY <1>1, <1>4, <1>5, ArraysStill DEF ArraysInv

LEMMA ArraysBuildNet ==
  ASSUME ArraysInv, BuildNet
  PROVE  ArraysInv'
<1>1. pc = "net" /\ acc = None /\ at \in Zone /\ UNCHANGED <<zones, cluster, tmp, acc>>
  BY DEF ArraysInv, Control, BuildNet, arrays
<1>2. \/ at < N_ZONES /\ at' = at + 1 /\ pc' = pc /\ mem' = mem
      \/ at' = 1 /\ pc' = "upgrades" /\ mem' = [mem EXCEPT ![cluster] = @ \o FlattenSeq(nodes')]
  BY DEF BuildNet
<1>3. at < N_ZONES => at + 1 \in Zone
  BY <1>1, Constants DEF Zone
<1>4. DOMAIN mem' = Array /\ mem' = [b \in Array |-> mem'[b]]
  BY <1>2, MemUpdated DEF ArraysInv, ArrayTypes
<1>5. ArrayTypes'
  BY <1>1, <1>4 DEF ArraysInv, ArrayTypes
<1>6. Control'
  BY <1>1, <1>2, <1>3 DEF Control
<1> QED
  BY <1>1, <1>5, <1>6, ArraysStill DEF ArraysInv

LEMMA ArraysSchedule ==
  ASSUME ArraysInv, NEW lasts, Schedule(lasts), pc \in {"upgrades", "shutdowns"},
         pc' \in {"upgrades", "shutdowns", "retrofit"}
  PROVE  ArraysInv'
<1>1. acc = None /\ at = 1 /\ at' = at /\ UNCHANGED <<zones, cluster, tmp, acc>>
  BY DEF ArraysInv, Control, Schedule, arrays
<1>2. PICK x : mem' = [mem EXCEPT ![tmp] = Append(mem[tmp], x)]
  BY DEF Schedule
<1>3. DOMAIN mem' = Array /\ mem' = [b \in Array |-> mem'[b]]
  BY <1>2, MemUpdated DEF ArraysInv, ArrayTypes
<1>4. ArrayTypes'
  BY <1>1, <1>3 DEF ArraysInv, ArrayTypes
<1>5. Control'
  BY <1>1 DEF Control
<1> QED
  BY <1>1, <1>4, <1>5, ArraysStill DEF ArraysInv

LEMMA ArraysNormalize ==
  ASSUME ArraysInv, Normalize
  PROVE  ArraysInv'
<1>1. acc = None /\ at = 1 /\ at' = at /\ pc' = "zones" /\ UNCHANGED <<zones, cluster, tmp, acc>>
  BY DEF ArraysInv, Control, Normalize, arrays
<1>2. mem' = [mem EXCEPT ![tmp] = <<>>, ![cluster] = <<>>]
  BY DEF Normalize
<1>3. DOMAIN mem' = Array /\ mem' = [b \in Array |-> mem'[b]]
  BY <1>2, MemUpdatedTwice DEF ArraysInv, ArrayTypes
<1>4. ArrayTypes'
  BY <1>1, <1>3 DEF ArraysInv, ArrayTypes
<1>5. 1 \in Node
  BY Sizes DEF Node
<1>6. Control'
  BY <1>1, <1>5 DEF Control
<1> QED
  BY <1>1, <1>4, <1>6, ArraysStill DEF ArraysInv

LEMMA ArraysBeginZone ==
  ASSUME ArraysInv, BeginZone
  PROVE  ArraysInv'
<1> DEFINE z0 == ZoneOf(at)
<1>1. pc = "zones" /\ acc = None /\ at \in Node /\ z0 \in Zone /\ zones[z0] \in Array
  BY ZoneOfNode DEF ArraysInv, ArrayTypes, Control, BeginZone
<1>2. /\ acc' = zones[z0] /\ at' = at + 1 /\ UNCHANGED <<pc, zones, cluster, tmp>>
      /\ mem' = [mem EXCEPT ![zones[z0]] = @ \o nodes[at]]
  BY DEF BeginZone, Begin
<1>3. at' - 1 = at /\ at' \in Nat
  BY <1>1, <1>2, Sizes DEF Node
<1> HIDE DEF z0
<1>4. DOMAIN mem' = Array /\ mem' = [b \in Array |-> mem'[b]]
  BY <1>1, <1>2, MemUpdated DEF ArraysInv, ArrayTypes
<1>5. ArrayTypes'
  BY <1>1, <1>2, <1>4 DEF ArraysInv, ArrayTypes
<1>6. Control'
  BY <1>1, <1>2, <1>3, ArrayNumbers DEF Control
<1>7. ClusterArray' = ClusterArray
  BY <1>1, <1>2 DEF ClusterArray
<1>8. ASSUME NEW z \in Zone PROVE ZoneArray(z)' = ZoneArray(z)
  BY <1>1, <1>2, <1>3 DEF ZoneArray, z0
<1> QED
  BY <1>2, <1>5, <1>6, <1>7, <1>8, ArraysSame DEF ArraysInv

\* The local slice and tmp change places.
LEMMA ArraysSwap ==
  ASSUME ArrayTypes, acc \in Array, NEW kind, NEW list, MergeSwap(kind, list),
         UNCHANGED <<zones, cluster>>
  PROVE  ArrayTypes' /\ acc' = tmp /\ tmp' = acc /\ acc' # None
<1>1. acc' = tmp /\ tmp' = acc
  BY DEF MergeSwap
<1>2. PICK s : mem' = [mem EXCEPT ![acc] = <<>>, ![tmp] = s]
  BY DEF MergeSwap
<1>3. DOMAIN mem' = Array /\ mem' = [b \in Array |-> mem'[b]]
  BY <1>2, MemUpdatedTwice DEF ArrayTypes
<1> QED
  BY <1>1, <1>3, ArrayNumbers DEF ArrayTypes

LEMMA ArraysMergeNode ==
  ASSUME ArraysInv, MergeNode
  PROVE  ArraysInv'
<1> DEFINE z0 == ZoneOf(at - 1)
<1>1. /\ pc = "zones" /\ acc # None /\ acc \in Array /\ at \in Nat /\ at - 1 \in Node /\ z0 \in Zone
      /\ cluster' = cluster
  BY ZoneOfNode DEF ArraysInv, ArrayTypes, Control, MergeNode
<1>2. at \in 2..N_NODES + 1
  BY <1>1, Sizes DEF Node
<1>3. CASE ZoneOf(at) = z0
  <2>1. MergeSwap("nodes", nodes[at]) /\ at' = at + 1 /\ UNCHANGED <<pc, zones>>
    BY <1>1, <1>3 DEF MergeNode
  <2>2. at # N_NODES + 1
    BY <1>1, <1>3, ZoneAfter
  <2>3. at \in Node /\ at' - 1 = at /\ at' \in Nat
    BY <1>2, <2>1, <2>2, Sizes DEF Node
  <2>4. ArrayTypes' /\ acc' = tmp /\ tmp' = acc /\ acc' # None
    BY <1>1, <2>1, ArraysSwap DEF ArraysInv
  <2>5. Control'
    BY <1>1, <2>1, <2>3, <2>4 DEF Control
  <2>6. \A z \in Zone : z = z0 => ZoneArray(z) = acc /\ ZoneArray(z)' = tmp
    BY <1>1, <1>3, <2>1, <2>3, <2>4 DEF ZoneArray
  <2>7. ASSUME NEW z \in Zone, z # z0 PROVE ZoneArray(z)' = ZoneArray(z)
    BY <1>1, <1>3, <2>1, <2>3, <2>4, <2>7 DEF ZoneArray
  <2>8. ClusterArray = cluster /\ ClusterArray' = cluster
    BY <1>1, <2>1 DEF ClusterArray
  <2> HIDE DEF z0
  <2>9. ASSUME NEW y \in Zone, NEW z \in Zone, ZoneArray(y)' = ZoneArray(z)' PROVE y = z
    <3>1. CASE y = z0 \/ z = z0
      BY <2>6, <2>7, <2>9, <3>1 DEF ArraysInv, Distinct
    <3>2. CASE y # z0 /\ z # z0
      BY <2>7, <2>9, <3>2 DEF ArraysInv, Distinct
    <3> QED
      BY <3>1, <3>2
  <2>10. ASSUME NEW z \in Zone PROVE ZoneArray(z)' # cluster /\ ZoneArray(z)' # acc
    <3>1. CASE z = z0
      BY <1>1, <2>6, <2>8, <3>1 DEF ArraysInv, Distinct
    <3>2. CASE z # z0
      BY <1>1, <2>6, <2>7, <2>8, <3>2 DEF ArraysInv, Distinct
    <3> QED
      BY <3>1, <3>2
  <2>11. cluster # acc
    BY <1>1, <2>6, <2>8 DEF ArraysInv, Distinct
  <2>12. Distinct'
    BY <2>4, <2>8, <2>9, <2>10, <2>11 DEF Distinct
  <2> QED
    BY <2>4, <2>5, <2>12 DEF ArraysInv
<1>4. CASE ZoneOf(at) # z0
  <2>1. /\ zones' = [zones EXCEPT ![z0] = acc] /\ acc' = None /\ UNCHANGED <<tmp, mem>>
        /\ (at <= N_NODES /\ pc' = pc /\ at' = at) \/ (pc' = "cluster" /\ at' = 1)
    BY <1>1, <1>4 DEF MergeNode
  <2>2. at <= N_NODES => at \in Node
    BY <1>2, Sizes DEF Node
  <2>3. ArrayTypes'
    BY <1>1, <2>1 DEF ArraysInv, ArrayTypes
  <2>4. Control'
    BY <1>1, <2>1, <2>2 DEF Control
  <2>5. ClusterArray = cluster /\ ClusterArray' = cluster
    BY <1>1, <2>1 DEF ClusterArray
  <2>6. ASSUME NEW z \in Zone PROVE ZoneArray(z)' = ZoneArray(z)
    BY <1>1, <2>1 DEF ZoneArray, ArraysInv, ArrayTypes
  <2> HIDE DEF z0
  <2> QED
    BY <2>1, <2>3, <2>4, <2>5, <2>6, ArraysSame DEF ArraysInv
<1> QED
  BY <1>3, <1>4

LEMMA ArraysBeginCluster ==
  ASSUME ArraysInv, BeginCluster
  PROVE  ArraysInv'
<1>1. /\ pc = "cluster" /\ acc = None /\ acc' = cluster /\ at' = 2
      /\ UNCHANGED <<pc, zones, cluster, tmp>>
      /\ mem' = [mem EXCEPT ![cluster] = @ \o mem[zones[1]]]
  BY DEF BeginCluster, Begin
<1>2. DOMAIN mem' = Array /\ mem' = [b \in Array |-> mem'[b]]
  BY <1>1, MemUpdated DEF ArraysInv, ArrayTypes
<1>3. ArrayTypes'
  BY <1>1, <1>2 DEF ArraysInv, ArrayTypes
<1>4. Control'
  BY <1>1 DEF Control
<1>5. ClusterArray' = ClusterArray
  BY <1>1 DEF ClusterArray
<1>6. ASSUME NEW z \in Zone PROVE ZoneArray(z)' = ZoneArray(z)
  BY <1>1 DEF ZoneArray
<1> QED
  BY <1>1, <1>3, <1>4, <1>5, <1>6, ArraysSame DEF ArraysInv

LEMMA ArraysMergeZone ==
  ASSUME ArraysInv, MergeZone
  PROVE  ArraysInv'
<1>1. pc = "cluster" /\ acc # None /\ acc \in Array /\ at \in Nat /\ zones' = zones
  BY DEF ArraysInv, ArrayTypes, Control, MergeZone
<1>2. \A z \in Zone : ZoneArray(z) = zones[z]
  BY <1>1 DEF ZoneArray
<1>3. ClusterArray = acc
  BY <1>1 DEF ClusterArray
<1>4. CASE at <= N_ZONES
  <2>1. MergeSwap("zones", mem[zones[at]]) /\ at' = at + 1 /\ UNCHANGED <<pc, cluster>>
    BY <1>4 DEF MergeZone
  <2>2. ArrayTypes' /\ acc' = tmp /\ tmp' = acc /\ acc' # None
    BY <1>1, <2>1, ArraysSwap DEF ArraysInv
  <2>3. Control'
    BY <1>1, <2>1, <2>2 DEF Control
  <2>4. ClusterArray' = tmp /\ \A z \in Zone : ZoneArray(z)' = zones[z]
    BY <1>1, <2>1, <2>2 DEF ClusterArray, ZoneArray
  <2>5. Distinct'
    BY <1>2, <1>3, <2>2, <2>4 DEF ArraysInv, Distinct
  <2> QED
    BY <2>2, <2>3, <2>5 DEF ArraysInv
<1>5. CASE ~(at <= N_ZONES)
  <2>1. cluster' = acc /\ acc' = None /\ pc' = "evaluate" /\ at' = 1 /\ UNCHANGED <<tmp, mem>>
    BY <1>5 DEF MergeZone
  <2>2. ArrayTypes'
    BY <1>1, <2>1 DEF ArraysInv, ArrayTypes
  <2>3. Control'
    BY <2>1 DEF Control
  <2>4. ClusterArray' = acc /\ \A z \in Zone : ZoneArray(z)' = zones[z]
    BY <1>1, <2>1 DEF ClusterArray, ZoneArray
  <2> QED
    BY <1>2, <1>3, <2>1, <2>2, <2>3, <2>4, ArraysSame DEF ArraysInv
<1> QED
  BY <1>4, <1>5

\* The steps that do not concern the arrays.
LEMMA ArraysElsewhere ==
  ASSUME ArraysInv, Retrofit \/ Evaluate \/ Update
  PROVE  ArraysInv'
<1>1. /\ acc = None /\ at = 1 /\ at' = at /\ UNCHANGED <<zones, cluster, tmp, acc, mem>>
      /\ pc' \in {"normalize", "update", "done"}
  BY DEF ArraysInv, Control, Retrofit, Evaluate, Update, arrays
<1>2. ArrayTypes'
  BY <1>1 DEF ArraysInv, ArrayTypes
<1>3. Control'
  BY <1>1 DEF Control
<1> QED
  BY <1>1, <1>2, <1>3, ArraysStill DEF ArraysInv

LEMMA ArraysNextYear ==
  ASSUME ArraysInv, NextYear
  PROVE  ArraysInv'
<1>1. /\ acc = None /\ at = 1 /\ at' = at /\ UNCHANGED <<zones, cluster, tmp, acc>>
      /\ pc' = "nodes" /\ mem' = Blank
  BY DEF ArraysInv, Control, NextYear, arrays
<1>2. ArrayTypes'
  BY <1>1 DEF ArraysInv, ArrayTypes, Blank
<1>3. 1 \in Node
  BY Sizes DEF Node
<1>4. Control'
  BY <1>1, <1>3 DEF Control
<1> QED
  BY <1>1, <1>2, <1>4, ArraysStill DEF ArraysInv

LEMMA ArraysBegin ==
  ASSUME Init
  PROVE  ArraysInv
<1>1. ArrayTypes
  BY ArrayNumbers DEF Init, ArrayTypes, Blank
<1>2. 1 \in Node
  BY Sizes DEF Node
<1>3. Control
  BY <1>2 DEF Init, Control
<1>4. ClusterArray = N_ZONES + 1 /\ tmp = N_ZONES + 2 /\ \A z \in Zone : ZoneArray(z) = z
  BY DEF Init, ClusterArray, ZoneArray
<1>5. Distinct
  BY <1>4, Constants DEF Distinct, Zone
<1> QED
  BY <1>1, <1>3, <1>5 DEF ArraysInv

LEMMA ArraysNext ==
  ASSUME ArraysInv, [Next]_vars
  PROVE  ArraysInv'
<1>1. CASE UNCHANGED vars
  BY <1>1 DEF vars, arrays, ArraysInv, ArrayTypes, Control, Distinct, ZoneArray, ClusterArray
<1>2. CASE RollingUpgrade \/ ZoneShutdown
  <2>1. /\ pc \in {"upgrades", "shutdowns"} /\ pc' \in {"upgrades", "shutdowns", "retrofit"}
        /\ Schedule(UpgradeLasts) \/ Schedule(MTBR_ZONE_SHUTDOWN)
    BY <1>2 DEF RollingUpgrade, ZoneShutdown
  <2> QED
    BY <2>1, ArraysSchedule
<1>3. CASE Redraw \/ Terminated
  BY <1>1, <1>3 DEF Redraw, Terminated
<1>4. CASE BuildNode
  BY <1>4, ArraysBuildNode
<1>5. CASE BuildNet
  BY <1>5, ArraysBuildNet
<1>6. CASE Retrofit \/ Evaluate \/ Update
  BY <1>6, ArraysElsewhere
<1>7. CASE Normalize
  BY <1>7, ArraysNormalize
<1>8. CASE BeginZone
  BY <1>8, ArraysBeginZone
<1>9. CASE MergeNode
  BY <1>9, ArraysMergeNode
<1>10. CASE BeginCluster
  BY <1>10, ArraysBeginCluster
<1>11. CASE MergeZone
  BY <1>11, ArraysMergeZone
<1>12. CASE NextYear
  BY <1>12, ArraysNextYear
<1> QED
  BY <1>1, <1>2, <1>3, <1>4, <1>5, <1>6, <1>7, <1>8, <1>9, <1>10, <1>11, <1>12 DEF Next

\* The slices of the zones, of the cluster, of the scheduled events and of the merge
\* under way never share an array, in any year (simulateZones and simulateCluster,
\* simulation.go).
THEOREM ArraysKept == Spec => []ArraysDistinct
<1>1. ArraysInv /\ [Next]_vars => ArraysInv'
  BY ArraysNext
<1>2. Spec => []ArraysInv
  BY <1>1, ArraysBegin, PTL DEF Spec
<1>3. ArraysInv => ArraysDistinct
  BY DistinctArrays
<1> QED
  BY <1>2, <1>3, PTL

-----------------------------------------------------------------------------
(* The scheduled events. *)

\* How long the k-th event lasts.
Lasts(k) == IF k <= N_ROLLING_UPGRADES THEN UpgradeLasts ELSE MTBR_ZONE_SHUTDOWN

\* The events drawn so far: each of its kind, and away from the others.
Timed(s) == \A k \in DOMAIN s : s[k].beg \in Times /\ s[k] = Failure(s[k].beg, Lasts(k))
Apart(s) == \A j, k \in DOMAIN s : j < k => ~Overlap(s[j], s[k])
Calendar(s) == s \in Seq(Interval) /\ Timed(s) /\ Apart(s)

NodeLists == nodes \in [Node -> Seq(Interval)]

EventsInv ==
  /\ pc \in {"nodes", "net", "upgrades", "shutdowns", "retrofit"} => NodeLists
  /\ pc \in {"nodes", "net"} => mem[tmp] = <<>>
  /\ pc \in {"upgrades", "shutdowns", "retrofit"} => Calendar(mem[tmp])
  /\ pc = "upgrades" => Events < N_ROLLING_UPGRADES
  /\ pc = "shutdowns" => N_ROLLING_UPGRADES <= Events /\ Events < Scheduled
  /\ pc = "retrofit" => Events = Scheduled
  /\ EventsExclusive

\* A failure is an interval, whose end is not after the year.
LEMMA FailureType ==
  ASSUME NEW t \in Nat, NEW mttr \in Nat
  PROVE  /\ Failure(t, mttr) \in Interval
         /\ Failure(t, mttr).beg = t
         /\ Failure(t, mttr).end <= t + mttr /\ Failure(t, mttr).end <= MAXSECS
<1>1. MAXSECS \in Nat
  BY Constants
<1> QED
  BY <1>1 DEF Failure, Interval

LEMMA FailureEnd ==
  ASSUME NEW t \in Nat, NEW mttr \in Nat, NEW x, x = Failure(t, mttr)
  PROVE  x.end = t + mttr \/ x.end = MAXSECS
<1>1. x.end = IF t + mttr > MAXSECS THEN MAXSECS ELSE t + mttr
  BY DEF Failure
<1> QED
  BY <1>1

\* AddFailures leaves a list of intervals.
LEMMA AddFailuresType ==
  ASSUME NEW s \in Seq(Interval), NEW n \in Nat, NEW mttr \in Nat,
         NEW list \in AddFailures(s, n, mttr)
  PROVE  list \in Seq(Interval)
<1> DEFINE More(P) == UNION {{Append(l, Failure(t, mttr)) :
                                t \in {u \in Times : ~CheckCollision(l, Failure(u, mttr))}} : l \in P}
           Is(f, m) == f = [k \in 0..m |-> IF k = 0 THEN {s} ELSE More(f[k - 1])]
           D == {m \in Nat : \E f : Is(f, m)}
           w == CHOOSE f : Is(f, n)
           T == {m \in Nat : m <= n => w[m] \subseteq Seq(Interval)}
<1>1. AddFailures(s, n, mttr) = w[n]
  BY DEF AddFailures
<1>2. ASSUME NEW P, P \subseteq Seq(Interval) PROVE More(P) \subseteq Seq(Interval)
  <2> SUFFICES ASSUME NEW r \in More(P) PROVE r \in Seq(Interval)
    OBVIOUS
  <2>1. PICK l \in P : r \in {Append(l, Failure(t, mttr)) :
                                t \in {u \in Times : ~CheckCollision(l, Failure(u, mttr))}}
    OBVIOUS
  <2>2. PICK t \in Times : r = Append(l, Failure(t, mttr))
    BY <2>1
  <2>3. l \in Seq(Interval) /\ Failure(t, mttr) \in Interval
    BY <1>2, FailureType, Constants
  <2> QED
    BY <2>2, <2>3, AppendProperties
<1> HIDE DEF More
<1>3. 0 \in D
  <2>1. Is([k \in 0..0 |-> {s}], 0)
    OBVIOUS
  <2> HIDE DEF Is
  <2> QED
    BY <2>1
<1>4. ASSUME NEW m \in Nat, m \in D PROVE m + 1 \in D
  <2>1. PICK f : Is(f, m)
    BY <1>4
  <2> DEFINE g == [k \in 0..m + 1 |-> IF k = m + 1 THEN More(f[m]) ELSE f[k]]
  <2>2. ASSUME NEW k \in 0..m + 1 PROVE g[k] = IF k = 0 THEN {s} ELSE More(g[k - 1])
    <3>1. \A j \in 0..m : f[j] = IF j = 0 THEN {s} ELSE More(f[j - 1])
      BY <2>1
    <3>2. g[m + 1] = More(f[m]) /\ \A j \in 0..m : g[j] = f[j]
      OBVIOUS
    <3> HIDE DEF g
    <3>3. CASE k = m + 1
      <4>1. k # 0 /\ k - 1 = m /\ m \in 0..m
        BY <3>3
      <4> QED
        BY <3>2, <3>3, <4>1
    <3>4. CASE k = 0
      BY <3>1, <3>2, <3>4
    <3>5. CASE k \in 1..m
      BY <3>1, <3>2, <3>5
    <3> QED
      BY <3>3, <3>4, <3>5
  <2>3. Is(g, m + 1)
    BY <2>2
  <2> HIDE DEF g, Is
  <2> QED
    BY <2>3
<1> HIDE DEF Is
<1>5. \A m \in Nat : m \in D
  <2> HIDE DEF D
  <2> QED
    BY <1>3, <1>4, NaturalsBySet
<1>6. Is(w, n)
  BY <1>5
<1> HIDE DEF w
<1>7. \A k \in 0..n : w[k] = IF k = 0 THEN {s} ELSE More(w[k - 1])
  BY <1>6 DEF Is
<1>8. 0 \in T
  BY <1>7
<1>9. ASSUME NEW m \in Nat, m \in T PROVE m + 1 \in T
  <2> SUFFICES ASSUME m + 1 <= n PROVE w[m + 1] \subseteq Seq(Interval)
    OBVIOUS
  <2>1. m <= n /\ w[m] \subseteq Seq(Interval) /\ m + 1 \in 0..n
    BY <1>9
  <2>2. w[m + 1] = More(w[m])
    BY <1>7, <2>1
  <2> QED
    BY <1>2, <2>1, <2>2
<1>10. \A m \in Nat : m \in T
  <2> HIDE DEF T
  <2> QED
    BY <1>8, <1>9, NaturalsBySet
<1> QED
  BY <1>1, <1>10

\* An event that collides with no other one joins the calendar.
LEMMA CalendarGrows ==
  ASSUME NEW s, Calendar(s), NEW t \in Times, NEW x,
         x = Failure(t, Lasts(Len(s) + 1)), ~CheckCollision(s, x)
  PROVE  Calendar(Append(s, x)) /\ Len(Append(s, x)) = Len(s) + 1
<1> DEFINE r == Append(s, x)
<1>1. s \in Seq(Interval) /\ Timed(s) /\ Apart(s) /\ Len(s) \in Nat /\ DOMAIN s = 1..Len(s)
  BY LenProperties DEF Calendar
<1>2. Lasts(Len(s) + 1) \in Nat
  BY Sizes, Constants DEF Lasts
<1>3. x \in Interval /\ x.beg = t
  BY <1>2, FailureType, Constants
<1>4. /\ r \in Seq(Interval) /\ Len(r) = Len(s) + 1 /\ DOMAIN r = 1..Len(s) + 1
      /\ \A k \in 1..Len(s) : r[k] = s[k]
      /\ r[Len(s) + 1] = x
  BY <1>1, <1>3, AppendProperties, LenProperties
<1> HIDE DEF r
<1>5. Timed(r)
  <2> SUFFICES ASSUME NEW k \in DOMAIN r PROVE r[k].beg \in Times /\ r[k] = Failure(r[k].beg, Lasts(k))
    BY DEF Timed
  <2>1. CASE k \in 1..Len(s)
    BY <1>1, <1>4, <2>1 DEF Timed
  <2>2. CASE k = Len(s) + 1
    <3>1. r[k] = x
      BY <1>4, <2>2
    <3>2. x.beg = t /\ x = Failure(t, Lasts(k))
      BY <1>3, <2>2
    <3> QED
      BY <3>1, <3>2
  <2> QED
    BY <1>1, <1>4, <2>1, <2>2
<1>6. Apart(r)
  <2> SUFFICES ASSUME NEW j \in DOMAIN r, NEW k \in DOMAIN r, j < k PROVE ~Overlap(r[j], r[k])
    BY DEF Apart
  <2>1. j \in 1..Len(s) /\ r[j] = s[j]
    BY <1>1, <1>4
  <2>2. CASE k \in 1..Len(s)
    BY <1>1, <1>4, <2>1, <2>2 DEF Apart
  <2>3. CASE k = Len(s) + 1
    BY <1>1, <1>4, <2>1, <2>3 DEF CheckCollision
  <2> QED
    BY <1>1, <1>4, <2>2, <2>3
<1> QED
  BY <1>4, <1>5, <1>6 DEF Calendar, r

\* Two events of the calendar do not overlap, in either order.
LEMMA CalendarApart ==
  ASSUME NEW s, Calendar(s), NEW j \in DOMAIN s, NEW k \in DOMAIN s, j # k
  PROVE  ~Overlap(s[j], s[k]) /\ s[j] \in Interval /\ s[k] \in Interval
<1>1. DOMAIN s = 1..Len(s) /\ Len(s) \in Nat /\ s \in Seq(Interval) /\ Apart(s)
  BY LenProperties DEF Calendar
<1>2. s[j] \in Interval /\ s[k] \in Interval
  BY <1>1, ElementOfSeq
<1>3. CASE j < k
  BY <1>1, <1>2, <1>3 DEF Apart
<1>4. CASE k < j
  <2>1. ~Overlap(s[k], s[j])
    BY <1>1, <1>4 DEF Apart
  <2> QED
    BY <1>2, <2>1 DEF Overlap, Interval
<1> QED
  BY <1>1, <1>2, <1>3, <1>4

-----------------------------------------------------------------------------
(* What the events make of the nodes. *)

\* The event behind the i-th shutdown of a node.
ShutdownIndex(n, i) == N_ROLLING_UPGRADES + (i - 1) * N_ZONES + ZoneOf(n)

\* The shutdowns of two zones are different events, after the upgrades.
LEMMA ShutdownIndices ==
  ASSUME NEW n \in Node, NEW i \in 1..N_ZONE_SHUTDOWNS
  PROVE  /\ ShutdownIndex(n, i) \in N_ROLLING_UPGRADES + 1 .. Scheduled
         /\ \A o \in Node, j \in 1..N_ZONE_SHUTDOWNS :
              ShutdownIndex(n, i) = ShutdownIndex(o, j) => ZoneOf(n) = ZoneOf(o)
<1> DEFINE z == ZoneOf(n)
           b == (i - 1) * N_ZONES
<1>1. z \in Nat /\ 1 <= z /\ z <= N_ZONES
  BY ZoneOfNode, Constants DEF Zone
<1>2. i - 1 \in Nat /\ i \in Nat /\ i - 1 <= N_ZONE_SHUTDOWNS - 1 /\ N_ZONE_SHUTDOWNS - 1 \in Nat
  BY Constants
<1>3. b \in Nat /\ b <= (N_ZONE_SHUTDOWNS - 1) * N_ZONES
  BY <1>2, Constants, Grows, Times2
<1>4. (N_ZONE_SHUTDOWNS - 1) * N_ZONES + N_ZONES = N_ZONE_SHUTDOWNS * N_ZONES
  BY Constants
<1>5. (N_ZONE_SHUTDOWNS - 1) * N_ZONES \in Nat
  BY <1>2, Constants, Times2
<1> HIDE DEF z, b
<1>6. ShutdownIndex(n, i) = N_ROLLING_UPGRADES + b + z
  BY DEF ShutdownIndex, b, z
<1>7. b + z \in 1..N_ZONE_SHUTDOWNS * N_ZONES
  BY <1>1, <1>3, <1>4, <1>5, Constants, Sizes
<1>8. ShutdownIndex(n, i) \in N_ROLLING_UPGRADES + 1 .. Scheduled
  BY <1>1, <1>3, <1>6, <1>7, Constants, Sizes
<1>9. ASSUME NEW o \in Node, NEW j \in 1..N_ZONE_SHUTDOWNS, ShutdownIndex(n, i) = ShutdownIndex(o, j)
      PROVE  z = ZoneOf(o)
  <2> DEFINE y == ZoneOf(o)
             c == (j - 1) * N_ZONES
  <2>1. y \in Nat /\ 1 <= y /\ y <= N_ZONES
    BY ZoneOfNode, Constants DEF Zone
  <2>2. j - 1 \in Nat /\ j \in Nat
    BY Constants
  <2>3. c \in Nat
    BY <2>2, Constants, Times2
  <2>4. i < j => b + N_ZONES <= c
    <3>1. SUFFICES ASSUME i < j PROVE b + N_ZONES <= c
      OBVIOUS
    <3>2. i * N_ZONES <= c
      BY <1>2, <2>2, <3>1, Constants, Grows
    <3>3. i * N_ZONES = b + N_ZONES
      BY <1>2, Constants DEF b
    <3> QED
      BY <3>2, <3>3
  <2>5. j < i => c + N_ZONES <= b
    <3>1. SUFFICES ASSUME j < i PROVE c + N_ZONES <= b
      OBVIOUS
    <3>2. j * N_ZONES <= b
      BY <1>2, <2>2, <3>1, Constants, Grows DEF b
    <3>3. j * N_ZONES = c + N_ZONES
      BY <2>2, Constants
    <3> QED
      BY <3>2, <3>3
  <2>6. i = j => b = c
    BY DEF b
  <2>7. ShutdownIndex(o, j) = N_ROLLING_UPGRADES + c + y
    BY DEF ShutdownIndex
  <2> HIDE DEF y, c
  <2>8. b + z = c + y
    BY <1>1, <1>3, <1>6, <1>9, <2>1, <2>3, <2>7, Constants
  <2>9. z = y
    BY <1>1, <1>2, <1>3, <2>1, <2>2, <2>3, <2>4, <2>5, <2>6, <2>8, Constants
  <2> QED
    BY <2>9 DEF y
<1> QED
  BY <1>8, <1>9 DEF z

\* An interval within an event.
Within(x, e) == x.beg \in Nat /\ x.end \in Nat /\ e.beg <= x.beg /\ x.end <= e.end

LEMMA WithinApart ==
  ASSUME NEW x, NEW y, NEW d \in Interval, NEW e \in Interval,
         Within(x, d), Within(y, e), ~Overlap(d, e)
  PROVE  ~Overlap(x, y)
  BY DEF Within, Overlap, Interval

\* The upgrade of a node is within the whole upgrade.
LEMMA UpgradeWithin ==
  ASSUME Calendar(mem[tmp]), Events = Scheduled, NEW n \in Node, NEW i \in 1..N_ROLLING_UPGRADES
  PROVE  /\ Upgrades(n)[i] \in Interval
         /\ i \in DOMAIN mem[tmp] /\ Within(Upgrades(n)[i], mem[tmp][i])
<1> DEFINE e == mem[tmp][i]
           d == (n - 1) * UpgradeStep
<1>1. i \in DOMAIN mem[tmp] /\ i \in Nat /\ i <= N_ROLLING_UPGRADES
  BY Constants, Sizes, LenProperties DEF Calendar, Events
<1>2. e.beg \in Times /\ e = Failure(e.beg, UpgradeLasts)
  BY <1>1, Constants DEF Calendar, Timed, Lasts
<1>3. e.beg \in Nat
  BY <1>2, Constants
<1>4. n - 1 \in Nat /\ N_NODES - 1 \in Nat /\ n - 1 <= N_NODES - 1
  BY Sizes DEF Node
<1>5. d \in Nat /\ d <= (N_NODES - 1) * UpgradeStep
  BY <1>4, Sizes, Grows, Times2
<1>6. Upgrades(n)[i] = Failure(e.beg + d, MTBR_ROLLING_UPGRADE)
  BY DEF Upgrades
<1> HIDE DEF e, d
<1> DEFINE x == Failure(e.beg + d, MTBR_ROLLING_UPGRADE)
           u == (N_NODES - 1) * UpgradeStep
<1>7. u \in Nat
  BY <1>4, Sizes, Times2
<1>8. UpgradeLasts = u + MTBR_ROLLING_UPGRADE
  BY DEF UpgradeLasts
<1>9. d <= u
  BY <1>5
<1>10. e.beg + d \in Nat
  BY <1>3, <1>5
<1>11. /\ x \in Interval /\ x.beg = e.beg + d
       /\ x.end <= e.beg + d + MTBR_ROLLING_UPGRADE /\ x.end <= MAXSECS
  BY <1>10, FailureType, Constants
<1>12. e.end = e.beg + UpgradeLasts \/ e.end = MAXSECS
  BY <1>2, <1>3, FailureEnd, Sizes
<1>13. x.beg \in Nat /\ x.end \in Nat
  BY <1>11 DEF Interval
<1> HIDE DEF x, u
<1>14. x.end <= e.end
  BY <1>3, <1>5, <1>7, <1>8, <1>9, <1>11, <1>12, <1>13, Constants
<1>15. Within(x, e)
  BY <1>3, <1>5, <1>11, <1>13, <1>14 DEF Within
<1> QED
  BY <1>1, <1>6, <1>11, <1>15 DEF x, e

\* The shutdown of a node is that of its zone.
LEMMA ShutdownIsEvent ==
  ASSUME Calendar(mem[tmp]), Events = Scheduled, NEW n \in Node, NEW i \in 1..N_ZONE_SHUTDOWNS
  PROVE  /\ Shutdowns(n)[i] = mem[tmp][ShutdownIndex(n, i)]
         /\ ShutdownIndex(n, i) \in DOMAIN mem[tmp]
         /\ ShutdownIndex(n, i) > N_ROLLING_UPGRADES
         /\ Shutdowns(n)[i] \in Interval
         /\ Within(Shutdowns(n)[i], mem[tmp][ShutdownIndex(n, i)])
<1> DEFINE k == ShutdownIndex(n, i)
           e == mem[tmp][k]
<1>1. k \in N_ROLLING_UPGRADES + 1 .. Scheduled
  BY ShutdownIndices
<1>2. Shutdowns(n)[i] = Failure(e.beg, MTBR_ZONE_SHUTDOWN)
  BY DEF Shutdowns, ShutdownIndex
<1> HIDE DEF k
<1>3. k \in DOMAIN mem[tmp] /\ k \in Nat /\ k > N_ROLLING_UPGRADES
  BY <1>1, Constants, Sizes, LenProperties DEF Calendar, Events
<1>4. e = Failure(e.beg, MTBR_ZONE_SHUTDOWN)
  BY <1>3, Constants DEF Calendar, Timed, Lasts
<1>5. e \in Interval
  BY <1>3, ElementOfSeq, LenProperties DEF Calendar
<1> HIDE DEF e
<1>6. Within(e, e)
  BY <1>5 DEF Within, Interval
<1> QED
  BY <1>2, <1>3, <1>4, <1>5, <1>6 DEF e, k

\* The last entries of w are those of u, then those of v.
EndsWith(w, u, v) ==
  /\ \A k \in 0..Len(v) - 1 : w[Len(w) - k] = v[Len(v) - k]
  /\ \A k \in 0..Len(u) - 1 : w[Len(w) - (Len(v) + k)] = u[Len(u) - k]

LEMMA Tails ==
  ASSUME NEW S, NEW s \in Seq(S), NEW u \in Seq(S), NEW v \in Seq(S), NEW w, w = s \o u \o v
  PROVE  EndsWith(w, u, v)
<1> DEFINE h == s \o u
<1>1. Len(s) \in Nat /\ Len(u) \in Nat /\ Len(v) \in Nat
  BY LenProperties
<1>2. /\ h \in Seq(S) /\ Len(h) = Len(s) + Len(u)
      /\ \A k \in 1..Len(s) + Len(u) : h[k] = IF k <= Len(s) THEN s[k] ELSE u[k - Len(s)]
  BY ConcatProperties
<1> HIDE DEF h
<1>3. w = h \o v
  BY DEF h
<1>4. /\ Len(w) = Len(h) + Len(v)
      /\ \A k \in 1..Len(h) + Len(v) : w[k] = IF k <= Len(h) THEN h[k] ELSE v[k - Len(h)]
  <2>1. /\ Len(h \o v) = Len(h) + Len(v)
        /\ \A k \in 1..Len(h) + Len(v) : (h \o v)[k] = IF k <= Len(h) THEN h[k] ELSE v[k - Len(h)]
    <3>1. h \in Seq(S) /\ v \in Seq(S)
      BY <1>2
    <3> QED
      BY <3>1, ConcatProperties
  <2> QED
    BY <1>3, <2>1
<1>5. ASSUME NEW k \in 0..Len(v) - 1 PROVE w[Len(w) - k] = v[Len(v) - k]
  <2>1. Len(w) - k \in 1..Len(h) + Len(v) /\ Len(w) - k > Len(h) /\ Len(w) - k - Len(h) = Len(v) - k
    BY <1>1, <1>2, <1>4
  <2> QED
    BY <1>1, <1>2, <1>4, <2>1
<1>6. ASSUME NEW k \in 0..Len(u) - 1 PROVE w[Len(w) - (Len(v) + k)] = u[Len(u) - k]
  <2> DEFINE p == Len(w) - (Len(v) + k)
  <2>1. /\ p \in 1..Len(h) + Len(v) /\ p <= Len(h)
        /\ p \in 1..Len(s) + Len(u) /\ p > Len(s) /\ p - Len(s) = Len(u) - k
    BY <1>1, <1>2, <1>4
  <2> HIDE DEF p
  <2>2. w[p] = h[p]
    BY <1>4, <2>1
  <2>3. h[p] = u[p - Len(s)]
    BY <1>1, <1>2, <2>1
  <2>4. w[p] = u[Len(u) - k]
    BY <2>1, <2>2, <2>3
  <2> QED
    BY <2>4 DEF p
<1> QED
  BY <1>5, <1>6 DEF EndsWith

\* The last entries of a node that Retrofit has completed.
LEMMA Retrofitted ==
  ASSUME ArraysInv, EventsInv, Retrofit, NEW n \in Node
  PROVE  /\ \A k \in 0..N_ZONE_SHUTDOWNS - 1 :
              built'[n][Len(built'[n]) - k] = Shutdowns(n)[N_ZONE_SHUTDOWNS - k]
         /\ \A k \in 0..N_ROLLING_UPGRADES - 1 :
              built'[n][Len(built'[n]) - (N_ZONE_SHUTDOWNS + k)] = Upgrades(n)[N_ROLLING_UPGRADES - k]
<1>1. pc = "retrofit" /\ Calendar(mem[tmp]) /\ Events = Scheduled /\ nodes[n] \in Seq(Interval)
  BY DEF Retrofit, EventsInv, NodeLists
<1>2. built'[n] = nodes[n] \o Upgrades(n) \o Shutdowns(n)
  BY DEF Retrofit
<1>3. Upgrades(n) \in Seq(Interval) /\ Len(Upgrades(n)) = N_ROLLING_UPGRADES
  <2>1. \A i \in 1..N_ROLLING_UPGRADES : Upgrades(n)[i] \in Interval
    BY <1>1, UpgradeWithin
  <2> QED
    BY <2>1, Constants DEF Upgrades
<1>4. Shutdowns(n) \in Seq(Interval) /\ Len(Shutdowns(n)) = N_ZONE_SHUTDOWNS
  <2>1. \A i \in 1..N_ZONE_SHUTDOWNS : Shutdowns(n)[i] \in Interval
    BY <1>1, ShutdownIsEvent
  <2> QED
    BY <2>1, Constants DEF Shutdowns
<1> DEFINE w == built'[n]
           s == nodes[n]
           u == Upgrades(n)
           v == Shutdowns(n)
<1>5. w = s \o u \o v
  BY <1>2
<1>6. s \in Seq(Interval) /\ u \in Seq(Interval) /\ v \in Seq(Interval) /\ Len(u) = N_ROLLING_UPGRADES /\ Len(v) = N_ZONE_SHUTDOWNS
  BY <1>1, <1>3, <1>4
<1> HIDE DEF w, s, u, v
<1>7. /\ \A k \in 0..Len(v) - 1 : w[Len(w) - k] = v[Len(v) - k]
      /\ \A k \in 0..Len(u) - 1 : w[Len(w) - (Len(v) + k)] = u[Len(u) - k]
  <2>1. s \in Seq(Interval) /\ u \in Seq(Interval) /\ v \in Seq(Interval)
    BY <1>6
  <2>2. EndsWith(w, u, v)
    BY <1>5, <2>1, Tails
  <2> QED
    BY <2>2 DEF EndsWith
<1>8. /\ \A k \in 0..N_ZONE_SHUTDOWNS - 1 : w[Len(w) - k] = v[N_ZONE_SHUTDOWNS - k]
      /\ \A k \in 0..N_ROLLING_UPGRADES - 1 :
           w[Len(w) - (N_ZONE_SHUTDOWNS + k)] = u[N_ROLLING_UPGRADES - k]
  BY <1>6, <1>7
<1> QED
  BY <1>8 DEF w, u, v

\* The intervals of the events that a node has in the end.
UpgradesOf(n) ==
  {built[n][Len(built[n]) - (N_ZONE_SHUTDOWNS + k)] : k \in 0..N_ROLLING_UPGRADES - 1}
ShutdownsOf(n) == {built[n][Len(built[n]) - k] : k \in 0..N_ZONE_SHUTDOWNS - 1}

LEMMA EventsRetrofit ==
  ASSUME ArraysInv, EventsInv, Retrofit
  PROVE  EventsInv'
<1>1. pc = "retrofit" /\ pc' = "normalize" /\ Calendar(mem[tmp]) /\ Events = Scheduled
  BY DEF Retrofit, EventsInv
<1>2. ASSUME NEW n \in Node, NEW x \in UpgradesOf(n)'
      PROVE  \E i \in 1..N_ROLLING_UPGRADES : x = Upgrades(n)[i]
  <2>1. PICK k \in 0..N_ROLLING_UPGRADES - 1 : x = built'[n][Len(built'[n]) - (N_ZONE_SHUTDOWNS + k)]
    BY <1>2 DEF UpgradesOf
  <2>2. x = Upgrades(n)[N_ROLLING_UPGRADES - k]
    BY <2>1, Retrofitted
  <2>3. N_ROLLING_UPGRADES - k \in 1..N_ROLLING_UPGRADES
    BY Constants
  <2> QED
    BY <2>2, <2>3
<1>3. ASSUME NEW n \in Node, NEW x \in ShutdownsOf(n)'
      PROVE  \E i \in 1..N_ZONE_SHUTDOWNS : x = Shutdowns(n)[i]
  <2>1. PICK k \in 0..N_ZONE_SHUTDOWNS - 1 : x = built'[n][Len(built'[n]) - k]
    BY <1>3 DEF ShutdownsOf
  <2>2. x = Shutdowns(n)[N_ZONE_SHUTDOWNS - k]
    BY <2>1, Retrofitted
  <2>3. N_ZONE_SHUTDOWNS - k \in 1..N_ZONE_SHUTDOWNS
    BY Constants
  <2> QED
    BY <2>2, <2>3
<1>4. ASSUME NEW n \in Node, NEW o \in Node, NEW x \in UpgradesOf(n)', NEW y \in ShutdownsOf(o)'
      PROVE  ~Overlap(x, y)
  <2>1. PICK i \in 1..N_ROLLING_UPGRADES : x = Upgrades(n)[i]
    BY <1>2
  <2>2. PICK j \in 1..N_ZONE_SHUTDOWNS : y = Shutdowns(o)[j]
    BY <1>3
  <2> DEFINE p == ShutdownIndex(o, j)
             d == mem[tmp][i]
             e == mem[tmp][p]
  <2>3. i \in DOMAIN mem[tmp] /\ Within(x, d)
    BY <1>1, <2>1, UpgradeWithin
  <2>4. p \in DOMAIN mem[tmp] /\ p > N_ROLLING_UPGRADES /\ Within(y, e)
    BY <1>1, <2>2, ShutdownIsEvent
  <2>5. i # p
    BY <2>4, Constants
  <2>6. ~Overlap(d, e) /\ d \in Interval /\ e \in Interval
    BY <1>1, <2>3, <2>4, <2>5, CalendarApart
  <2> HIDE DEF d, e
  <2> QED
    BY <2>3, <2>4, <2>6, WithinApart
<1>5. ASSUME NEW n \in Node, NEW o \in Node, ZoneOf(n) # ZoneOf(o),
             NEW x \in ShutdownsOf(n)', NEW y \in ShutdownsOf(o)'
      PROVE  ~Overlap(x, y)
  <2>1. PICK i \in 1..N_ZONE_SHUTDOWNS : x = Shutdowns(n)[i]
    BY <1>3
  <2>2. PICK j \in 1..N_ZONE_SHUTDOWNS : y = Shutdowns(o)[j]
    BY <1>3
  <2> DEFINE p == ShutdownIndex(n, i)
             q == ShutdownIndex(o, j)
  <2>3. p \in DOMAIN mem[tmp] /\ x = mem[tmp][p]
    BY <1>1, <2>1, ShutdownIsEvent
  <2>4. q \in DOMAIN mem[tmp] /\ y = mem[tmp][q]
    BY <1>1, <2>2, ShutdownIsEvent
  <2>5. p # q
    BY <1>5, ShutdownIndices
  <2> HIDE DEF p, q
  <2>6. ~Overlap(mem[tmp][p], mem[tmp][q])
    BY <1>1, <2>3, <2>4, <2>5, CalendarApart
  <2> QED
    BY <2>3, <2>4, <2>6
<1>6. EventsExclusive'
  BY <1>4, <1>5 DEF EventsExclusive, UpgradesOf, ShutdownsOf
<1> QED
  BY <1>1, <1>6 DEF EventsInv

\* The steps that do not concern the events, once they are over.
LEMMA EventsOver ==
  ASSUME EventsInv, pc' \in {"zones", "cluster", "evaluate", "update", "done"}
  PROVE  EventsInv'
  BY DEF EventsInv, EventsExclusive

LEMMA EventsBuildNode ==
  ASSUME ArraysInv, EventsInv, BuildNode
  PROVE  EventsInv'
<1>1. /\ pc = "nodes" /\ pc' \in {"nodes", "net"} /\ at \in Node /\ NodeLists /\ mem[tmp] = <<>>
      /\ mem' = mem /\ tmp' = tmp
  BY DEF ArraysInv, Control, EventsInv, BuildNode, arrays
<1>2. PICK rebooted \in AddFailures(nodes[at], N_REBOOTS, MTBR_REBOOT), hw \in HwFails :
        \E list \in AddFailures(rebooted, IF hw THEN 1 ELSE 0, MTBR_HW_FAILURE) :
          nodes' = [nodes EXCEPT ![at] = list]
  BY DEF BuildNode
<1>3. nodes[at] \in Seq(Interval)
  BY <1>1 DEF NodeLists
<1>4. rebooted \in Seq(Interval)
  BY <1>3, AddFailuresType, Constants
<1> DEFINE m == IF hw THEN 1 ELSE 0
<1>5. m \in Nat
  OBVIOUS
<1> HIDE DEF m
<1>6. PICK list \in AddFailures(rebooted, m, MTBR_HW_FAILURE) : nodes' = [nodes EXCEPT ![at] = list]
  BY <1>2 DEF m
<1>7. list \in Seq(Interval)
  BY <1>4, <1>5, AddFailuresType, Constants
<1>8. NodeLists'
  BY <1>1, <1>6, <1>7 DEF NodeLists
<1>9. mem'[tmp'] = <<>>
  BY <1>1
<1>10. EventsExclusive'
  BY <1>1 DEF EventsExclusive
<1> QED
  BY <1>1, <1>8, <1>9, <1>10 DEF EventsInv

\* No event is scheduled yet.
LEMMA CalendarEmpty ==
  Calendar(<<>>) /\ Len(<<>>) = 0
  BY DEF Calendar, Timed, Apart

LEMMA EventsBuildNet ==
  ASSUME ArraysInv, EventsInv, BuildNet
  PROVE  EventsInv'
<1>1. /\ pc = "net" /\ acc = None /\ NodeLists /\ mem[tmp] = <<>> /\ tmp' = tmp
  BY DEF ArraysInv, Control, EventsInv, BuildNet, arrays
<1>2. ASSUME nodes' = nodes PROVE NodeLists'
  BY <1>1, <1>2 DEF NodeLists
<1>3. ASSUME \E t \in Times :
               nodes' = [n \in Node |-> IF ZoneOf(n) = at THEN Append(nodes[n], Failure(t, MTBR_NET_FAILURE))
                                                          ELSE nodes[n]]
      PROVE  NodeLists'
  <2>1. PICK t \in Times :
          nodes' = [n \in Node |-> IF ZoneOf(n) = at THEN Append(nodes[n], Failure(t, MTBR_NET_FAILURE))
                                                     ELSE nodes[n]]
    BY <1>3
  <2>2. Failure(t, MTBR_NET_FAILURE) \in Interval
    BY FailureType, Constants
  <2>3. ASSUME NEW n \in Node
        PROVE  nodes[n] \in Seq(Interval) /\ Append(nodes[n], Failure(t, MTBR_NET_FAILURE)) \in Seq(Interval)
    BY <1>1, <2>2, AppendProperties DEF NodeLists
  <2> QED
    BY <2>1, <2>3 DEF NodeLists
<1>4. NodeLists'
  BY <1>2, <1>3 DEF BuildNet
<1>5. \/ pc' = "net" /\ mem' = mem
      \/ pc' = "upgrades" /\ mem' = [mem EXCEPT ![cluster] = @ \o FlattenSeq(nodes')]
  BY <1>1 DEF BuildNet
<1>6. cluster # tmp /\ tmp \in Array /\ DOMAIN mem = Array
  BY <1>1 DEF ArraysInv, ArrayTypes, Distinct, ClusterArray
<1>7. mem'[tmp'] = <<>>
  BY <1>1, <1>5, <1>6
<1>8. Calendar(mem'[tmp']) /\ Events' = 0 /\ 0 < N_ROLLING_UPGRADES
  BY <1>7, CalendarEmpty, Constants DEF Events
<1> QED
  BY <1>4, <1>5, <1>7, <1>8 DEF EventsInv, EventsExclusive

\* An event is drawn.
LEMMA EventsSchedule ==
  ASSUME ArraysInv, EventsInv, pc \in {"upgrades", "shutdowns"}, Schedule(Lasts(Events + 1))
  PROVE  Calendar(mem[tmp])' /\ Events' = Events + 1 /\ NodeLists'
<1> DEFINE s == mem[tmp]
<1>1. Calendar(s) /\ NodeLists /\ tmp' = tmp /\ nodes' = nodes
  BY DEF EventsInv, Schedule, arrays
<1>2. PICK t \in Times :
        /\ ~CheckCollision(s, Failure(t, Lasts(Events + 1)))
        /\ mem' = [mem EXCEPT ![tmp] = Append(s, Failure(t, Lasts(Events + 1)))]
  BY DEF Schedule
<1> DEFINE x == Failure(t, Lasts(Len(s) + 1))
<1>3. Calendar(Append(s, x)) /\ Len(Append(s, x)) = Len(s) + 1
  <2>1. x = Failure(t, Lasts(Len(s) + 1)) /\ ~CheckCollision(s, x)
    BY <1>2 DEF Events
  <2> HIDE DEF s, x
  <2> QED
    BY <1>1, <2>1, CalendarGrows
<1>4. mem'[tmp'] = Append(s, x)
  BY <1>1, <1>2 DEF Events, ArraysInv, ArrayTypes
<1> QED
  BY <1>1, <1>3, <1>4 DEF Events, NodeLists

LEMMA EventsRollingUpgrade ==
  ASSUME ArraysInv, EventsInv, RollingUpgrade
  PROVE  EventsInv'
<1>1. /\ pc = "upgrades" /\ Events < N_ROLLING_UPGRADES /\ Schedule(UpgradeLasts)
      /\ pc' = IF Events + 1 = N_ROLLING_UPGRADES THEN "shutdowns" ELSE "upgrades"
  BY DEF RollingUpgrade
<1>2. Events \in Nat
  BY <1>1, LenProperties DEF EventsInv, Calendar, Events
<1>3. Lasts(Events + 1) = UpgradeLasts
  BY <1>1, <1>2, Constants DEF Lasts
<1>4. Calendar(mem[tmp])' /\ Events' = Events + 1 /\ NodeLists'
  BY <1>1, <1>3, EventsSchedule
<1>5. /\ pc' = "upgrades" => Events' < N_ROLLING_UPGRADES
      /\ pc' = "shutdowns" => N_ROLLING_UPGRADES <= Events' /\ Events' < Scheduled
  BY <1>1, <1>2, <1>4, Constants, Sizes
<1> QED
  BY <1>1, <1>4, <1>5 DEF EventsInv, EventsExclusive

LEMMA EventsZoneShutdown ==
  ASSUME ArraysInv, EventsInv, ZoneShutdown
  PROVE  EventsInv'
<1>1. /\ pc = "shutdowns" /\ N_ROLLING_UPGRADES <= Events /\ Events < Scheduled
      /\ Schedule(MTBR_ZONE_SHUTDOWN)
      /\ pc' = IF Events + 1 = Scheduled THEN "retrofit" ELSE "shutdowns"
  BY DEF ZoneShutdown, EventsInv
<1>2. Events \in Nat
  BY <1>1, LenProperties DEF EventsInv, Calendar, Events
<1>3. Lasts(Events + 1) = MTBR_ZONE_SHUTDOWN
  BY <1>1, <1>2, Constants DEF Lasts
<1>4. Calendar(mem[tmp])' /\ Events' = Events + 1 /\ NodeLists'
  BY <1>1, <1>3, EventsSchedule
<1>5. /\ pc' = "shutdowns" => N_ROLLING_UPGRADES <= Events' /\ Events' < Scheduled
      /\ pc' = "retrofit" => Events' = Scheduled
  BY <1>1, <1>2, <1>4, Constants, Sizes
<1> QED
  BY <1>1, <1>4, <1>5 DEF EventsInv, EventsExclusive

\* A year begins.
LEMMA EventsNewYear ==
  ASSUME ArraysInv', pc' = "nodes", nodes' = Empty, mem' = Blank
  PROVE  EventsInv'
<1>1. NodeLists'
  BY DEF NodeLists, Empty
<1>2. mem'[tmp'] = <<>>
  BY DEF ArraysInv, ArrayTypes, Blank
<1> QED
  BY <1>1, <1>2 DEF EventsInv, EventsExclusive

LEMMA EventsBegin ==
  ASSUME Init
  PROVE  EventsInv
<1>1. pc = "nodes" /\ NodeLists
  BY DEF Init, NodeLists, Empty
<1>2. mem[tmp] = <<>>
  BY ArrayNumbers DEF Init, Blank
<1> QED
  BY <1>1, <1>2 DEF EventsInv, EventsExclusive

LEMMA EventsNext ==
  ASSUME ArraysInv, EventsInv, [Next]_vars
  PROVE  EventsInv'
<1>1. CASE UNCHANGED vars
  BY <1>1 DEF vars, arrays, EventsInv, NodeLists, Calendar, Timed, Apart, Events, EventsExclusive
<1>2. CASE Redraw \/ Terminated
  BY <1>1, <1>2 DEF Redraw, Terminated
<1>3. CASE BuildNode
  BY <1>3, EventsBuildNode
<1>4. CASE BuildNet
  BY <1>4, EventsBuildNet
<1>5. CASE RollingUpgrade
  BY <1>5, EventsRollingUpgrade
<1>6. CASE ZoneShutdown
  BY <1>6, EventsZoneShutdown
<1>7. CASE Retrofit
  BY <1>7, EventsRetrofit
<1>8. CASE Normalize \/ BeginZone \/ MergeNode \/ BeginCluster \/ MergeZone \/ Evaluate \/ Update
  <2>1. pc' \in {"zones", "cluster", "evaluate", "update", "done"}
    BY <1>8 DEF Normalize, BeginZone, MergeNode, BeginCluster, MergeZone, Evaluate, Update
  <2> QED
    BY <2>1, EventsOver
<1>9. CASE NextYear
  <2>1. pc' = "nodes" /\ nodes' = Empty /\ mem' = Blank
    BY <1>9 DEF NextYear
  <2>2. ArraysInv'
    BY <1>9, ArraysNextYear
  <2> QED
    BY <2>1, <2>2, EventsNewYear
<1> QED
  BY <1>1, <1>2, <1>3, <1>4, <1>5, <1>6, <1>7, <1>8, <1>9 DEF Next

\* The shutdown of a zone overlaps neither the upgrade of a node nor the shutdown of
\* another zone, however many are drawn and wherever the year ends
\* (buildGlobalEvents and retrofitGlobalEvents, simulation.go).
THEOREM EventsKept == Spec => []EventsExclusive
<1> DEFINE Inv == ArraysInv /\ EventsInv
<1>1. Init => Inv
  BY ArraysBegin, EventsBegin
<1>2. Inv /\ [Next]_vars => Inv'
  BY ArraysNext, EventsNext
<1>3. Inv => EventsExclusive
  BY DEF EventsInv
<1>4. Spec => []Inv
  BY <1>1, <1>2, PTL DEF Spec
<1> QED
  BY <1>3, <1>4, PTL
=============================================================================
