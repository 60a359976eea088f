------------------------------- MODULE Btree --------------------------------
(***************************************************************************)
(* The B-tree benchmark (btree.go).  A tree of the library is a set of     *)
(* items no two of which are equivalent for its comparison function: Set   *)
(* replaces the equivalent item, Scan goes through it in order.            *)
(***************************************************************************)
EXTENDS Naturals, Sequences, FiniteSets, FiniteSetsExt, SequencesExt

CONSTANTS Users, Others,  \* the items, in order: [key, val], as ranks
          Absent          \* the item that test1 does not insert

Item == [key : Nat, val : Nat]

BtreeAssumption ==
  /\ Users \in Seq(Item) /\ Others \in Seq(Item) /\ Absent \in Item
  /\ Users # <<>> /\ Others # <<>>
  /\ \A k \in DOMAIN Users : Users[k].key # Absent.key
  \* The keys of the users are distinct, those of the others need not be.
  /\ IsInjective([k \in DOMAIN Users |-> Users[k].key])

VARIABLE b   \* the object: [pc, keys, vals, sout, m], the trees of the call too

ByKeys(x, y) == x.key < y.key

ByVals(x, y) == x.val < y.val \/ (x.val = y.val /\ ByKeys(x, y))

\* The comparison function given to a tree.
Less(by, x, y) == IF by = "keys" THEN ByKeys(x, y) ELSE ByVals(x, y)

\* The library's BTreeG.
Equivalent(by, x, y) == ~Less(by, x, y) /\ ~Less(by, y, x)
Tree(items, by) ==
  {items[k] : k \in {j \in DOMAIN items : \A l \in DOMAIN items : l > j => ~Equivalent(by, items[j], items[l])}}
Get(t, by, x) == {y \in t : Equivalent(by, x, y)}
Scan(t, by) == CHOOSE s \in SetToSeqs(t) : \A j, k \in DOMAIN s : j < k => Less(by, s[j], s[k])

\* A map after items[k] was set for the key of each item in turn.
Map(items) ==
  [key \in {items[k].key : k \in DOMAIN items} |-> items[Max({k \in DOMAIN items : items[k].key = key})]]

\* NewBenchBtree.
Init == b = [pc |-> "idle", keys |-> {}, vals |-> {}, sout |-> <<>>, m |-> <<>>]

\* Run: test1 makes a tree of the users by key and one by value ...
Build ==
  /\ b.pc = "idle"
  /\ b' = [b EXCEPT !.pc = "get", !.keys = Tree(Users, "keys"), !.vals = Tree(Users, "vals")]

\* ... gets each of them, and one that is not there, 32 times from both ...
Retrieve ==
  /\ b.pc = "get"
  /\ LET found(x) == Get(b.keys, "keys", x) # {} /\ Get(b.vals, "vals", x) # {}
         neither(x) == Get(b.keys, "keys", x) = {} /\ Get(b.vals, "vals", x) = {}
     IN  b' = [b EXCEPT !.pc = IF (\A k \in DOMAIN Users : found(Users[k])) /\ neither(Absent)
                                 THEN "list" ELSE "fatal"]

\* ... and lists their values by key and their keys by value.
List ==
  /\ b.pc = "list"
  /\ LET byKey == Scan(b.keys, "keys")
         byVal == Scan(b.vals, "vals")
     IN  b' = [b EXCEPT !.pc = "listed",
                 !.sout = @ \o [k \in DOMAIN byKey |-> byKey[k].val]
                            \o [k \in DOMAIN byVal |-> byVal[k].key]]

Listed ==
  /\ b.pc = "listed"
  /\ b' = IF Len(b.sout) = 2 * Len(Users)
            THEN [b EXCEPT !.pc = "fill", !.sout = <<>>, !.keys = {}, !.vals = {}]
            ELSE [b EXCEPT !.pc = "fatal"]

\* test2 makes a tree and a map, cleared first, of the others ...
Fill ==
  /\ b.pc = "fill"
  /\ b' = [b EXCEPT !.pc = "compare", !.keys = Tree(Others, "keys"),
             !.m = Map(Others)]

\* ... which must give the same value for each key, and be as long.
Compare ==
  /\ b.pc = "compare"
  /\ LET same(x) == {y.val : y \in Get(b.keys, "keys", x)} = {b.m[x.key].val}
     IN  b' = IF /\ \A k \in DOMAIN Others : same(Others[k])
                 /\ Len(Scan(b.keys, "keys")) = Cardinality(DOMAIN b.m)
                THEN [b EXCEPT !.pc = "idle", !.keys = {}]
                ELSE [b EXCEPT !.pc = "fatal"]

Step == Build \/ Retrieve \/ List \/ Listed \/ Fill \/ Compare

\* The list of test1: the value of each user at the rank of its key, then the
\* key of each at the rank of its value, those of equal values by key.
Product ==
  b.pc = "listed" =>
    LET All == Range(Users)
        rank(before) == Cardinality(before) + 1
    IN  \A x \in All :
          /\ b.sout[rank({y \in All : y.key < x.key})] = x.val
          /\ b.sout[Len(Users) + rank({y \in All : y.val < x.val \/ (y.val = x.val /\ y.key < x.key)})]
               = x.key
=============================================================================
