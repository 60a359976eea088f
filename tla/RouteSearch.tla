---------------------------- MODULE RouteSearch ----------------------------
(***************************************************************************)
(* The route exploring benchmark (graph.go).  Each worker searches its own *)
(* copy of the graph: allPaths walks depth-first with an explicit stack,   *)
(* collect keeps the K lightest routes in a heap, display empties the      *)
(* heap.  The Path objects come from pathPool, which all workers share.    *)
(*                                                                         *)
(* A route is identified by its sequence of edges.  The heap is the set of *)
(* its objects: container/heap pops one of the heaviest.                   *)
(***************************************************************************)
EXTENDS Integers, Sequences, FiniteSets, SequencesExt, FiniteSetsExt

CONSTANTS Edge,       \* the edges: a sequence of [from, to, weight]
          Queries,    \* pairs of nodes to search, in order
          K,          \* routes kept by the heap (GRAPH_K, 5 in the code)
          Searchers,  \* the workers
          Objects,    \* identities of Path objects the allocator can use
          None        \* no object

Nodes == {Edge[e].from : e \in DOMAIN Edge} \cup {Edge[e].to : e \in DOMAIN Edge}

ASSUME RouteAssumption ==
  /\ Edge \in Seq([from : Nat, to : Nat, weight : Nat])
  /\ Queries \in Seq(Nat \X Nat) /\ Queries # <<>>
  /\ \A q \in DOMAIN Queries : Queries[q][1] # Queries[q][2]
  /\ K \in Nat \ {0}
  /\ None \notin Objects

\* The marker that ends the edges of a node in the stack (MaxUint32 in the code).
Marker == 0
ASSUME MarkerAssumption == Marker \notin DOMAIN Edge

VARIABLES
  pool,    \* pathPool: objects given back
  mem,     \* content of each Path object
  pc,      \* control state of each searcher
  query,   \* index in Queries of its current search
  stack,   \* g.stack
  path,    \* g.path: [nodes, edges]
  cur,     \* the Path object being collected
  heap,    \* g.heap
  output,  \* g.output: the routes displayed by the current search
  found    \* history: routes collected by the current search

vars == <<pool, mem, pc, query, stack, path, cur, heap, output, found>>

\* The edges that leave each node, once k edges are added (addEdge).
To[k \in 0..Len(Edge)] ==
  IF k = 0 THEN [n \in Nodes |-> <<>>]
  ELSE [To[k - 1] EXCEPT ![Edge[k].from] = Append(@, k)]

\* Edges that leave node n, in the order they were added; none for a number that
\* is not a node.
Out(n) == IF n \in Nodes THEN To[Len(Edge)][n] ELSE <<>>

Weight(edges) ==
  LET w[k \in 0..Len(edges)] == IF k = 0 THEN 0 ELSE w[k - 1] + Edge[edges[k]].weight
  IN  w[Len(edges)]

Routes == Seq(DOMAIN Edge)

TypeOK ==
  /\ pool \subseteq Objects
  /\ \A p \in Objects : mem[p].edges \in Routes /\ mem[p].weight \in Nat
  /\ pc \in [Searchers -> {"ready", "walk", "collect", "display", "end"}]
  /\ query \in [Searchers -> 1..Len(Queries)]
  /\ \A s \in Searchers :
       /\ stack[s] \in Seq(DOMAIN Edge \cup {Marker})
       /\ path[s].nodes \in Seq(Nat) /\ path[s].edges \in Routes
       /\ cur[s] \in Objects \cup {None} /\ heap[s] \subseteq Objects
       /\ Cardinality(heap[s]) <= K
       /\ found[s] \subseteq Routes

Blank == [edges |-> <<>>, weight |-> 0]

Init ==
  /\ pool = {} /\ mem = [p \in Objects |-> Blank]
  /\ pc = [s \in Searchers |-> "ready"] /\ query = [s \in Searchers |-> 1]
  /\ stack = [s \in Searchers |-> <<>>]
  /\ path = [s \in Searchers |-> [nodes |-> <<>>, edges |-> <<>>]]
  /\ cur = [s \in Searchers |-> None] /\ heap = [s \in Searchers |-> {}]
  /\ output = [s \in Searchers |-> <<>>] /\ found = [s \in Searchers |-> {}]

\* search looks both locations up; those of the code are all in its graph.
Src(s) == Queries[query[s]][1]
Dst(s) == Queries[query[s]][2]

-----------------------------------------------------------------------------
(* allPaths *)

\* search(): path, heap, stack and output start afresh.
Start(s) ==
  /\ pc[s] = "ready"
  /\ pc' = [pc EXCEPT ![s] = "walk"]
  /\ path' = [path EXCEPT ![s] = [nodes |-> <<Src(s)>>, edges |-> <<>>]]
  /\ heap' = [heap EXCEPT ![s] = {}]
  /\ stack' = [stack EXCEPT ![s] = Out(Src(s))]
  /\ found' = [found EXCEPT ![s] = {}]
  /\ UNCHANGED <<pool, mem, query, cur, output>>

Top(s) == Last(stack[s])
Target(s) == Edge[Top(s)].to
Added(s) == [nodes |-> Append(path[s].nodes, Target(s)), edges |-> Append(path[s].edges, Top(s))]

Walking(s) == pc[s] = "walk" /\ stack[s] # <<>>

\* Mutant: the marker stays in the stack.
BacktrackKeeps(s) ==
  /\ Walking(s) /\ Top(s) = Marker
  /\ path' = IF path[s].edges = <<>> THEN path ELSE
             [path EXCEPT ![s] = [nodes |-> Front(@.nodes), edges |-> Front(@.edges)]]
  /\ UNCHANGED <<pool, mem, pc, query, stack, cur, heap, output, found>>

\* A marker: every route through the last node of the path was explored.
Backtrack(s) ==
  /\ Walking(s) /\ Top(s) = Marker
  /\ stack' = [stack EXCEPT ![s] = Front(@)]
  /\ path' = [path EXCEPT ![s] = [nodes |-> Front(@.nodes), edges |-> Front(@.edges)]]
  /\ UNCHANGED <<pool, mem, pc, query, cur, heap, output, found>>

\* The edge goes back to a node of the path.
SkipLoop(s) ==
  /\ Walking(s) /\ Top(s) # Marker /\ Contains(path[s].nodes, Target(s))
  /\ stack' = [stack EXCEPT ![s] = Front(@)]
  /\ UNCHANGED <<pool, mem, pc, query, path, cur, heap, output, found>>

\* Mutant: the marker is pushed above the edges it must end.
ExtendMarkerLast(s) ==
  /\ Walking(s) /\ Top(s) # Marker
  /\ ~Contains(path[s].nodes, Target(s)) /\ Target(s) # Dst(s)
  /\ path' = [path EXCEPT ![s] = Added(s)]
  /\ stack' = [stack EXCEPT ![s] = Append(Front(@) \o Out(Target(s)), Marker)]
  /\ UNCHANGED <<pool, mem, pc, query, cur, heap, output, found>>

\* A new node: its edges are explored next.
Extend(s) ==
  /\ Walking(s) /\ Top(s) # Marker
  /\ ~Contains(path[s].nodes, Target(s)) /\ Target(s) # Dst(s)
  /\ path' = [path EXCEPT ![s] = Added(s)]
  /\ stack' = [stack EXCEPT ![s] = Append(Front(@), Marker) \o Out(Target(s))]
  /\ UNCHANGED <<pool, mem, pc, query, cur, heap, output, found>>

InUse == UNION {heap[s] \cup {cur[s]} : s \in Searchers}

\* The objects Get may return: one that was given back, or a new one, even when
\* the pool is not empty (it has a cache for each processor).  The new ones are
\* all blank: any of them stands for the others.
Available ==
  LET new == Objects \ (InUse \cup pool)
  IN  pool \cup (IF new = {} THEN {} ELSE {CHOOSE p \in new : TRUE})

\* The destination: collect() takes an object and copies the path into it.
Arrive(s) ==
  /\ Walking(s) /\ Top(s) # Marker
  /\ ~Contains(path[s].nodes, Target(s)) /\ Target(s) = Dst(s)
  /\ path' = [path EXCEPT ![s] = Added(s)]
  /\ stack' = [stack EXCEPT ![s] = Append(Front(@), Marker)]
  /\ \E p \in Available :
       /\ pool' = pool \ {p}
       /\ cur' = [cur EXCEPT ![s] = p]
       /\ mem' = [mem EXCEPT ![p] = [edges |-> Added(s).edges, weight |-> Weight(Added(s).edges)]]
  /\ pc' = [pc EXCEPT ![s] = "collect"]
  /\ UNCHANGED <<query, heap, output, found>>

Heaviest(ps) == {p \in ps : \A q \in ps : mem[q].weight <= mem[p].weight}

Collected(s) ==
  /\ pc[s] = "collect"
  /\ pc' = [pc EXCEPT ![s] = "walk"]
  /\ cur' = [cur EXCEPT ![s] = None]
  /\ found' = [found EXCEPT ![s] = @ \cup {path[s].edges}]
  /\ UNCHANGED <<mem, query, stack, path, output>>

\* Mutant: the heap is emptied one route too early.
CollectFewer(s) ==
  /\ Collected(s)
  /\ LET pushed == heap[s] \cup {cur[s]} IN
     IF Cardinality(pushed) >= K
       THEN \E p \in Heaviest(pushed) :
              heap' = [heap EXCEPT ![s] = pushed \ {p}] /\ pool' = pool \cup {p}
       ELSE heap' = [heap EXCEPT ![s] = pushed] /\ UNCHANGED pool

\* Mutant: the heap pops its lightest route.
CollectLightest(s) ==
  /\ Collected(s)
  /\ LET pushed == heap[s] \cup {cur[s]} IN
     IF Cardinality(pushed) > K
       THEN \E p \in {q \in pushed : \A r \in pushed : mem[q].weight <= mem[r].weight} :
              heap' = [heap EXCEPT ![s] = pushed \ {p}] /\ pool' = pool \cup {p}
       ELSE heap' = [heap EXCEPT ![s] = pushed] /\ UNCHANGED pool

\* Mutant: the new route is given back, whatever the heap pops.
CollectPutsNew(s) ==
  /\ Collected(s)
  /\ LET pushed == heap[s] \cup {cur[s]} IN
     IF Cardinality(pushed) > K
       THEN \E p \in Heaviest(pushed) :
              heap' = [heap EXCEPT ![s] = pushed \ {p}] /\ pool' = pool \cup {cur[s]}
       ELSE heap' = [heap EXCEPT ![s] = pushed] /\ UNCHANGED pool

\* heap.Push, and heap.Pop when there is one route too many.
Collect(s) ==
  /\ Collected(s)
  /\ LET pushed == heap[s] \cup {cur[s]} IN
     IF Cardinality(pushed) > K
       THEN \E p \in Heaviest(pushed) :
              heap' = [heap EXCEPT ![s] = pushed \ {p}] /\ pool' = pool \cup {p}
       ELSE heap' = [heap EXCEPT ![s] = pushed] /\ UNCHANGED pool

-----------------------------------------------------------------------------
(* display *)

Display(s) ==
  /\ pc[s] = "walk" /\ stack[s] = <<>>
  /\ pc' = [pc EXCEPT ![s] = "display"]
  /\ output' = [output EXCEPT ![s] = <<>>]
  /\ UNCHANGED <<pool, mem, query, stack, path, cur, heap, found>>

\* One turn of the loop: the heaviest route is written and its object given back.
Write(s) ==
  /\ pc[s] = "display" /\ heap[s] # {}
  /\ \E p \in Heaviest(heap[s]) :
       /\ heap' = [heap EXCEPT ![s] = @ \ {p}]
       /\ output' = [output EXCEPT ![s] = Append(@, mem[p])]
       /\ pool' = pool \cup {p}
  /\ UNCHANGED <<mem, pc, query, stack, path, cur, found>>

\* The search returns; Run goes on to the next pair of locations.
Return(s) ==
  /\ pc[s] = "display" /\ heap[s] = {}
  /\ IF query[s] < Len(Queries)
       THEN query' = [query EXCEPT ![s] = @ + 1] /\ pc' = [pc EXCEPT ![s] = "ready"]
       ELSE pc' = [pc EXCEPT ![s] = "end"] /\ UNCHANGED query
  /\ UNCHANGED <<pool, mem, stack, path, cur, heap, output, found>>

\* The garbage collector may empty the pool: its objects are then new ones.
Drop ==
  /\ pool # {}
  /\ pool' = {}
  /\ mem' = [p \in Objects |-> IF p \in pool THEN Blank ELSE mem[p]]
  /\ UNCHANGED <<pc, query, stack, path, cur, heap, output, found>>

Searcher(s) ==
  \/ Start(s) \/ Backtrack(s) \/ SkipLoop(s) \/ Extend(s) \/ Arrive(s) \/ Collect(s)
  \/ Display(s) \/ Write(s) \/ Return(s)

Terminated == (\A s \in Searchers : pc[s] = "end") /\ UNCHANGED vars

Next == (\E s \in Searchers : Searcher(s)) \/ Drop \/ Terminated

Spec == Init /\ [][Next]_vars
FairSpec == Spec /\ \A s \in Searchers : WF_vars(Searcher(s))

-----------------------------------------------------------------------------
(* Properties. *)

Visited(edges) == <<Edge[edges[1]].from>> \o [k \in DOMAIN edges |-> Edge[edges[k]].to]

\* The reference: every route that visits no node twice ...
SimpleRoutes ==
  UNION {{r \in [1..k -> DOMAIN Edge] :
            /\ IsInjective(Visited(r))
            /\ \A j \in 1..k : Edge[r[j]].from = Visited(r)[j]} : k \in 1..Cardinality(Nodes) - 1}

\* ... and those of a query.
AllRoutes ==
  [q \in DOMAIN Queries |->
     {r \in SimpleRoutes : Edge[r[1]].from = Queries[q][1] /\ Edge[Last(r)].to = Queries[q][2]}]

\* The routes the stack still leads to: those that begin with the path up to
\* the depth of some edge of the stack, and go on with that edge.
Depth(s, k) == Cardinality({j \in 1..k : stack[s][j] = Marker})
Pending(s) ==
  {r \in AllRoutes[query[s]] :
     \E k \in DOMAIN stack[s] :
       /\ stack[s][k] # Marker
       /\ IsPrefix(Append(SubSeq(path[s].edges, 1, Depth(s, k)), stack[s][k]), r)}

\* The walk loses no route and finds none twice: every simple route is either
\* found, being collected, or still ahead in the stack, and never two of these.
NoRouteLost ==
  \A s \in Searchers : pc[s] \in {"walk", "collect"} =>
    LET here == IF pc[s] = "collect" THEN {path[s].edges} ELSE {} IN
    /\ found[s] \cup here \cup Pending(s) = AllRoutes[query[s]]
    /\ found[s] \cap here = {} /\ found[s] \cap Pending(s) = {} /\ here \cap Pending(s) = {}

Kept(s) == {mem[p].edges : p \in heap[s]}

\* The heap holds the K lightest of the routes found so far, whatever the other
\* searchers do with the objects of the pool.
HeapHoldsLightest ==
  \A s \in Searchers : pc[s] \in {"walk", "collect"} =>
    /\ Kept(s) \subseteq found[s]
    /\ Cardinality(Kept(s)) = Min({K, Cardinality(found[s])})
    /\ \A p \in heap[s] : mem[p].weight = Weight(mem[p].edges)
    /\ \A r \in found[s] \ Kept(s), kept \in Kept(s) : Weight(kept) <= Weight(r)

\* A search displays the lightest simple routes, K of them if there are as
\* many, the heaviest first.
LightestDisplayed ==
  \A s \in Searchers : pc[s] = "end" \/ (pc[s] = "ready" /\ query[s] > 1) =>
    LET q == IF pc[s] = "end" THEN query[s] ELSE query[s] - 1
        shown == {output[s][k].edges : k \in DOMAIN output[s]}
    IN  /\ shown \subseteq AllRoutes[q]
        /\ Cardinality(shown) = Len(output[s])
        /\ Len(output[s]) = Min({K, Cardinality(AllRoutes[q])})
        /\ \A r \in AllRoutes[q] \ shown, k \in DOMAIN output[s] : output[s][k].weight <= Weight(r)
        /\ \A j, k \in DOMAIN output[s] : j < k => output[s][j].weight >= output[s][k].weight

\* A Path object is at one place: the pool, the heap of one searcher, or the
\* hands of one searcher.
ObjectsOwnedOnce ==
  \A s \in Searchers :
    /\ cur[s] \notin heap[s] \cup pool
    /\ heap[s] \cap pool = {}
    /\ \A t \in Searchers \ {s} :
         /\ (heap[s] \cup {cur[s]}) \cap heap[t] = {}
         /\ cur[s] = cur[t] => cur[s] = None

\* Every search ends.
Completion == <>(\A s \in Searchers : pc[s] = "end")
=============================================================================
