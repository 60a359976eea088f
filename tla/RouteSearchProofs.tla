------------------------- MODULE RouteSearchProofs -------------------------
(***************************************************************************)
(* Proofs about RouteSearch, for every graph, every list of queries, every *)
(* K and any number of searchers.                                          *)
(*                                                                         *)
(* A walk is described by values alone: a stack st, a path of nodes ns and *)
(* edges es.  Lemmas say what each step of allPaths does to the routes the *)
(* stack leads to (Ahead), others what each step of collect and display    *)
(* does to the heap and the output (Best).  The invariant of the system    *)
(* says that every searcher is at such a point (Phase), and that no two of *)
(* them share an object.                                                   *)
(***************************************************************************)
EXTENDS RouteSearch, TLAPS, SequenceTheorems, FiniteSetTheorems

\* Induction over the naturals, for sets of naturals.
LEMMA NaturalsBySet ==
  ASSUME NEW S, 0 \in S, \A n \in Nat : n \in S => n + 1 \in S
  PROVE  \A n \in Nat : n \in S
<1> DEFINE T == Nat \ S
<1>1. SUFFICES ASSUME T # {} PROVE FALSE
  OBVIOUS
<1>2. PICK x \in T : \A y \in T : ~ (<<y, x>> \in OpToRel(<, Nat))
  BY <1>1, NatLessThanWellFounded, WFMin
<1>3. x \in Nat /\ x # 0
  OBVIOUS
<1>4. x - 1 \in Nat /\ x - 1 < x
  BY <1>3
<1>5. <<x - 1, x>> \in OpToRel(<, Nat)
  BY <1>3, <1>4 DEF OpToRel
<1>6. x - 1 \notin T
  BY <1>2, <1>5
<1> QED
  BY <1>3, <1>4, <1>6

-----------------------------------------------------------------------------
\* The edges of the graph, the nodes they leave and those they lead to.
Edges == DOMAIN Edge
Origin(e) == Edge[e].from
End(e) == Edge[e].to

\* What the proofs need of the constants.
LEMMA Constants ==
  /\ Len(Edge) \in Nat /\ Edges = 1..Len(Edge)
  /\ \A e \in Edges : Edge[e].weight \in Nat
  /\ \A e \in Edges : Origin(e) \in Nat /\ End(e) \in Nat
  /\ \A e \in Edges : Origin(e) \in Nodes /\ End(e) \in Nodes
  /\ Marker \notin Edges /\ K \in Nat \ {0} /\ None \notin Objects
<1>1. Edge \in Seq([from : Nat, to : Nat, weight : Nat])
  BY RouteAssumption
<1>2. /\ Len(Edge) \in Nat /\ Edges = 1..Len(Edge)
      /\ \A e \in Edges : Edge[e] \in [from : Nat, to : Nat, weight : Nat]
  BY <1>1, LenProperties, ElementOfSeq DEF Edges
<1> QED
  BY <1>2, RouteAssumption, MarkerAssumption DEF Edges, Nodes, Origin, End

\* To is defined by its recursion.
LEMMA ToDef ==
  /\ To[0] = [n \in Nodes |-> <<>>]
  /\ \A k \in 1..Len(Edge) : To[k] = [To[k - 1] EXCEPT ![Edge[k].from] = Append(@, k)]
<1> DEFINE Step(f, k) == IF k = 0 THEN [n \in Nodes |-> <<>>]
                         ELSE [f[k - 1] EXCEPT ![Edge[k].from] = Append(@, k)]
           Is(f, n) == f = [k \in 0..n |-> Step(f, k)]
           S == {n \in Nat : \E f : Is(f, n)}
<1>1. \A f, g : \A k \in Nat : (k # 0 => f[k - 1] = g[k - 1]) => Step(f, k) = Step(g, k)
  OBVIOUS
<1>2. To = CHOOSE f : Is(f, Len(Edge))
  BY DEF To
<1>3. \A f : Step(f, 0) = [n \in Nodes |-> <<>>]
  OBVIOUS
<1>4. \A f : \A k \in 1..Len(Edge) : Step(f, k) = [f[k - 1] EXCEPT ![Edge[k].from] = Append(@, k)]
  BY Constants
<1> HIDE DEF Step
<1>5. 0 \in S
  <2> DEFINE g == [k \in 0..0 |-> Step(<<>>, k)]
  <2>1. \A k \in 0..0 : Step(g, k) = Step(<<>>, k)
    BY <1>1
  <2>2. Is(g, 0)
    BY <2>1
  <2> QED
    BY <2>2
<1>6. ASSUME NEW n \in Nat, n \in S PROVE n + 1 \in S
  <2>1. PICK f : Is(f, n)
    BY <1>6
  <2> DEFINE g == [k \in 0..n + 1 |-> IF k = n + 1 THEN Step(f, k) ELSE f[k]]
  <2>2. \A k \in 0..n + 1 : g[k] = Step(g, k)
    <3> SUFFICES ASSUME NEW k \in 0..n + 1 PROVE g[k] = Step(g, k)
      OBVIOUS
    <3>1. k # 0 => g[k - 1] = f[k - 1]
      OBVIOUS
    <3>2. Step(g, k) = Step(f, k)
      BY <1>1, <3>1
    <3>3. k # n + 1 => f[k] = Step(f, k)
      BY <2>1
    <3> QED
      BY <3>2, <3>3
  <2>3. Is(g, n + 1)
    BY <2>2
  <2> HIDE DEF g, Is
  <2> QED
    BY <2>3
<1> HIDE DEF Is
<1>7. \A n \in Nat : n \in S
  <2> HIDE DEF S
  <2> QED
    BY <1>5, <1>6, NaturalsBySet
<1>8. Is(To, Len(Edge))
  BY <1>2, <1>7, Constants
<1>9. \A k \in 0..Len(Edge) : To[k] = Step(To, k)
  BY <1>8 DEF Is
<1>10. To[0] = [n \in Nodes |-> <<>>]
  BY <1>3, <1>9, Constants
<1>11. ASSUME NEW k \in 1..Len(Edge)
       PROVE  To[k] = [To[k - 1] EXCEPT ![Edge[k].from] = Append(@, k)]
  <2>1. k \in 0..Len(Edge)
    BY Constants
  <2>2. To[k] = Step(To, k)
    BY <1>9, <2>1
  <2> QED
    BY <1>4, <2>2
<1> QED
  BY <1>10, <1>11

\* The weight of a route is a sum of weights.
LEMMA WeightType ==
  ASSUME NEW r \in Seq(Edges)
  PROVE  Weight(r) \in Nat
<1> DEFINE v(k) == Edge[r[k]].weight
           Is(f, n) == f = [k \in 0..n |-> IF k = 0 THEN 0 ELSE f[k - 1] + v(k)]
           S == {n \in Nat : \E f : Is(f, n)}
           w == CHOOSE f : Is(f, Len(r))
           T == {n \in Nat : n <= Len(r) => w[n] \in Nat}
<1>1. Weight(r) = w[Len(r)]
  BY DEF Weight
<1>2. Len(r) \in Nat /\ \A k \in 1..Len(r) : v(k) \in Nat
  BY LenProperties, ElementOfSeq, Constants
<1> HIDE DEF v
<1>3. 0 \in S
  <2>1. Is([k \in 0..0 |-> 0], 0)
    OBVIOUS
  <2> HIDE DEF Is
  <2> QED
    BY <2>1
<1>4. ASSUME NEW n \in Nat, n \in S PROVE n + 1 \in S
  <2>1. PICK f : Is(f, n)
    BY <1>4
  <2> DEFINE g == [k \in 0..n + 1 |-> IF k = n + 1 THEN f[n] + v(k) ELSE f[k]]
  <2>2. \A k \in 0..n + 1 : g[k] = IF k = 0 THEN 0 ELSE g[k - 1] + v(k)
    BY <2>1
  <2>3. Is(g, n + 1)
    BY <2>2
  <2> HIDE DEF g, Is
  <2> QED
    BY <2>3
<1> HIDE DEF Is
<1>5. \A n \in Nat : n \in S
  <2> HIDE DEF S
  <2> QED
    BY <1>3, <1>4, NaturalsBySet
<1>6. Is(w, Len(r))
  BY <1>2, <1>5
<1> HIDE DEF w
<1>7. \A k \in 0..Len(r) : w[k] = IF k = 0 THEN 0 ELSE w[k - 1] + v(k)
  BY <1>6 DEF Is
<1>8. 0 \in T
  BY <1>2, <1>7
<1>9. ASSUME NEW n \in Nat, n \in T PROVE n + 1 \in T
  <2> SUFFICES ASSUME n + 1 <= Len(r) PROVE w[n + 1] \in Nat
    OBVIOUS
  <2>1. n <= Len(r) /\ w[n] \in Nat /\ n + 1 \in 1..Len(r)
    BY <1>2, <1>9
  <2>2. w[n + 1] = w[n] + v(n + 1)
    BY <1>2, <1>7, <2>1
  <2> QED
    BY <1>2, <2>1, <2>2
<1>10. \A n \in Nat : n \in T
  <2> HIDE DEF T
  <2> QED
    BY <1>8, <1>9, NaturalsBySet
<1> QED
  BY <1>1, <1>2, <1>10

\* Out(n) lists the edges that leave n, each once.
LEMMA OutEdges ==
  ASSUME NEW n \in Nat
  PROVE  /\ Out(n) \in Seq(Edges)
         /\ \A k \in DOMAIN Out(n) : Origin(Out(n)[k]) = n
         /\ \A j, k \in DOMAIN Out(n) : Out(n)[j] = Out(n)[k] => j = k
         /\ \A e \in Edges : Origin(e) = n => \E k \in DOMAIN Out(n) : Out(n)[k] = e
<1> DEFINE Ok(k, out) ==
             /\ out \in Seq(1..k)
             /\ \A j \in DOMAIN out : Origin(out[j]) = n
             /\ \A i, j \in DOMAIN out : out[i] = out[j] => i = j
             /\ \A e \in 1..k : Origin(e) = n => \E j \in DOMAIN out : out[j] = e
           S == {k \in Nat : k <= Len(Edge) => DOMAIN To[k] = Nodes /\ Ok(k, To[k][n])}
<1>1. CASE n \notin Nodes
  <2>1. Out(n) = <<>> /\ \A e \in Edges : Origin(e) # n
    BY <1>1, Constants DEF Out
  <2> QED
    BY <2>1
<1>2. CASE n \in Nodes
  <2>1. 0 \in S
    <3>1. To[0] = [m \in Nodes |-> <<>>]
      BY ToDef
    <3>2. DOMAIN To[0] = Nodes /\ To[0][n] = <<>>
      BY <1>2, <3>1
    <3>3. Ok(0, <<>>)
      OBVIOUS
    <3> HIDE DEF Ok
    <3> QED
      BY <3>2, <3>3
  <2>2. ASSUME NEW k \in Nat, k \in S PROVE k + 1 \in S
    <3> SUFFICES ASSUME k + 1 <= Len(Edge)
                 PROVE  DOMAIN To[k + 1] = Nodes /\ Ok(k + 1, To[k + 1][n])
      OBVIOUS
    <3> DEFINE out == To[k][n]
    <3>1. DOMAIN To[k] = Nodes /\ Ok(k, out) /\ k + 1 \in 1..Len(Edge)
      BY <2>2, Constants
    <3>2. To[k + 1] = [To[k] EXCEPT ![Edge[k + 1].from] = Append(@, k + 1)]
      <4> DEFINE i == k + 1
      <4>1. To[i] = [To[i - 1] EXCEPT ![Edge[i].from] = Append(@, i)]
        BY <3>1, ToDef
      <4>2. i - 1 = k
        OBVIOUS
      <4> QED
        BY <4>1, <4>2
    <3>3. To[k + 1][n] = IF Origin(k + 1) = n THEN Append(out, k + 1) ELSE out
      BY <1>2, <3>1, <3>2 DEF Origin
    <3> HIDE DEF out
    <3>4. out \in Seq(1..k + 1) /\ Len(out) \in Nat /\ DOMAIN out = 1..Len(out)
      <4>1. out \in Seq(1..k) /\ 1..k \subseteq 1..k + 1
        BY <3>1
      <4> QED
        BY <4>1, SeqMonotonic, LenProperties
    <3>5. CASE Origin(k + 1) # n
      <4>1. \A e \in 1..k + 1 : Origin(e) = n => e \in 1..k
        BY <3>5
      <4>2. Ok(k + 1, out)
        BY <3>1, <3>4, <4>1
      <4>3. DOMAIN To[k + 1] = Nodes /\ To[k + 1][n] = out
        BY <3>1, <3>2, <3>3, <3>5
      <4> HIDE DEF Ok
      <4> QED
        BY <4>2, <4>3
    <3>6. CASE Origin(k + 1) = n
      <4> DEFINE new == Append(out, k + 1)
      <4>1. /\ new \in Seq(1..k + 1) /\ DOMAIN new = 1..Len(out) + 1
            /\ \A j \in 1..Len(out) : new[j] = out[j]
            /\ new[Len(out) + 1] = k + 1
        BY <3>4, AppendProperties, LenProperties
      <4>2. \A j \in 1..Len(out) : out[j] \in 1..k
        BY <3>1, ElementOfSeq
      <4> HIDE DEF new
      <4>3. ASSUME NEW j \in DOMAIN new
            PROVE  Origin(new[j]) = n
        <5>1. j \in 1..Len(out) \/ j = Len(out) + 1
          BY <3>4, <4>1
        <5>2. CASE j \in 1..Len(out)
          BY <3>1, <3>4, <4>1, <5>2
        <5>3. CASE j = Len(out) + 1
          BY <3>6, <4>1, <5>3
        <5> QED
          BY <5>1, <5>2, <5>3
      <4>4. ASSUME NEW i \in DOMAIN new, NEW j \in DOMAIN new, new[i] = new[j]
            PROVE  i = j
        <5>1. \A h, l \in 1..Len(out) : out[h] = out[l] => h = l
          BY <3>1, <3>4
        <5>2. \A h \in 1..Len(out) : new[h] # k + 1
          BY <4>1, <4>2
        <5> QED
          BY <3>4, <4>1, <4>4, <5>1, <5>2
      <4>5. ASSUME NEW e \in 1..k + 1, Origin(e) = n
            PROVE  \E j \in DOMAIN new : new[j] = e
        <5>1. CASE e = k + 1
          BY <3>4, <4>1, <5>1
        <5>2. CASE e \in 1..k
          BY <3>1, <3>4, <4>1, <4>5, <5>2
        <5> QED
          BY <5>1, <5>2
      <4>6. Ok(k + 1, new)
        BY <4>1, <4>3, <4>4, <4>5
      <4>7. DOMAIN To[k + 1] = Nodes /\ To[k + 1][n] = new
        BY <3>1, <3>2, <3>3, <3>6 DEF new
      <4> HIDE DEF Ok
      <4> QED
        BY <4>6, <4>7
    <3> QED
      BY <3>5, <3>6
  <2>3. \A k \in Nat : k \in S
    <3> HIDE DEF S
    <3> QED
      BY <2>1, <2>2, NaturalsBySet
  <2>4. Ok(Len(Edge), To[Len(Edge)][n])
    <3>1. Len(Edge) \in S /\ Len(Edge) \in Nat /\ Len(Edge) <= Len(Edge)
      <4> HIDE DEF S
      <4> QED
        BY <2>3, Constants
    <3> HIDE DEF Ok
    <3> QED
      BY <3>1
  <2> QED
    BY <1>2, <2>4, Constants DEF Out
<1> QED
  BY <1>1, <1>2

-----------------------------------------------------------------------------
(* The walk of one searcher, as a stack and a path. *)

Stacks == Seq(Edges \cup {Marker})

\* The markers among the first k elements of a stack: the depth, in the path, of
\* the node that the k-th element leaves.
Marks(st, k) == Cardinality({j \in 1..k : st[j] = Marker})

\* Route r takes the first d edges of a path, then edge e.
Leads(es, d, e, r) == d + 1 <= Len(r) /\ (\A i \in 1..d : r[i] = es[i]) /\ r[d + 1] = e

\* The routes that take a path and then edge e, or an edge that leaves node t.
Through(routes, es, e) == {r \in routes : Leads(es, Len(es), e, r)}
Beyond(routes, es, t) ==
  {r \in routes : \E e \in Edges : Origin(e) = t /\ Leads(es, Len(es), e, r)}

\* The routes that the stack still leads to.
Ahead(routes, st, es) ==
  {r \in routes : \E k \in DOMAIN st : st[k] # Marker /\ Leads(es, Marks(st, k), st[k], r)}

\* A set is the union of two others.
IsUnion(all, one, other) == all = one \cup other

\* Edge e is neither in a stack nor in a path.
Fresh(st, es, e) == (\A k \in 1..Len(st) : st[k] # e) /\ (\A i \in 1..Len(es) : es[i] # e)

\* A stack that ends with no edge of the last node of the path.
Closed(st) == st = <<>> \/ Last(st) = Marker

\* n and d are the lengths of the stack and of the path's edges.  The path is a
\* chain of edges from src that visits no node twice; there is a
\* marker for each of its edges, and an edge of the stack leaves the node of its
\* depth; no edge is twice in the stack, or in the stack and in the path.
Walk(src, st, ns, es, n, d) ==
  /\ st \in Stacks /\ Len(st) = n /\ n \in Nat
  /\ ns \in Seq(Nat) /\ es \in Seq(Edges) /\ Len(es) = d /\ d \in Nat
  /\ Marks(st, n) = d
  /\ Len(ns) = d + 1 /\ ns[1] = src
  /\ \A i \in 1..d : Origin(es[i]) = ns[i] /\ End(es[i]) = ns[i + 1]
  /\ \A i, j \in 1..d + 1 : ns[i] = ns[j] => i = j
  /\ \A k \in 1..n : st[k] # Marker => Origin(st[k]) = ns[Marks(st, k) + 1]
  /\ \A j, k \in 1..n : st[j] # Marker /\ st[j] = st[k] => j = k
  /\ \A k \in 1..n : \A i \in 1..d : st[k] # es[i]

WalkOK(src, st, ns, es) == Walk(src, st, ns, es, Len(st), Len(es))

\* How many markers there are before an element of a stack.
LEMMA MarksFacts ==
  ASSUME NEW st \in Stacks
  PROVE  /\ Len(st) \in Nat /\ DOMAIN st = 1..Len(st)
         /\ \A k \in 1..Len(st) : st[k] \in Edges \cup {Marker}
         /\ Marks(st, 0) = 0
         /\ \A k \in 0..Len(st) : Marks(st, k) \in Nat
         /\ \A k \in 1..Len(st) :
              Marks(st, k) = Marks(st, k - 1) + (IF st[k] = Marker THEN 1 ELSE 0)
         /\ \A j, k \in 0..Len(st) : j <= k => Marks(st, j) <= Marks(st, k)
<1> DEFINE M(k) == {j \in 1..k : st[j] = Marker}
<1>1. /\ Len(st) \in Nat /\ DOMAIN st = 1..Len(st)
      /\ \A k \in 1..Len(st) : st[k] \in Edges \cup {Marker}
  BY LenProperties, ElementOfSeq DEF Stacks
<1>2. \A k \in 0..Len(st) : IsFiniteSet(M(k)) /\ Cardinality(M(k)) \in Nat
  <2> SUFFICES ASSUME NEW k \in 0..Len(st) PROVE IsFiniteSet(M(k)) /\ Cardinality(M(k)) \in Nat
    OBVIOUS
  <2>1. IsFiniteSet(1..k)
    BY <1>1, FS_Interval
  <2> QED
    BY <2>1, FS_Subset, FS_CardinalityType
<1>3. Marks(st, 0) = 0
  <2>1. M(0) = {}
    OBVIOUS
  <2> QED
    BY <2>1, FS_EmptySet DEF Marks
<1>4. ASSUME NEW k \in 1..Len(st)
      PROVE  Marks(st, k) = Marks(st, k - 1) + (IF st[k] = Marker THEN 1 ELSE 0)
  <2>1. k - 1 \in 0..Len(st) /\ k \in Nat
    BY <1>1
  <2>2. CASE st[k] = Marker
    <3>1. M(k) = M(k - 1) \cup {k} /\ k \notin M(k - 1)
      BY <1>1, <2>2
    <3> QED
      BY <1>2, <2>1, <2>2, <3>1, FS_AddElement DEF Marks
  <2>3. CASE st[k] # Marker
    <3>1. M(k) = M(k - 1)
      BY <1>1, <2>3
    <3>2. Marks(st, k) = Marks(st, k - 1)
      BY <3>1 DEF Marks
    <3>3. Marks(st, k - 1) \in Nat
      BY <1>2, <2>1 DEF Marks
    <3> QED
      BY <2>3, <3>2, <3>3
  <2> QED
    BY <2>2, <2>3
<1>5. ASSUME NEW j \in 0..Len(st), NEW k \in 0..Len(st), j <= k PROVE Marks(st, j) <= Marks(st, k)
  <2>1. M(j) \in SUBSET M(k)
    BY <1>1, <1>5
  <2> QED
    BY <1>2, <2>1, FS_Subset DEF Marks
<1> QED
  BY <1>1, <1>2, <1>3, <1>4, <1>5 DEF Marks

\* Two stacks that begin with the same elements have the same markers there.
LEMMA MarksSame ==
  ASSUME NEW s1, NEW s2, NEW k \in Nat, \A j \in 1..k : s1[j] = s2[j]
  PROVE  Marks(s1, k) = Marks(s2, k)
<1>1. {j \in 1..k : s1[j] = Marker} = {j \in 1..k : s2[j] = Marker}
  OBVIOUS
<1> QED
  BY <1>1 DEF Marks

\* A stack without its top.
LEMMA FrontFacts ==
  ASSUME NEW S, NEW st \in Seq(S), st # <<>>
  PROVE  /\ Len(st) \in Nat \ {0} /\ DOMAIN st = 1..Len(st) /\ Last(st) \in S
         /\ Front(st) \in Seq(S) /\ Len(Front(st)) = Len(st) - 1
         /\ DOMAIN Front(st) = 1..Len(st) - 1
         /\ \A k \in 1..Len(st) - 1 : Front(st)[k] = st[k]
<1> DEFINE n == Len(st) - 1
<1>1. Len(st) \in Nat \ {0} /\ DOMAIN st = 1..Len(st) /\ \A k \in 1..Len(st) : st[k] \in S
  BY LenProperties, EmptySeq, ElementOfSeq
<1>2. n \in Nat /\ Len(st) = n + 1
  BY <1>1
<1>3. Front(st) = SubSeq(st, 1, n) /\ Last(st) = st[n + 1]
  BY <1>2 DEF Front, Last
<1> HIDE DEF n
<1>4. /\ SubSeq(st, 1, n) \in Seq(S)
      /\ Len(SubSeq(st, 1, n)) = IF 1 <= n THEN n - 1 + 1 ELSE 0
      /\ \A i \in 1..n - 1 + 1 : SubSeq(st, 1, n)[i] = st[1 + i - 1]
  BY <1>1, <1>2, SubSeqProperties
<1>5. \A i \in 1..n : i \in 1..n - 1 + 1 /\ 1 + i - 1 = i
  BY <1>2
<1>6. \A i \in 1..n : Front(st)[i] = st[i]
  BY <1>3, <1>4, <1>5
<1>7. Len(Front(st)) = n /\ DOMAIN Front(st) = 1..n
  BY <1>2, <1>3, <1>4, LenProperties
<1>8. Last(st) \in S
  BY <1>1, <1>2, <1>3
<1> QED
  BY <1>1, <1>3, <1>4, <1>6, <1>7, <1>8 DEF n

\* The elements of a stack are at a depth of the path.
LEMMA DepthInPath ==
  ASSUME NEW src, NEW st, NEW ns, NEW es, NEW n, NEW d, Walk(src, st, ns, es, n, d)
  PROVE  /\ \A k \in 0..n : Marks(st, k) \in 0..d
         /\ \A k \in 1..n : st[k] # Marker => st[k] \in Edges
<1>1. st \in Stacks /\ Len(st) = n /\ n \in Nat /\ d \in Nat /\ Marks(st, n) = d
  BY DEF Walk
<1>2. /\ \A k \in 1..n : st[k] \in Edges \cup {Marker}
      /\ \A k \in 0..n : Marks(st, k) \in Nat
      /\ \A j, k \in 0..n : j <= k => Marks(st, j) <= Marks(st, k)
  BY <1>1, MarksFacts
<1> QED
  BY <1>1, <1>2

\* The markers of a stack that begins with the elements of another.
LEMMA MarksPrefix ==
  ASSUME NEW s1, NEW s2, NEW n \in Nat, \A k \in 1..n : s1[k] = s2[k]
  PROVE  \A k \in 0..n : Marks(s1, k) = Marks(s2, k)
<1> SUFFICES ASSUME NEW k \in 0..n PROVE Marks(s1, k) = Marks(s2, k)
  OBVIOUS
<1>1. k \in Nat /\ \A j \in 1..k : s1[j] = s2[j]
  OBVIOUS
<1> QED
  BY <1>1, MarksSame

\* A walk with something in its stack.
LEMMA WalkTop ==
  ASSUME NEW src, NEW st, NEW ns, NEW es, WalkOK(src, st, ns, es), st # <<>>
  PROVE  \E n, d \in Nat :
           /\ Walk(src, st, ns, es, n + 1, d)
           /\ Last(st) = st[n + 1] /\ Last(st) \in Edges \cup {Marker}
           /\ Front(st) \in Stacks /\ Len(Front(st)) = n
           /\ DOMAIN st = 1..n + 1 /\ DOMAIN Front(st) = 1..n
           /\ \A k \in 1..n : Front(st)[k] = st[k]
           /\ \A k \in 0..n : Marks(Front(st), k) = Marks(st, k)
           /\ Marks(st, n) \in Nat
           /\ Marks(st, n + 1) = Marks(st, n) + (IF st[n + 1] = Marker THEN 1 ELSE 0)
<1>1. st \in Seq(Edges \cup {Marker}) /\ Len(es) \in Nat
  BY DEF WalkOK, Walk, Stacks
<1>2. Len(st) \in Nat \ {0}
  BY <1>1, FrontFacts
<1> DEFINE n == Len(st) - 1
<1>3. n \in Nat /\ Len(st) = n + 1
  BY <1>2
<1> HIDE DEF n
<1>4. Walk(src, st, ns, es, n + 1, Len(es))
  BY <1>3 DEF WalkOK
<1>5. Last(st) = st[n + 1]
  BY <1>3 DEF Last
<1>6. Len(st) - 1 = n
  BY <1>3
<1>7. /\ DOMAIN st = 1..n + 1 /\ Last(st) \in Edges \cup {Marker}
      /\ Front(st) \in Stacks /\ Len(Front(st)) = n /\ DOMAIN Front(st) = 1..n
      /\ \A k \in 1..n : Front(st)[k] = st[k]
  BY <1>1, <1>3, <1>6, FrontFacts DEF Stacks
<1>8. \A k \in 0..n : Marks(Front(st), k) = Marks(st, k)
  BY <1>3, <1>7, MarksPrefix
<1>9. st \in Stacks /\ n \in 0..Len(st) /\ n + 1 \in 1..Len(st) /\ n + 1 - 1 = n
  BY <1>1, <1>3 DEF Stacks
<1>10. /\ Marks(st, n) \in Nat
       /\ Marks(st, n + 1) = Marks(st, n + 1 - 1) + (IF st[n + 1] = Marker THEN 1 ELSE 0)
  BY <1>9, MarksFacts
<1> QED
  BY <1>1, <1>3, <1>4, <1>5, <1>7, <1>8, <1>9, <1>10

\* The walk takes an edge from the stack.
LEMMA PopEdge ==
  ASSUME NEW src, NEW st, NEW ns, NEW es, WalkOK(src, st, ns, es),
         st # <<>>, Last(st) # Marker, NEW routes
  PROVE  /\ WalkOK(src, Front(st), ns, es)
         /\ Last(st) \in Edges /\ Origin(Last(st)) = Last(ns)
         /\ Fresh(Front(st), es, Last(st))
         /\ IsUnion(Ahead(routes, st, es), Ahead(routes, Front(st), es),
                    Through(routes, es, Last(st)))
<1> DEFINE s1 == Front(st)
<1>1. PICK n, d \in Nat :
        /\ Walk(src, st, ns, es, n + 1, d)
        /\ Last(st) = st[n + 1] /\ Last(st) \in Edges \cup {Marker}
        /\ s1 \in Stacks /\ Len(s1) = n /\ DOMAIN st = 1..n + 1 /\ DOMAIN s1 = 1..n
        /\ \A k \in 1..n : s1[k] = st[k]
        /\ \A k \in 0..n : Marks(s1, k) = Marks(st, k)
        /\ Marks(st, n) \in Nat
        /\ Marks(st, n + 1) = Marks(st, n) + (IF st[n + 1] = Marker THEN 1 ELSE 0)
  BY WalkTop
<1> HIDE DEF s1
<1>2. Marks(st, n + 1) = d /\ Len(es) = d /\ Len(ns) = d + 1
  BY <1>1 DEF Walk
<1>3. n \in 0..n /\ Marks(s1, n) = d
  BY <1>1, <1>2
<1>4. \A k \in 1..n : k \in 1..n + 1 /\ k # n + 1 /\ k \in 0..n
  OBVIOUS
<1>5. n + 1 \in 1..n + 1 /\ \A k \in 1..n + 1 : k = n + 1 \/ k \in 1..n
  OBVIOUS
<1>6. \A k \in 1..n : s1[k] # Marker => Origin(s1[k]) = ns[Marks(s1, k) + 1]
  BY <1>1, <1>4 DEF Walk
<1>7. \A j, k \in 1..n : s1[j] # Marker /\ s1[j] = s1[k] => j = k
  <2>1. \A j, k \in 1..n + 1 : st[j] # Marker /\ st[j] = st[k] => j = k
    BY <1>1 DEF Walk
  <2> QED
    BY <1>1, <1>4, <2>1
<1>8. \A k \in 1..n : \A i \in 1..d : s1[k] # es[i]
  <2>1. \A k \in 1..n + 1 : \A i \in 1..d : st[k] # es[i]
    BY <1>1 DEF Walk
  <2> QED
    BY <1>1, <1>4, <2>1
<1>9. WalkOK(src, s1, ns, es)
  <2>1. Walk(src, s1, ns, es, n, d)
    BY <1>1, <1>3, <1>6, <1>7, <1>8 DEF Walk
  <2> QED
    BY <1>1, <1>2, <2>1 DEF WalkOK
<1>10. Last(st) \in Edges /\ Origin(Last(st)) = Last(ns)
  <2>1. Origin(st[n + 1]) = ns[d + 1]
    BY <1>1, <1>2, <1>5 DEF Walk
  <2> QED
    BY <1>1, <1>2, <2>1 DEF Last
<1>11. \A k \in 1..Len(s1) : s1[k] # Last(st)
  <2>1. \A j, k \in 1..n + 1 : st[j] # Marker /\ st[j] = st[k] => j = k
    BY <1>1 DEF Walk
  <2> QED
    BY <1>1, <1>4, <1>5, <2>1
<1>12. \A i \in 1..d : es[i] # Last(st)
  <2>1. \A k \in 1..n + 1 : \A i \in 1..d : st[k] # es[i]
    BY <1>1 DEF Walk
  <2> QED
    BY <1>1, <1>5, <2>1
<1>13. Ahead(routes, st, es) =
         Ahead(routes, s1, es) \cup Through(routes, es, Last(st))
  <2>1. ASSUME NEW r, NEW k \in 1..n
        PROVE  Leads(es, Marks(s1, k), s1[k], r) <=> Leads(es, Marks(st, k), st[k], r)
    BY <1>1, <1>4
  <2>2. ASSUME NEW r
        PROVE  (\E k \in 1..n + 1 : st[k] # Marker /\ Leads(es, Marks(st, k), st[k], r)) <=>
                 \/ \E k \in 1..n : s1[k] # Marker /\ Leads(es, Marks(s1, k), s1[k], r)
                 \/ Leads(es, d, Last(st), r)
    <3>1. Leads(es, Marks(st, n + 1), st[n + 1], r) <=> Leads(es, d, Last(st), r)
      BY <1>1, <1>2
    <3> QED
      BY <1>1, <1>4, <1>5, <2>1, <3>1
  <2> QED
    BY <1>1, <1>2, <2>2 DEF Ahead, Through
<1> QED
  BY <1>2, <1>9, <1>10, <1>11, <1>12, <1>13 DEF s1, Fresh, IsUnion

\* The walk takes a marker from the stack, and leaves the last node of the path.
LEMMA PopMarker ==
  ASSUME NEW src, NEW st, NEW ns, NEW es, WalkOK(src, st, ns, es),
         st # <<>>, Last(st) = Marker, NEW routes
  PROVE  /\ es # <<>>
         /\ WalkOK(src, Front(st), Front(ns), Front(es))
         /\ Ahead(routes, st, es) = Ahead(routes, Front(st), Front(es))
<1> DEFINE s1 == Front(st)
           es1 == Front(es)
           ns1 == Front(ns)
<1>1. PICK n, c \in Nat :
        /\ Walk(src, st, ns, es, n + 1, c)
        /\ Last(st) = st[n + 1]
        /\ s1 \in Stacks /\ Len(s1) = n /\ DOMAIN st = 1..n + 1 /\ DOMAIN s1 = 1..n
        /\ \A k \in 1..n : s1[k] = st[k]
        /\ \A k \in 0..n : Marks(s1, k) = Marks(st, k)
        /\ Marks(st, n) \in Nat
        /\ Marks(st, n + 1) = Marks(st, n) + (IF st[n + 1] = Marker THEN 1 ELSE 0)
  BY WalkTop
<1>2. PICK d \in Nat : c = d + 1 /\ Marks(st, n) = d
  <2>1. Marks(st, n + 1) = c
    BY <1>1 DEF Walk
  <2> QED
    BY <1>1, <2>1
<1>3. /\ es \in Seq(Edges) /\ ns \in Seq(Nat)
      /\ Len(es) = d + 1 /\ Len(ns) = d + 1 + 1
  BY <1>1, <1>2 DEF Walk
<1>4. /\ es # <<>> /\ ns # <<>>
      /\ d + 1 - 1 = d /\ d + 1 + 1 - 1 = d + 1
  BY <1>3, EmptySeq
<1>5. /\ es1 \in Seq(Edges) /\ Len(es1) = d /\ \A i \in 1..d : es1[i] = es[i]
      /\ ns1 \in Seq(Nat) /\ Len(ns1) = d + 1 /\ \A i \in 1..d + 1 : ns1[i] = ns[i]
  <2>1. /\ es1 \in Seq(Edges) /\ Len(es1) = Len(es) - 1
        /\ \A i \in 1..Len(es) - 1 : es1[i] = es[i]
    BY <1>3, <1>4, FrontFacts
  <2>2. /\ ns1 \in Seq(Nat) /\ Len(ns1) = Len(ns) - 1
        /\ \A i \in 1..Len(ns) - 1 : ns1[i] = ns[i]
    BY <1>3, <1>4, FrontFacts
  <2> HIDE DEF es1, ns1
  <2> QED
    BY <1>3, <1>4, <2>1, <2>2
<1> HIDE DEF s1, es1, ns1
<1>6. \A k \in 1..n : k \in 1..n + 1 /\ k # n + 1 /\ k \in 0..n
  OBVIOUS
<1>7. n + 1 \in 1..n + 1 /\ \A k \in 1..n + 1 : k = n + 1 \/ k \in 1..n
  OBVIOUS
<1>8. \A k \in 1..n : Marks(st, k) \in 0..d /\ Marks(st, k) + 1 \in 1..d + 1
  <2>1. st \in Stacks /\ Len(st) = n + 1
    BY <1>1 DEF Walk
  <2>2. \A j, k \in 0..n + 1 : j <= k => Marks(st, j) <= Marks(st, k)
    BY <2>1, MarksFacts
  <2>3. \A k \in 0..n + 1 : Marks(st, k) \in Nat
    BY <2>1, MarksFacts
  <2>4. \A k \in 1..n : k \in 0..n + 1 /\ n \in 0..n + 1 /\ k <= n
    OBVIOUS
  <2> QED
    BY <1>2, <2>2, <2>3, <2>4
<1>9. \A k \in 1..n : s1[k] # Marker => Origin(s1[k]) = ns1[Marks(s1, k) + 1]
  <2>1. \A k \in 1..n + 1 : st[k] # Marker => Origin(st[k]) = ns[Marks(st, k) + 1]
    BY <1>1 DEF Walk
  <2> QED
    BY <1>1, <1>5, <1>6, <1>8, <2>1
<1>10. \A j, k \in 1..n : s1[j] # Marker /\ s1[j] = s1[k] => j = k
  <2>1. \A j, k \in 1..n + 1 : st[j] # Marker /\ st[j] = st[k] => j = k
    BY <1>1 DEF Walk
  <2> QED
    BY <1>1, <1>6, <2>1
<1>11. \A i \in 1..d : i \in 1..d + 1 /\ i + 1 \in 1..d + 1
  OBVIOUS
<1>12. \A k \in 1..n : \A i \in 1..d : s1[k] # es1[i]
  <2>1. \A k \in 1..n + 1 : \A i \in 1..d + 1 : st[k] # es[i]
    BY <1>1, <1>2 DEF Walk
  <2> SUFFICES ASSUME NEW k \in 1..n, NEW i \in 1..d PROVE s1[k] # es1[i]
    OBVIOUS
  <2>2. s1[k] = st[k] /\ es1[i] = es[i] /\ k \in 1..n + 1 /\ i \in 1..d + 1
    BY <1>1, <1>5, <1>6, <1>11
  <2> QED
    BY <2>1, <2>2
<1>13. \A i \in 1..d : Origin(es1[i]) = ns1[i] /\ End(es1[i]) = ns1[i + 1]
  <2>1. \A i \in 1..d + 1 :
          Origin(es[i]) = ns[i] /\ End(es[i]) = ns[i + 1]
    BY <1>1, <1>2 DEF Walk
  <2> QED
    BY <1>5, <1>11, <2>1
<1>14. ns1[1] = src /\ \A i, j \in 1..d + 1 : ns1[i] = ns1[j] => i = j
  <2>1. ns[1] = src /\ \A i, j \in 1..d + 1 + 1 : ns[i] = ns[j] => i = j
    BY <1>1, <1>2 DEF Walk
  <2>2. 1 \in 1..d + 1 /\ \A i \in 1..d + 1 : i \in 1..d + 1 + 1
    OBVIOUS
  <2> QED
    BY <1>5, <2>1, <2>2
<1>15. WalkOK(src, s1, ns1, es1)
  <2>1. n \in 0..n /\ Marks(s1, n) = d
    BY <1>1, <1>2
  <2>2. Walk(src, s1, ns1, es1, n, d)
    BY <1>1, <1>5, <1>9, <1>10, <1>12, <1>13, <1>14, <2>1 DEF Walk
  <2> QED
    BY <1>1, <1>5, <2>2 DEF WalkOK
<1>16. Ahead(routes, st, es) = Ahead(routes, s1, es1)
  <2>1. ASSUME NEW r, NEW k \in 1..n
        PROVE  Leads(es, Marks(st, k), st[k], r) <=> Leads(es1, Marks(s1, k), s1[k], r)
    <3>1. Marks(s1, k) = Marks(st, k) /\ s1[k] = st[k] /\ Marks(st, k) \in 0..d
      BY <1>1, <1>6, <1>8
    <3>2. \A i \in 1..Marks(st, k) : es1[i] = es[i]
      BY <1>5, <3>1
    <3> QED
      BY <3>1, <3>2 DEF Leads
  <2>2. ASSUME NEW r
        PROVE  (\E k \in 1..n + 1 : st[k] # Marker /\ Leads(es, Marks(st, k), st[k], r)) <=>
                 \E k \in 1..n : s1[k] # Marker /\ Leads(es1, Marks(s1, k), s1[k], r)
    BY <1>1, <1>6, <1>7, <2>1
  <2> QED
    BY <1>1, <2>2 DEF Ahead
<1> QED
  BY <1>4, <1>15, <1>16 DEF s1, es1, ns1

\* The walk goes along an edge: a marker is pushed, the path grows.
LEMMA PushNode ==
  ASSUME NEW src, NEW st, NEW ns, NEW es, WalkOK(src, st, ns, es),
         NEW e \in Edges, Origin(e) = Last(ns), NEW t, t = End(e),
         ~Contains(ns, t), Fresh(st, es, e), NEW routes
  PROVE  /\ WalkOK(src, Append(st, Marker), Append(ns, t), Append(es, e))
         /\ Ahead(routes, Append(st, Marker), Append(es, e)) = Ahead(routes, st, es)
<1> DEFINE s1 == Append(st, Marker)
           es1 == Append(es, e)
           ns1 == Append(ns, t)
<1>1. PICK n, d \in Nat : n = Len(st) /\ d = Len(es) /\ Walk(src, st, ns, es, n, d)
  BY DEF WalkOK, Walk
<1>2. /\ n \in Nat /\ d \in Nat /\ st \in Seq(Edges \cup {Marker}) /\ DOMAIN st = 1..n
      /\ es \in Seq(Edges) /\ ns \in Seq(Nat) /\ Len(ns) = d + 1
  BY <1>1, LenProperties DEF Walk, Stacks
<1>3. /\ s1 \in Seq(Edges \cup {Marker}) /\ Len(s1) = n + 1 /\ DOMAIN s1 = 1..n + 1
      /\ \A k \in 1..n : s1[k] = st[k]
      /\ s1[n + 1] = Marker
  BY <1>1, <1>2, AppendProperties, LenProperties
<1>4. es1 \in Seq(Edges) /\ Len(es1) = d + 1 /\ es1[d + 1] = e /\ \A i \in 1..d : es1[i] = es[i]
  BY <1>1, <1>2, AppendProperties
<1>5. /\ ns1 \in Seq(Nat) /\ Len(ns1) = d + 1 + 1 /\ ns1[d + 1 + 1] = End(e)
      /\ \A i \in 1..d + 1 : ns1[i] = ns[i]
  <2>1. End(e) \in Nat
    BY Constants
  <2> QED
    BY <1>2, <2>1, AppendProperties
<1> HIDE DEF s1, es1, ns1
<1>6. /\ \A i \in 1..d + 1 : ns[i] # End(e)
      /\ \A k \in 1..n : st[k] # e
      /\ \A i \in 1..d : es[i] # e
      /\ Origin(e) = ns[d + 1]
  BY <1>1, <1>2 DEF Fresh, Contains, Last
<1>7. \A k \in 1..n : k \in 1..n + 1 /\ k # n + 1 /\ k \in 0..n
  BY <1>2
<1>8. n + 1 \in 1..n + 1 /\ \A k \in 1..n + 1 : k = n + 1 \/ k \in 1..n
  BY <1>2
<1>9. \A k \in 0..n : Marks(s1, k) = Marks(st, k)
  BY <1>2, <1>3, MarksPrefix
<1>10. Marks(s1, n + 1) = d + 1
  <2>1. s1 \in Stacks /\ n + 1 \in 1..Len(s1) /\ n + 1 - 1 = n /\ n \in 0..n
    BY <1>2, <1>3 DEF Stacks
  <2>2. Marks(s1, n + 1) = Marks(s1, n + 1 - 1) + (IF s1[n + 1] = Marker THEN 1 ELSE 0)
    BY <2>1, MarksFacts
  <2>3. Marks(s1, n) = d
    BY <1>1, <1>9, <2>1 DEF Walk
  <2> QED
    BY <1>2, <1>3, <2>1, <2>2, <2>3
<1>11. \A k \in 1..n : Marks(st, k) \in 0..d /\ Marks(st, k) + 1 \in 1..d + 1
  <2>1. \A k \in 0..n : Marks(st, k) \in 0..d
    BY <1>1, DepthInPath
  <2> QED
    BY <1>2, <1>7, <2>1
<1>12. \A k \in 1..n + 1 : s1[k] # Marker => Origin(s1[k]) = ns1[Marks(s1, k) + 1]
  <2>1. \A k \in 1..n : st[k] # Marker => Origin(st[k]) = ns[Marks(st, k) + 1]
    BY <1>1 DEF Walk
  <2>2. \A k \in 1..n : s1[k] # Marker => Origin(s1[k]) = ns1[Marks(s1, k) + 1]
    BY <1>3, <1>5, <1>7, <1>9, <1>11, <2>1
  <2> QED
    BY <1>3, <1>8, <2>2
<1>13. \A j, k \in 1..n + 1 : s1[j] # Marker /\ s1[j] = s1[k] => j = k
  <2>1. \A j, k \in 1..n : st[j] # Marker /\ st[j] = st[k] => j = k
    BY <1>1 DEF Walk
  <2> QED
    BY <1>3, <1>8, <2>1
<1>14. \A i \in 1..d + 1 : i = d + 1 \/ i \in 1..d
  BY <1>2
<1>15. \A k \in 1..n + 1 : \A i \in 1..d + 1 : s1[k] # es1[i]
  <2>1. \A k \in 1..n : \A i \in 1..d : st[k] # es[i]
    BY <1>1 DEF Walk
  <2>2. \A i \in 1..d + 1 : es1[i] # Marker
    <3>1. \A i \in 1..d + 1 : es1[i] \in Edges
      BY <1>4, ElementOfSeq
    <3> QED
      BY <3>1, Constants
  <2> SUFFICES ASSUME NEW k \in 1..n + 1, NEW i \in 1..d + 1 PROVE s1[k] # es1[i]
    OBVIOUS
  <2>3. CASE k = n + 1
    BY <1>3, <2>2, <2>3
  <2>4. CASE k \in 1..n /\ i = d + 1
    BY <1>3, <1>4, <1>6, <2>4
  <2>5. CASE k \in 1..n /\ i \in 1..d
    BY <1>3, <1>4, <2>1, <2>5
  <2> QED
    BY <1>8, <1>14, <2>3, <2>4, <2>5
<1>16. \A i \in 1..d + 1 : Origin(es1[i]) = ns1[i] /\ End(es1[i]) = ns1[i + 1]
  <2>1. \A i \in 1..d : Origin(es[i]) = ns[i] /\ End(es[i]) = ns[i + 1]
    BY <1>1 DEF Walk
  <2>2. \A i \in 1..d : i \in 1..d + 1 /\ i + 1 \in 1..d + 1
    BY <1>2
  <2>3. d + 1 \in 1..d + 1
    BY <1>2
  <2> SUFFICES ASSUME NEW i \in 1..d + 1
               PROVE  Origin(es1[i]) = ns1[i] /\ End(es1[i]) = ns1[i + 1]
    OBVIOUS
  <2>4. CASE i = d + 1
    BY <1>4, <1>5, <1>6, <2>3, <2>4
  <2>5. CASE i \in 1..d
    BY <1>4, <1>5, <2>1, <2>2, <2>5
  <2> QED
    BY <1>14, <2>4, <2>5
<1>17. ns1[1] = src /\ \A i, j \in 1..d + 1 + 1 : ns1[i] = ns1[j] => i = j
  <2>1. ns[1] = src /\ \A i, j \in 1..d + 1 : ns[i] = ns[j] => i = j
    BY <1>1 DEF Walk
  <2>2. 1 \in 1..d + 1 /\ \A i \in 1..d + 1 + 1 : i = d + 1 + 1 \/ i \in 1..d + 1
    BY <1>2
  <2>3. \A i \in 1..d + 1 : ns1[i] # ns1[d + 1 + 1]
    BY <1>5, <1>6
  <2> QED
    BY <1>5, <2>1, <2>2, <2>3
<1>18. WalkOK(src, s1, ns1, es1)
  <2>1. n + 1 \in Nat /\ d + 1 \in Nat /\ s1 \in Stacks
    BY <1>2, <1>3 DEF Stacks
  <2>2. Walk(src, s1, ns1, es1, n + 1, d + 1)
    BY <1>3, <1>4, <1>5, <1>10, <1>12, <1>13, <1>15, <1>16, <1>17, <2>1 DEF Walk
  <2> QED
    BY <1>3, <1>4, <2>2 DEF WalkOK
<1>19. Ahead(routes, s1, es1) = Ahead(routes, st, es)
  <2>1. ASSUME NEW r, NEW k \in 1..n
        PROVE  Leads(es, Marks(st, k), st[k], r) <=> Leads(es1, Marks(s1, k), s1[k], r)
    <3>1. Marks(s1, k) = Marks(st, k) /\ s1[k] = st[k] /\ Marks(st, k) \in 0..d
      BY <1>3, <1>7, <1>9, <1>11
    <3>2. \A i \in 1..Marks(st, k) : es1[i] = es[i]
      BY <1>2, <1>4, <3>1
    <3> QED
      BY <3>1, <3>2 DEF Leads
  <2>2. ASSUME NEW r
        PROVE  (\E k \in 1..n + 1 : s1[k] # Marker /\ Leads(es1, Marks(s1, k), s1[k], r)) <=>
                 \E k \in 1..n : st[k] # Marker /\ Leads(es, Marks(st, k), st[k], r)
    BY <1>3, <1>7, <1>8, <2>1
  <2> QED
    BY <1>2, <1>3, <2>2 DEF Ahead
<1> QED
  BY <1>18, <1>19 DEF s1, es1, ns1

\* The walk is at a new node: the edges that leave it are pushed.
LEMMA PushEdges ==
  ASSUME NEW src, NEW st, NEW ns, NEW es, WalkOK(src, st, ns, es), Closed(st),
         NEW t, t = Last(ns), NEW routes
  PROVE  /\ WalkOK(src, st \o Out(t), ns, es)
         /\ IsUnion(Ahead(routes, st \o Out(t), es), Ahead(routes, st, es), Beyond(routes, es, t))
<1> DEFINE s1 == st \o Out(t)
           out == Out(t)
<1>1. PICK n, d \in Nat : n = Len(st) /\ d = Len(es) /\ Walk(src, st, ns, es, n, d)
  BY DEF WalkOK, Walk
<1>2. /\ n \in Nat /\ d \in Nat /\ st \in Seq(Edges \cup {Marker}) /\ DOMAIN st = 1..n
      /\ ns \in Seq(Nat) /\ Len(ns) = d + 1
  BY <1>1, LenProperties DEF Walk, Stacks
<1>3. t = ns[d + 1] /\ t \in Nat
  <2>1. d + 1 \in 1..Len(ns)
    BY <1>2
  <2> QED
    BY <1>2, <2>1, ElementOfSeq DEF Last
<1>4. /\ out \in Seq(Edges)
      /\ \A k \in DOMAIN out : Origin(out[k]) = t
      /\ \A j, k \in DOMAIN out : out[j] = out[k] => j = k
      /\ \A e \in Edges : Origin(e) = t => \E k \in DOMAIN out : out[k] = e
  BY <1>3, OutEdges
<1>5. PICK m \in Nat : m = Len(out) /\ DOMAIN out = 1..m
  BY <1>4, LenProperties
<1>6. \A k \in 1..m : out[k] \in Edges
  BY <1>4, <1>5, ElementOfSeq
<1>7. out \in Seq(Edges \cup {Marker})
  BY <1>4, SeqMonotonic
<1> HIDE DEF out
<1>8. /\ s1 \in Seq(Edges \cup {Marker}) /\ Len(s1) = n + m /\ DOMAIN s1 = 1..n + m
      /\ \A k \in 1..n : s1[k] = st[k]
      /\ \A j \in 1..m : s1[n + j] = out[j]
  <2>1. st \o out \in Seq(Edges \cup {Marker}) /\ Len(st \o out) = n + m
    BY <1>1, <1>2, <1>5, <1>7, ConcatProperties
  <2>2. \A k \in 1..n + m : (st \o out)[k] = IF k <= n THEN st[k] ELSE out[k - n]
    BY <1>1, <1>2, <1>5, <1>7, <2>1, ConcatProperties
  <2>3. s1 = st \o out /\ DOMAIN (st \o out) = 1..n + m
    BY <2>1, LenProperties DEF out
  <2> HIDE DEF s1
  <2>4. \A k \in 1..n : k \in 1..n + m /\ k <= n
    BY <1>2
  <2>5. \A j \in 1..m : n + j \in 1..n + m /\ ~(n + j <= n) /\ n + j - n = j
    BY <1>2
  <2>6. \A k \in 1..n : s1[k] = st[k]
    BY <2>2, <2>3, <2>4
  <2>7. ASSUME NEW j \in 1..m PROVE s1[n + j] = out[j]
    <3> DEFINE k == n + j
    <3>1. k \in 1..n + m /\ ~(k <= n) /\ k - n = j
      BY <2>5
    <3> HIDE DEF k
    <3>2. s1[k] = out[j]
      BY <2>2, <2>3, <3>1
    <3> QED
      BY <3>2 DEF k
  <2> QED
    BY <2>1, <2>3, <2>6, <2>7
<1> HIDE DEF s1
<1>9. ASSUME NEW k \in 1..n + m PROVE k \in 1..n \/ \E j \in 1..m : k = n + j
  <2>1. CASE k <= n
    BY <1>2, <2>1
  <2>2. CASE ~(k <= n)
    <3>1. k - n \in 1..m /\ k = n + (k - n)
      BY <1>2, <2>2
    <3> QED
      BY <3>1
  <2> QED
    BY <2>1, <2>2
<1>10. \A k \in 1..n : k \in 1..n + m /\ k \in 0..n
  BY <1>2
<1>11. \A j \in 1..m : n + j \in 1..n + m
  BY <1>2
<1>12. \A k \in 0..n : Marks(s1, k) = Marks(st, k)
  BY <1>2, <1>8, MarksPrefix
<1>13. \A j \in 0..m : Marks(s1, n + j) = d
  <2> DEFINE S == {j \in Nat : j <= m => Marks(s1, n + j) = d}
  <2>1. n + 0 = n /\ n \in 0..n /\ Marks(st, n) = d
    BY <1>1, <1>2 DEF Walk
  <2>2. 0 \in S
    BY <1>12, <2>1
  <2>3. ASSUME NEW j \in Nat, j \in S PROVE j + 1 \in S
    <3> SUFFICES ASSUME j + 1 <= m PROVE Marks(s1, n + (j + 1)) = d
      OBVIOUS
    <3>1. Marks(s1, n + j) = d /\ j + 1 \in 1..m
      BY <2>3
    <3>2. n + (j + 1) \in 1..n + m /\ n + (j + 1) - 1 = n + j
      BY <1>2, <3>1
    <3>3. Marks(s1, n + (j + 1)) =
            Marks(s1, n + (j + 1) - 1) + (IF s1[n + (j + 1)] = Marker THEN 1 ELSE 0)
      <4>1. s1 \in Stacks /\ Len(s1) = n + m
        BY <1>8 DEF Stacks
      <4>2. \A i \in 1..n + m : Marks(s1, i) = Marks(s1, i - 1) + (IF s1[i] = Marker THEN 1 ELSE 0)
        BY <4>1, MarksFacts
      <4> QED
        BY <3>2, <4>2
    <3>4. s1[n + (j + 1)] # Marker
      <4>1. s1[n + (j + 1)] = out[j + 1] /\ out[j + 1] \in Edges
        BY <1>6, <1>8, <3>1
      <4> QED
        BY <4>1, Constants
    <3> QED
      BY <1>2, <3>1, <3>2, <3>3, <3>4
  <2>4. \A j \in Nat : j \in S
    <3> HIDE DEF S
    <3> QED
      BY <2>2, <2>3, NaturalsBySet
  <2> SUFFICES ASSUME NEW j \in 0..m PROVE Marks(s1, n + j) = d
    OBVIOUS
  <2>5. j \in Nat /\ j <= m /\ j \in S
    BY <2>4
  <2> QED
    BY <2>5
<1>14. \A j \in 1..m : Marks(s1, n + j) = d /\ s1[n + j] = out[j] /\ Origin(out[j]) = t
  <2>1. \A j \in 1..m : j \in 0..m
    OBVIOUS
  <2> QED
    BY <1>4, <1>5, <1>8, <1>13, <2>1
<1>15. /\ \A i \in 1..d : Origin(es[i]) = ns[i]
       /\ \A i, j \in 1..d + 1 : ns[i] = ns[j] => i = j
       /\ \A k \in 1..n : st[k] # Marker => Origin(st[k]) = ns[Marks(st, k) + 1]
       /\ \A j, k \in 1..n : st[j] # Marker /\ st[j] = st[k] => j = k
       /\ \A k \in 1..n : \A i \in 1..d : st[k] # es[i]
  BY <1>1 DEF Walk
<1>16. \A i \in 1..d : Origin(es[i]) # t
  <2>1. \A i \in 1..d : i \in 1..d + 1 /\ d + 1 \in 1..d + 1 /\ i # d + 1
    BY <1>2
  <2> QED
    BY <1>3, <1>15, <2>1
<1>17. ASSUME NEW k \in 1..n, st[k] # Marker PROVE Origin(st[k]) # t
  <2>1. st # <<>> /\ n # 0
    <3>1. n # 0
      BY <1>2
    <3> QED
      BY <1>1, <1>2, <3>1, EmptySeq
  <2>2. st[n] = Marker
    BY <1>1, <2>1 DEF Last, Closed
  <2>3. k # n /\ k <= n - 1 /\ n - 1 \in 0..n /\ n \in 1..n /\ k \in 0..n
    BY <1>2, <1>17, <2>1, <2>2
  <2>4. st \in Stacks
    BY <1>2 DEF Stacks
  <2>5. Marks(st, n) = Marks(st, n - 1) + 1
    BY <1>1, <2>2, <2>3, <2>4, MarksFacts
  <2>6. Marks(st, n - 1) \in Nat /\ Marks(st, k) \in Nat /\ Marks(st, k) <= Marks(st, n - 1)
    BY <1>1, <2>3, <2>4, MarksFacts
  <2>7. Marks(st, n) = d
    BY <1>1 DEF Walk
  <2>8. Marks(st, k) + 1 \in 1..d + 1 /\ Marks(st, k) + 1 # d + 1 /\ d + 1 \in 1..d + 1
    BY <1>2, <2>5, <2>6, <2>7
  <2> QED
    BY <1>3, <1>15, <1>17, <2>8
<1>18. \A k \in 1..n + m : s1[k] # Marker => Origin(s1[k]) = ns[Marks(s1, k) + 1]
  <2> SUFFICES ASSUME NEW k \in 1..n + m, s1[k] # Marker
               PROVE  Origin(s1[k]) = ns[Marks(s1, k) + 1]
    OBVIOUS
  <2>1. CASE k \in 1..n
    BY <1>8, <1>10, <1>12, <1>15, <2>1
  <2>2. ASSUME NEW j \in 1..m, k = n + j PROVE Origin(s1[k]) = ns[Marks(s1, k) + 1]
    <3>1. Marks(s1, k) = d /\ Origin(s1[k]) = t
      BY <1>14, <2>2
    <3> QED
      BY <1>3, <3>1
  <2> QED
    BY <1>9, <2>1, <2>2
<1>19. \A j, k \in 1..n + m : s1[j] # Marker /\ s1[j] = s1[k] => j = k
  <2> SUFFICES ASSUME NEW j \in 1..n + m, NEW k \in 1..n + m, s1[j] # Marker, s1[j] = s1[k]
               PROVE  j = k
    OBVIOUS
  <2>1. CASE j \in 1..n /\ k \in 1..n
    BY <1>8, <1>15, <2>1
  <2>2. ASSUME NEW i \in 1..n, NEW h \in 1..m PROVE s1[i] = Marker \/ s1[i] # s1[n + h]
    <3>1. Origin(s1[n + h]) = t
      BY <1>14
    <3>2. s1[i] = st[i]
      BY <1>8
    <3> QED
      BY <1>17, <3>1, <3>2
  <2>3. ASSUME NEW i \in 1..m, NEW h \in 1..m, j = n + i, k = n + h PROVE j = k
    <3>1. s1[j] = out[i] /\ s1[k] = out[h]
      BY <1>14, <2>3
    <3>2. i = h
      <4>1. \A a, b \in 1..m : out[a] = out[b] => a = b
        BY <1>4, <1>5
      <4>2. out[i] = out[h]
        BY <2>3, <3>1
      <4> QED
        BY <4>1, <4>2
    <3> QED
      BY <2>3, <3>2
  <2> QED
    BY <1>9, <2>1, <2>2, <2>3
<1>20. \A k \in 1..n + m : \A i \in 1..d : s1[k] # es[i]
  <2> SUFFICES ASSUME NEW k \in 1..n + m, NEW i \in 1..d PROVE s1[k] # es[i]
    OBVIOUS
  <2>1. CASE k \in 1..n
    BY <1>8, <1>15, <2>1
  <2>2. ASSUME NEW j \in 1..m, k = n + j PROVE s1[k] # es[i]
    <3>1. Origin(s1[k]) = t
      BY <1>14, <2>2
    <3> QED
      BY <1>16, <3>1
  <2> QED
    BY <1>9, <2>1, <2>2
<1>21. WalkOK(src, s1, ns, es)
  <2>1. n + m \in Nat /\ s1 \in Stacks
    BY <1>2, <1>8 DEF Stacks
  <2>2. Marks(s1, n + m) = d
    <3>1. m \in 0..m
      OBVIOUS
    <3> QED
      BY <1>13, <3>1
  <2>3. Walk(src, s1, ns, es, n + m, d)
    BY <1>1, <1>8, <1>18, <1>19, <1>20, <2>1, <2>2 DEF Walk
  <2> QED
    BY <1>1, <1>8, <2>3 DEF WalkOK
<1>22. Ahead(routes, s1, es) =
         Ahead(routes, st, es) \cup Beyond(routes, es, t)
  <2>1. ASSUME NEW r, NEW k \in 1..n
        PROVE  Leads(es, Marks(s1, k), s1[k], r) <=> Leads(es, Marks(st, k), st[k], r)
    BY <1>8, <1>10, <1>12
  <2>2. ASSUME NEW r, NEW j \in 1..m
        PROVE  /\ Leads(es, Marks(s1, n + j), s1[n + j], r) <=> Leads(es, d, out[j], r)
               /\ s1[n + j] # Marker
    BY <1>6, <1>8, <1>14, Constants
  <2>3. ASSUME NEW r
        PROVE  (\E k \in 1..n + m : s1[k] # Marker /\ Leads(es, Marks(s1, k), s1[k], r)) <=>
                 \/ \E k \in 1..n : st[k] # Marker /\ Leads(es, Marks(st, k), st[k], r)
                 \/ \E e \in Edges : Origin(e) = t /\ Leads(es, d, e, r)
    <3>1. ASSUME NEW k \in 1..n + m, s1[k] # Marker, Leads(es, Marks(s1, k), s1[k], r)
          PROVE  \/ \E i \in 1..n : st[i] # Marker /\ Leads(es, Marks(st, i), st[i], r)
                 \/ \E e \in Edges : Origin(e) = t /\ Leads(es, d, e, r)
      <4>1. CASE k \in 1..n
        BY <1>8, <2>1, <3>1, <4>1
      <4>2. ASSUME NEW j \in 1..m, k = n + j
            PROVE  \E e \in Edges : Origin(e) = t /\ Leads(es, d, e, r)
        BY <1>4, <1>5, <1>6, <2>2, <3>1, <4>2
      <4> QED
        BY <1>9, <4>1, <4>2
    <3>2. ASSUME NEW k \in 1..n, st[k] # Marker, Leads(es, Marks(st, k), st[k], r)
          PROVE  \E i \in 1..n + m : s1[i] # Marker /\ Leads(es, Marks(s1, i), s1[i], r)
      BY <1>8, <1>10, <2>1, <3>2
    <3>3. ASSUME NEW e \in Edges, Origin(e) = t, Leads(es, d, e, r)
          PROVE  \E i \in 1..n + m : s1[i] # Marker /\ Leads(es, Marks(s1, i), s1[i], r)
      <4>1. PICK j \in 1..m : out[j] = e
        BY <1>4, <1>5, <3>3
      <4> QED
        BY <1>11, <2>2, <3>3, <4>1
    <3> QED
      BY <3>1, <3>2, <3>3
  <2> QED
    BY <1>1, <1>2, <1>8, <2>3 DEF Ahead, Beyond
<1> QED
  BY <1>1, <1>21, <1>22 DEF s1, IsUnion

-----------------------------------------------------------------------------
(* The routes of a query. *)

\* Route r is a chain of edges from src to dst that visits no node twice.
Route(src, dst, r, n) ==
  /\ r \in Seq(Edges) /\ n \in Nat \ {0} /\ Len(r) = n
  /\ Origin(r[1]) = src /\ End(r[n]) = dst
  /\ \A j \in 1..n - 1 : Origin(r[j + 1]) = End(r[j])
  /\ \A j \in 1..n : End(r[j]) # src
  /\ \A i, j \in 1..n : End(r[i]) = End(r[j]) => i = j

\* Route r goes from src to dst, whatever its length.
IsRoute(src, dst, r) == \E n \in Nat : Route(src, dst, r, n)

\* A function on an interval from 1 is a sequence.
LEMMA FunctionIsSeq ==
  ASSUME NEW S, NEW n \in Nat, NEW f \in [1..n -> S]
  PROVE  f \in Seq(S) /\ Len(f) = n
<1>1. f \in Seq(S)
  BY SeqDef
<1>2. DOMAIN f = 1..n /\ DOMAIN f = 1..Len(f) /\ Len(f) \in Nat
  BY <1>1, LenProperties
<1> QED
  BY <1>1, <1>2

\* The nodes a sequence of edges visits.
LEMMA VisitedFacts ==
  ASSUME NEW r \in Seq(Edges), NEW n \in Nat, Len(r) = n, r # <<>>
  PROVE  /\ Visited(r) \in [1..n + 1 -> Nodes]
         /\ Visited(r)[1] = Origin(r[1])
         /\ \A j \in 1..n : Visited(r)[j + 1] = End(r[j])
<1>1. n # 0 /\ DOMAIN r = 1..n /\ \A j \in 1..n : r[j] \in Edges
  BY EmptySeq, LenProperties, ElementOfSeq
<1> DEFINE f == [k \in DOMAIN r |-> End(r[k])]
           a == <<Origin(r[1])>>
<1>2. f \in Seq(Nodes) /\ Len(f) = n /\ \A j \in 1..n : f[j] = End(r[j])
  <2>1. f \in [1..n -> Nodes]
    BY <1>1, Constants
  <2> QED
    BY <1>1, <2>1, FunctionIsSeq
<1>3. a \in Seq(Nodes) /\ Len(a) = 1 /\ a[1] = Origin(r[1])
  <2>1. Origin(r[1]) \in Nodes
    BY <1>1, Constants
  <2> QED
    BY <2>1
<1>4. Visited(r) = a \o f
  BY DEF Visited, Origin, End
<1> HIDE DEF f, a
<1>5. /\ a \o f \in Seq(Nodes) /\ Len(a \o f) = 1 + n
      /\ \A i \in 1..1 + n : (a \o f)[i] = IF i <= 1 THEN a[i] ELSE f[i - 1]
  <2>1. /\ a \o f \in Seq(Nodes) /\ Len(a \o f) = Len(a) + Len(f)
        /\ \A i \in 1..Len(a) + Len(f) : (a \o f)[i] = IF i <= Len(a) THEN a[i] ELSE f[i - Len(a)]
    BY <1>2, <1>3, ConcatProperties
  <2> QED
    BY <1>2, <1>3, <2>1
<1>6. 1 + n = n + 1 /\ 1 \in 1..n + 1
  OBVIOUS
<1>7. Visited(r) \in [1..n + 1 -> Nodes] /\ Visited(r)[1] = Origin(r[1])
  <2>1. Visited(r) \in Seq(Nodes) /\ Len(Visited(r)) = n + 1
    BY <1>4, <1>5, <1>6
  <2>2. Visited(r) \in [1..n + 1 -> Nodes]
    BY <2>1, LenProperties
  <2>3. Visited(r)[1] = a[1]
    BY <1>4, <1>5, <1>6
  <2> QED
    BY <1>3, <2>2, <2>3
<1>8. ASSUME NEW j \in 1..n PROVE Visited(r)[j + 1] = End(r[j])
  <2>1. j + 1 \in 1..1 + n /\ ~(j + 1 <= 1) /\ j + 1 - 1 = j
    OBVIOUS
  <2> QED
    BY <1>2, <1>4, <1>5, <2>1
<1> QED
  BY <1>7, <1>8

\* There are finitely many nodes.
LEMMA NodesFinite == IsFiniteSet(Nodes) /\ Cardinality(Nodes) \in Nat
<1> DEFINE A == {Origin(e) : e \in Edges}
           B == {End(e) : e \in Edges}
           f == [e \in Edges |-> Origin(e)]
           g == [e \in Edges |-> End(e)]
<1>1. IsFiniteSet(Edges)
  BY Constants, FS_Interval
<1>2. f \in Surjection(Edges, A) /\ g \in Surjection(Edges, B)
  BY DEF Surjection
<1>3. IsFiniteSet(A) /\ IsFiniteSet(B)
  <2> HIDE DEF f, g, A, B
  <2> QED
    BY <1>1, <1>2, FS_Surjection
<1>4. Nodes = A \cup B
  BY DEF Nodes, Edges, Origin, End
<1> HIDE DEF A, B
<1> QED
  BY <1>3, <1>4, FS_Union, FS_CardinalityType

\* The reference set AllRoutes of the model, in terms of Route.
LEMMA RouteFacts ==
  ASSUME NEW q \in DOMAIN Queries, NEW r
  PROVE  r \in AllRoutes[q] <=> \E n \in Nat : Route(Queries[q][1], Queries[q][2], r, n)
<1>1. r \in AllRoutes[q] <=>
        /\ r \in SimpleRoutes
        /\ Origin(r[1]) = Queries[q][1] /\ End(r[Len(r)]) = Queries[q][2]
  BY DEF AllRoutes, Last, Origin, End
<1>2. ASSUME NEW n \in Nat \ {0}, r \in [1..n -> Edges]
      PROVE  /\ r \in Seq(Edges) /\ Len(r) = n /\ Visited(r) \in [1..n + 1 -> Nodes]
             /\ Visited(r)[1] = Origin(r[1])
             /\ \A j \in 1..n : Visited(r)[j + 1] = End(r[j])
  <2>1. r \in Seq(Edges) /\ Len(r) = n
    BY <1>2, FunctionIsSeq
  <2>2. r # <<>>
    BY <2>1, EmptySeq
  <2> QED
    BY <2>1, <2>2, VisitedFacts
<1>3. ASSUME NEW n \in Nat \ {0}, r \in [1..n -> Edges]
      PROVE  (\A j \in 1..n : Origin(r[j]) = Visited(r)[j]) <=>
               (\A j \in 1..n - 1 : Origin(r[j + 1]) = End(r[j]))
  <2>1. ASSUME \A j \in 1..n : Origin(r[j]) = Visited(r)[j], NEW j \in 1..n - 1
        PROVE  Origin(r[j + 1]) = End(r[j])
    <3>1. j \in 1..n /\ j + 1 \in 1..n
      OBVIOUS
    <3> QED
      BY <1>2, <1>3, <2>1, <3>1
  <2>2. ASSUME \A j \in 1..n - 1 : Origin(r[j + 1]) = End(r[j]), NEW j \in 1..n
        PROVE  Origin(r[j]) = Visited(r)[j]
    <3>1. CASE j = 1
      BY <1>2, <1>3, <3>1
    <3>2. CASE j # 1
      <4>1. PICK i \in 1..n - 1 : j = i + 1
        <5>1. j - 1 \in 1..n - 1 /\ j = (j - 1) + 1
          BY <3>2
        <5> QED
          BY <5>1
      <4>2. i \in 1..n
        OBVIOUS
      <4> QED
        BY <1>2, <1>3, <2>2, <4>1, <4>2
    <3> QED
      BY <3>1, <3>2
  <2> QED
    BY <2>1, <2>2
<1>4. ASSUME NEW n \in Nat \ {0}, r \in [1..n -> Edges]
      PROVE  IsInjective(Visited(r)) <=>
               /\ \A j \in 1..n : End(r[j]) # Origin(r[1])
               /\ \A i, j \in 1..n : End(r[i]) = End(r[j]) => i = j
  <2> DEFINE v == Visited(r)
  <2>1. v \in [1..n + 1 -> Nodes] /\ v[1] = Origin(r[1]) /\ \A j \in 1..n : v[j + 1] = End(r[j])
    BY <1>2, <1>4
  <2> HIDE DEF v
  <2>2. IsInjective(v) <=> \A a, b \in 1..n + 1 : v[a] = v[b] => a = b
    BY <2>1 DEF IsInjective
  <2>3. \A j \in 1..n : j + 1 \in 1..n + 1 /\ j + 1 # 1
    OBVIOUS
  <2>4. 1 \in 1..n + 1
    OBVIOUS
  <2>5. ASSUME NEW a \in 1..n + 1 PROVE a = 1 \/ \E j \in 1..n : a = j + 1
    <3>1. CASE a # 1
      <4>1. a - 1 \in 1..n /\ a = (a - 1) + 1
        BY <3>1
      <4> QED
        BY <4>1
    <3> QED
      BY <3>1
  <2>6. ASSUME \A a, b \in 1..n + 1 : v[a] = v[b] => a = b
        PROVE  /\ \A j \in 1..n : End(r[j]) # Origin(r[1])
               /\ \A i, j \in 1..n : End(r[i]) = End(r[j]) => i = j
    <3>1. ASSUME NEW j \in 1..n PROVE End(r[j]) # Origin(r[1])
      BY <2>1, <2>3, <2>4, <2>6
    <3>2. ASSUME NEW i \in 1..n, NEW j \in 1..n, End(r[i]) = End(r[j]) PROVE i = j
      <4>1. i + 1 = j + 1
        BY <2>1, <2>3, <2>6, <3>2
      <4> QED
        BY <4>1
    <3> QED
      BY <3>1, <3>2
  <2>7. ASSUME \A j \in 1..n : End(r[j]) # Origin(r[1]),
               \A i, j \in 1..n : End(r[i]) = End(r[j]) => i = j,
               NEW a \in 1..n + 1, NEW b \in 1..n + 1, v[a] = v[b]
        PROVE  a = b
    <3>1. CASE a = 1 \/ b = 1
      <4>1. ASSUME NEW j \in 1..n PROVE v[j + 1] # v[1]
        <5>1. v[j + 1] = End(r[j]) /\ End(r[j]) # Origin(r[1])
          BY <2>1, <2>7
        <5> QED
          BY <2>1, <5>1
      <4> QED
        BY <2>5, <2>7, <3>1, <4>1
    <3>2. ASSUME NEW i \in 1..n, NEW j \in 1..n, a = i + 1, b = j + 1 PROVE a = b
      <4>1. End(r[i]) = End(r[j])
        BY <2>1, <2>7, <3>2
      <4>2. i = j
        BY <2>7, <4>1
      <4> QED
        BY <3>2, <4>2
    <3> QED
      BY <2>5, <3>1, <3>2
  <2> QED
    BY <2>2, <2>6, <2>7 DEF v
<1>5. ASSUME NEW n \in Nat \ {0}, r \in [1..n -> Edges], IsInjective(Visited(r))
      PROVE  n \in 1..Cardinality(Nodes) - 1
  <2>1. Visited(r) \in Injection(1..n + 1, Nodes)
    BY <1>2, <1>5 DEF Injection
  <2>2. Cardinality(1..n + 1) <= Cardinality(Nodes)
    BY <2>1, NodesFinite, FS_Injection
  <2>3. Cardinality(1..n + 1) = n + 1
    <3>1. Cardinality(1..n + 1) = IF 1 > n + 1 THEN 0 ELSE n + 1 - 1 + 1
      BY FS_Interval
    <3> QED
      BY <3>1
  <2> QED
    BY <2>2, <2>3, NodesFinite
<1>6. r \in SimpleRoutes <=>
        \E n \in 1..Cardinality(Nodes) - 1 :
          /\ r \in [1..n -> Edges] /\ IsInjective(Visited(r))
          /\ \A j \in 1..n : Origin(r[j]) = Visited(r)[j]
  BY DEF SimpleRoutes, Edges, Origin
<1>7. ASSUME r \in AllRoutes[q]
      PROVE  \E n \in Nat : Route(Queries[q][1], Queries[q][2], r, n)
  <2>1. PICK n \in 1..Cardinality(Nodes) - 1 :
          /\ r \in [1..n -> Edges] /\ IsInjective(Visited(r))
          /\ \A j \in 1..n : Origin(r[j]) = Visited(r)[j]
    BY <1>1, <1>6, <1>7
  <2>2. n \in Nat \ {0}
    BY NodesFinite
  <2>3. r \in Seq(Edges) /\ Len(r) = n
    BY <1>2, <2>1, <2>2
  <2>4. \A j \in 1..n - 1 : Origin(r[j + 1]) = End(r[j])
    BY <1>3, <2>1, <2>2
  <2>5. /\ \A j \in 1..n : End(r[j]) # Origin(r[1])
        /\ \A i, j \in 1..n : End(r[i]) = End(r[j]) => i = j
    BY <1>4, <2>1, <2>2
  <2>6. Origin(r[1]) = Queries[q][1] /\ End(r[n]) = Queries[q][2]
    BY <1>1, <1>7, <2>3
  <2>7. Route(Queries[q][1], Queries[q][2], r, n)
    BY <2>2, <2>3, <2>4, <2>5, <2>6 DEF Route
  <2> QED
    BY <2>2, <2>7
<1>8. ASSUME NEW n \in Nat, Route(Queries[q][1], Queries[q][2], r, n)
      PROVE  r \in AllRoutes[q]
  <2>1. r \in Seq(Edges) /\ n \in Nat \ {0} /\ Len(r) = n
    BY <1>8 DEF Route
  <2>2. r \in [1..n -> Edges]
    BY <2>1, LenProperties
  <2>3. /\ Origin(r[1]) = Queries[q][1] /\ End(r[n]) = Queries[q][2]
        /\ \A j \in 1..n - 1 : Origin(r[j + 1]) = End(r[j])
        /\ \A j \in 1..n : End(r[j]) # Queries[q][1]
        /\ \A i, j \in 1..n : End(r[i]) = End(r[j]) => i = j
    BY <1>8 DEF Route
  <2>4. IsInjective(Visited(r))
    <3>1. \A j \in 1..n : End(r[j]) # Origin(r[1])
      BY <2>3
    <3> QED
      BY <1>4, <2>1, <2>2, <2>3, <3>1
  <2>5. \A j \in 1..n : Origin(r[j]) = Visited(r)[j]
    BY <1>3, <2>1, <2>2, <2>3
  <2>6. r \in SimpleRoutes
    BY <1>5, <1>6, <2>1, <2>2, <2>4, <2>5
  <2> QED
    BY <1>1, <2>1, <2>3, <2>6
<1> QED
  BY <1>7, <1>8

-----------------------------------------------------------------------------
(* What a walk and the routes of its query have to do with each other. *)

\* An edge that leads back to the path begins no route.
LEMMA LoopLeadsNowhere ==
  ASSUME NEW src, NEW dst, NEW st, NEW ns, NEW es, WalkOK(src, st, ns, es),
         NEW e \in Edges, Contains(ns, End(e)),
         NEW r, NEW m, Route(src, dst, r, m)
  PROVE  ~Leads(es, Len(es), e, r)
<1>1. PICK n, d \in Nat : n = Len(st) /\ d = Len(es) /\ Walk(src, st, ns, es, n, d)
  BY DEF WalkOK, Walk
<1>2. /\ ns[1] = src /\ Len(ns) = d + 1
      /\ \A i \in 1..d : End(es[i]) = ns[i + 1]
  BY <1>1 DEF Walk
<1>3. PICK h \in 1..d + 1 : ns[h] = End(e)
  BY <1>2 DEF Contains
<1>4. /\ m \in Nat /\ Len(r) = m
      /\ \A j \in 1..m : End(r[j]) # src
      /\ \A i, j \in 1..m : End(r[i]) = End(r[j]) => i = j
  BY DEF Route
<1> SUFFICES ASSUME Leads(es, d, e, r) PROVE FALSE
  BY <1>1
<1>5. d + 1 \in 1..m /\ r[d + 1] = e /\ \A i \in 1..d : r[i] = es[i] /\ i \in 1..m /\ i # d + 1
  BY <1>4 DEF Leads
<1>6. CASE h = 1
  BY <1>2, <1>4, <1>5, <1>6, <1>3
<1>7. CASE h # 1
  <2>1. PICK i \in 1..d : h = i + 1
    <3>1. h - 1 \in 1..d /\ h = (h - 1) + 1
      BY <1>2, <1>7
    <3> QED
      BY <3>1
  <2>2. End(r[i]) = End(r[d + 1])
    BY <1>2, <1>5, <1>3, <2>1
  <2> QED
    BY <1>4, <1>5, <2>2
<1> QED
  BY <1>6, <1>7

\* An edge to the destination leads to one route: the path and that edge.
LEMMA ArrivalIsRoute ==
  ASSUME NEW src, NEW dst, src # dst, NEW st, NEW ns, NEW es, WalkOK(src, st, ns, es),
         NEW e \in Edges, Origin(e) = Last(ns), End(e) = dst,
         ~Contains(ns, dst),
         NEW r
  PROVE  IsRoute(src, dst, r) /\ Leads(es, Len(es), e, r)
           <=> r = Append(es, e)
<1>1. PICK n, d \in Nat : n = Len(st) /\ d = Len(es) /\ Walk(src, st, ns, es, n, d)
  BY DEF WalkOK, Walk
<1>2. /\ es \in Seq(Edges) /\ ns[1] = src /\ Len(ns) = d + 1
      /\ \A i \in 1..d : Origin(es[i]) = ns[i] /\ End(es[i]) = ns[i + 1]
      /\ \A i, j \in 1..d + 1 : ns[i] = ns[j] => i = j
  BY <1>1 DEF Walk
<1>3. Origin(e) = ns[d + 1] /\ \A i \in 1..d + 1 : ns[i] # dst
  BY <1>2 DEF Contains, Last
<1> DEFINE es1 == Append(es, e)
<1>4. es1 \in Seq(Edges) /\ Len(es1) = d + 1 /\ es1[d + 1] = e /\ \A i \in 1..d : es1[i] = es[i]
  BY <1>1, <1>2, AppendProperties
<1> HIDE DEF es1
<1>5. ASSUME NEW m \in Nat, Route(src, dst, r, m), Leads(es, d, e, r) PROVE r = es1
  <2>1. /\ r \in Seq(Edges) /\ Len(r) = m /\ m \in 1..m /\ End(r[m]) = dst
        /\ \A i, j \in 1..m : End(r[i]) = End(r[j]) => i = j
    BY <1>5 DEF Route
  <2>2. d + 1 \in 1..m /\ r[d + 1] = e /\ \A i \in 1..d : r[i] = es[i]
    BY <1>5, <2>1 DEF Leads
  <2>3. m = d + 1
    BY <2>1, <2>2
  <2>4. \A i \in 1..d + 1 : r[i] = es1[i]
    <3>1. \A i \in 1..d + 1 : i = d + 1 \/ i \in 1..d
      OBVIOUS
    <3> QED
      BY <1>4, <2>2, <3>1
  <2> QED
    BY <1>4, <2>1, <2>3, <2>4, SeqEqual
<1>6. Route(src, dst, es1, d + 1)
  <2>1. \A i \in 1..d + 1 : i = d + 1 \/ i \in 1..d
    OBVIOUS
  <2>2. \A i \in 1..d : i \in 1..d + 1 /\ i + 1 \in 1..d + 1 /\ i + 1 # 1
    OBVIOUS
  <2>3. 1 \in 1..d + 1 /\ d + 1 \in 1..d + 1
    OBVIOUS
  <2>4. \A i \in 1..d + 1 : Origin(es1[i]) = ns[i]
    BY <1>2, <1>4, <1>3, <2>1
  <2>5. \A i \in 1..d : End(es1[i]) = ns[i + 1]
    BY <1>2, <1>4
  <2>6. End(es1[d + 1]) = dst
    BY <1>4
  <2>7. \A j \in 1..d : Origin(es1[j + 1]) = End(es1[j])
    BY <2>2, <2>4, <2>5
  <2>8. \A j \in 1..d : End(es1[j]) # src /\ End(es1[j]) # dst
    BY <1>2, <1>3, <2>2, <2>3, <2>5
  <2>9. \A j \in 1..d + 1 : End(es1[j]) # src
    BY <2>1, <2>6, <2>8
  <2>10. ASSUME NEW i \in 1..d + 1, NEW j \in 1..d + 1, End(es1[i]) = End(es1[j]) PROVE i = j
    <3>1. CASE i = d + 1 \/ j = d + 1
      BY <2>1, <2>6, <2>8, <2>10, <3>1
    <3>2. CASE i \in 1..d /\ j \in 1..d
      <4>1. ns[i + 1] = ns[j + 1]
        BY <2>5, <2>10, <3>2
      <4>2. i + 1 = j + 1
        BY <1>2, <2>2, <3>2, <4>1
      <4> QED
        BY <4>2
    <3> QED
      BY <2>1, <3>1, <3>2
  <2>11. Origin(es1[1]) = src
    BY <1>2, <2>3, <2>4
  <2>12. d + 1 - 1 = d /\ d + 1 \in Nat \ {0}
    OBVIOUS
  <2> QED
    BY <1>4, <2>6, <2>7, <2>9, <2>10, <2>11, <2>12 DEF Route
<1>7. Leads(es, d, e, es1)
  BY <1>4 DEF Leads
<1>8. d + 1 \in Nat
  OBVIOUS
<1> QED
  BY <1>1, <1>5, <1>6, <1>7, <1>8 DEF es1, IsRoute

\* A route that takes an edge to another node than the destination goes on with
\* an edge that leaves that node.
LEMMA RouteGoesOn ==
  ASSUME NEW src, NEW dst, NEW es \in Seq(Edges), NEW e \in Edges, End(e) # dst,
         NEW r, NEW m \in Nat, Route(src, dst, r, m)
  PROVE  Leads(es, Len(es), e, r) <=>
           \E g \in Edges : Origin(g) = End(e)
                            /\ Leads(Append(es, e), Len(Append(es, e)), g, r)
<1>1. PICK d \in Nat : d = Len(es)
  BY LenProperties
<1> DEFINE fs == Append(es, e)
<1>2. Len(fs) = d + 1 /\ fs[d + 1] = e /\ \A i \in 1..d : fs[i] = es[i]
  BY <1>1, AppendProperties
<1> HIDE DEF fs
<1>3. /\ r \in Seq(Edges) /\ m \in Nat \ {0} /\ Len(r) = m /\ End(r[m]) = dst
      /\ \A j \in 1..m - 1 : Origin(r[j + 1]) = End(r[j])
  BY DEF Route
<1>4. \A i \in 1..d + 1 : i = d + 1 \/ i \in 1..d
  OBVIOUS
<1>5. ASSUME Leads(es, d, e, r)
      PROVE  \E g \in Edges : Origin(g) = End(e) /\ Leads(fs, d + 1, g, r)
  <2>1. d + 1 <= m /\ r[d + 1] = e /\ \A i \in 1..d : r[i] = es[i]
    BY <1>3, <1>5 DEF Leads
  <2>2. d + 1 # m
    BY <1>3, <2>1
  <2>3. d + 1 \in 1..m - 1 /\ d + 1 + 1 \in 1..m /\ d + 1 + 1 <= m
    BY <1>3, <2>1, <2>2
  <2>4. r[d + 1 + 1] \in Edges
    BY <1>3, <2>3, ElementOfSeq
  <2>5. Origin(r[d + 1 + 1]) = End(e)
    BY <1>3, <2>1, <2>3
  <2>6. \A i \in 1..d + 1 : r[i] = fs[i]
    BY <1>2, <1>4, <2>1
  <2>7. Leads(fs, d + 1, r[d + 1 + 1], r)
    BY <1>3, <2>3, <2>6 DEF Leads
  <2> QED
    BY <2>4, <2>5, <2>7
<1>6. ASSUME NEW g \in Edges, Leads(fs, d + 1, g, r) PROVE Leads(es, d, e, r)
  <2>1. d + 1 + 1 <= m /\ \A i \in 1..d + 1 : r[i] = fs[i]
    BY <1>3, <1>6 DEF Leads
  <2>2. d + 1 <= m /\ d + 1 \in 1..d + 1 /\ \A i \in 1..d : i \in 1..d + 1
    BY <1>3, <2>1
  <2> QED
    BY <1>2, <1>3, <2>1, <2>2 DEF Leads
<1> QED
  BY <1>1, <1>2, <1>5, <1>6 DEF fs

\* No route takes two edges of the stack at once: the route that the top leads
\* to is not ahead of the rest of the stack.
LEMMA TopLeadsElsewhere ==
  ASSUME NEW src, NEW st, NEW ns, NEW es, WalkOK(src, st, ns, es),
         NEW e, Fresh(st, es, e),
         NEW routes, NEW r \in Ahead(routes, st, es)
  PROVE  ~Leads(es, Len(es), e, r)
<1>1. PICK n, d \in Nat : n = Len(st) /\ d = Len(es) /\ Walk(src, st, ns, es, n, d)
  BY DEF WalkOK, Walk
<1>2. DOMAIN st = 1..n /\ \A k \in 1..n : \A i \in 1..d : st[k] # es[i]
  BY <1>1, LenProperties DEF Walk, Stacks
<1>3. PICK k \in 1..n : st[k] # Marker /\ Leads(es, Marks(st, k), st[k], r)
  BY <1>2 DEF Ahead
<1>4. Marks(st, k) \in 0..d
  <2>1. k \in 0..n
    OBVIOUS
  <2> QED
    BY <1>1, <2>1, DepthInPath
<1>5. r[Marks(st, k) + 1] = st[k]
  BY <1>3 DEF Leads
<1> SUFFICES ASSUME Leads(es, d, e, r) PROVE FALSE
  BY <1>1
<1>6. r[d + 1] = e /\ \A i \in 1..d : r[i] = es[i]
  BY DEF Leads
<1>7. CASE Marks(st, k) = d
  BY <1>1, <1>5, <1>6, <1>7 DEF Fresh
<1>8. CASE Marks(st, k) # d
  <2>1. Marks(st, k) + 1 \in 1..d
    BY <1>4, <1>8
  <2> QED
    BY <1>2, <1>5, <1>6, <2>1
<1> QED
  BY <1>7, <1>8

\* The search begins with the source alone in its path and an empty stack.
LEMMA EmptyWalk ==
  ASSUME NEW src \in Nat
  PROVE  WalkOK(src, <<>>, <<src>>, <<>>)
<1>1. /\ <<src>> \in Seq(Nat) /\ Len(<<src>>) = 0 + 1 /\ <<src>>[1] = src
      /\ <<>> \in Stacks /\ <<>> \in Seq(Edges) /\ Len(<<>>) = 0
  BY DEF Stacks
<1>2. Marks(<<>>, 0) = 0
  BY <1>1, MarksFacts
<1>3. \A i, j \in 1..0 + 1 : <<src>>[i] = <<src>>[j] => i = j
  OBVIOUS
<1>4. 1..0 = {} /\ 0 \in Nat
  OBVIOUS
<1>5. Walk(src, <<>>, <<src>>, <<>>, 0, 0)
  BY <1>1, <1>2, <1>3, <1>4 DEF Walk
<1> QED
  BY <1>1, <1>5 DEF WalkOK

\* An empty stack leads nowhere.
LEMMA EmptyAhead ==
  ASSUME NEW routes, NEW es
  PROVE  Ahead(routes, <<>>, es) = {}
  BY DEF Ahead

-----------------------------------------------------------------------------
(* A search, as its source and routes, a stack, a path, the set of the routes *)
(* found and the set of the route being collected.                            *)

\* The set routes is that of the routes from src to dst.
RoutesAre(src, dst, routes) ==
  /\ src \in Nat /\ dst \in Nat /\ src # dst
  /\ \A r : r \in routes <=> IsRoute(src, dst, r)

\* Every route is found, being collected or ahead, and no two of these.
Search(src, routes, st, ns, es, done, here) ==
  /\ WalkOK(src, st, ns, es)
  /\ done \cup here \cup Ahead(routes, st, es) = routes
  /\ done \cap here = {}
  /\ done \cap Ahead(routes, st, es) = {}
  /\ here \cap Ahead(routes, st, es) = {}

\* The queries of the model.
LEMMA QueryRoutes ==
  ASSUME NEW q \in DOMAIN Queries
  PROVE  RoutesAre(Queries[q][1], Queries[q][2], AllRoutes[q])
<1>1. Queries[q] \in Nat \X Nat
  BY RouteAssumption, LenProperties, ElementOfSeq
<1>2. Queries[q][1] \in Nat /\ Queries[q][2] \in Nat /\ Queries[q][1] # Queries[q][2]
  BY <1>1, RouteAssumption
<1> QED
  BY <1>2, RouteFacts DEF RoutesAre, IsRoute

\* The last element of a sequence is the one just appended.
LEMMA LastAppended ==
  ASSUME NEW S, NEW s \in Seq(S), NEW e \in S
  PROVE  Last(Append(s, e)) = e
<1>1. Len(Append(s, e)) = Len(s) + 1 /\ Append(s, e)[Len(s) + 1] = e
  BY AppendProperties
<1> QED
  BY <1>1 DEF Last

\* A search begins with every route ahead.
LEMMA SearchStart ==
  ASSUME NEW src, NEW dst, NEW routes, RoutesAre(src, dst, routes)
  PROVE  Search(src, routes, Out(src), <<src>>, <<>>, {}, {})
<1>1. src \in Nat
  BY DEF RoutesAre
<1>2. WalkOK(src, <<>>, <<src>>, <<>>) /\ Ahead(routes, <<>>, <<>>) = {}
  BY <1>1, EmptyWalk, EmptyAhead
<1>3. src = Last(<<src>>) /\ Closed(<<>>)
  BY DEF Last, Closed
<1>4. /\ WalkOK(src, <<>> \o Out(src), <<src>>, <<>>)
      /\ IsUnion(Ahead(routes, <<>> \o Out(src), <<>>),
                 Ahead(routes, <<>>, <<>>), Beyond(routes, <<>>, src))
  BY <1>2, <1>3, PushEdges
<1>5. <<>> \o Out(src) = Out(src)
  BY <1>1, OutEdges, ConcatEmptySeq
<1>6. ASSUME NEW r \in routes PROVE \E e \in Edges : Origin(e) = src /\ Leads(<<>>, 0, e, r)
  <2>1. PICK n \in Nat : Route(src, dst, r, n)
    BY DEF RoutesAre, IsRoute
  <2>2. r \in Seq(Edges) /\ 1 \in 1..Len(r) /\ Origin(r[1]) = src
    BY <2>1 DEF Route
  <2>3. r[1] \in Edges
    BY <2>2, ElementOfSeq
  <2>4. Leads(<<>>, 0, r[1], r)
    BY <2>2, LenProperties DEF Leads
  <2> QED
    BY <2>2, <2>3, <2>4
<1>7. Beyond(routes, <<>>, src) = routes
  <2>1. Len(<<>>) = 0
    OBVIOUS
  <2> QED
    BY <1>6, <2>1 DEF Beyond
<1>8. WalkOK(src, Out(src), <<src>>, <<>>) /\ Ahead(routes, Out(src), <<>>) = routes
  BY <1>2, <1>4, <1>5, <1>7 DEF IsUnion
<1> QED
  BY <1>8 DEF Search

\* A marker is popped.
LEMMA SearchBacktrack ==
  ASSUME NEW src, NEW routes, NEW st, NEW ns, NEW es, NEW done,
         Search(src, routes, st, ns, es, done, {}), st # <<>>, Last(st) = Marker
  PROVE  Search(src, routes, Front(st), Front(ns), Front(es), done, {})
<1>1. WalkOK(src, st, ns, es)
  BY DEF Search
<1>2. /\ WalkOK(src, Front(st), Front(ns), Front(es))
      /\ Ahead(routes, st, es) = Ahead(routes, Front(st), Front(es))
  BY <1>1, PopMarker
<1> QED
  BY <1>2 DEF Search

\* An edge is popped that goes back to a node of the path.
LEMMA SearchSkip ==
  ASSUME NEW src, NEW dst, NEW routes, RoutesAre(src, dst, routes),
         NEW st, NEW ns, NEW es, NEW done, Search(src, routes, st, ns, es, done, {}),
         st # <<>>, Last(st) # Marker, Contains(ns, End(Last(st)))
  PROVE  Search(src, routes, Front(st), ns, es, done, {})
<1>1. WalkOK(src, st, ns, es)
  BY DEF Search
<1>2. /\ WalkOK(src, Front(st), ns, es) /\ Last(st) \in Edges
      /\ IsUnion(Ahead(routes, st, es), Ahead(routes, Front(st), es),
                 Through(routes, es, Last(st)))
  BY <1>1, PopEdge
<1>3. ASSUME NEW r \in routes PROVE ~Leads(es, Len(es), Last(st), r)
  <2>1. PICK m \in Nat : Route(src, dst, r, m)
    BY DEF RoutesAre, IsRoute
  <2> QED
    BY <1>1, <1>2, <2>1, LoopLeadsNowhere
<1>4. Ahead(routes, st, es) = Ahead(routes, Front(st), es)
  BY <1>2, <1>3 DEF Through, IsUnion
<1> QED
  BY <1>2, <1>4 DEF Search

\* An edge to a new node is popped: it is added to the path, and its marker and
\* the edges of the new node to the stack.
LEMMA SearchExtend ==
  ASSUME NEW src, NEW dst, NEW routes, RoutesAre(src, dst, routes),
         NEW st, NEW ns, NEW es, NEW done, Search(src, routes, st, ns, es, done, {}), st # <<>>,
         NEW e, e = Last(st), e # Marker,
         NEW t, t = End(e), ~Contains(ns, t), t # dst
  PROVE  Search(src, routes, Append(Front(st), Marker) \o Out(t),
                Append(ns, t), Append(es, e), done, {})
<1>1. WalkOK(src, st, ns, es)
  BY DEF Search
<1>2. /\ WalkOK(src, Front(st), ns, es) /\ e \in Edges /\ Origin(e) = Last(ns)
      /\ Fresh(Front(st), es, e)
      /\ IsUnion(Ahead(routes, st, es), Ahead(routes, Front(st), es), Through(routes, es, e))
  <2>1. /\ WalkOK(src, Front(st), ns, es) /\ Last(st) \in Edges /\ Origin(Last(st)) = Last(ns)
        /\ Fresh(Front(st), es, Last(st))
        /\ IsUnion(Ahead(routes, st, es), Ahead(routes, Front(st), es),
                   Through(routes, es, Last(st)))
    BY <1>1, PopEdge
  <2> QED
    BY <2>1
<1>3. PICK s0, s1, ns1, es1 :
        /\ s0 = Front(st) /\ s1 = Append(Front(st), Marker)
        /\ ns1 = Append(ns, t) /\ es1 = Append(es, e)
  OBVIOUS
<1>4. WalkOK(src, s1, ns1, es1) /\ Ahead(routes, s1, es1) = Ahead(routes, s0, es)
  <2>1. /\ WalkOK(src, Append(s0, Marker), Append(ns, t), Append(es, e))
        /\ Ahead(routes, Append(s0, Marker), Append(es, e)) = Ahead(routes, s0, es)
    BY <1>2, <1>3, PushNode
  <2> QED
    BY <1>3, <2>1
<1>5. /\ es \in Seq(Edges) /\ ns \in Seq(Nat) /\ s0 \in Seq(Edges \cup {Marker})
      /\ t \in Nat /\ Len(es) \in Nat
  <2>1. es \in Seq(Edges) /\ ns \in Seq(Nat) /\ s0 \in Seq(Edges \cup {Marker})
    BY <1>2, <1>3 DEF WalkOK, Walk, Stacks
  <2> QED
    BY <1>2, <2>1, Constants, LenProperties
<1>6. Closed(s1) /\ t = Last(ns1)
  <2>1. Marker \in Edges \cup {Marker}
    OBVIOUS
  <2>2. Last(s1) = Marker /\ Last(ns1) = t
    BY <1>3, <1>5, <2>1, LastAppended
  <2> QED
    BY <2>2 DEF Closed
<1>7. /\ WalkOK(src, s1 \o Out(t), ns1, es1)
      /\ IsUnion(Ahead(routes, s1 \o Out(t), es1), Ahead(routes, s1, es1), Beyond(routes, es1, t))
  BY <1>4, <1>6, PushEdges
<1>8. ASSUME NEW r \in routes
      PROVE  Leads(es, Len(es), e, r) <=>
               \E g \in Edges : Origin(g) = t /\ Leads(es1, Len(es1), g, r)
  <2>1. PICK m \in Nat : Route(src, dst, r, m)
    BY DEF RoutesAre, IsRoute
  <2>2. es1 = Append(es, e) /\ t = End(e)
    BY <1>3
  <2> QED
    BY <1>2, <1>5, <2>1, <2>2, RouteGoesOn
<1>9. Beyond(routes, es1, t) = Through(routes, es, e)
  BY <1>8 DEF Beyond, Through
<1>10. Ahead(routes, s1 \o Out(t), es1) = Ahead(routes, st, es)
  BY <1>2, <1>3, <1>4, <1>7, <1>9 DEF IsUnion
<1>11. Search(src, routes, s1 \o Out(t), ns1, es1, done, {})
  BY <1>7, <1>10 DEF Search
<1> QED
  BY <1>3, <1>11

\* An edge to the destination is popped: the path is a route to collect.
LEMMA SearchArrive ==
  ASSUME NEW src, NEW dst, NEW routes, RoutesAre(src, dst, routes),
         NEW st, NEW ns, NEW es, NEW done, Search(src, routes, st, ns, es, done, {}), st # <<>>,
         NEW e, e = Last(st), e # Marker,
         dst = End(e), ~Contains(ns, dst)
  PROVE  Search(src, routes, Append(Front(st), Marker),
                Append(ns, dst), Append(es, e),
                done, {Append(es, e)})
<1>1. WalkOK(src, st, ns, es)
  BY DEF Search
<1>2. /\ WalkOK(src, Front(st), ns, es) /\ e \in Edges /\ Origin(e) = Last(ns)
      /\ Fresh(Front(st), es, e)
      /\ IsUnion(Ahead(routes, st, es), Ahead(routes, Front(st), es), Through(routes, es, e))
  <2>1. /\ WalkOK(src, Front(st), ns, es) /\ Last(st) \in Edges /\ Origin(Last(st)) = Last(ns)
        /\ Fresh(Front(st), es, Last(st))
        /\ IsUnion(Ahead(routes, st, es), Ahead(routes, Front(st), es),
                   Through(routes, es, Last(st)))
    BY <1>1, PopEdge
  <2> QED
    BY <2>1
<1>3. PICK s0, s1, ns1, es1 :
        /\ s0 = Front(st) /\ s1 = Append(Front(st), Marker)
        /\ ns1 = Append(ns, dst) /\ es1 = Append(es, e)
  OBVIOUS
<1>4. WalkOK(src, s1, ns1, es1) /\ Ahead(routes, s1, es1) = Ahead(routes, s0, es)
  <2>1. /\ WalkOK(src, Append(s0, Marker), Append(ns, dst), Append(es, e))
        /\ Ahead(routes, Append(s0, Marker), Append(es, e)) = Ahead(routes, s0, es)
    BY <1>2, <1>3, PushNode
  <2> QED
    BY <1>3, <2>1
<1>5. ASSUME NEW r PROVE (r \in routes /\ Leads(es, Len(es), e, r)) <=> r = es1
  <2>1. src # dst /\ (r \in routes <=> IsRoute(src, dst, r))
    BY DEF RoutesAre
  <2>2. IsRoute(src, dst, r) /\ Leads(es, Len(es), e, r)
          <=> r = Append(es, e)
    BY <1>1, <1>2, <2>1, ArrivalIsRoute
  <2> QED
    BY <1>3, <2>1, <2>2
<1>6. Through(routes, es, e) = {es1}
  BY <1>5 DEF Through
<1>7. es1 \notin Ahead(routes, s0, es)
  BY <1>2, <1>3, <1>5, TopLeadsElsewhere
<1>8. done \cup Ahead(routes, st, es) = routes /\ done \cap Ahead(routes, st, es) = {}
  BY DEF Search
<1>9. /\ done \cup {es1} \cup Ahead(routes, s1, es1) = routes
      /\ done \cap {es1} = {} /\ done \cap Ahead(routes, s1, es1) = {}
      /\ {es1} \cap Ahead(routes, s1, es1) = {}
  BY <1>2, <1>3, <1>4, <1>6, <1>7, <1>8 DEF IsUnion
<1>10. Search(src, routes, s1, ns1, es1, done, {es1})
  BY <1>4, <1>9 DEF Search
<1> QED
  BY <1>3, <1>10

\* The route is collected.
LEMMA SearchCollect ==
  ASSUME NEW src, NEW routes, NEW st, NEW ns, NEW es, NEW done, NEW r,
         Search(src, routes, st, ns, es, done, {r})
  PROVE  Search(src, routes, st, ns, es, done \cup {r}, {}) /\ r \notin done
<1>1. PICK ahead : ahead = Ahead(routes, st, es)
  OBVIOUS
<1>2. /\ WalkOK(src, st, ns, es) /\ done \cup {r} \cup ahead = routes
      /\ done \cap {r} = {} /\ done \cap ahead = {} /\ {r} \cap ahead = {}
  BY <1>1 DEF Search
<1>3. /\ (done \cup {r}) \cup {} \cup ahead = routes
      /\ (done \cup {r}) \cap {} = {} /\ (done \cup {r}) \cap ahead = {} /\ {} \cap ahead = {}
      /\ r \notin done
  BY <1>2
<1> QED
  BY <1>1, <1>2, <1>3 DEF Search

\* The stack is empty: every route was found.
LEMMA SearchEnd ==
  ASSUME NEW src, NEW routes, NEW ns, NEW es, NEW done, Search(src, routes, <<>>, ns, es, done, {})
  PROVE  done = routes
<1>1. Ahead(routes, <<>>, es) = {}
  BY EmptyAhead
<1> QED
  BY <1>1 DEF Search

-----------------------------------------------------------------------------
(* The heap. *)

\* The route and the weight an object, or a line of the output, holds.
RouteAt(m, p) == m[p].edges
WeightAt(m, p) == m[p].weight

\* The objects p of h carry routes found, each once, with their weights.
Carries(m, h, fnd) ==
  /\ \A p \in h : RouteAt(m, p) \in fnd /\ WeightAt(m, p) = Weight(RouteAt(m, p))
  /\ \A p, q \in h : RouteAt(m, p) = RouteAt(m, q) => p = q

\* Of the routes found, the objects of the heap and the n routes of the output
\* are the K lightest, or all of them; those of the output are the heaviest of these.
Best(m, h, out, n, fnd) ==
  /\ IsFiniteSet(h) /\ IsFiniteSet(fnd) /\ n \in Nat /\ fnd \subseteq Seq(Edges)
  /\ Carries(m, h, fnd) /\ Carries(out, 1..n, fnd)
  /\ \A p \in h, k \in 1..n :
       RouteAt(m, p) # RouteAt(out, k) /\ WeightAt(m, p) <= WeightAt(out, k)
  /\ \A j, k \in 1..n : j < k => WeightAt(out, k) <= WeightAt(out, j)
  /\ n + Cardinality(h) <= K
  /\ \A r \in fnd :
       \/ \E p \in h : RouteAt(m, p) = r
       \/ \E k \in 1..n : RouteAt(out, k) = r
       \/ /\ n + Cardinality(h) = K
          /\ \A p \in h : WeightAt(m, p) <= Weight(r)
          /\ \A k \in 1..n : WeightAt(out, k) <= Weight(r)

\* Nothing found, nothing kept.
LEMMA BestEmpty ==
  ASSUME NEW m, NEW out
  PROVE  Best(m, {}, out, 0, {})
<1>1. IsFiniteSet({}) /\ Cardinality({}) = 0 /\ 1..0 = {} /\ K \in Nat
  BY FS_EmptySet, Constants
<1> QED
  BY <1>1 DEF Best, Carries

\* Only the contents of the heap's objects matter.
LEMMA BestFrame ==
  ASSUME NEW m1, NEW m2, NEW h, NEW out, NEW n, NEW fnd,
         Best(m1, h, out, n, fnd), \A p \in h : m2[p] = m1[p]
  PROVE  Best(m2, h, out, n, fnd)
<1>1. \A p \in h : RouteAt(m2, p) = RouteAt(m1, p) /\ WeightAt(m2, p) = WeightAt(m1, p)
  BY DEF RouteAt, WeightAt
<1> QED
  BY <1>1 DEF Best, Carries

\* The objects of the heap have weights.
LEMMA BestWeights ==
  ASSUME NEW m, NEW h, NEW out, NEW n, NEW fnd, Best(m, h, out, n, fnd)
  PROVE  /\ \A p \in h : WeightAt(m, p) \in Nat
         /\ \A k \in 1..n : WeightAt(out, k) \in Nat
         /\ \A r \in fnd : Weight(r) \in Nat
         /\ Cardinality(h) \in Nat /\ Cardinality(fnd) \in Nat /\ K \in Nat
<1>1. \A r \in fnd : Weight(r) \in Nat
  BY WeightType DEF Best
<1>2. Cardinality(h) \in Nat /\ Cardinality(fnd) \in Nat /\ K \in Nat
  BY FS_CardinalityType, Constants DEF Best
<1> QED
  BY <1>1, <1>2 DEF Best, Carries

\* The output plays no part before the display.
LEMMA BestOutput ==
  ASSUME NEW m, NEW h, NEW o1, NEW o2, NEW fnd, Best(m, h, o1, 0, fnd)
  PROVE  Best(m, h, o2, 0, fnd)
<1>1. 1..0 = {}
  OBVIOUS
<1> QED
  BY <1>1 DEF Best, Carries

\* A route is found, and the heap has a place for it.
LEMMA BestPush ==
  ASSUME NEW m, NEW h, NEW out, NEW fnd, Best(m, h, out, 0, fnd),
         NEW p, p \notin h, NEW r \in Seq(Edges), r \notin fnd,
         RouteAt(m, p) = r, WeightAt(m, p) = Weight(r), Cardinality(h \cup {p}) <= K
  PROVE  Best(m, h \cup {p}, out, 0, fnd \cup {r})
<1> DEFINE h1 == h \cup {p}
           f1 == fnd \cup {r}
<1>1. IsFiniteSet(h) /\ IsFiniteSet(fnd) /\ fnd \subseteq Seq(Edges) /\ 1..0 = {}
  BY DEF Best
<1>2. /\ IsFiniteSet(h1) /\ IsFiniteSet(f1) /\ Cardinality(h1) = Cardinality(h) + 1
      /\ Cardinality(h) \in Nat /\ K \in Nat
  BY <1>1, FS_AddElement, FS_CardinalityType, Constants
<1>3. Carries(m, h1, f1)
  BY DEF Best, Carries
<1>4. ASSUME NEW x \in f1 PROVE \E q \in h1 : RouteAt(m, q) = x
  <2>1. CASE x = r
    BY <2>1
  <2>2. CASE x \in fnd
    <3>1. \E q \in h : RouteAt(m, q) = x
      BY <1>1, <1>2, <2>2 DEF Best
    <3> QED
      BY <3>1
  <2> QED
    BY <2>1, <2>2
<1>5. Carries(out, 1..0, f1)
  BY <1>1 DEF Carries
<1> HIDE DEF h1, f1
<1>6. f1 \subseteq Seq(Edges) /\ 0 + Cardinality(h1) <= K
  BY <1>1, <1>2 DEF f1, h1
<1>7. Best(m, h1, out, 0, f1)
  BY <1>1, <1>2, <1>3, <1>4, <1>5, <1>6 DEF Best
<1> QED
  BY <1>7 DEF h1, f1

\* A route is found, and the heaviest leaves a heap that is full.
LEMMA BestReplace ==
  ASSUME NEW m, NEW h, NEW out, NEW fnd, Best(m, h, out, 0, fnd),
         NEW p, p \notin h, NEW r \in Seq(Edges), r \notin fnd,
         RouteAt(m, p) = r, WeightAt(m, p) = Weight(r), Cardinality(h \cup {p}) > K,
         NEW x \in h \cup {p}, \A q \in h \cup {p} : WeightAt(m, q) <= WeightAt(m, x)
  PROVE  Best(m, (h \cup {p}) \ {x}, out, 0, fnd \cup {r})
<1> DEFINE h1 == (h \cup {p}) \ {x}
           f1 == fnd \cup {r}
<1>1. IsFiniteSet(h) /\ IsFiniteSet(fnd) /\ fnd \subseteq Seq(Edges) /\ 1..0 = {} /\ 0 \in Nat
  BY DEF Best
<1>2. 0 + Cardinality(h) <= K
  BY DEF Best
<1>3. /\ IsFiniteSet(h \cup {p}) /\ Cardinality(h \cup {p}) = Cardinality(h) + 1
      /\ Cardinality(h) \in Nat /\ K \in Nat
  BY <1>1, FS_AddElement, FS_CardinalityType, Constants
<1>4. IsFiniteSet(f1)
  BY <1>1, FS_AddElement
<1>5. IsFiniteSet(h1) /\ Cardinality(h1) = K
  <2>1. IsFiniteSet(h1) /\ Cardinality(h1) = Cardinality(h \cup {p}) - 1
    BY <1>3, FS_RemoveElement
  <2> QED
    BY <1>2, <1>3, <2>1
<1>6. /\ Carries(m, h, fnd)
      /\ \A s \in fnd : (\E q \in h : RouteAt(m, q) = s) \/ \A q \in h : WeightAt(m, q) <= Weight(s)
  BY <1>1 DEF Best
<1>7. Carries(m, h \cup {p}, f1)
  BY <1>6 DEF Carries
<1>8. Carries(m, h1, f1)
  BY <1>7 DEF Carries
<1>9. \A q \in h \cup {p} : WeightAt(m, q) \in Nat
  BY <1>1, <1>7, WeightType DEF Carries
<1>10. ASSUME NEW s \in f1
       PROVE  (\E q \in h1 : RouteAt(m, q) = s) \/ \A q \in h1 : WeightAt(m, q) <= Weight(s)
  <2>1. CASE \E q \in h \cup {p} : RouteAt(m, q) = s
    <3>1. PICK q \in h \cup {p} : RouteAt(m, q) = s
      BY <2>1
    <3>2. CASE q = x
      <4>1. WeightAt(m, x) = Weight(s)
        BY <1>7, <3>1, <3>2 DEF Carries
      <4> QED
        BY <4>1
    <3>3. CASE q # x
      BY <3>1, <3>3
    <3> QED
      BY <3>2, <3>3
  <2>2. CASE ~\E q \in h \cup {p} : RouteAt(m, q) = s
    <3>1. s \in fnd /\ \A q \in h : WeightAt(m, q) <= Weight(s)
      BY <1>6, <2>2
    <3>2. Weight(s) \in Nat
      BY <1>1, <3>1, WeightType
    <3>3. x # p => WeightAt(m, x) <= Weight(s) /\ WeightAt(m, p) <= WeightAt(m, x)
      BY <3>1
    <3>4. ASSUME NEW q \in h1 PROVE WeightAt(m, q) <= Weight(s)
      BY <1>9, <3>1, <3>2, <3>3
    <3> QED
      BY <3>4
  <2> QED
    BY <2>1, <2>2
<1>11. Carries(out, 1..0, f1)
  BY <1>1 DEF Carries
<1>12. f1 \subseteq Seq(Edges)
  BY <1>1
<1>13. 0 + Cardinality(h1) = K /\ 0 + Cardinality(h1) <= K
  BY <1>3, <1>5
<1> HIDE DEF h1, f1
<1>14. Best(m, h1, out, 0, f1)
  BY <1>1, <1>4, <1>5, <1>8, <1>10, <1>11, <1>12, <1>13 DEF Best
<1> QED
  BY <1>14 DEF h1, f1

\* The heaviest route of the heap is written.
LEMMA BestWrite ==
  ASSUME NEW m, NEW h, NEW S, NEW out \in Seq(S), NEW n, n = Len(out), NEW fnd,
         Best(m, h, out, n, fnd),
         NEW x \in h, m[x] \in S, \A q \in h : WeightAt(m, q) <= WeightAt(m, x)
  PROVE  Best(m, h \ {x}, Append(out, m[x]), n + 1, fnd)
<1> DEFINE h1 == h \ {x}
           o1 == Append(out, m[x])
<1>1. IsFiniteSet(h) /\ IsFiniteSet(fnd) /\ fnd \subseteq Seq(Edges) /\ n \in Nat
  BY DEF Best
<1>2. /\ IsFiniteSet(h1) /\ Cardinality(h1) = Cardinality(h) - 1
      /\ Cardinality(h) \in Nat /\ K \in Nat
  BY <1>1, FS_RemoveElement, FS_CardinalityType, Constants
<1>3. /\ o1[n + 1] = m[x] /\ \A k \in 1..n : o1[k] = out[k]
  BY AppendProperties
<1> HIDE DEF o1
<1>4. /\ RouteAt(o1, n + 1) = RouteAt(m, x) /\ WeightAt(o1, n + 1) = WeightAt(m, x)
      /\ \A k \in 1..n : RouteAt(o1, k) = RouteAt(out, k) /\ WeightAt(o1, k) = WeightAt(out, k)
  BY <1>3 DEF RouteAt, WeightAt
<1>5. /\ \A p \in h : RouteAt(m, p) \in fnd /\ WeightAt(m, p) = Weight(RouteAt(m, p))
      /\ \A p, q \in h : RouteAt(m, p) = RouteAt(m, q) => p = q
      /\ \A k \in 1..n : RouteAt(out, k) \in fnd /\ WeightAt(out, k) = Weight(RouteAt(out, k))
      /\ \A j, k \in 1..n : RouteAt(out, j) = RouteAt(out, k) => j = k
      /\ \A p \in h, k \in 1..n :
           RouteAt(m, p) # RouteAt(out, k) /\ WeightAt(m, p) <= WeightAt(out, k)
      /\ \A j, k \in 1..n : j < k => WeightAt(out, k) <= WeightAt(out, j)
  BY DEF Best, Carries
<1>6. n + 1 \in 1..n + 1 /\ \A k \in 1..n + 1 : k = n + 1 \/ k \in 1..n
  BY <1>1
<1>7. Carries(m, h1, fnd)
  BY <1>5 DEF Carries
<1>8. Carries(o1, 1..n + 1, fnd)
  <2>1. ASSUME NEW k \in 1..n + 1
        PROVE  RouteAt(o1, k) \in fnd /\ WeightAt(o1, k) = Weight(RouteAt(o1, k))
    BY <1>4, <1>5, <1>6
  <2>2. ASSUME NEW j \in 1..n + 1, NEW k \in 1..n + 1, RouteAt(o1, j) = RouteAt(o1, k)
        PROVE  j = k
    BY <1>4, <1>5, <1>6, <2>2
  <2> QED
    BY <2>1, <2>2 DEF Carries
<1>9. ASSUME NEW p \in h1, NEW k \in 1..n + 1
      PROVE  RouteAt(m, p) # RouteAt(o1, k) /\ WeightAt(m, p) <= WeightAt(o1, k)
  BY <1>4, <1>5, <1>6
<1>10. ASSUME NEW j \in 1..n + 1, NEW k \in 1..n + 1, j < k
       PROVE  WeightAt(o1, k) <= WeightAt(o1, j)
  <2>1. j \in 1..n
    BY <1>1, <1>10
  <2> QED
    BY <1>4, <1>5, <1>6, <1>10, <2>1
<1>11. n + 1 + Cardinality(h1) = n + Cardinality(h) /\ n + 1 + Cardinality(h1) <= K
  <2>1. n + Cardinality(h) <= K
    BY DEF Best
  <2> QED
    BY <1>1, <1>2, <2>1
<1>12. ASSUME NEW r \in fnd
       PROVE  \/ \E p \in h1 : RouteAt(m, p) = r
              \/ \E k \in 1..n + 1 : RouteAt(o1, k) = r
              \/ /\ n + 1 + Cardinality(h1) = K
                 /\ \A p \in h1 : WeightAt(m, p) <= Weight(r)
                 /\ \A k \in 1..n + 1 : WeightAt(o1, k) <= Weight(r)
  <2>1. \/ \E p \in h : RouteAt(m, p) = r
        \/ \E k \in 1..n : RouteAt(out, k) = r
        \/ /\ n + Cardinality(h) = K
           /\ \A p \in h : WeightAt(m, p) <= Weight(r)
           /\ \A k \in 1..n : WeightAt(out, k) <= Weight(r)
    BY DEF Best
  <2>2. CASE \E p \in h : RouteAt(m, p) = r
    BY <1>4, <1>6, <2>2
  <2>3. CASE \E k \in 1..n : RouteAt(out, k) = r
    <3>1. PICK k \in 1..n : RouteAt(out, k) = r
      BY <2>3
    <3>2. k \in 1..n + 1 /\ RouteAt(o1, k) = r
      BY <1>1, <1>4, <3>1
    <3> QED
      BY <3>2
  <2>4. CASE /\ n + Cardinality(h) = K
             /\ \A p \in h : WeightAt(m, p) <= Weight(r)
             /\ \A k \in 1..n : WeightAt(out, k) <= Weight(r)
    BY <1>4, <1>6, <1>11, <2>4
  <2> QED
    BY <2>1, <2>2, <2>3, <2>4
<1>13. n + 1 \in Nat
  BY <1>1
<1> HIDE DEF h1
<1>14. Best(m, h1, o1, n + 1, fnd)
  BY <1>1, <1>2, <1>7, <1>8, <1>9, <1>10, <1>11, <1>12, <1>13 DEF Best
<1> QED
  BY <1>14 DEF h1, o1

\* The routes that objects carry.
Carried(m, h) == {RouteAt(m, p) : p \in h}

\* The set of the routes that objects carry has as many elements.
LEMMA CarriedRoutes ==
  ASSUME NEW m, NEW h, IsFiniteSet(h), NEW fnd, IsFiniteSet(fnd), Carries(m, h, fnd)
  PROVE  /\ Carried(m, h) \subseteq fnd
         /\ IsFiniteSet(Carried(m, h))
         /\ Cardinality(Carried(m, h)) = Cardinality(h)
         /\ Cardinality(h) \in Nat /\ Cardinality(fnd) \in Nat
         /\ Cardinality(h) <= Cardinality(fnd)
<1> DEFINE R == Carried(m, h)
           f == [p \in h |-> RouteAt(m, p)]
<1>1. f \in Surjection(h, R) /\ f \in Injection(h, R)
  BY DEF Carried, Carries, Surjection, Injection, IsInjective
<1>2. f \in Bijection(h, R)
  BY <1>1 DEF Bijection
<1>3. R \in SUBSET fnd
  BY DEF Carried, Carries
<1> HIDE DEF R, f
<1>4. ExistsBijection(h, R)
  BY <1>2 DEF ExistsBijection
<1>5. IsFiniteSet(R) /\ Cardinality(R) = Cardinality(h)
  BY <1>4, FS_Bijection
<1>6. Cardinality(R) <= Cardinality(fnd)
  BY <1>3, FS_Subset
<1>7. Cardinality(h) \in Nat /\ Cardinality(fnd) \in Nat
  BY FS_CardinalityType
<1> QED
  BY <1>3, <1>5, <1>6, <1>7 DEF R

\* The least of two numbers.
LEMMA MinOfTwo ==
  ASSUME NEW a \in Nat, NEW b \in Nat, NEW n \in {a, b}, n <= a, n <= b
  PROVE  n = Min({a, b})
<1>1. \A x \in {a, b} : (\A y \in {a, b} : x =< y) <=> x = n
  OBVIOUS
<1> QED
  BY <1>1 DEF Min

\* How many routes are kept.
LEMMA KeptNumber ==
  ASSUME NEW m, NEW h, NEW fnd, IsFiniteSet(h), IsFiniteSet(fnd),
         Carries(m, h, fnd), Cardinality(h) <= K,
         Cardinality(h) = K \/ \A r \in fnd : \E p \in h : RouteAt(m, p) = r
  PROVE  Cardinality(h) = Min({K, Cardinality(fnd)})
<1>1. /\ Carried(m, h) \subseteq fnd
      /\ Cardinality(Carried(m, h)) = Cardinality(h)
      /\ Cardinality(h) \in Nat /\ Cardinality(fnd) \in Nat
      /\ Cardinality(h) <= Cardinality(fnd)
  BY CarriedRoutes
<1>2. Cardinality(h) = K \/ Cardinality(h) = Cardinality(fnd)
  <2>1. CASE \A r \in fnd : \E p \in h : RouteAt(m, p) = r
    <3>1. Carried(m, h) = fnd
      BY <1>1, <2>1 DEF Carried
    <3> QED
      BY <1>1, <3>1
  <2> QED
    BY <2>1
<1>3. K \in Nat
  BY Constants
<1> QED
  BY <1>1, <1>2, <1>3, MinOfTwo

\* What is known of a heap while a search goes on.
LEMMA BestKept ==
  ASSUME NEW m, NEW h, NEW out, NEW fnd, Best(m, h, out, 0, fnd)
  PROVE  /\ Carried(m, h) \subseteq fnd
         /\ Cardinality(Carried(m, h)) = Min({K, Cardinality(fnd)})
         /\ \A p \in h : WeightAt(m, p) = Weight(RouteAt(m, p))
         /\ \A r \in fnd \ Carried(m, h), k \in Carried(m, h) :
              Weight(k) <= Weight(r)
<1>1. /\ IsFiniteSet(h) /\ IsFiniteSet(fnd) /\ Carries(m, h, fnd) /\ 0 + Cardinality(h) <= K
      /\ \A r \in fnd :
           \/ \E p \in h : RouteAt(m, p) = r
           \/ 0 + Cardinality(h) = K /\ \A p \in h : WeightAt(m, p) <= Weight(r)
  <2>1. 1..0 = {}
    OBVIOUS
  <2> QED
    BY <2>1 DEF Best
<1>2. /\ Carried(m, h) \subseteq fnd
      /\ Cardinality(Carried(m, h)) = Cardinality(h) /\ Cardinality(h) \in Nat
  BY <1>1, CarriedRoutes
<1>3. Cardinality(h) <= K
  BY <1>1, <1>2
<1>4. Cardinality(h) = K \/ \A r \in fnd : \E p \in h : RouteAt(m, p) = r
  BY <1>1, <1>2
<1>5. Cardinality(h) = Min({K, Cardinality(fnd)})
  BY <1>1, <1>3, <1>4, KeptNumber
<1>6. \A p \in h : WeightAt(m, p) = Weight(RouteAt(m, p))
  BY <1>1 DEF Carries
<1>7. \A r \in fnd \ Carried(m, h), k \in Carried(m, h) :
        Weight(k) <= Weight(r)
  BY <1>1, <1>6 DEF Carried
<1> QED
  BY <1>2, <1>5, <1>6, <1>7

\* What is known of the output when the heap is empty.
LEMMA BestShown ==
  ASSUME NEW m, NEW out, NEW n, NEW fnd, Best(m, {}, out, n, fnd)
  PROVE  /\ Carried(out, 1..n) \subseteq fnd
         /\ Cardinality(Carried(out, 1..n)) = n
         /\ n = Min({K, Cardinality(fnd)})
         /\ \A r \in fnd \ Carried(out, 1..n), k \in 1..n :
              WeightAt(out, k) <= Weight(r)
         /\ \A j, k \in 1..n : j < k => WeightAt(out, j) >= WeightAt(out, k)
<1>1. n \in Nat /\ IsFiniteSet(1..n) /\ Cardinality(1..n) = n /\ Cardinality({}) = 0
  <2>1. n \in Nat
    BY DEF Best
  <2>2. IsFiniteSet(1..n) /\ Cardinality(1..n) = IF 1 > n THEN 0 ELSE n - 1 + 1
    BY <2>1, FS_Interval
  <2> QED
    BY <2>1, <2>2, FS_EmptySet
<1>2. /\ IsFiniteSet(fnd) /\ Carries(out, 1..n, fnd) /\ n <= K
      /\ \A r \in fnd :
           \/ \E k \in 1..n : RouteAt(out, k) = r
           \/ n = K /\ \A k \in 1..n : WeightAt(out, k) <= Weight(r)
      /\ \A j, k \in 1..n : j < k => WeightAt(out, k) <= WeightAt(out, j)
  BY <1>1 DEF Best
<1>3. /\ Carried(out, 1..n) \subseteq fnd
      /\ Cardinality(Carried(out, 1..n)) = n
  BY <1>1, <1>2, CarriedRoutes
<1>4. n = K \/ \A r \in fnd : \E k \in 1..n : RouteAt(out, k) = r
  BY <1>2
<1>5. n = Min({K, Cardinality(fnd)})
  BY <1>1, <1>2, <1>4, KeptNumber
<1>6. \A r \in fnd \ Carried(out, 1..n), k \in 1..n : WeightAt(out, k) <= Weight(r)
  BY <1>2 DEF Carried
<1>7. \A k \in 1..n : WeightAt(out, k) \in Nat
  BY BestWeights
<1>8. \A j, k \in 1..n : j < k => WeightAt(out, j) >= WeightAt(out, k)
  BY <1>2, <1>7
<1> QED
  BY <1>3, <1>5, <1>6, <1>8

-----------------------------------------------------------------------------
(* The searchers. *)

\* A route begins with the first c edges of a path and then e when these lead to it.
LEMMA PrefixLeads ==
  ASSUME NEW es \in Seq(Edges), NEW d \in Nat, d = Len(es), NEW c \in 0..d, NEW e \in Edges,
         NEW r \in Seq(Edges)
  PROVE  IsPrefix(Append(SubSeq(es, 1, c), e), r) <=> Leads(es, c, e, r)
<1> DEFINE p == SubSeq(es, 1, c)
           q == Append(p, e)
<1>1. c \in Nat /\ Len(r) \in Nat /\ \A i \in 1..c : es[i] \in Edges
  BY LenProperties, ElementOfSeq
<1>2. p \in Seq(Edges) /\ Len(p) = c /\ \A i \in 1..c : p[i] = es[i]
  <2>1. /\ p \in Seq(Edges) /\ Len(p) = (IF 1 <= c THEN c - 1 + 1 ELSE 0)
        /\ \A i \in 1..c - 1 + 1 : p[i] = es[1 + i - 1]
    BY <1>1, SubSeqProperties
  <2> QED
    BY <1>1, <2>1
<1> HIDE DEF p
<1>3. q \in Seq(Edges) /\ Len(q) = c + 1 /\ q[c + 1] = e /\ \A i \in 1..c : q[i] = es[i]
  BY <1>2, AppendProperties
<1> HIDE DEF q
<1>4. \A i \in 1..c + 1 : i \in 1..c \/ i = c + 1
  OBVIOUS
<1>5. ASSUME NEW s \in Seq(Edges), c + 1 <= Len(s)
      PROVE  /\ SubSeq(s, 1, c + 1) \in Seq(Edges) /\ Len(SubSeq(s, 1, c + 1)) = c + 1
             /\ \A i \in 1..c + 1 : SubSeq(s, 1, c + 1)[i] = s[i]
  <2>1. \A i \in 1..c + 1 : s[i] \in Edges
    BY <1>1, <1>5, LenProperties, ElementOfSeq
  <2>2. /\ SubSeq(s, 1, c + 1) \in Seq(Edges)
        /\ Len(SubSeq(s, 1, c + 1)) = (IF 1 <= c + 1 THEN c + 1 - 1 + 1 ELSE 0)
        /\ \A i \in 1..c + 1 - 1 + 1 : SubSeq(s, 1, c + 1)[i] = s[1 + i - 1]
    BY <1>1, <2>1, SubSeqProperties
  <2> QED
    BY <1>1, <2>2
<1>6. /\ SubSeq(q, 1, c + 1) \in Seq(Edges) /\ Len(SubSeq(q, 1, c + 1)) = c + 1
      /\ \A i \in 1..c + 1 : SubSeq(q, 1, c + 1)[i] = q[i]
  BY <1>1, <1>3, <1>5
<1>7. CASE c + 1 <= Len(r)
  <2>1. /\ SubSeq(r, 1, c + 1) \in Seq(Edges) /\ Len(SubSeq(r, 1, c + 1)) = c + 1
        /\ \A i \in 1..c + 1 : SubSeq(r, 1, c + 1)[i] = r[i]
    BY <1>5, <1>7
  <2>2. SubSeq(q, 1, c + 1) = SubSeq(r, 1, c + 1) <=> \A i \in 1..c + 1 : q[i] = r[i]
    <3>1. ASSUME \A i \in 1..c + 1 : q[i] = r[i]
          PROVE  SubSeq(q, 1, c + 1) = SubSeq(r, 1, c + 1)
      BY <1>6, <2>1, <3>1, SeqEqual
    <3> QED
      BY <1>6, <2>1, <3>1
  <2>3. (\A i \in 1..c + 1 : q[i] = r[i]) <=> (\A i \in 1..c : r[i] = es[i]) /\ r[c + 1] = e
    <3>1. c + 1 \in 1..c + 1 /\ \A i \in 1..c : i \in 1..c + 1
      OBVIOUS
    <3> QED
      BY <1>3, <1>4, <3>1
  <2> QED
    BY <1>3, <1>7, <2>2, <2>3 DEF IsPrefix, Leads, q, p
<1>8. CASE ~(c + 1 <= Len(r))
  BY <1>3, <1>8 DEF IsPrefix, Leads, q, p
<1> QED
  BY <1>7, <1>8

\* A walk that is where it should be leads to the routes of Pending.
LEMMA PendingIsAhead ==
  ASSUME NEW s, NEW src, WalkOK(src, stack[s], path[s].nodes, path[s].edges),
         query[s] \in DOMAIN Queries
  PROVE  Pending(s) = Ahead(AllRoutes[query[s]], stack[s], path[s].edges)
<1>1. PICK st, ns, es, n, d, routes :
        /\ st = stack[s] /\ ns = path[s].nodes /\ es = path[s].edges
        /\ n = Len(st) /\ d = Len(es) /\ routes = AllRoutes[query[s]]
  OBVIOUS
<1>2. Walk(src, st, ns, es, n, d)
  BY <1>1 DEF WalkOK
<1>3. es \in Seq(Edges) /\ d \in Nat /\ n \in Nat /\ st \in Stacks
  BY <1>2 DEF Walk
<1>4. DOMAIN st = 1..n /\ \A k \in 1..n : k \in 0..n
  BY <1>1, <1>3, LenProperties DEF Stacks
<1>5. /\ \A k \in 0..n : Marks(st, k) \in 0..d
      /\ \A k \in 1..n : st[k] # Marker => st[k] \in Edges
  BY <1>2, DepthInPath
<1>6. \A k : Depth(s, k) = Marks(st, k)
  BY <1>1 DEF Depth, Marks
<1>7. \A r \in routes : r \in Seq(Edges)
  BY <1>1, RouteFacts DEF Route
<1>8. ASSUME NEW r \in routes, NEW k \in DOMAIN st, st[k] # Marker
      PROVE  IsPrefix(Append(SubSeq(es, 1, Marks(st, k)), st[k]), r)
               <=> Leads(es, Marks(st, k), st[k], r)
  <2>1. Marks(st, k) \in 0..d /\ st[k] \in Edges /\ r \in Seq(Edges)
    BY <1>4, <1>5, <1>7, <1>8
  <2> QED
    BY <1>1, <1>3, <2>1, PrefixLeads
<1>9. Pending(s) = {r \in routes :
        \E k \in DOMAIN st :
          st[k] # Marker /\ IsPrefix(Append(SubSeq(es, 1, Marks(st, k)), st[k]), r)}
  BY <1>1, <1>6 DEF Pending
<1>10. Pending(s) = Ahead(routes, st, es)
  BY <1>8, <1>9 DEF Ahead
<1> QED
  BY <1>1, <1>10

\* What a Path object may hold, and what the path of a walk may be.
Contents == [edges : Seq(Edges), weight : Nat]
Paths == [nodes : Seq(Nat), edges : Seq(Edges)]

\* The types of the variables; a searcher holds an object while it collects a route.
Types ==
  /\ pool \subseteq Objects /\ mem \in [Objects -> Contents]
  /\ pc \in [Searchers -> {"ready", "walk", "collect", "display", "end"}]
  /\ query \in [Searchers -> 1..Len(Queries)]
  /\ stack \in [Searchers -> Stacks] /\ path \in [Searchers -> Paths]
  /\ cur \in [Searchers -> Objects \cup {None}] /\ heap \in [Searchers -> SUBSET Objects]
  /\ output \in [Searchers -> Seq(Contents)] /\ found \in [Searchers -> SUBSET Seq(Edges)]
  /\ \A s \in Searchers : cur[s] = None <=> pc[s] # "collect"

\* The index of a query leads to two nodes.
LEMMA QueryTypes ==
  /\ Len(Queries) \in Nat \ {0} /\ DOMAIN Queries = 1..Len(Queries)
  /\ \A q \in 1..Len(Queries) : Queries[q][1] \in Nat /\ Queries[q][2] \in Nat
<1>1. Queries \in Seq(Nat \X Nat) /\ Queries # <<>>
  BY RouteAssumption
<1>2. /\ Len(Queries) \in Nat \ {0} /\ DOMAIN Queries = 1..Len(Queries)
      /\ \A q \in 1..Len(Queries) : Queries[q] \in Nat \X Nat
  BY <1>1, LenProperties, EmptySeq, ElementOfSeq
<1> QED
  BY <1>2

\* A sequence without its last element is a sequence.
LEMMA FrontType ==
  ASSUME NEW S, NEW s \in Seq(S)
  PROVE  Front(s) \in Seq(S)
<1>1. Len(s) \in Nat /\ \A i \in 1..Len(s) - 1 : s[i] \in S
  BY LenProperties, ElementOfSeq
<1>2. SubSeq(s, 1, Len(s) - 1) \in Seq(S)
  BY <1>1, SubSeqProperties
<1> QED
  BY <1>2 DEF Front

\* The edge on top of a stack leads to a node.
LEMMA TopTypes ==
  ASSUME Types, NEW s \in Searchers, Walking(s)
  PROVE  /\ stack[s] \in Stacks /\ stack[s] # <<>> /\ Front(stack[s]) \in Stacks
         /\ Top(s) = Last(stack[s]) /\ Top(s) \in Edges \cup {Marker}
         /\ Top(s) # Marker =>
              /\ Top(s) \in Edges /\ Target(s) = End(Top(s)) /\ Target(s) \in Nat
              /\ Append(path[s].nodes, Target(s)) \in Seq(Nat)
              /\ Append(path[s].edges, Top(s)) \in Seq(Edges)
              /\ Out(Target(s)) \in Seq(Edges)
<1>1. stack[s] \in Seq(Edges \cup {Marker}) /\ stack[s] # <<>> /\ path[s] \in Paths
  BY DEF Types, Stacks, Walking
<1>2. /\ Front(stack[s]) \in Seq(Edges \cup {Marker})
      /\ Top(s) = Last(stack[s]) /\ Top(s) \in Edges \cup {Marker}
  BY <1>1, FrontFacts DEF Top
<1>3. ASSUME Top(s) # Marker
      PROVE  /\ Top(s) \in Edges /\ Target(s) = End(Top(s)) /\ Target(s) \in Nat
             /\ Append(path[s].nodes, Target(s)) \in Seq(Nat)
             /\ Append(path[s].edges, Top(s)) \in Seq(Edges)
             /\ Out(Target(s)) \in Seq(Edges)
  <2>1. Top(s) \in Edges /\ Target(s) = End(Top(s)) /\ Target(s) \in Nat
    BY <1>2, <1>3, Constants DEF Target, End
  <2>2. path[s].nodes \in Seq(Nat) /\ path[s].edges \in Seq(Edges)
    BY <1>1 DEF Paths
  <2> QED
    BY <2>1, <2>2, AppendProperties, OutEdges
<1> QED
  BY <1>1, <1>2, <1>3 DEF Stacks

\* A route of the heap that is the heaviest is in the heap, and no other is heavier.
LEMMA HeaviestFacts ==
  ASSUME NEW ps, NEW x \in Heaviest(ps)
  PROVE  x \in ps /\ \A q \in ps : WeightAt(mem, q) <= WeightAt(mem, x)
  BY DEF Heaviest, WeightAt

\* The types hold at the start ...
LEMMA TypesInit == Init => Types
<1> SUFFICES ASSUME Init PROVE Types
  OBVIOUS
<1>1. <<>> \in Stacks /\ <<>> \in Seq(Contents) /\ <<>> \in Seq(Edges) /\ <<>> \in Seq(Nat)
  BY DEF Stacks
<1>2. Blank \in Contents /\ [nodes |-> <<>>, edges |-> <<>>] \in Paths
  BY <1>1 DEF Blank, Contents, Paths
<1>3. 1 \in 1..Len(Queries)
  BY QueryTypes
<1> QED
  BY <1>1, <1>2, <1>3 DEF Init, Types

\* ... and after every step.
LEMMA TypesNext == Types /\ [Next]_vars => Types'
<1> SUFFICES ASSUME Types, [Next]_vars PROVE Types'
  OBVIOUS
<1>1. ASSUME NEW s \in Searchers, Start(s) PROVE Types'
  <2>1. Src(s) \in Nat
    BY QueryTypes DEF Types, Src
  <2>2. Out(Src(s)) \in Seq(Edges)
    BY <2>1, OutEdges
  <2>3. Out(Src(s)) \in Stacks
    BY <2>2, SeqMonotonic DEF Stacks
  <2>4. [nodes |-> <<Src(s)>>, edges |-> <<>>] \in Paths
    BY <2>1 DEF Paths
  <2> QED
    BY <1>1, <2>3, <2>4 DEF Types, Start
<1>2. ASSUME NEW s \in Searchers, Backtrack(s) PROVE Types'
  <2>1. Front(stack[s]) \in Stacks
    BY <1>2, TopTypes DEF Backtrack
  <2>2. path[s].nodes \in Seq(Nat) /\ path[s].edges \in Seq(Edges)
    BY DEF Types, Paths
  <2>3. Front(path[s].nodes) \in Seq(Nat) /\ Front(path[s].edges) \in Seq(Edges)
    BY <2>2, FrontType
  <2>4. [nodes |-> Front(path[s].nodes), edges |-> Front(path[s].edges)] \in Paths
    BY <2>3 DEF Paths
  <2> QED
    BY <1>2, <2>1, <2>4 DEF Types, Backtrack
<1>3. ASSUME NEW s \in Searchers, SkipLoop(s) PROVE Types'
  <2>1. Front(stack[s]) \in Stacks
    BY <1>3, TopTypes DEF SkipLoop
  <2> QED
    BY <1>3, <2>1 DEF Types, SkipLoop
<1>4. ASSUME NEW s \in Searchers, Extend(s) PROVE Types'
  <2>1. /\ Front(stack[s]) \in Stacks /\ Out(Target(s)) \in Seq(Edges)
        /\ Append(path[s].nodes, Target(s)) \in Seq(Nat)
        /\ Append(path[s].edges, Top(s)) \in Seq(Edges)
    BY <1>4, TopTypes DEF Extend
  <2>2. Added(s) \in Paths
    BY <2>1 DEF Added, Paths
  <2>3. Append(Front(stack[s]), Marker) \in Stacks /\ Out(Target(s)) \in Stacks
    BY <2>1, AppendProperties, SeqMonotonic DEF Stacks
  <2>4. Append(Front(stack[s]), Marker) \o Out(Target(s)) \in Stacks
    BY <2>3, ConcatProperties DEF Stacks
  <2> QED
    BY <1>4, <2>2, <2>4 DEF Types, Extend
<1>5. ASSUME NEW s \in Searchers, Arrive(s) PROVE Types'
  <2>1. /\ Front(stack[s]) \in Stacks
        /\ Append(path[s].nodes, Target(s)) \in Seq(Nat)
        /\ Append(path[s].edges, Top(s)) \in Seq(Edges)
    BY <1>5, TopTypes DEF Arrive
  <2>2. Added(s) \in Paths /\ Added(s).edges \in Seq(Edges)
    BY <2>1 DEF Added, Paths
  <2>3. Append(Front(stack[s]), Marker) \in Stacks
    BY <2>1, AppendProperties DEF Stacks
  <2>4. Weight(Added(s).edges) \in Nat
    BY <2>2, WeightType
  <2>5. [edges |-> Added(s).edges, weight |-> Weight(Added(s).edges)] \in Contents
    BY <2>2, <2>4 DEF Contents
  <2>6. PICK p \in Available :
          /\ pool' = pool \ {p} /\ cur' = [cur EXCEPT ![s] = p]
          /\ mem' = [mem EXCEPT ![p] = [edges |-> Added(s).edges,
                                        weight |-> Weight(Added(s).edges)]]
    BY <1>5 DEF Arrive
  <2>7. p \in Objects /\ p # None
    BY <2>6, Constants DEF Available, Types
  <2> QED
    BY <1>5, <2>2, <2>3, <2>5, <2>6, <2>7 DEF Types, Arrive
<1>6. ASSUME NEW s \in Searchers, Collect(s) PROVE Types'
  <2>1. found[s] \cup {path[s].edges} \in SUBSET Seq(Edges)
    BY DEF Types, Paths
  <2>2. cur[s] \in Objects
    BY <1>6 DEF Types, Collect, Collected
  <2>3. heap[s] \cup {cur[s]} \in SUBSET Objects
    BY <2>2 DEF Types
  <2>4. heap' \in [Searchers -> SUBSET Objects] /\ pool' \subseteq Objects
    <3>1. CASE Cardinality(heap[s] \cup {cur[s]}) > K
      <4>1. PICK x \in Heaviest(heap[s] \cup {cur[s]}) :
              /\ heap' = [heap EXCEPT ![s] = (heap[s] \cup {cur[s]}) \ {x}]
              /\ pool' = pool \cup {x}
        BY <1>6, <3>1 DEF Collect
      <4>2. x \in Objects
        BY <2>3, HeaviestFacts
      <4> QED
        BY <2>3, <4>1, <4>2 DEF Types
    <3>2. CASE ~(Cardinality(heap[s] \cup {cur[s]}) > K)
      BY <1>6, <2>3, <3>2 DEF Types, Collect
    <3> QED
      BY <3>1, <3>2
  <2> QED
    BY <1>6, <2>1, <2>4 DEF Types, Collect, Collected
<1>7. ASSUME NEW s \in Searchers, Display(s) PROVE Types'
  BY <1>7 DEF Types, Display
<1>8. ASSUME NEW s \in Searchers, Write(s) PROVE Types'
  <2>1. PICK p \in Heaviest(heap[s]) :
          /\ heap' = [heap EXCEPT ![s] = @ \ {p}]
          /\ output' = [output EXCEPT ![s] = Append(@, mem[p])]
          /\ pool' = pool \cup {p}
    BY <1>8 DEF Write
  <2>2. p \in Objects /\ mem[p] \in Contents /\ output[s] \in Seq(Contents)
    BY HeaviestFacts DEF Types
  <2>3. Append(output[s], mem[p]) \in Seq(Contents)
    BY <2>2, AppendProperties
  <2> QED
    BY <1>8, <2>1, <2>2, <2>3 DEF Types, Write
<1>9. ASSUME NEW s \in Searchers, Return(s) PROVE Types'
  <2>1. query[s] < Len(Queries) => query[s] + 1 \in 1..Len(Queries)
    BY QueryTypes DEF Types
  <2> QED
    BY <1>9, <2>1 DEF Types, Return
<1>10. ASSUME Drop PROVE Types'
  <2>1. Blank \in Contents
    BY DEF Blank, Contents
  <2> QED
    BY <1>10, <2>1 DEF Types, Drop
<1>11. ASSUME UNCHANGED vars PROVE Types'
  BY <1>11 DEF vars, Types
<1> QED
  BY <1>1, <1>2, <1>3, <1>4, <1>5, <1>6, <1>7, <1>8, <1>9, <1>10, <1>11
  DEF Next, Searcher, Terminated

\* The variables have their types in every state.
LEMMA Typing == Spec => []Types
  BY TypesInit, TypesNext, PTL DEF Spec

\* An object that Get may return is in no heap and in no hands.
LEMMA AvailableFacts ==
  ASSUME Types, ObjectsOwnedOnce, NEW p \in Available
  PROVE  p \in Objects /\ p # None /\ \A t \in Searchers : p \notin heap[t] /\ p # cur[t]
<1>1. CASE p \in pool
  BY <1>1, Constants DEF Types, ObjectsOwnedOnce
<1>2. CASE p \notin pool
  <2>1. p \in Objects \ (InUse \cup pool)
    BY <1>2 DEF Available
  <2> QED
    BY <2>1, Constants DEF InUse
<1> QED
  BY <1>1, <1>2

\* Steps that move no object.
LEMMA OwnedKept ==
  ASSUME ObjectsOwnedOnce, pool' \subseteq pool, cur' = cur, heap' = heap
  PROVE  ObjectsOwnedOnce'
  BY DEF ObjectsOwnedOnce

\* No object is owned twice at the start ...
LEMMA OwnedInit == Init => ObjectsOwnedOnce
  BY DEF Init, ObjectsOwnedOnce

\* ... and after every step.
LEMMA OwnedNext == Types /\ ObjectsOwnedOnce /\ [Next]_vars => ObjectsOwnedOnce'
<1> SUFFICES ASSUME Types, ObjectsOwnedOnce, [Next]_vars PROVE ObjectsOwnedOnce'
  OBVIOUS
<1>1. ASSUME NEW s \in Searchers, Start(s) PROVE ObjectsOwnedOnce'
  BY <1>1 DEF Types, ObjectsOwnedOnce, Start
<1>2. ASSUME NEW s \in Searchers,
             Backtrack(s) \/ SkipLoop(s) \/ Extend(s) \/ Display(s) \/ Return(s)
      PROVE ObjectsOwnedOnce'
  <2>1. pool' = pool /\ cur' = cur /\ heap' = heap
    BY <1>2 DEF Backtrack, SkipLoop, Extend, Display, Return
  <2> QED
    BY <2>1, OwnedKept
<1>3. ASSUME NEW s \in Searchers, Arrive(s) PROVE ObjectsOwnedOnce'
  <2>1. PICK p \in Available : pool' = pool \ {p} /\ cur' = [cur EXCEPT ![s] = p]
    BY <1>3 DEF Arrive
  <2>2. p # None /\ \A t \in Searchers : p \notin heap[t] /\ p # cur[t]
    BY <2>1, AvailableFacts
  <2>3. heap' = heap
    BY <1>3 DEF Arrive
  <2>4. \A t \in Searchers : cur'[t] = IF t = s THEN p ELSE cur[t]
    BY <2>1 DEF Types
  <2> QED
    BY <2>1, <2>2, <2>3, <2>4 DEF ObjectsOwnedOnce
<1>4. ASSUME NEW s \in Searchers, Collect(s) PROVE ObjectsOwnedOnce'
  <2> DEFINE pushed == heap[s] \cup {cur[s]}
  <2>1. /\ cur[s] # None /\ cur[s] \in Objects
        /\ \A t \in Searchers : cur'[t] = IF t = s THEN None ELSE cur[t]
    BY <1>4 DEF Types, Collect, Collected
  <2>2. \E h, x : /\ pool' = pool \cup x /\ h \subseteq pushed /\ x \subseteq pushed
                  /\ h \cap x = {} /\ \A t \in Searchers : heap'[t] = IF t = s THEN h ELSE heap[t]
    <3>1. CASE Cardinality(pushed) > K
      <4>1. PICK x \in Heaviest(pushed) :
              heap' = [heap EXCEPT ![s] = pushed \ {x}] /\ pool' = pool \cup {x}
        BY <1>4, <3>1 DEF Collect
      <4>2. x \in pushed
        BY HeaviestFacts
      <4>3. \A t \in Searchers : heap'[t] = IF t = s THEN pushed \ {x} ELSE heap[t]
        BY <4>1 DEF Types
      <4> HIDE DEF pushed
      <4> QED
        BY <4>1, <4>2, <4>3
    <3>2. CASE ~(Cardinality(pushed) > K)
      <4>1. heap' = [heap EXCEPT ![s] = pushed] /\ pool' = pool
        BY <1>4, <3>2 DEF Collect
      <4>2. \A t \in Searchers : heap'[t] = IF t = s THEN pushed ELSE heap[t]
        BY <4>1 DEF Types
      <4>3. /\ pool' = pool \cup {} /\ pushed \subseteq pushed
            /\ {} \subseteq pushed /\ pushed \cap {} = {}
        BY <4>1
      <4> HIDE DEF pushed
      <4> QED
        BY <4>2, <4>3
    <3> QED
      BY <3>1, <3>2
  <2>3. PICK h, x : /\ pool' = pool \cup x /\ h \subseteq pushed /\ x \subseteq pushed
                    /\ h \cap x = {}
                    /\ \A t \in Searchers : heap'[t] = IF t = s THEN h ELSE heap[t]
    BY <2>2
  <2>4. ASSUME NEW t \in Searchers PROVE None \notin heap[t] /\ None \notin pool
    BY Constants DEF Types
  <2>5. \A t \in Searchers \ {s} : pushed \cap heap[t] = {} /\ cur[t] \notin pushed
    BY <2>1 DEF ObjectsOwnedOnce
  <2>6. pushed \cap pool = {} /\ None \notin pushed
    BY <2>1, <2>4 DEF ObjectsOwnedOnce
  <2> HIDE DEF pushed
  <2>7. ASSUME NEW t \in Searchers
        PROVE  cur'[t] \notin heap'[t] \cup pool' /\ heap'[t] \cap pool' = {}
    <3>1. CASE t = s
      BY <2>1, <2>3, <2>4, <2>6, <3>1
    <3>2. CASE t # s
      <4>1. cur[t] \notin heap[t] \cup pool /\ heap[t] \cap pool = {}
        BY DEF ObjectsOwnedOnce
      <4> QED
        BY <2>1, <2>3, <2>5, <3>2, <4>1
    <3> QED
      BY <3>1, <3>2
  <2>8. ASSUME NEW t \in Searchers, NEW u \in Searchers \ {t}
        PROVE  /\ (heap'[t] \cup {cur'[t]}) \cap heap'[u] = {}
               /\ cur'[t] = cur'[u] => cur'[t] = None
    <3>1. (heap[t] \cup {cur[t]}) \cap heap[u] = {} /\ (cur[t] = cur[u] => cur[t] = None)
      BY DEF ObjectsOwnedOnce
    <3> QED
      BY <2>1, <2>3, <2>4, <2>5, <2>6, <3>1
  <2> QED
    BY <2>7, <2>8 DEF ObjectsOwnedOnce
<1>5. ASSUME NEW s \in Searchers, Write(s) PROVE ObjectsOwnedOnce'
  <2>1. PICK x \in Heaviest(heap[s]) :
          heap' = [heap EXCEPT ![s] = @ \ {x}] /\ pool' = pool \cup {x}
    BY <1>5 DEF Write
  <2>2. x \in heap[s] /\ cur' = cur
    BY <1>5, HeaviestFacts DEF Write
  <2>3. \A t \in Searchers : heap'[t] = IF t = s THEN heap[s] \ {x} ELSE heap[t]
    BY <2>1 DEF Types
  <2>4. ASSUME NEW t \in Searchers
        PROVE  cur[t] # x /\ (t # s => x \notin heap[t])
    BY <2>2 DEF ObjectsOwnedOnce
  <2> QED
    BY <2>1, <2>2, <2>3, <2>4 DEF ObjectsOwnedOnce
<1>6. ASSUME Drop PROVE ObjectsOwnedOnce'
  <2>1. pool' \subseteq pool /\ cur' = cur /\ heap' = heap
    BY <1>6 DEF Drop
  <2> QED
    BY <2>1, OwnedKept
<1>7. ASSUME UNCHANGED vars PROVE ObjectsOwnedOnce'
  BY <1>7 DEF vars, ObjectsOwnedOnce
<1> QED
  BY <1>1, <1>2, <1>3, <1>4, <1>5, <1>6, <1>7 DEF Next, Searcher, Terminated

\* A Path object is in the pool, in the heap of one searcher or in the hands of
\* one searcher: whatever object pathPool.Get returns, and whenever the pool is
\* emptied, collect and display give an object back after its last use.
THEOREM Ownership == Spec => []ObjectsOwnedOnce
  BY Typing, OwnedInit, OwnedNext, PTL DEF Spec

\* A walk that goes on, and the heap it fills.
Going(s, here) ==
  /\ Search(Src(s), AllRoutes[query[s]], stack[s], path[s].nodes, path[s].edges, found[s], here)
  /\ Best(mem, heap[s], <<>>, 0, found[s])

\* The object being collected holds the path.
Holds(s) ==
  /\ RouteAt(mem, cur[s]) = path[s].edges
  /\ WeightAt(mem, cur[s]) = Weight(path[s].edges)

\* Where a searcher is: the routes it found and those ahead, the heap, the output.
Phase(s) ==
  /\ pc[s] = "walk" => Going(s, {})
  /\ pc[s] = "collect" => Going(s, {path[s].edges}) /\ Holds(s)
  /\ pc[s] = "display" =>
       Best(mem, heap[s], output[s], Len(output[s]), AllRoutes[query[s]])
  /\ pc[s] \in {"ready", "end"} => heap[s] = {}
  /\ pc[s] = "ready" /\ query[s] > 1 =>
       Best(mem, {}, output[s], Len(output[s]), AllRoutes[query[s] - 1])
  /\ pc[s] = "end" =>
       Best(mem, {}, output[s], Len(output[s]), AllRoutes[query[s]])

\* The steps of the others, and those of the pool, leave a searcher where it is.
LEMMA PhaseKept ==
  ASSUME NEW s, Phase(s), pc'[s] = pc[s], query'[s] = query[s], stack'[s] = stack[s],
         path'[s] = path[s], cur'[s] = cur[s], heap'[s] = heap[s], output'[s] = output[s],
         found'[s] = found[s], \A p \in heap[s] : mem'[p] = mem[p],
         pc[s] = "collect" => mem'[cur[s]] = mem[cur[s]]
  PROVE  Phase(s)'
<1>1. ASSUME NEW out, NEW n, NEW fnd, Best(mem, heap[s], out, n, fnd)
      PROVE  Best(mem', heap[s], out, n, fnd)
  BY <1>1, BestFrame
<1>2. ASSUME NEW out, NEW n, NEW fnd, Best(mem, {}, out, n, fnd)
      PROVE  Best(mem', {}, out, n, fnd)
  BY <1>2, BestFrame
<1>3. ASSUME NEW here, Going(s, here) PROVE Going(s, here)'
  BY <1>1, <1>3 DEF Going, Src
<1>4. pc[s] = "collect" /\ Holds(s) => Holds(s)'
  BY DEF Holds, RouteAt, WeightAt
<1>5. pc[s] = "walk" => Going(s, {})'
  BY <1>3 DEF Phase
<1>6. pc[s] = "collect" => Going(s, {path[s].edges})' /\ Holds(s)'
  BY <1>3, <1>4 DEF Phase
<1>7. pc[s] = "display" =>
       Best(mem', heap[s], output[s], Len(output[s]), AllRoutes[query[s]])
  BY <1>1 DEF Phase
<1>8. pc[s] = "ready" /\ query[s] > 1 =>
       Best(mem', {}, output[s], Len(output[s]), AllRoutes[query[s] - 1])
  BY <1>2 DEF Phase
<1>9. pc[s] \in {"ready", "end"} => heap[s] = {}
  BY DEF Phase
<1>10. pc[s] = "end" => Best(mem', {}, output[s], Len(output[s]), AllRoutes[query[s]])
  BY <1>2 DEF Phase
<1> QED
  BY <1>5, <1>6, <1>7, <1>8, <1>10, <1>9 DEF Phase

\* The queries of a state have routes.
LEMMA PhaseRoutes ==
  ASSUME Types, NEW s \in Searchers
  PROVE  RoutesAre(Src(s), Dst(s), AllRoutes[query[s]])
<1>1. query[s] \in DOMAIN Queries
  BY QueryTypes DEF Types
<1>2. ASSUME NEW q \in DOMAIN Queries PROVE RoutesAre(Queries[q][1], Queries[q][2], AllRoutes[q])
  BY QueryRoutes
<1> QED
  BY <1>1, <1>2 DEF Src, Dst

\* Each step leaves its searcher at a point of its search.
LEMMA StartPhase ==
  ASSUME Types, NEW s \in Searchers, Start(s)
  PROVE  Phase(s)'
<1>1. Search(Src(s), AllRoutes[query[s]], Out(Src(s)), <<Src(s)>>, <<>>, {}, {})
  BY PhaseRoutes, SearchStart
<1>2. Best(mem, {}, <<>>, 0, {})
  BY BestEmpty
<1>3. /\ pc'[s] = "walk" /\ heap'[s] = {} /\ found'[s] = {} /\ stack'[s] = Out(Src(s))
      /\ path'[s].nodes = <<Src(s)>> /\ path'[s].edges = <<>> /\ query' = query /\ mem' = mem
  BY DEF Start, Types
<1>4. Going(s, {})'
  BY <1>1, <1>2, <1>3 DEF Going, Src
<1> QED
  BY <1>3, <1>4 DEF Phase

\* A step of the walk that changes the stack and the path only.
LEMMA WalkPhase ==
  ASSUME NEW s, Phase(s), pc[s] = "walk", pc'[s] = "walk", query' = query, mem' = mem,
         heap' = heap, found' = found,
         Search(Src(s), AllRoutes[query[s]], stack'[s], path'[s].nodes, path'[s].edges,
                found[s], {})
  PROVE  Phase(s)'
<1>1. Best(mem, heap[s], <<>>, 0, found[s])
  BY DEF Phase, Going
<1>2. Going(s, {})'
  BY <1>1 DEF Going, Src
<1> QED
  BY <1>2 DEF Phase

\* A marker is popped.
LEMMA BacktrackPhase ==
  ASSUME Types, NEW s \in Searchers, Phase(s), Backtrack(s)
  PROVE  Phase(s)'
<1>1. Search(Src(s), AllRoutes[query[s]], stack[s], path[s].nodes, path[s].edges, found[s], {})
  BY DEF Phase, Going, Backtrack, Walking
<1>2. stack[s] # <<>> /\ Last(stack[s]) = Marker
  BY DEF Backtrack, Walking, Top
<1>3. Search(Src(s), AllRoutes[query[s]], Front(stack[s]), Front(path[s].nodes),
             Front(path[s].edges), found[s], {})
  BY <1>1, <1>2, SearchBacktrack
<1>4. /\ stack'[s] = Front(stack[s]) /\ path'[s].nodes = Front(path[s].nodes)
      /\ path'[s].edges = Front(path[s].edges)
  BY DEF Backtrack, Types
<1>5. /\ pc[s] = "walk" /\ pc'[s] = "walk" /\ query' = query /\ mem' = mem
      /\ heap' = heap /\ found' = found
  BY DEF Backtrack, Walking
<1> QED
  BY <1>3, <1>4, <1>5, WalkPhase

\* An edge that closes a loop is popped.
LEMMA SkipLoopPhase ==
  ASSUME Types, NEW s \in Searchers, Phase(s), SkipLoop(s)
  PROVE  Phase(s)'
<1>1. /\ Search(Src(s), AllRoutes[query[s]], stack[s], path[s].nodes, path[s].edges, found[s], {})
      /\ RoutesAre(Src(s), Dst(s), AllRoutes[query[s]])
  BY PhaseRoutes DEF Phase, Going, SkipLoop, Walking
<1>2. stack[s] # <<>> /\ Last(stack[s]) # Marker /\ Contains(path[s].nodes, End(Last(stack[s])))
  BY DEF SkipLoop, Walking, Top, Target, End
<1>3. Search(Src(s), AllRoutes[query[s]], Front(stack[s]), path[s].nodes, path[s].edges,
             found[s], {})
  BY <1>1, <1>2, SearchSkip
<1>4. stack'[s] = Front(stack[s]) /\ path' = path
  BY DEF SkipLoop, Types
<1>5. /\ pc[s] = "walk" /\ pc'[s] = "walk" /\ query' = query /\ mem' = mem
      /\ heap' = heap /\ found' = found
  BY DEF SkipLoop, Walking
<1> QED
  BY <1>3, <1>4, <1>5, WalkPhase

\* The path goes on to a new node.
LEMMA ExtendPhase ==
  ASSUME Types, NEW s \in Searchers, Phase(s), Extend(s)
  PROVE  Phase(s)'
<1>1. /\ Search(Src(s), AllRoutes[query[s]], stack[s], path[s].nodes, path[s].edges, found[s], {})
      /\ RoutesAre(Src(s), Dst(s), AllRoutes[query[s]])
  BY PhaseRoutes DEF Phase, Going, Extend, Walking
<1>2. /\ stack[s] # <<>> /\ Top(s) = Last(stack[s]) /\ Top(s) # Marker /\ Target(s) = End(Top(s))
      /\ ~Contains(path[s].nodes, Target(s)) /\ Target(s) # Dst(s)
  BY DEF Extend, Walking, Top, Target, End
<1>3. Search(Src(s), AllRoutes[query[s]], Append(Front(stack[s]), Marker) \o Out(Target(s)),
             Append(path[s].nodes, Target(s)), Append(path[s].edges, Top(s)), found[s], {})
  BY <1>1, <1>2, SearchExtend
<1>4. /\ stack'[s] = Append(Front(stack[s]), Marker) \o Out(Target(s))
      /\ path'[s].nodes = Append(path[s].nodes, Target(s))
      /\ path'[s].edges = Append(path[s].edges, Top(s))
  BY DEF Extend, Types, Added
<1>5. /\ pc[s] = "walk" /\ pc'[s] = "walk" /\ query' = query /\ mem' = mem
      /\ heap' = heap /\ found' = found
  BY DEF Extend, Walking
<1> QED
  BY <1>3, <1>4, <1>5, WalkPhase

\* The path arrives, and an object is taken for it.
LEMMA ArrivePhase ==
  ASSUME Types, ObjectsOwnedOnce, NEW s \in Searchers, Phase(s), Arrive(s)
  PROVE  Phase(s)'
<1>1. /\ Search(Src(s), AllRoutes[query[s]], stack[s], path[s].nodes, path[s].edges, found[s], {})
      /\ RoutesAre(Src(s), Dst(s), AllRoutes[query[s]])
      /\ Best(mem, heap[s], <<>>, 0, found[s])
  BY PhaseRoutes DEF Phase, Going, Arrive, Walking
<1>2. /\ stack[s] # <<>> /\ Top(s) = Last(stack[s]) /\ Top(s) # Marker /\ Dst(s) = End(Top(s))
      /\ ~Contains(path[s].nodes, Dst(s)) /\ Target(s) = Dst(s)
  BY DEF Arrive, Walking, Top, Target, End
<1>3. Search(Src(s), AllRoutes[query[s]], Append(Front(stack[s]), Marker),
             Append(path[s].nodes, Dst(s)), Append(path[s].edges, Top(s)), found[s],
             {Append(path[s].edges, Top(s))})
  BY <1>1, <1>2, SearchArrive
<1>4. /\ stack'[s] = Append(Front(stack[s]), Marker)
      /\ path'[s].nodes = Append(path[s].nodes, Dst(s))
      /\ path'[s].edges = Append(path[s].edges, Top(s))
      /\ Added(s).edges = Append(path[s].edges, Top(s))
  BY <1>2 DEF Arrive, Types, Added
<1>5. PICK p \in Available :
        /\ cur' = [cur EXCEPT ![s] = p]
        /\ mem' = [mem EXCEPT ![p] = [edges |-> Added(s).edges, weight |-> Weight(Added(s).edges)]]
  BY DEF Arrive
<1>6. p \in Objects /\ p \notin heap[s]
  BY AvailableFacts
<1>7. \A q \in heap[s] : mem'[q] = mem[q]
  BY <1>5, <1>6 DEF Types
<1>8. /\ pc'[s] = "collect" /\ query' = query /\ heap' = heap /\ found' = found /\ cur'[s] = p
  BY <1>5 DEF Arrive, Types
<1>9. Best(mem', heap[s], <<>>, 0, found[s])
  BY <1>1, <1>7, BestFrame
<1>10. RouteAt(mem', p) = path'[s].edges /\ WeightAt(mem', p) = Weight(path'[s].edges)
  BY <1>4, <1>5, <1>6 DEF RouteAt, WeightAt, Types
<1>11. Going(s, {path[s].edges})'
  BY <1>3, <1>4, <1>8, <1>9 DEF Going, Src
<1>12. Holds(s)'
  BY <1>8, <1>10 DEF Holds
<1> QED
  BY <1>8, <1>11, <1>12 DEF Phase

\* The heap takes the route, and gives one back when it has too many.
LEMMA CollectPhase ==
  ASSUME Types, ObjectsOwnedOnce, NEW s \in Searchers, Phase(s), Collect(s)
  PROVE  Phase(s)'
<1>1. /\ Search(Src(s), AllRoutes[query[s]], stack[s], path[s].nodes, path[s].edges, found[s],
                {path[s].edges})
      /\ Best(mem, heap[s], <<>>, 0, found[s])
      /\ RouteAt(mem, cur[s]) = path[s].edges /\ WeightAt(mem, cur[s]) = Weight(path[s].edges)
  BY DEF Phase, Going, Holds, Collect, Collected
<1>2. /\ Search(Src(s), AllRoutes[query[s]], stack[s], path[s].nodes, path[s].edges,
                found[s] \cup {path[s].edges}, {})
      /\ path[s].edges \notin found[s]
  BY <1>1, SearchCollect
<1>3. cur[s] \notin heap[s] /\ path[s].edges \in Seq(Edges)
  BY DEF ObjectsOwnedOnce, Types, Paths
<1>4. /\ pc'[s] = "walk" /\ query' = query /\ mem' = mem /\ stack' = stack /\ path' = path
      /\ found'[s] = found[s] \cup {path[s].edges}
  BY DEF Collect, Collected, Types
<1> DEFINE pushed == heap[s] \cup {cur[s]}
<1>5. Best(mem, heap'[s], <<>>, 0, found[s] \cup {path[s].edges})
  <2>1. CASE Cardinality(pushed) > K
    <3>1. PICK x \in Heaviest(pushed) : heap' = [heap EXCEPT ![s] = pushed \ {x}]
      BY <2>1 DEF Collect
    <3>2. x \in pushed /\ \A q \in pushed : WeightAt(mem, q) <= WeightAt(mem, x)
      BY HeaviestFacts
    <3>3. Best(mem, pushed \ {x}, <<>>, 0, found[s] \cup {path[s].edges})
      BY <1>1, <1>2, <1>3, <2>1, <3>2, BestReplace
    <3>4. heap'[s] = pushed \ {x}
      BY <3>1 DEF Types
    <3> QED
      BY <3>3, <3>4
  <2>2. CASE ~(Cardinality(pushed) > K)
    <3>1. heap'[s] = pushed
      BY <2>2 DEF Collect, Types
    <3>2. Cardinality(pushed) <= K
      <4>1. Cardinality(heap[s]) \in Nat /\ K \in Nat /\ IsFiniteSet(heap[s])
        BY <1>1, BestWeights DEF Best
      <4>2. Cardinality(pushed) \in Nat
        BY <4>1, FS_AddElement, FS_CardinalityType
      <4> QED
        BY <2>2, <4>1, <4>2
    <3>3. Best(mem, pushed, <<>>, 0, found[s] \cup {path[s].edges})
      BY <1>1, <1>2, <1>3, <3>2, BestPush
    <3> QED
      BY <3>1, <3>3
  <2> QED
    BY <2>1, <2>2
<1>6. Going(s, {})'
  BY <1>2, <1>4, <1>5 DEF Going, Src
<1> QED
  BY <1>4, <1>6 DEF Phase

\* The walk ends with every route found.
LEMMA DisplayPhase ==
  ASSUME Types, NEW s \in Searchers, Phase(s), Display(s)
  PROVE  Phase(s)'
<1>1. /\ Search(Src(s), AllRoutes[query[s]], <<>>, path[s].nodes, path[s].edges, found[s], {})
      /\ Best(mem, heap[s], <<>>, 0, found[s])
  BY DEF Phase, Going, Display
<1>2. found[s] = AllRoutes[query[s]]
  BY <1>1, SearchEnd
<1>3. /\ pc'[s] = "display" /\ output'[s] = <<>> /\ Len(<<>>) = 0
      /\ query' = query /\ mem' = mem /\ heap' = heap
  BY DEF Display, Types
<1> QED
  BY <1>1, <1>2, <1>3 DEF Phase

\* The heaviest route of the heap is written.
LEMMA WritePhase ==
  ASSUME Types, NEW s \in Searchers, Phase(s), Write(s)
  PROVE  Phase(s)'
<1>1. PICK x \in Heaviest(heap[s]) :
        /\ heap' = [heap EXCEPT ![s] = @ \ {x}]
        /\ output' = [output EXCEPT ![s] = Append(@, mem[x])]
  BY DEF Write
<1>2. x \in heap[s] /\ \A q \in heap[s] : WeightAt(mem, q) <= WeightAt(mem, x)
  BY HeaviestFacts
<1>3. output[s] \in Seq(Contents) /\ mem[x] \in Contents
  BY <1>2 DEF Types
<1>4. PICK n : n = Len(output[s])
  OBVIOUS
<1>5. Best(mem, heap[s], output[s], n, AllRoutes[query[s]])
  BY <1>4 DEF Phase, Write
<1>6. Best(mem, heap[s] \ {x}, Append(output[s], mem[x]), n + 1, AllRoutes[query[s]])
  BY <1>2, <1>3, <1>4, <1>5, BestWrite
<1>7. Len(Append(output[s], mem[x])) = n + 1
  BY <1>3, <1>4, AppendProperties
<1>8. /\ pc'[s] = "display" /\ heap'[s] = heap[s] \ {x} /\ output'[s] = Append(output[s], mem[x])
      /\ query' = query /\ mem' = mem
  BY <1>1 DEF Write, Types
<1> QED
  BY <1>6, <1>7, <1>8 DEF Phase

\* The search returns with an empty heap.
LEMMA ReturnPhase ==
  ASSUME Types, NEW s \in Searchers, Phase(s), Return(s)
  PROVE  Phase(s)'
<1>1. Best(mem, {}, output[s], Len(output[s]), AllRoutes[query[s]])
  BY DEF Phase, Return
<1>2. query[s] \in Nat \ {0} /\ output' = output /\ mem' = mem /\ heap'[s] = {}
  BY QueryTypes DEF Types, Return
<1>3. CASE query[s] < Len(Queries)
  <2>1. pc'[s] = "ready" /\ query'[s] = query[s] + 1
    BY <1>3 DEF Return, Types
  <2>2. query[s] + 1 - 1 = query[s] /\ query[s] + 1 > 1
    BY <1>2
  <2>3. query'[s] > 1 /\ Best(mem', {}, output'[s], Len(output'[s]), AllRoutes[query'[s] - 1])
    BY <1>1, <1>2, <2>1, <2>2
  <2> QED
    BY <1>2, <2>1, <2>3 DEF Phase
<1>4. CASE ~(query[s] < Len(Queries))
  <2>1. pc'[s] = "end" /\ query' = query
    BY <1>4 DEF Return, Types
  <2> QED
    BY <1>1, <1>2, <2>1 DEF Phase
<1> QED
  BY <1>3, <1>4

\* Every searcher is at a point of its search.
Phases == \A s \in Searchers : Phase(s)

\* They are at the start ...
LEMMA PhasesInit == Init => Phases
  BY DEF Init, Phases, Phase

\* ... and after every step, of their own, of another searcher or of the pool.
LEMMA PhasesNext ==
  Types /\ ObjectsOwnedOnce /\ Phases /\ [Next]_vars => Phases'
<1> SUFFICES ASSUME Types, ObjectsOwnedOnce, Phases, [Next]_vars PROVE Phases'
  OBVIOUS
<1>1. ASSUME NEW s \in Searchers, Searcher(s) PROVE Phases'
  <2>1. Phase(s)
    BY DEF Phases
  <2>2. Phase(s)'
    BY <1>1, <2>1, StartPhase, BacktrackPhase, SkipLoopPhase, ExtendPhase, ArrivePhase,
       CollectPhase, DisplayPhase, WritePhase, ReturnPhase DEF Searcher
  <2>3. ASSUME NEW t \in Searchers \ {s}
        PROVE  /\ pc'[t] = pc[t] /\ query'[t] = query[t] /\ stack'[t] = stack[t]
               /\ path'[t] = path[t] /\ cur'[t] = cur[t] /\ heap'[t] = heap[t]
               /\ output'[t] = output[t] /\ found'[t] = found[t]
    <3>1. CASE Start(s) \/ Backtrack(s) \/ SkipLoop(s) \/ Extend(s)
      BY <3>1 DEF Types, Start, Backtrack, SkipLoop, Extend
    <3>2. CASE Arrive(s)
      BY <3>2 DEF Types, Arrive
    <3>3. CASE Collect(s)
      BY <3>3 DEF Types, Collect, Collected
    <3>4. CASE Display(s) \/ Write(s) \/ Return(s)
      BY <3>4 DEF Types, Display, Write, Return
    <3> QED
      BY <1>1, <3>1, <3>2, <3>3, <3>4 DEF Searcher
  <2>4. ASSUME NEW t \in Searchers \ {s}
        PROVE  /\ \A p \in heap[t] : mem'[p] = mem[p]
               /\ pc[t] = "collect" => mem'[cur[t]] = mem[cur[t]]
    <3>1. CASE Arrive(s)
      <4>1. PICK p \in Available :
              mem' = [mem EXCEPT ![p] = [edges |-> Added(s).edges,
                                         weight |-> Weight(Added(s).edges)]]
        BY <3>1 DEF Arrive
      <4>2. p \notin heap[t] /\ p # cur[t]
        BY AvailableFacts
      <4>3. \A q \in Objects : q # p => mem'[q] = mem[q]
        BY <4>1 DEF Types
      <4> QED
        BY <4>2, <4>3 DEF Types
    <3>2. CASE ~Arrive(s)
      <4>1. mem' = mem
        BY <1>1, <3>2 DEF Searcher, Start, Backtrack, SkipLoop, Extend, Collect, Collected,
           Display, Write, Return
      <4> QED
        BY <4>1
    <3> QED
      BY <3>1, <3>2
  <2>5. ASSUME NEW t \in Searchers \ {s} PROVE Phase(t)'
    <3>1. Phase(t)
      BY DEF Phases
    <3> QED
      BY <2>3, <2>4, <3>1, PhaseKept
  <2> QED
    BY <2>2, <2>5 DEF Phases
<1>2. ASSUME Drop PROVE Phases'
  <2> SUFFICES ASSUME NEW t \in Searchers PROVE Phase(t)'
    BY DEF Phases
  <2>1. /\ pc' = pc /\ query' = query /\ stack' = stack /\ path' = path /\ cur' = cur
        /\ heap' = heap /\ output' = output /\ found' = found
        /\ mem' = [p \in Objects |-> IF p \in pool THEN Blank ELSE mem[p]]
    BY <1>2 DEF Drop
  <2>2. heap[t] \subseteq Objects \ pool /\ (pc[t] = "collect" => cur[t] \in Objects \ pool)
    BY DEF ObjectsOwnedOnce, Types
  <2>3. \A p \in Objects \ pool : mem'[p] = mem[p]
    BY <2>1
  <2>4. Phase(t)
    BY DEF Phases
  <2> QED
    BY <2>1, <2>2, <2>3, <2>4, PhaseKept
<1>3. ASSUME UNCHANGED vars PROVE Phases'
  <2> SUFFICES ASSUME NEW t \in Searchers PROVE Phase(t)'
    BY DEF Phases
  <2>1. Phase(t)
    BY DEF Phases
  <2> QED
    BY <1>3, <2>1, PhaseKept DEF vars
<1> QED
  BY <1>1, <1>2, <1>3 DEF Next, Terminated

\* Where every searcher is, in every state.
LEMMA Progress == Spec => []Phases
  BY Typing, Ownership, PhasesInit, PhasesNext, PTL DEF Spec

\* Every variable has its type: in particular the heap never keeps more than K
\* objects after collect, which pops one when it pushed one too many.
THEOREM TypesOK == Spec => []TypeOK
<1>1. Types /\ Phases => TypeOK
  <2> SUFFICES ASSUME Types, Phases PROVE TypeOK
    OBVIOUS
  <2>1. ASSUME NEW s \in Searchers PROVE Cardinality(heap[s]) <= K
    <3>1. CASE heap[s] = {}
      BY <3>1, FS_EmptySet, Constants
    <3>2. CASE heap[s] # {}
      <4>1. PICK out, n, fnd : Best(mem, heap[s], out, n, fnd)
        BY <3>2 DEF Phases, Phase, Going, Types
      <4>2. n \in Nat /\ n + Cardinality(heap[s]) <= K
        BY <4>1 DEF Best
      <4> QED
        BY <4>1, <4>2, BestWeights
    <3> QED
      BY <3>1, <3>2
  <2>2. ASSUME NEW p \in Objects PROVE mem[p].edges \in Routes /\ mem[p].weight \in Nat
    BY DEF Types, Contents, Routes, Edges
  <2>3. ASSUME NEW s \in Searchers
        PROVE  /\ stack[s] \in Seq(DOMAIN Edge \cup {Marker})
               /\ path[s].nodes \in Seq(Nat) /\ path[s].edges \in Routes
               /\ found[s] \subseteq Routes
    BY DEF Types, Paths, Stacks, Routes, Edges
  <2> QED
    BY <2>1, <2>2, <2>3 DEF Types, TypeOK
<1> QED
  BY <1>1, Typing, Progress, PTL

\* The walk of allPaths loses no route and finds none twice: at every point each
\* simple route of the query is found, being collected or ahead in the stack.
THEOREM RoutesKept == Spec => []NoRouteLost
<1>1. Types /\ Phases => NoRouteLost
  <2> SUFFICES ASSUME Types, Phases, NEW s \in Searchers, pc[s] \in {"walk", "collect"}
               PROVE  LET here == IF pc[s] = "collect" THEN {path[s].edges} ELSE {} IN
                      /\ found[s] \cup here \cup Pending(s) = AllRoutes[query[s]]
                      /\ found[s] \cap here = {} /\ found[s] \cap Pending(s) = {}
                      /\ here \cap Pending(s) = {}
    BY DEF NoRouteLost
  <2> DEFINE here == IF pc[s] = "collect" THEN {path[s].edges} ELSE {}
  <2> SUFFICES /\ found[s] \cup here \cup Pending(s) = AllRoutes[query[s]]
               /\ found[s] \cap here = {} /\ found[s] \cap Pending(s) = {}
               /\ here \cap Pending(s) = {}
    OBVIOUS
  <2>1. Search(Src(s), AllRoutes[query[s]], stack[s], path[s].nodes, path[s].edges,
               found[s], here)
    BY DEF Phases, Phase, Going
  <2> HIDE DEF here
  <2>2. WalkOK(Src(s), stack[s], path[s].nodes, path[s].edges) /\ query[s] \in DOMAIN Queries
    BY <2>1, QueryTypes DEF Search, Types
  <2>3. Pending(s) = Ahead(AllRoutes[query[s]], stack[s], path[s].edges)
    BY <2>2, PendingIsAhead
  <2> QED
    BY <2>1, <2>3 DEF Search
<1> QED
  BY <1>1, Typing, Progress, PTL

\* The heap of collect holds the K lightest of the routes found so far, with their
\* weights, whatever the other searchers do with the objects of the pool.
THEOREM HeapLightest == Spec => []HeapHoldsLightest
<1>1. Phases => HeapHoldsLightest
  <2> SUFFICES ASSUME Phases, NEW s \in Searchers, pc[s] \in {"walk", "collect"}
               PROVE  /\ Kept(s) \subseteq found[s]
                      /\ Cardinality(Kept(s)) = Min({K, Cardinality(found[s])})
                      /\ \A p \in heap[s] : mem[p].weight = Weight(mem[p].edges)
                      /\ \A r \in found[s] \ Kept(s), kept \in Kept(s) : Weight(kept) <= Weight(r)
    BY DEF HeapHoldsLightest
  <2>1. Best(mem, heap[s], <<>>, 0, found[s])
    BY DEF Phases, Phase, Going
  <2>2. Kept(s) = Carried(mem, heap[s])
    BY DEF Kept, Carried, RouteAt
  <2>3. /\ Carried(mem, heap[s]) \subseteq found[s]
        /\ Cardinality(Carried(mem, heap[s])) = Min({K, Cardinality(found[s])})
        /\ \A p \in heap[s] : WeightAt(mem, p) = Weight(RouteAt(mem, p))
        /\ \A r \in found[s] \ Carried(mem, heap[s]), k \in Carried(mem, heap[s]) :
             Weight(k) <= Weight(r)
    BY <2>1, BestKept
  <2> QED
    BY <2>2, <2>3 DEF RouteAt, WeightAt
<1> QED
  BY <1>1, Progress, PTL

\* display shows the lightest simple routes of the query, K of them if there are as
\* many, each once and the heaviest first.
THEOREM DisplayLightest == Spec => []LightestDisplayed
<1>1. Types /\ Phases => LightestDisplayed
  <2> SUFFICES ASSUME Types, Phases, NEW s \in Searchers,
                      pc[s] = "end" \/ (pc[s] = "ready" /\ query[s] > 1),
                      NEW q, q = (IF pc[s] = "end" THEN query[s] ELSE query[s] - 1),
                      NEW shown, shown = {output[s][k].edges : k \in DOMAIN output[s]}
               PROVE  /\ shown \subseteq AllRoutes[q]
                      /\ Cardinality(shown) = Len(output[s])
                      /\ Len(output[s]) = Min({K, Cardinality(AllRoutes[q])})
                      /\ \A r \in AllRoutes[q] \ shown, k \in DOMAIN output[s] :
                           output[s][k].weight <= Weight(r)
                      /\ \A j, k \in DOMAIN output[s] :
                           j < k => output[s][j].weight >= output[s][k].weight
    BY DEF LightestDisplayed
  <2>1. Best(mem, {}, output[s], Len(output[s]), AllRoutes[q])
    BY DEF Phases, Phase
  <2>2. DOMAIN output[s] = 1..Len(output[s])
    BY LenProperties DEF Types
  <2>3. shown = Carried(output[s], 1..Len(output[s]))
    BY <2>2 DEF Carried, RouteAt
  <2>4. PICK n, out, fnd : n = Len(output[s]) /\ out = output[s] /\ fnd = AllRoutes[q]
    OBVIOUS
  <2>5. Best(mem, {}, out, n, fnd)
    BY <2>1, <2>4
  <2>6. /\ Carried(out, 1..n) \subseteq fnd
        /\ Cardinality(Carried(out, 1..n)) = n
        /\ n = Min({K, Cardinality(fnd)})
        /\ \A r \in fnd \ Carried(out, 1..n), k \in 1..n : WeightAt(out, k) <= Weight(r)
        /\ \A j, k \in 1..n : j < k => WeightAt(out, j) >= WeightAt(out, k)
    BY <2>5, BestShown
  <2> QED
    BY <2>2, <2>3, <2>4, <2>6 DEF WeightAt
<1> QED
  BY <1>1, Typing, Progress, PTL
=============================================================================
