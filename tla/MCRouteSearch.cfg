\* Two searchers over one pool; a heap of two routes, two less than there are.
CONSTANTS
  Edge <- SmallEdge
  Queries <- OneQuery
  K = 2
  s1 = s1  s2 = s2
  Searchers = {s1, s2}
  p1 = p1  p2 = p2  p3 = p3  p4 = p4  p5 = p5  p6 = p6
  Objects = {p1, p2, p3, p4, p5, p6}
  None = None
SPECIFICATION Spec
SYMMETRY Symmetry
INVARIANTS
  NoRouteLost
  HeapHoldsLightest
  ObjectsOwnedOnce
