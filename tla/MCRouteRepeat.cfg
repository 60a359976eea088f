\* One searcher, two searches that reuse its path, stack, heap and objects.
CONSTANTS
  Edge <- SmallEdge
  Queries <- TwoQueries
  K = 3
  s1 = s1
  Searchers = {s1}
  p1 = p1  p2 = p2  p3 = p3  p4 = p4
  Objects = {p1, p2, p3, p4}
  None = None
SPECIFICATION FairSpec
INVARIANT LightestDisplayed
PROPERTY Completion
