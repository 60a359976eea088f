\* Slices of at most two intervals of a year of four seconds.
CONSTANTS
  MAXSECS = 4
  MostIntervals = 2
  Slices <- SortedSlices
SPECIFICATION Spec
INVARIANTS
  OutputSorted
  SecondsMerged
PROPERTY Completion
