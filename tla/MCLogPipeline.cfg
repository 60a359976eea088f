CONSTANTS
  Script <- MCScript
  QueueCap = 2
  Buffers = {b1, b2, b3, b4, b5}
  MaxRuns = 3
  None = None
SPECIFICATION FairSpec
INVARIANTS
  OwnedOnce
  BuffersBounded
PROPERTIES
  ImplementsSink
  Completion
