\* Three workers; bursts longer than the input channel, so that the driver
\* blocks inside them; two bursts.
CONSTANTS
  Workers = {w1, w2, w3}
  Depth = 1
  Burst = 2
  MaxSteps = 12
SPECIFICATION FairSaturationSpec
INVARIANTS
  TypeOK
  InitBarrier
  DrainBeforeExit
  OutputNeverBlocks
  QuiescentAtReport
  NoTransactionLost
  OvershootBounded
PROPERTIES
  ImplementsBatch
  Termination
