\* Zero transactions per second: bursts are empty, so that the ticker can
\* compete with the stop for ever.
CONSTANTS
  Workers = {w1, w2, w3}
  Depth = 1
  MaxSteps = 0
  TPS = 0
SPECIFICATION FairOltpSpec
PROPERTY Termination
