\* 13 transactions per second: ten periods, three transactions of correction,
\* a second and a half of pacing; a channel of two slots, so that bursts fill it.
CONSTANTS
  Workers = {w1, w2}
  Depth = 1
  MaxSteps = 20
  TPS = 13
SPECIFICATION OltpSpec
INVARIANT PaceKept
