\* Two years of two zones of two nodes; a node may suffer a hardware failure, a
\* zone a network failure.  Every upgrade ends in the year
CONSTANTS
  MAXSECS = 20
  N_ZONES = 2
  ZONE_SIZE = 2
  N_REBOOTS = 0
  MTBR_REBOOT = 2
  MTBR_HW_FAILURE = 3
  MTBR_NET_FAILURE = 2
  N_ROLLING_UPGRADES = 1
  MTBR_ROLLING_UPGRADE = 1
  IDLE_ROLLING_UPGRADE = 1
  N_ZONE_SHUTDOWNS = 1
  MTBR_ZONE_SHUTDOWN = 2
  N_HISTO = 3
  Times = {0, 4, 6, 13}
  HwFails = {TRUE, FALSE}
  NetFails = {TRUE, FALSE}
  Word = 64
  YearBound = 2
SPECIFICATION Spec
INVARIANTS
  ClusterIsPointwise
  EventsExclusive
  TailsCounted
  ArraysDistinct
  FailuresCounted
