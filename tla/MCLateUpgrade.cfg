\* An upgrade may begin near the end of the year.
CONSTANTS
  MAXSECS = 15
  N_ZONES = 2
  ZONE_SIZE = 2
  N_REBOOTS = 1
  MTBR_REBOOT = 2
  MTBR_HW_FAILURE = 3
  MTBR_NET_FAILURE = 2
  N_ROLLING_UPGRADES = 1
  MTBR_ROLLING_UPGRADE = 1
  IDLE_ROLLING_UPGRADE = 1
  N_ZONE_SHUTDOWNS = 1
  MTBR_ZONE_SHUTDOWN = 2
  N_HISTO = 3
  Times = {0, 4, 6, 13}
  HwFails = {FALSE}
  NetFails = {FALSE}
  Word = 64
  YearBound = 1
SPECIFICATION Spec
INVARIANT IntervalsInRange
