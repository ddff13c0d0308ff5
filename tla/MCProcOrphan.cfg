SPECIFICATION FairSpec
CONSTANTS
  NPROC = 3
  NCPU = 2
  KillPids = {}
  MaxPid = 3
  Faults = FALSE
PROPERTY InitReaps
CHECK_DEADLOCK FALSE
