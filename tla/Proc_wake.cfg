SPECIFICATION FairSpec
CONSTANTS
  NPROC = 3
  NCPU = 1
  PRIOCAP = 1
  MNINIT = 1
  PLISTLEN = 2
  TICKMOD = 3
  MaxPid = 4
  PrioArgs = {2}
  SleepArgs = {2}
  KillPids = {1}
INVARIANT DivideMeansBelowMin
PROPERTY SleepersWake
CHECK_DEADLOCK FALSE
