SPECIFICATION FairSpec
CONSTANTS
  NPROC = 2
  NCPU = 1
  PRIOCAP = 2
  MNINIT = 2
  PLISTLEN = 2
  TICKMOD = 2
  MaxPid = 3
  PrioArgs = {0}
  SleepArgs = {}
  KillPids = {}
PROPERTIES
  NoStarvation
