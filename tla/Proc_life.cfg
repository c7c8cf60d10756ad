SPECIFICATION Spec
CONSTANTS
  NPROC = 4
  NCPU = 2
  PRIOCAP = 1
  MNINIT = 2
  PLISTLEN = 4
  TICKMOD = 2
  MaxPid = 5
  PrioArgs = {}
  SleepArgs = {}
  KillPids = {2}
INVARIANTS
  TableConsistent
  CpuOwnership
  ParentLive
  NoLostExit
