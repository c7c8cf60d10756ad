SPECIFICATION Spec
CONSTANTS
  NPROC = 2
  NCPU = 2
  PRIOCAP = 1
  MNINIT = 2
  PLISTLEN = 2
  TICKMOD = 2
  MaxPid = 4
  PrioArgs = {}
  SleepArgs = {}
  KillPids = {2}
PROPERTIES
  BornAlive
