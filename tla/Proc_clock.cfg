SPECIFICATION Spec
CONSTANTS
  NPROC = 2
  NCPU = 2
  PRIOCAP = 2
  MNINIT = 3
  PLISTLEN = 2
  TICKMOD = 3
  MaxPid = 3
  PrioArgs = {3}
  SleepArgs = {2}
  KillPids = {2}
INVARIANTS
  LockDiscipline
  NoLostTick
  
PROPERTIES
  Cpu0Judgement
