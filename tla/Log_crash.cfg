SPECIFICATION Spec
CONSTANTS
  Procs = {p1, p2}
  Blocks = {b1, b2, b3}
  Vals = {0, 1}
  Zero = 0
  LOGSIZE = 4
  MAXOPBLOCKS = 2
  LogBlocks = 4
  OpBlocks = 2
  MaxCrash = 2
SYMMETRY Symmetry
INVARIANTS
  LogConsistent
  DurableWhenIdle

  
CHECK_DEADLOCK FALSE
