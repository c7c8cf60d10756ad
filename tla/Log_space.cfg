SPECIFICATION FairSpec
CONSTANTS
  Procs = {p1, p2, p3}
  Blocks = {b1, b2, b3}
  Vals = {0}
  Zero = 0
  LOGSIZE = 4
  MAXOPBLOCKS = 2
  LogBlocks = 4
  OpBlocks = 1
  MaxCrash = 1
INVARIANT SpaceReserved
PROPERTY SleeperWoken
