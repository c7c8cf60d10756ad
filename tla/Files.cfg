SPECIFICATION FilesSpec
SYMMETRY FilesSym
CONSTANTS
  Procs = {p1, p2}
  NINODE = 5
  NINODES = 5
  Home = 3
  MaxCalls = 3
  Names = {"a", "b"}
  Calls <- MCCalls
  Tree <- MCTree
  Writers = {w1, w2}
  OpenFiles = {f1, f2}
  Inodes = {i1, i2}
  NBLOCKS = 6
  BSIZE = 2
  NDIRECT = 2
  MAXOPBLOCKS = 6
  UINTMOD = 16
  WriteLengths = {7}
  ReadLengths = {3}
  ExecOffsets = {1, 15}
  MaxWrites = 2
  NMETA = 5
  NDATA = 24
  MKBSIZE = 4
  MKNDIRECT = 2
  MKNINDIRECT = 2
  DIRENT = 2
  FileSizes = {0, 3, 4, 7, 9, 16, 17}
  MaxFiles = 4
INVARIANTS
  InodesConsistent
  LinksCounted
  NothingUsedIsFree
  CyclesThroughIput
  ContentConsistent
  
PROPERTIES
  IsByteFiles
CHECK_DEADLOCK FALSE
