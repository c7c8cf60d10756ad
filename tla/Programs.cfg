SPECIFICATION ProgramsSpec
CONSTANTS
  NPROC = 6
  NFILE = 4
  FdLimits = {4, 5}
  NPIPE = 2
  PIPELEN = 1
  Commands <- MCCommands
  MaxCommands = 1
  NBUF = 40
  MAXARGS = 3
  RawLines <- MCRawLines
  Trees <- MCTrees
  Layouts <- MCLayouts
  BUFSIZE = 5
  Cases <- MCCases
  HEAP = 11
  NU = 3
  Requests = {1, 3}
  Owners = {1, 2}
  NPAGE = 11
  PGSIZE = 2
  NPTE = 2
  NTAB = 2
  ADDRMOD = 16
  SbrkUp = {2, 3}
  SbrkDown = {1}
  Images = {1}
INVARIANTS
  DescriptorsConsistent
  PagesAccounted
  ParsedFaithfully
  GrepCorrect
  HeapSound
PROPERTIES
  CommandsFinish
CHECK_DEADLOCK FALSE
