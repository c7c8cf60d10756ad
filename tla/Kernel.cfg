SPECIFICATION KernelSpec
CONSTANTS
  Procs = {1, 2}
  NBUF = 2
  Blocks = {1, 2, 3}
  Written = {1}
  Vals = {0, 1}
  Zero = 0
  MaxPin = 1
  MaxError = 1
  Writers = {1, 2}
  Readers = {3}
  PIPESIZE = 2
  WRAP = 4
  Bytes = {0, 1}
  Counts = {2}
  People = {1, 2}
  INPUT_BUF = 2
  INPUTWRAP = 4
  COLS = 2
  ROWS = 1
  Asked = {2}
  Cores = {1, 2}
  NLOCK = 2
  Wraps <- MCWraps
  MaxSeconds = 3
  WORD = 32
  KERN = 16
  INTSIZE = 4
INVARIANTS
  CacheConsistent
  ReadsLastWrite
  PipeConsistent
  ConsoleConsistent
  SpinlocksSound
  
  WordsExact
PROPERTIES
  RequestsComplete
  IsFifo
  EndOfStream
  IsLineInput
CHECK_DEADLOCK FALSE
