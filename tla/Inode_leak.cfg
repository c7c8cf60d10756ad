SPECIFICATION Spec
SYMMETRY Sym
CONSTANTS
  Procs = {p1, p2}
  NINODE = 5
  NINODES = 5
  Home = 3
  MaxCalls = 3
  Names = {"a", "b"}
  Calls <- MCCalls
  Tree <- MCTree
INVARIANT NoLeakedInode
CHECK_DEADLOCK FALSE
