CONSTANTS
  Procs = {p1, p2}
  None = None
  Names = {"a", "b"}
  Paths <- MCPaths
  NewPaths <- MCNewPaths
  Trees <- MCTrees
  Homes = {2, 3}
  Calls = {"unlink", "mkdir", "create", "open", "chdir", "link", "close", "dup", "fileio", "pipe"}
  NInodes = 4
  NFILE = 2
  NOFILE = 2
  MaxCalls = 3
SYMMETRY Symmetry
SPECIFICATION Spec
INVARIANTS RefsExact NamesAreLinked IputWontBlock NoLockCycle
