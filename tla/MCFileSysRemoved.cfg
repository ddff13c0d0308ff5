CONSTANTS
  Procs = {p1}
  None = None
  Names = {"a", "b"}
  Paths <- MCPaths
  NewPaths <- MCNewPaths
  Trees <- MCTrees
  Homes = {3}
  Calls = {"unlink", "chdir"}
  NInodes = 3
  NFILE = 1
  NOFILE = 1
  MaxCalls = 3
SPECIFICATION Spec
INVARIANT IlockFindsType
