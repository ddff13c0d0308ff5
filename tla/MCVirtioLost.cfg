SPECIFICATION FairSpec
CONSTANTS
  Procs = {p1, p2}
  Values = {0}
  None = None
  NUM = 8
  UintMod = 16
  Start = 14
  MaxCalls = 2
PROPERTY RequestEnds
CHECK_DEADLOCK FALSE
