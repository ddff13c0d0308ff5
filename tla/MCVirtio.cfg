SPECIFICATION Spec
CONSTANTS
  Procs = {p1, p2, p3}
  Values = {0, 1}
  None = None
  NUM = 8
  UintMod = 16
  Start = 14
  MaxCalls = 4
SYMMETRY Symmetry
INVARIANTS TypeOK NoPanic ChainsIntact SleepersHaveReason
PROPERTY IsBlockDevice
CHECK_DEADLOCK FALSE
