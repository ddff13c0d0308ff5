CONSTANTS
  None = None
  c0 = c0
  c1 = c1
  p1 = p1
  p2 = p2
  CPUs = {c0, c1}
  Procs = {p1, p2}
  CPU0 = c0
  Keys = {"a", "newline", "backspace", "kill"}
  INPUT_BUF = 3
  UART_TX_BUF_SIZE = 3
  UintMod = 6
  Calls <- MCCalls
  MaxCalls = 2
  MaxKeys = 1
  MaxClock = 1
  Start = 5
  Typed <- MCTyped
SPECIFICATION Spec
SYMMETRY Symmetry
INVARIANTS InterruptsMatchLocks SleepersHaveReason
PROPERTIES RefinesTerminal
