SPECIFICATION FairSpec
CONSTANTS
  Procs = {p1, p2}
  Bytes = {0, 1}
  None = None
  PIPESIZE = 2
  UintMod = 4
  Counts = {3}
INVARIANTS IInv NoUseAfterFree SleepersHaveReason
PROPERTIES IsByteStream ReadersSeeEOF WritersSeeClose
CHECK_DEADLOCK FALSE
