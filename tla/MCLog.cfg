\* Two operations at a time that fill the log, crashes and torn writes anywhere.
SPECIFICATION FairSpec
CONSTANTS
  Procs = {p1, p2}
  Blocks = {b1, b2}
  Values = {0, 1}
  Zero = 0
  MAXOPBLOCKS = 3
  LOGSIZE = 6
  NLog = 7
  OpBlocks = 2
  NoBlock = NoBlock
INVARIANTS IInv SleeperHasWaker
PROPERTIES WriteAhead RefinesAtomicDisk SleeperWakes CommitFinishes
