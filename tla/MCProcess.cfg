CONSTANTS
  NPROC = 3
  NCPU = 2
  KillPids = {0, 2, 3}
  MaxPid = 4
  Faults = TRUE
  None = None
  Users = {u1, u2}
  UintMod = 64
  MaxCalls = 3
  NFrames = 19
  PGSIZE = 2
  Fanout = 3
  Uint64Mod = 64
  WORD = 2
  Deltas <- MCDeltas
  Programs <- MCPrograms
  NArgs = {1}
  Ranges <- MCRanges
  Inums = {1, 2}
  Files = {1, 2}
  Opened <- MCOpened
  BSIZE = 2
  NDIRECT = 1
  MAXOPBLOCKS = 6
  NBlocks = 5
  BPB = 3
  Lengths <- MCLengths
  Mapped = {0, 3}
SPECIFICATION PartsSpec
SYMMETRY Symmetry
INVARIANTS
  NoOrphans FreedIsGone NoMissedExit CyclesNeedStaleParent
  FramesOwnedOnce NoVmPanic BlocksOwnedOnce ChunkFitsLog
PROPERTIES RefinesAddressSpace RefinesFileStore
