\* Three buffers for two processes and two pinned blocks: the panic of bget() is within reach.
SPECIFICATION Spec
CONSTANTS
  Procs = {p1, p2}
  Blocks = {k1, k2, k3, k4}
  Values = {0, 1}
  Bufs = {b1, b2, b3}
  NBUF = 3
  RefMod = 4
  MaxPinned = 2
  Replay = {}
  None = None
SYMMETRY Symmetry
INVARIANTS IInv Identity
PROPERTIES PanicOnlyWhenAllInUse RefinesBlockStore
