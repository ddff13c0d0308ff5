\* A boot that replays a log of one block.
SPECIFICATION Spec
CONSTANTS
  Procs = {p1, p2}
  Blocks = {k1, k2, k3}
  Values = {0, 1}
  Bufs = {b1, b2, b3}
  NBUF = 3
  RefMod = 4
  MaxPinned = 1
  Replay = {k1}
  None = None
INVARIANT Identity
