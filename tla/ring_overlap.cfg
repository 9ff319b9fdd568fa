SPECIFICATION Spec
CONSTANTS
  t1 = t1
  t2 = t2
  Threads = {t1, t2}
  Loaders = {}
  CutShort = {}
  UserCmds <- OneCmd
  Kernels = {}
  Words = 1
  Modes = {}
  QUEUE_SIZE = 3
  RING_WINDOW = 192
  MaxCalls = 4
SYMMETRY Symmetry
INVARIANT EveryPacketIntact
