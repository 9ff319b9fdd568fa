SPECIFICATION FairSpec
CONSTANTS
  t1 = t1
  t2 = t2
  Threads = {t1, t2}
  Loaders = {}
  CutShort = {t1, t2}
  UserCmds <- OneCmd
  Kernels = {}
  Words = 1
  Modes = {}
  QUEUE_SIZE = 3
  RING_WINDOW = 256
  MaxCalls = 3
PROPERTY TimeoutOnlyIfPending
