SPECIFICATION FairSpec
CONSTANTS
  t1 = t1
  t2 = t2
  Threads = {t1, t2}
  Loaders = {t1}
  CutShort = {t1, t2}
  UserCmds <- OneCmd
  Kernels = {1}
  Words = 1
  Modes = {}
  QUEUE_SIZE = 2
  RING_WINDOW = 192
  MaxCalls = 2
PROPERTIES IoctlReturns PublishedGetsExecuted ImplementsService
