SPECIFICATION Spec
CONSTANTS
  t1 = t1
  t2 = t2
  Threads = {t1, t2}
  Loaders = {t1}
  CutShort = {t1}
  UserCmds <- OneCmd
  Kernels = {1, 2}
  Words = 1
  Modes = {1}
  QUEUE_SIZE = 3
  RING_WINDOW = 192
  MaxCalls = 3
INVARIANTS TypeOK ExecutedAsPublished SuccessMeansCompleted NoLostWakeup
PROPERTY LoadDelivered
