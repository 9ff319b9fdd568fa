SPECIFICATION Spec
CONSTANTS
  t1 = t1
  t2 = t2
  Threads = {t1, t2}
  Requests <- DisjointRequests
  Frame <- SwappedFrames
  DdrBytes = {0, 1, 2, 3, 4}
  ADDR_MAX = 9
  PAGE_SIZE = 2
  MAX_SIZE = 4
  MAX_PAGES = 3
  Polls = 2
  StopsInTime = TRUE
  MaxCalls = 2
PROPERTY TransferDelivered
