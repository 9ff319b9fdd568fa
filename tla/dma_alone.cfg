SPECIFICATION FairSpec
CONSTANTS
  t1 = t1
  t2 = t2
  Threads = {t1}
  Requests <- AllRequests
  Frame <- SwappedFrames
  DdrBytes = {0, 1, 2, 3, 4, 5, 6, 7}
  ADDR_MAX = 9
  PAGE_SIZE = 2
  MAX_SIZE = 6
  MAX_PAGES = 3
  Polls = 2
  StopsInTime = TRUE
  MaxCalls = 2
INVARIANTS TypeOK EngineOnPinnedPages NothingLeftBehind WrittenPagesAreDirty
PROPERTIES TransferDelivered WritesConfined TransferReturns ImplementsTransfer
