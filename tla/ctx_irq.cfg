SPECIFICATION FairSpec
CONSTANTS
  c1 = c1
  f1 = f1
  f2 = f2
  Cards = {c1}
  MayFail = {}
  Unplug = FALSE
  Files = {f1, f2}
  Modes = {1}
  SameCpu = {0, 1}
  MAX_fpgagpu_DEVICES = 2
  MaxProbes = 1
PROPERTY HandlerReturns
