SPECIFICATION Spec
CONSTANTS
  c1 = c1
  c2 = c2
  Cards = {c1, c2}
  MayFail = {"cdev"}
  Unplug = TRUE
  Files = {}
  Modes = {0}
  SameCpu = {0}
  MAX_fpgagpu_DEVICES = 2
  MaxProbes = 1
INVARIANT HandlerHasDevice
