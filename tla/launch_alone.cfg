SPECIFICATION Spec
CONSTANTS
  t1 = t1
  s1 = s1
  s2 = s2
  Threads = {t1}
  Sources = {s1, s2}
  Values = {1}
  ArgSizes = {4, 8}
  FPGAGPU_MAX_ARGS = 2
  Torn = Torn
  Null = Null
  MaxRefs = 2
  MaxBuilds = 2
  Ranges <- UnevenRange
  UINT32_MOD = 16
  SIZE_MOD = 64
  Capacity = 2
  MaxLaunches = 2
SYMMETRY Symmetry
INVARIANTS TypeOK BuildDelivers BuildLeavesNothing
PROPERTIES RanAsGiven WorkCovered NothingInFlight
