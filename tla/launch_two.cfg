SPECIFICATION Spec
CONSTANTS
  t1 = t1
  t2 = t2
  s1 = s1
  Threads = {t1, t2}
  Sources = {s1}
  Values = {1}
  ArgSizes = {4}
  FPGAGPU_MAX_ARGS = 1
  Torn = Torn
  Null = Null
  MaxRefs = 1
  MaxBuilds = 2
  Ranges <- UnevenRange
  UINT32_MOD = 16
  SIZE_MOD = 64
  Capacity = 2
  MaxLaunches = 2
CONSTRAINT Undisturbed
SYMMETRY Symmetry
PROPERTY RanAsGiven
