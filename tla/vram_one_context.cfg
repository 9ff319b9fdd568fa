SPECIFICATION Spec
CONSTANTS
  c1 = c1
  m1 = m1
  m2 = m2
  m3 = m3
  d1 = d1
  d2 = d2
  Contexts = {c1}
  Mems = {m1, m2, m3}
  Sizes = {1, 3}
  Data = {d1, d2}
  Unknown = Unknown
  NoMem = NoMem
  SIZE_MOD = 64
  UINT32_MOD = 32
  PAGE_SIZE_4K = 2
  FPGAGPU_VRAM_USER_BASE = 2
  FPGAGPU_VRAM_TOTAL_SIZE = 9
  MaxRefs = 2
  MaxCreated = 1
SYMMETRY Symmetry
CHECK_DEADLOCK FALSE
INVARIANTS TypeOK BuffersDisjoint 
