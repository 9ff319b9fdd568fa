SPECIFICATION Spec
CONSTANTS
  c1 = c1
  c2 = c2
  f1 = f1
  f2 = f2
  f3 = f3
  Cards = {c1, c2}
  MayFail = {"enabled", "regions", "dev", "bar0", "bar1", "desc", "pages", "node", "class"}
  Unplug = FALSE
  Files = {f1, f2, f3}
  Modes = {0, 1}
  SameCpu = {0}
  MAX_fpgagpu_DEVICES = 2
  MaxProbes = 3
SYMMETRY Symmetry
INVARIANTS
  TypeOK NothingLeaked HandlerHasDevice ReleasesOnlyHeld FilesAreUsable MinorsDistinct
  NodesHaveClass WalkFindsLiveContexts ListIsOpenFiles
