SPECIFICATION Spec
CONSTANTS
  c1 = c1
  c2 = c2
  timer = timer
  admin = admin
  NoCid = NoCid
  Cids <- TwoCids
  Collectors <- Both
  Size <- Sizes
  DiskSize <- Sizes
  Disk = 5
  MinFree = 3
  Reserved = 1
  Configs <- AllConfigs
  Production = FALSE
  MaxRuns = 2
SYMMETRY CollectorSymmetry
INVARIANTS
  OneCollector
  TotalsHonest
PROPERTIES
  PinnedSurvive
  FreesEnough
  FreesNoMore
CHECK_DEADLOCK FALSE
