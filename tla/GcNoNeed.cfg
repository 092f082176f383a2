SPECIFICATION Spec
CONSTANTS
  c1 = c1
  c2 = c2
  timer = timer
  admin = admin
  NoCid = NoCid
  Cids <- TwoCids
  Collectors <- TimerOnly
  Size <- Sizes
  DiskSize <- Sizes
  Disk = 5
  MinFree = 1
  Reserved = 1
  Configs <- Roomy
  Production = FALSE
  MaxRuns = 1
PROPERTY NothingWithoutNeed
CHECK_DEADLOCK FALSE
