SPECIFICATION Spec
CONSTANTS
  p1 = p1
  p2 = p2
  p3 = p3
  c1 = c1
  NoCid = NoCid
  Procs <- Requests2
  Cids <- OneCid
  Ops = {"store", "get", "pin", "delete"}
  Compressible <- NoCids
  Deletable <- OneCid
  MaxCrashes = 0
  MaxFaults = 0
PROPERTY PinnedNeverDeleted
