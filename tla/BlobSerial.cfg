SPECIFICATION Spec
CONSTANTS
  p1 = p1
  p2 = p2
  p3 = p3
  c1 = c1
  NoCid = NoCid
  Procs <- Requests3
  Cids <- OneCid
  Ops = {"store", "get", "delete"}
  Compressible <- NoCids
  Deletable <- OneCid
  MaxCrashes = 0
  MaxFaults = 1
SYMMETRY RequestSymmetry
INVARIANT BlobAtomic
PROPERTIES
  KeepsPromises
