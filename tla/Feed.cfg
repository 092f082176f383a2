SPECIFICATION Spec
CONSTANTS
  c1 = c1
  c2 = c2
  c3 = c3
  c4 = c4
  p1 = p1
  p2 = p2
  NoCid = NoCid
  Cids <- ThreeCids
  Stamp <- Stamps
  Rank <- Ranks
  Procs <- TwoRequests
  MaxAdds = 3
  MaxCreates = 2
  MaxCrashes = 1
  Modes <- AnyMode
SYMMETRY RequestSymmetry
CHECK_DEADLOCK FALSE
INVARIANTS
  TypeOK
  RootHasEvent
  CountHonest
  RootStable
  ForkRule
