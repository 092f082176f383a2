SPECIFICATION FairSpec
CONSTANTS
  n1 = n1
  n2 = n2
  c1 = c1
  NoNode = NoNode
  NoCid = NoCid
  Nodes <- TwoNodes
  Cids <- OneCid
  Media <- NoMedia
  Place <- TwoPlaces
  Factor = 1
  Expiry = 2
  Clients <- OnlyFirst
  Settings <- PushOrPull
  MaxStores = 2
  MaxAsked = 2
  MaxFaults = 1
INVARIANTS
  TypeOK
  Admitted
  CountedHold
PROPERTIES
  RefusalsEnd
  PullSpreads
