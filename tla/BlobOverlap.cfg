SPECIFICATION FairSpec
CONSTANTS
  p1 = p1
  p2 = p2
  p3 = p3
  c1 = c1
  NoCid = NoCid
  Procs <- Requests2
  Cids <- OneCid
  Ops = {"store", "get", "pin", "unpin", "delete"}
  Compressible <- OneCid
  Deletable <- OneCid
  MaxCrashes = 1
  MaxFaults = 1
INVARIANTS
  TypeOK
  NoFalseTamperAlarm
PROPERTIES
  EmptyMetaFilled
  SettledPinHonoured
