SPECIFICATION Spec
CONSTANTS
  c1 = c1
  c2 = c2
  c3 = c3
  c4 = c4
  p1 = p1
  p2 = p2
  NoCid = NoCid
  Cids <- FourCids
  Stamp <- FourStamps
  Rank <- FourRanks
  Procs <- OneRequest
  MaxAdds = 4
  MaxCreates = 1
  MaxCrashes = 0
  Modes <- Serial
SYMMETRY RequestSymmetry
CHECK_DEADLOCK FALSE
INVARIANT LongestWins
