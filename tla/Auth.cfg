SPECIFICATION Spec
CONSTANTS
  a1 = a1
  a2 = a2
  k1 = k1
  Auths <- MCAuths
  Nonces <- MCNonces
  NonceOf <- MCNonceOf
  r1 = r1
  r2 = r2
  Procs <- MCProcs
  NoAuth = NoAuth
  Tolerance = 1
  NonceExpiry = 2
  upper = upper
  lower = lower
  Spellings <- MCSpellings
  MaxTime = 4
  MaxRestarts = 1
INVARIANT TypeOK
INVARIANT AcceptedOnce
SYMMETRY RequestSymmetry
CHECK_DEADLOCK FALSE
