SPECIFICATION LkSpec
CONSTANTS
  e1 = e1
  e2 = e2
  NULL = NULL
  Claims = {e1, e2}
  Codes = {x1, x2}
  LinkTTL = 3
  CodeTTL = 1
  ProofTTL = 2
  SendWindow = 2
  MaxAttempts = 2
  MaxFailedTotal = 3
  MaxSends = 2
  MaxLinks = 2
  MaxCodes = 4
  MaxTime = 3
SYMMETRY CodeSymmetry
INVARIANTS
  LinkInv
  AbuseIsBounded
PROPERTIES
  OnlyOwnMailTakesBack
  KeepsWord
CHECK_DEADLOCK FALSE
