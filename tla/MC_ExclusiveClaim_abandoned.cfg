SPECIFICATION TrustedFairSpec
CONSTANTS
  p1 = p1
  p2 = p2
  p3 = p3
  NoProcess = NoProcess
  Process = {p1, p2, p3}
  Started = {p1, p2}
  Authoritative = TRUE
  MayStall = FALSE
  MaxClaims = 2
  MaxCrashes = 1
CHECK_DEADLOCK FALSE
PROPERTY AbandonedYields
