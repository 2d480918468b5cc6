SPECIFICATION BothSpec
CONSTANTS
  p1 = p1
  p2 = p2
  p3 = p3
  NoProcess = NoProcess
  Process = {p1, p2, p3}
  Started = {p1, p2}
  Authoritative = TRUE
  MayStall = FALSE
  MaxClaims = 4
  MaxCrashes = 2
CHECK_DEADLOCK FALSE
INVARIANTS TypeOK HolderIsRecorded ExclusiveAmongLiving
PROPERTIES RebindTakesOwn DeadYieldsAnywhere
