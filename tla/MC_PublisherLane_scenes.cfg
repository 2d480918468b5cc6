SPECIFICATION SceneSpec
CONSTANTS
  l1 = l1
  l2 = l2
  d1 = d1
  m1 = m1
  f1 = f1
  c1 = c1
  Intent = {l1, l2, d1, f1, m1, c1}
  KindOf <- Kinds
  Calls = {}
  StopOptions = {TRUE, FALSE}
  MaxRetries = 1
  MaxHead = 2
CHECK_DEADLOCK FALSE
INVARIANTS TypeOK DrainKeepsWord
PROPERTIES PublishedIsCovered IsDesk QuietAfterClear CallsEnd
