SPECIFICATION AloneSpec
CONSTANTS
  d1 = d1
  d2 = d2
  p1 = p1
  p2 = p2
  NoDaemon = NoDaemon
  Absent = Absent
  Publisher = {p1, p2}
  Doc = {file}
  Content = {hash}
  Daemon = {d1, d2}
  DaemonOf <- OnePublisherPerDaemon
  Overlap = TRUE
  Requests = {"refresh"}
  MaxOperation = 0
  MaxFrontier = 1
  MaxEdition = 1
CHECK_DEADLOCK FALSE
PROPERTY NoCommitAfterTakeover
