SPECIFICATION SceneSpec
CONSTANTS
  d1 = d1
  d2 = d2
  p1 = p1
  p2 = p2
  NoDaemon = NoDaemon
  Absent = Absent
  Publisher = {p1, p2}
  Doc = {file}
  Content = {hash}
  Daemon = {d1, d2}
  DaemonOf <- OnePublisherPerDaemon
  Overlap = FALSE
  Requests = {"refresh", "save", "dense"}
  MaxOperation = 2
  MaxFrontier = 2
  MaxEdition = 2
CHECK_DEADLOCK FALSE
CONSTRAINT FirstDaemonFirst
INVARIANTS TypeOK FrontierDecidesCorpus AckedCovered PublishedCovered BoundaryMonotone
PROPERTY PublishesInOrder
