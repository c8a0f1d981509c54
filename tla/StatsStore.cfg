CONSTANTS
  a = a
  b = b
  p1 = p1
  p2 = p2
  None = None
  Remotes <- TwoRemotes
  Producers <- TwoProducers
  QueueCap = 2
  PendingCap = 2
  MaxRecords = 4
SPECIFICATION FairSpec
CHECK_DEADLOCK FALSE
INVARIANTS TypeOK FlushedOnStop WindowNeverWraps
PROPERTIES LedgerSpec AcceptedIsPublished StopEnds
