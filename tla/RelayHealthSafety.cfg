CONSTANTS
  r1 = r1
  Relays <- OneRelay
  FailThreshold = 2
  HealthyThreshold = 2
  FastHealthCheck = TRUE
  Strikes = 2
  QueueCap = 1
  PendingCap = 10
  CountCap = 2
SPECIFICATION Spec
CHECK_DEADLOCK TRUE
INVARIANTS StoredHealthSound OfflineOnlyIfBlamed
PROPERTY NeverForgotten
