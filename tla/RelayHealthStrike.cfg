CONSTANTS
  r1 = r1
  Relays <- OneRelay
  FailThreshold = 2
  HealthyThreshold = 3
  FastHealthCheck = TRUE
  Strikes = 2
  QueueCap = 1
  PendingCap = 10
  CountCap = 3
SPECIFICATION Spec
CHECK_DEADLOCK TRUE
PROPERTY StrikeNeverRevives
