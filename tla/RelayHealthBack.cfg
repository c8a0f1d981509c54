CONSTANTS
  r1 = r1
  Relays <- OneRelay
  FailThreshold = 2
  HealthyThreshold = 3
  FastHealthCheck = FALSE
  Strikes = 2
  QueueCap = 1
  PendingCap = 10
  CountCap = 3
SPECIFICATION ProbeSpec
CHECK_DEADLOCK TRUE
PROPERTY BackAfterSuccesses
