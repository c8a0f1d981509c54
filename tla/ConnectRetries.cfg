CONSTANTS
  a = a
  b = b
  c = c
  NoRelay = NoRelay
  Relays <- ThreeRelays
  Outages = FALSE
  MaxRetries = 3
SPECIFICATION Spec
CHECK_DEADLOCK FALSE
INVARIANT EveryAttemptDials
