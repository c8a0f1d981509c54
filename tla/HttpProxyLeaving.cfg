CONSTANTS
  a = a
  b = b
  NoRelay = NoRelay
  Relays <- TwoRelays
  Outages = FALSE
  MaxRetries = 3
SPECIFICATION Spec
CHECK_DEADLOCK FALSE
PROPERTY LeavingBlamesNobody
