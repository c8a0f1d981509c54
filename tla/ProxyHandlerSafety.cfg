CONSTANTS
  a = a
  b = b
  NoRelay = NoRelay
  Upstream = Upstream
  Relays <- TwoRelays
  Outages = TRUE
  MaxRetries = 3
SPECIFICATION Spec
CHECK_DEADLOCK FALSE
SYMMETRY Symmetry
INVARIANTS TypeOK NeverDialledTwice StrikesEarned EndsAccounted NeverTriedTwice OneBlamed BodyReplayed LiveBeforeDead
PROPERTY FailsOver
