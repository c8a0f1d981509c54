CONSTANTS
  Servers <- FourServers
  BaseFilters <- ThreeBases
  Parts <- AllParts
  MaxParts = 3
SPECIFICATION FilterSpec
CHECK_DEADLOCK FALSE
INVARIANT BaseFilterKept
