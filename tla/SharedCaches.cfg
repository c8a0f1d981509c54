CONSTANTS
  c1 = c1
  c2 = c2
  k1 = k1
  k2 = k2
  k3 = k3
  u1 = u1
  u2 = u2
  None = None
  Refresher = Refresher
  Callers <- TwoCallers
  Ttl = 2
  ResolveTimeout = 1
  MaxVersion = 2
  Nothing = Nothing
  Keys <- ThreeKeys
  Users <- TwoUsers
  MaxEntries = 2
  MaxSets = 5
  Servers <- FourServers
  BaseFilters <- ThreeBases
  Parts <- AllParts
  MaxParts = 3
SPECIFICATION CachesSpec
SYMMETRY Symmetry
CHECK_DEADLOCK FALSE
INVARIANTS
  TypesOK
  FetchShared
  AddressRecent
  MapMatchesList
  ReturnedWasCached
  NoneLost
  ParseAgrees
  WidenedByName
