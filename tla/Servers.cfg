CONSTANTS
  c1 = c1
  c2 = c2
  c3 = c3
  Bytes = 2
  Clients <- TwoClients
  NoSnap = NoSnap
  MaxVersion = 1
  Conns <- ThreeConns
  Cap = 1
SPECIFICATION ServersSpec
CHECK_DEADLOCK FALSE
INVARIANTS
  TypesOK
  NeverOverReported
  NothingLostToLivePeer
  ReturnsClosed
  NoPanic
  OnlyLateCutOff
  OpenBounded
  HandlerAccounts
PROPERTIES
  TunnelEnds
  ShutdownEnds
  NewestShown
  WaitingServed
