SPECIFICATION FairSpec
CONSTANTS
  Connectors = {c1}
  Clients = {k1}
  NoConn = NoConn
  MaxOld = 4
  MaxQueue = 3
CHECK_DEADLOCK FALSE
INVARIANTS
  TypeOK
  NoConnectorLost
  ClientWillLearn
PROPERTIES
  ClosedIsForgotten
  ConnectEnds
