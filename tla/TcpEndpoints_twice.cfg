SPECIFICATION Spec
CONSTANTS
  Connectors = {c1}
  Clients = {k1}
  NoConn = NoConn
  MaxOld = 3
  MaxQueue = 3
CHECK_DEADLOCK FALSE
INVARIANT
  NoDuplicateConnect
