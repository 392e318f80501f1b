\* Three clients and two upstream servers compete for four connections
SPECIFICATION Spec
CONSTANTS
  Clients = {c1, c2, c3}
  ConnectionN = 6
  Peers = 2
INVARIANTS
  TypeOK
  Accounted
  QuietExit
PROPERTIES
  ReuseSparesRequests
  QuitDrains
CHECK_DEADLOCK FALSE
