SPECIFICATION FairSpec
CONSTANTS
  Clients = {c1, c2}
  Connections = {k1}
  NoConnection = NoConnection
  NoClient = NoClient
  MaxRows = 1
  MayDoubt = FALSE
CHECK_DEADLOCK FALSE
PROPERTIES
  ConnectionsComeBack
  ImplementsUnitOfWork
