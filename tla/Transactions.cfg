SPECIFICATION Spec
CONSTANTS
  Clients = {c1, c2}
  Connections = {k1}
  NoConnection = NoConnection
  NoClient = NoClient
  MaxRows = 2
  MayDoubt = TRUE
SYMMETRY Symmetric
CHECK_DEADLOCK FALSE
INVARIANTS
  TypeOK
  AllOrNothing
  FailedStatementUndone
  OkMeansCommitted
  ErrMeansUndone
  ConnectionsSeparate
  LeakOnlyAfterFault
