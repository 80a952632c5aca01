SPECIFICATION Spec
CONSTANTS
  Workers = {w1, w2}
  Conns <- MCConns
  Handles <- MCHandles
  MaxConnections = 2
  MaxQueue = 1
CHECK_DEADLOCK FALSE
INVARIANTS
  TypeOK
  OpenIsRegistered
  ConnectionBound
  OneOwner
  StoppedClean
PROPERTIES
  StopReturns
  NoLostWakeup
