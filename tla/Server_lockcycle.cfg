CONSTANTS
  k1 = k1
  Clients = {k1}
  Workers = {w1}
  Event = event
  Fds = {1, 2}
  Listen = 0
  MaxConnections = 1
  Script <- CloseThenMore
  RespLen = 1
  SndCap = 1
  RecvMax = 1
  MaxRequestSize = 2
  Pipelining = TRUE
  ClientsMayClose = FALSE
  None = none
SPECIFICATION Spec
INVARIANT NoLockCycle
CHECK_DEADLOCK FALSE
