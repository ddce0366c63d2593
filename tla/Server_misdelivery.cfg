CONSTANTS
  k1 = k1
  Clients = {k1, k2}
  Workers = {w1}
  Event = event
  Fds = {1, 2}
  Listen = 0
  MaxConnections = 1
  Script <- KeepOnce
  RespLen = 1
  SndCap = 1
  RecvMax = 1
  MaxRequestSize = 1
  Pipelining = FALSE
  ClientsMayClose = FALSE
  None = none
SPECIFICATION Spec
INVARIANT NoMisdelivery
