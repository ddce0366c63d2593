CONSTANTS
  k1 = k1
  Clients = {k1}
  Workers = {w1}
  Event = event
  Fds = {1, 2}
  Listen = 0
  MaxConnections = 1
  Script <- KeepThenClose
  RespLen = 2
  SndCap = 1
  RecvMax = 2
  MaxRequestSize = 3
  Pipelining = FALSE
  ClientsMayClose = FALSE
  None = none
SPECIFICATION Spec
INVARIANT NothingDiscarded
