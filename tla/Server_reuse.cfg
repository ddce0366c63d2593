CONSTANTS
  k1 = k1
  Clients = {k1, k2}
  Workers = {w1, w2}
  Event = event
  Fds = {1, 2}
  Listen = 0
  MaxConnections = 1
  Script <- PipelineOrPieces
  RespLen = 2
  SndCap = 1
  RecvMax = 1
  MaxRequestSize = 2
  Pipelining = TRUE
  ClientsMayClose = TRUE
  None = none
SPECIFICATION Spec
SYMMETRY Symmetry
INVARIANTS OneHandlerPerConnection PendingResponseHasBytes MapMatchesDescriptors CloseIsExclusive NoDescriptorLeak ConnectionLimit
\* The lock cycle of Server_lockcycle can stop the whole server.
CHECK_DEADLOCK FALSE
