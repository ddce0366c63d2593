CONSTANTS
  Clients = {c1, c2}
  Signals = {sigint, sigterm}
  Main = main
  Event = event
  Idle = idle
  Listen = listen
  None = none
  Descriptors = 2
  MaxSignals = 1
  EarlySignals = FALSE
SPECIFICATION Spec
INVARIANT OrderlyExit
\* The process ends.
CHECK_DEADLOCK FALSE
