CONSTANTS
  Clients = {c1, c2}
  Signals = {sigint, sigterm}
  Main = main
  Event = event
  Idle = idle
  Listen = listen
  None = none
  Descriptors = 2
  MaxSignals = 2
  EarlySignals = TRUE
SPECIFICATION FairSpec
INVARIANTS TypeOK CleanupAlone StopIsClean ClosedOnce JoinedBeforeDestroyed
PROPERTY SignalEnds
\* The process ends.
CHECK_DEADLOCK FALSE
