CONSTANTS
  Requests <- AllRequests
  Followups <- Persistence
  MaxRequests = 2
  PageSizes = {0, 2}
  SizeMod = 16
  Api <- ApiPrefix
  Junk = junk
  Empty = empty
SPECIFICATION Spec
INVARIANTS TypeOK HandedOverWhenWhole PostVerdict TargetSurvives ClientInSync
\* The connection is closed, or the client stops sending.
CHECK_DEADLOCK FALSE
