\* Two producers race two workers and a shutdown over three tasks.
CONSTANTS
  Workers = {w1, w2}
  Producers = {p1, p2}
  Closer = closer
  Tasks = {t1, t2, t3}
  NoThread = none
  NoTask = notask
SPECIFICATION FairSpec
INVARIANTS TypeOK NoLostWakeup TaskInOnePlace
PROPERTIES ImplementsTaskPool ShutdownReturns QueuedTaskStarts
\* Once the pool is shut down and every task submitted, nothing is left to do.
CHECK_DEADLOCK FALSE
