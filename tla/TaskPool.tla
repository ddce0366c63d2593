------------------------------- MODULE TaskPool -------------------------------
(***************************************************************************)
(* What a thread pool promises, without threads, locks or condition        *)
(* variables: every task is handed over at most once, tasks start in the   *)
(* order in which they were handed over, and once the pool has stopped no  *)
(* task is running and none starts.  ThreadPool implements this module.    *)
(***************************************************************************)
EXTENDS Sequences, FiniteSets

CONSTANT Tasks

VARIABLES
  queue,      \* tasks handed over and not started, oldest first
  running,    \* tasks being executed
  finished,   \* tasks whose execution has ended
  stopped     \* shutdown has returned

poolVars == <<queue, running, finished, stopped>>

Queued == {queue[i] : i \in DOMAIN queue}

Init ==
  /\ queue = <<>>
  /\ running = {}
  /\ finished = {}
  /\ stopped = FALSE

\* A hand-over that has passed its shutdown test may still land after the stop.
Submit(t) ==
  /\ t \notin Queued \cup running \cup finished
  /\ queue' = Append(queue, t)
  /\ UNCHANGED <<running, finished, stopped>>

Start ==
  /\ ~stopped
  /\ queue # <<>>
  /\ running' = running \cup {Head(queue)}
  /\ queue' = Tail(queue)
  /\ UNCHANGED <<finished, stopped>>

Finish(t) ==
  /\ t \in running
  /\ running' = running \ {t}
  /\ finished' = finished \cup {t}
  /\ UNCHANGED <<queue, stopped>>

Stop ==
  /\ running = {}
  /\ stopped' = TRUE
  /\ UNCHANGED <<queue, running, finished>>

Next ==
  \/ \E t \in Tasks : Submit(t) \/ Finish(t)
  \/ Start
  \/ Stop

Spec == Init /\ [][Next]_poolVars
===============================================================================
