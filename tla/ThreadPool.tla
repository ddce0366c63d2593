------------------------------ MODULE ThreadPool ------------------------------
(***************************************************************************)
(* The thread pool of include/thread_pool.h and src/thread_pool.cpp: a     *)
(* FIFO of tasks under queue_mutex_, workers that sleep on condition_, and *)
(* the flag shutdown_, which is read both with and without the mutex.      *)
(*                                                                         *)
(* A task is a name: what it computes is not modelled, only that its       *)
(* packaged_task ends by storing a value or an exception in its future.    *)
(* A critical section that touches nothing but its own mutex and makes no  *)
(* blocking call is one step guarded by the mutex being free.  A worker    *)
(* holds the mutex over two steps, because condition_.wait evaluates its   *)
(* predicate and goes to sleep in two moves.                               *)
(***************************************************************************)
EXTENDS Naturals, Sequences, FiniteSets

CONSTANTS
  Workers,    \* the threads in workers_
  Producers,  \* threads that call enqueue
  Closer,     \* the thread that calls shutdown (Server::stop, ~ThreadPool)
  Tasks,      \* the tasks ever submitted
  NoThread,   \* the mutex has no owner
  NoTask      \* a thread holds no task

Threads == Workers \cup Producers \cup {Closer}

\* The constructor falls back to 4 threads, so there is always a worker.
ASSUME PoolAssumption ==
  /\ Workers # {} /\ IsFiniteSet(Workers)
  /\ IsFiniteSet(Producers)
  /\ Workers \cap Producers = {}
  /\ Closer \notin Workers \cup Producers
  /\ NoThread \notin Threads
  /\ NoTask \notin Tasks

VARIABLES
  tasks,      \* tasks_: accepted tasks, oldest first
  shutdown,   \* shutdown_
  mutex,      \* owner of queue_mutex_
  pc,         \* where each thread is
  job,        \* the task a producer is handing over or a worker is running
  future      \* what the future of each task shows

vars == <<tasks, shutdown, mutex, pc, job, future>>

WorkerPC == {"loop", "lock", "check", "block", "asleep", "run", "exited"}
ProducerPC == {"idle", "push", "notify"}
CloserPC == {"idle", "store", "notify", "join", "returned"}

Asleep == {w \in Workers : pc[w] = "asleep"}
OnTheWay == {t \in Workers \cup Producers : pc[t] \in {"lock", "check", "notify"}}
Running == {job[w] : w \in {v \in Workers : pc[v] = "run"}}
Queued == {tasks[i] : i \in DOMAIN tasks}

Init ==
  /\ tasks = <<>>
  /\ shutdown = FALSE
  /\ mutex = NoThread
  /\ pc = [t \in Threads |-> IF t \in Workers THEN "loop" ELSE "idle"]
  /\ job = [t \in Workers \cup Producers |-> NoTask]
  /\ future = [t \in Tasks |-> "none"]

-------------------------------------------------------------------------------
(* enqueue *)

\* The shutdown test of enqueue, made without the mutex; the call throws
\* when the pool is already shut down.
EnqueueCheck(p, t) ==
  /\ pc[p] = "idle"
  /\ future[t] = "none"
  /\ \/ /\ shutdown
        /\ future' = [future EXCEPT ![t] = "refused"]
        /\ UNCHANGED <<pc, job>>
     \/ /\ ~shutdown
        /\ future' = [future EXCEPT ![t] = "pending"]
        /\ pc' = [pc EXCEPT ![p] = "push"]
        /\ job' = [job EXCEPT ![p] = t]
  /\ UNCHANGED <<tasks, shutdown, mutex>>

\* Mutant: the task is pushed without taking queue_mutex_.
EnqueuePushUnlocked(p) ==
  /\ pc[p] = "push"
  /\ tasks' = Append(tasks, job[p])
  /\ pc' = [pc EXCEPT ![p] = "notify"]
  /\ job' = [job EXCEPT ![p] = NoTask]
  /\ UNCHANGED <<shutdown, mutex, future>>

\* Mutant: the lock is not released after the push.
EnqueuePushKeepsLock(p) ==
  /\ pc[p] = "push"
  /\ mutex = NoThread
  /\ mutex' = p
  /\ tasks' = Append(tasks, job[p])
  /\ pc' = [pc EXCEPT ![p] = "notify"]
  /\ job' = [job EXCEPT ![p] = NoTask]
  /\ UNCHANGED <<shutdown, future>>

EnqueuePush(p) ==
  /\ pc[p] = "push"
  /\ mutex = NoThread
  /\ tasks' = Append(tasks, job[p])
  /\ pc' = [pc EXCEPT ![p] = "notify"]
  /\ job' = [job EXCEPT ![p] = NoTask]
  /\ UNCHANGED <<shutdown, mutex, future>>

\* Mutant: the notification is forgotten.
EnqueueNotifyForgotten(p) ==
  /\ pc[p] = "notify"
  /\ pc' = [pc EXCEPT ![p] = "idle"]
  /\ UNCHANGED <<tasks, shutdown, mutex, job, future>>

\* notify_one wakes one sleeper, if there is one; a woken worker must take
\* the mutex again before it looks at its predicate.
EnqueueNotify(p) ==
  /\ pc[p] = "notify"
  /\ \/ /\ Asleep = {}
        /\ pc' = [pc EXCEPT ![p] = "idle"]
     \/ \E w \in Asleep :
          pc' = [pc EXCEPT ![p] = "idle", ![w] = "lock"]
  /\ UNCHANGED <<tasks, shutdown, mutex, job, future>>

-------------------------------------------------------------------------------
(* worker_thread *)

WorkerLoop(w) ==
  /\ pc[w] = "loop"
  /\ pc' = [pc EXCEPT ![w] = IF shutdown THEN "exited" ELSE "lock"]
  /\ UNCHANGED <<tasks, shutdown, mutex, job, future>>

WorkerLock(w) ==
  /\ pc[w] = "lock"
  /\ mutex = NoThread
  /\ mutex' = w
  /\ pc' = [pc EXCEPT ![w] = "check"]
  /\ UNCHANGED <<tasks, shutdown, job, future>>

\* Mutant: the task is read but stays in the queue.
WorkerCheckNoPop(w) ==
  /\ pc[w] = "check"
  /\ \/ /\ ~shutdown /\ tasks = <<>>
        /\ pc' = [pc EXCEPT ![w] = "block"]
        /\ UNCHANGED <<tasks, mutex, job>>
     \/ /\ shutdown /\ tasks = <<>>
        /\ pc' = [pc EXCEPT ![w] = "exited"]
        /\ mutex' = NoThread
        /\ UNCHANGED <<tasks, job>>
     \/ /\ tasks # <<>>
        /\ pc' = [pc EXCEPT ![w] = "run"]
        /\ job' = [job EXCEPT ![w] = Head(tasks)]
        /\ mutex' = NoThread
        /\ UNCHANGED tasks
  /\ UNCHANGED <<shutdown, future>>

\* Mutant: the newest task is taken first.
WorkerCheckNewest(w) ==
  /\ pc[w] = "check"
  /\ \/ /\ ~shutdown /\ tasks = <<>>
        /\ pc' = [pc EXCEPT ![w] = "block"]
        /\ UNCHANGED <<tasks, mutex, job>>
     \/ /\ shutdown /\ tasks = <<>>
        /\ pc' = [pc EXCEPT ![w] = "exited"]
        /\ mutex' = NoThread
        /\ UNCHANGED <<tasks, job>>
     \/ /\ tasks # <<>>
        /\ pc' = [pc EXCEPT ![w] = "run"]
        /\ job' = [job EXCEPT ![w] = tasks[Len(tasks)]]
        /\ tasks' = SubSeq(tasks, 1, Len(tasks) - 1)
        /\ mutex' = NoThread
  /\ UNCHANGED <<shutdown, future>>

\* The wait predicate and what follows it under the same lock: nothing to do
\* (the thread is about to sleep), leave for good, or take the oldest task.
WorkerCheck(w) ==
  /\ pc[w] = "check"
  /\ \/ /\ ~shutdown /\ tasks = <<>>
        /\ pc' = [pc EXCEPT ![w] = "block"]
        /\ UNCHANGED <<tasks, mutex, job>>
     \/ /\ shutdown /\ tasks = <<>>
        /\ pc' = [pc EXCEPT ![w] = "exited"]
        /\ mutex' = NoThread
        /\ UNCHANGED <<tasks, job>>
     \/ /\ tasks # <<>>
        /\ pc' = [pc EXCEPT ![w] = "run"]
        /\ job' = [job EXCEPT ![w] = Head(tasks)]
        /\ tasks' = Tail(tasks)
        /\ mutex' = NoThread
  /\ UNCHANGED <<shutdown, future>>

\* condition_.wait releases the mutex and puts the thread to sleep in one move.
WorkerBlock(w) ==
  /\ pc[w] = "block"
  /\ pc' = [pc EXCEPT ![w] = "asleep"]
  /\ mutex' = NoThread
  /\ UNCHANGED <<tasks, shutdown, job, future>>

\* A condition variable may wake a thread that nobody notified.
SpuriousWakeup(w) ==
  /\ pc[w] = "asleep"
  /\ pc' = [pc EXCEPT ![w] = "lock"]
  /\ UNCHANGED <<tasks, shutdown, mutex, job, future>>

\* The packaged_task stores the value or the exception in the future: the
\* worker goes on in either case.
WorkerRun(w) ==
  /\ pc[w] = "run"
  /\ \E result \in {"value", "exception"} :
       future' = [future EXCEPT ![job[w]] = result]
  /\ pc' = [pc EXCEPT ![w] = "loop"]
  /\ job' = [job EXCEPT ![w] = NoTask]
  /\ UNCHANGED <<tasks, shutdown, mutex>>

-------------------------------------------------------------------------------
(* shutdown *)

\* A call that finds shutdown_ set returns at once and changes nothing.
ShutdownCall ==
  /\ pc[Closer] = "idle"
  /\ ~shutdown
  /\ pc' = [pc EXCEPT ![Closer] = "store"]
  /\ UNCHANGED <<tasks, shutdown, mutex, job, future>>

\* Mutant: shutdown_ is set without taking queue_mutex_.
ShutdownStoreUnlocked ==
  /\ pc[Closer] = "store"
  /\ shutdown' = TRUE
  /\ pc' = [pc EXCEPT ![Closer] = "notify"]
  /\ UNCHANGED <<tasks, mutex, job, future>>

ShutdownStore ==
  /\ pc[Closer] = "store"
  /\ mutex = NoThread
  /\ shutdown' = TRUE
  /\ pc' = [pc EXCEPT ![Closer] = "notify"]
  /\ UNCHANGED <<tasks, mutex, job, future>>

ShutdownNotify ==
  /\ pc[Closer] = "notify"
  /\ pc' = [t \in Threads |-> IF t = Closer THEN "join"
                              ELSE IF t \in Asleep THEN "lock" ELSE pc[t]]
  /\ UNCHANGED <<tasks, shutdown, mutex, job, future>>

\* Joining the workers one after the other ends when all of them have left.
ShutdownJoin ==
  /\ pc[Closer] = "join"
  /\ \A w \in Workers : pc[w] = "exited"
  /\ pc' = [pc EXCEPT ![Closer] = "returned"]
  /\ UNCHANGED <<tasks, shutdown, mutex, job, future>>

-------------------------------------------------------------------------------
Enqueue(p) == (\E t \in Tasks : EnqueueCheck(p, t)) \/ EnqueuePush(p) \/ EnqueueNotify(p)

worker_thread(w) ==
  \/ WorkerLoop(w) \/ WorkerLock(w) \/ WorkerCheck(w)
  \/ WorkerBlock(w) \/ SpuriousWakeup(w) \/ WorkerRun(w)

Shutdown == ShutdownCall \/ ShutdownStore \/ ShutdownNotify \/ ShutdownJoin

Next ==
  \/ \E p \in Producers : Enqueue(p)
  \/ \E w \in Workers : worker_thread(w)
  \/ Shutdown

Spec == Init /\ [][Next]_vars

\* A thread that can run is eventually scheduled, tasks end, and the mutex
\* does not pass one waiting thread over for ever.  Nothing obliges anybody
\* to call enqueue or shutdown, and spurious wakeups need never happen.
Fairness ==
  /\ \A w \in Workers :
       /\ WF_vars(WorkerLoop(w) \/ WorkerCheck(w) \/ WorkerBlock(w) \/ WorkerRun(w))
       /\ SF_vars(WorkerLock(w))
  /\ \A p \in Producers : SF_vars(EnqueuePush(p)) /\ WF_vars(EnqueueNotify(p))
  /\ SF_vars(ShutdownStore)
  /\ WF_vars(ShutdownNotify)
  /\ WF_vars(ShutdownJoin)

FairSpec == Spec /\ Fairness

-------------------------------------------------------------------------------
(* Properties *)

TypeOK ==
  /\ tasks \in Seq(Tasks)
  /\ shutdown \in BOOLEAN
  /\ mutex \in Workers \cup {NoThread}
  /\ pc \in [Threads -> WorkerPC \cup ProducerPC \cup CloserPC]
  /\ \A w \in Workers : pc[w] \in WorkerPC
  /\ \A p \in Producers : pc[p] \in ProducerPC
  /\ pc[Closer] \in CloserPC
  /\ job \in [Workers \cup Producers -> Tasks \cup {NoTask}]
  /\ future \in [Tasks -> {"none", "pending", "value", "exception", "refused"}]

\* While some worker sleeps, every queued task has a thread of its own on the
\* way to it: an enqueue about to notify or a worker about to test the predicate.
TasksAttended == Asleep # {} => Len(tasks) <= Cardinality(OnTheWay)

\* While the pool is shut down and a worker sleeps, notify_all is still due.
SleepersCalled == (shutdown /\ Asleep # {}) => pc[Closer] = "notify"

\* No wakeup is lost between a worker's predicate test and its sleep
\* (thread_pool.cpp:55 against thread_pool.h:53-57 and thread_pool.cpp:28-32):
\* no task waits for a busy worker beside one that sleeps, and none sleeps
\* through shutdown.
NoLostWakeup == TasksAttended /\ SleepersCalled

\* Every future that can still become ready has its task in exactly one
\* place: in the hands of an enqueue, once in the queue, or on one worker.
TaskInOnePlace ==
  /\ \A i, j \in DOMAIN tasks : tasks[i] = tasks[j] => i = j
  /\ \A s, t \in Workers \cup Producers : (job[s] = job[t] /\ job[s] # NoTask) => s = t
  /\ \A t \in Workers \cup Producers : job[t] \notin Queued
  /\ \A t \in Tasks :
       future[t] = "pending" <=> t \in Queued \cup {job[s] : s \in Workers \cup Producers}

\* The pool implements the abstract task pool: FIFO start order, at most one
\* execution, and neither a running nor a starting task once shutdown returned.
Pool == INSTANCE TaskPool WITH
  queue <- tasks,
  running <- Running,
  finished <- {t \in Tasks : future[t] \in {"value", "exception"}},
  stopped <- pc[Closer] = "returned"

ImplementsTaskPool == Pool!Spec

\* shutdown returns: every worker leaves its sleep or its task and exits
\* (thread_pool.cpp:34-38 joins them all).
ShutdownReturns == (pc[Closer] = "store") ~> (pc[Closer] = "returned")

\* A queued task is started unless the pool is shut down first: no schedule of
\* workers and producers leaves a task waiting beside sleeping workers.
QueuedTaskStarts == \A t \in Tasks : (t \in Queued) ~> (t \notin Queued \/ shutdown)
===============================================================================
