--------------------------- MODULE ThreadPoolProofs ---------------------------
(***************************************************************************)
(* Proofs about ThreadPool, for every set of workers, producers and tasks. *)
(*                                                                         *)
(* NoLostWakeup is not inductive: it needs to know that a worker between   *)
(* its predicate test and its sleep owns queue_mutex_ (LockDiscipline), so *)
(* that neither a push nor the store to shutdown_ can come in between, and *)
(* that its test is therefore still true when it falls asleep              *)
(* (TestStillTrue).  That every queued task is attended is then a matter   *)
(* of counting: a push adds a task and a notifier, a notification replaces *)
(* the notifier by a woken worker, and a worker that leaves takes a task.  *)
(***************************************************************************)
EXTENDS ThreadPool, FiniteSetTheorems, TLAPS

-------------------------------------------------------------------------------
(* Type correctness *)

\* Init and every step of the code keep the variables in their types; a worker
\* that finishes a task has one (JobWhenRunning), so the future it completes
\* exists.
JobWhenRunning ==
  /\ \A w \in Workers : pc[w] = "run" => job[w] \in Tasks
  /\ \A p \in Producers : pc[p] = "push" => job[p] \in Tasks

TypeInv == TypeOK /\ JobWhenRunning

\* The initial state of the pool is well typed.
LEMMA TypeInit == Init => TypeInv
<1> SUFFICES ASSUME Init PROVE TypeInv
  OBVIOUS
<1> USE PoolAssumption DEF Init, Threads, WorkerPC, ProducerPC, CloserPC
<1>0. shutdown \in BOOLEAN
  BY Zenon
<1>1. tasks \in Seq(Tasks) /\ mutex \in Workers \cup {NoThread}
  OBVIOUS
<1>2. /\ pc \in [Threads -> WorkerPC \cup ProducerPC \cup CloserPC]
      /\ \A w \in Workers : pc[w] = "loop"
      /\ \A p \in Producers : pc[p] = "idle"
      /\ pc[Closer] = "idle"
  OBVIOUS
<1>3. job \in [Workers \cup Producers -> Tasks \cup {NoTask}]
  OBVIOUS
<1>4. future \in [Tasks -> {"none", "pending", "value", "exception", "refused"}]
  OBVIOUS
<1> QED
  BY <1>0, <1>1, <1>2, <1>3, <1>4 DEF TypeInv, TypeOK, JobWhenRunning

\* Every step of enqueue, worker_thread and shutdown keeps it well typed.
LEMMA TypeStep == TypeInv /\ [Next]_vars => TypeInv'
<1> SUFFICES ASSUME TypeInv, [Next]_vars PROVE TypeInv'
  OBVIOUS
<1> USE PoolAssumption DEF TypeInv, TypeOK, JobWhenRunning, Threads,
     WorkerPC, ProducerPC, CloserPC
<1>1. ASSUME NEW p \in Producers, NEW t \in Tasks, EnqueueCheck(p, t) PROVE TypeInv'
  BY <1>1 DEF EnqueueCheck
<1>2. ASSUME NEW p \in Producers, EnqueuePush(p) PROVE TypeInv'
  BY <1>2 DEF EnqueuePush
<1>3. ASSUME NEW p \in Producers, EnqueueNotify(p) PROVE TypeInv'
  BY <1>3 DEF EnqueueNotify, Asleep
<1>4. ASSUME NEW w \in Workers, WorkerLoop(w) PROVE TypeInv'
  BY <1>4 DEF WorkerLoop
<1>5. ASSUME NEW w \in Workers, WorkerLock(w) PROVE TypeInv'
  BY <1>5 DEF WorkerLock
<1>6. ASSUME NEW w \in Workers, WorkerCheck(w) PROVE TypeInv'
  <2>1. CASE ~shutdown /\ tasks = <<>>
    BY <1>6, <2>1 DEF WorkerCheck
  <2>2. CASE shutdown /\ tasks = <<>>
    BY <1>6, <2>2 DEF WorkerCheck
  <2>3. CASE tasks # <<>>
    <3>1. Head(tasks) \in Tasks /\ Tail(tasks) \in Seq(Tasks)
      BY <2>3
    <3>2. /\ pc' = [pc EXCEPT ![w] = "run"]
          /\ job' = [job EXCEPT ![w] = Head(tasks)]
          /\ tasks' = Tail(tasks)
          /\ mutex' = NoThread
          /\ UNCHANGED <<shutdown, future>>
      BY <1>6, <2>3 DEF WorkerCheck
    <3> QED
      BY <3>1, <3>2
  <2> QED
    BY <2>1, <2>2, <2>3
<1>7. ASSUME NEW w \in Workers, WorkerBlock(w) PROVE TypeInv'
  BY <1>7 DEF WorkerBlock
<1>8. ASSUME NEW w \in Workers, SpuriousWakeup(w) PROVE TypeInv'
  BY <1>8 DEF SpuriousWakeup
<1>9. ASSUME NEW w \in Workers, WorkerRun(w) PROVE TypeInv'
  BY <1>9 DEF WorkerRun
<1>10. CASE ShutdownCall
  BY <1>10 DEF ShutdownCall
<1>11. CASE ShutdownStore
  BY <1>11 DEF ShutdownStore
<1>12. CASE ShutdownNotify
  BY <1>12 DEF ShutdownNotify, Asleep
<1>13. CASE ShutdownJoin
  BY <1>13 DEF ShutdownJoin
<1>14. CASE UNCHANGED vars
  BY <1>14 DEF vars
<1> QED
  BY <1>1, <1>2, <1>3, <1>4, <1>5, <1>6, <1>7, <1>8, <1>9, <1>10, <1>11,
     <1>12, <1>13, <1>14 DEF Next, Enqueue, worker_thread, Shutdown

\* The pool's variables keep their types in every behaviour.
THEOREM TypeCorrect == Spec => []TypeOK
<1>1. Spec => []TypeInv
  BY TypeInit, TypeStep, PTL DEF Spec
<1>2. TypeInv => TypeOK
  BY DEF TypeInv
<1> QED
  BY <1>1, <1>2, PTL

-------------------------------------------------------------------------------
(* No wakeup is lost *)

\* queue_mutex_ belongs to the worker that is between testing its predicate
\* and sleeping, and to nobody else for longer than a step.
LockDiscipline == \A w \in Workers : (pc[w] \in {"check", "block"}) <=> (mutex = w)

\* A worker about to sleep found no task and no shutdown, and neither has
\* come since.
TestStillTrue == \A w \in Workers : pc[w] = "block" => (tasks = <<>> /\ ~shutdown)

\* shutdown_ is set by the store of shutdown and by nothing else.
ShutdownPhase == shutdown <=> (pc[Closer] \in {"notify", "join", "returned"})

LockInv == TypeInv /\ LockDiscipline /\ TestStillTrue /\ ShutdownPhase /\ SleepersCalled

\* No worker sleeps and nobody owns the mutex when the pool is constructed.
LEMMA LockInit == Init => LockInv
<1> SUFFICES ASSUME Init PROVE LockInv
  OBVIOUS
<1>1. /\ tasks = <<>> /\ mutex = NoThread
      /\ \A w \in Workers : pc[w] = "loop"
      /\ pc[Closer] = "idle"
  BY PoolAssumption DEF Init, Threads
<1>2. ~shutdown
  BY DEF Init
<1>3. TypeInv
  BY TypeInit
<1>4. LockDiscipline /\ TestStillTrue
  BY <1>1, PoolAssumption DEF LockDiscipline, TestStillTrue, Threads
<1>5. ShutdownPhase
  BY <1>1, <1>2 DEF ShutdownPhase
<1>6. SleepersCalled
  BY <1>2 DEF SleepersCalled
<1> QED
  BY <1>3, <1>4, <1>5, <1>6 DEF LockInv

\* Every step of the pool keeps it: a push or a store to shutdown_ finds no
\* worker between test and sleep, and whoever made it has yet to notify.
LEMMA LockStep == LockInv /\ [Next]_vars => LockInv'
<1> SUFFICES ASSUME LockInv, [Next]_vars PROVE LockInv'
  OBVIOUS
<1>0. TypeInv'
  BY TypeStep DEF LockInv
<1> DEFINE Rest == LockDiscipline /\ TestStillTrue /\ ShutdownPhase /\ SleepersCalled
<1> SUFFICES Rest'
  BY <1>0 DEF LockInv
<1> USE PoolAssumption DEF LockInv, TypeInv, TypeOK, Threads, LockDiscipline,
     TestStillTrue, ShutdownPhase, SleepersCalled, Asleep, WorkerPC, ProducerPC, CloserPC
<1>1. ASSUME NEW p \in Producers, NEW t \in Tasks, EnqueueCheck(p, t) PROVE Rest'
  BY <1>1 DEF EnqueueCheck
<1>2. ASSUME NEW p \in Producers, EnqueuePush(p) PROVE Rest'
  BY <1>2 DEF EnqueuePush
<1>3. ASSUME NEW p \in Producers, EnqueueNotify(p) PROVE Rest'
  BY <1>3 DEF EnqueueNotify
<1>4. ASSUME NEW w \in Workers, WorkerLoop(w) PROVE Rest'
  BY <1>4 DEF WorkerLoop
<1>5. ASSUME NEW w \in Workers, WorkerLock(w) PROVE Rest'
  BY <1>5 DEF WorkerLock
<1>6. ASSUME NEW w \in Workers, WorkerCheck(w) PROVE Rest'
  BY <1>6 DEF WorkerCheck
<1>7. ASSUME NEW w \in Workers, WorkerBlock(w) PROVE Rest'
  BY <1>7 DEF WorkerBlock
<1>8. ASSUME NEW w \in Workers, SpuriousWakeup(w) PROVE Rest'
  BY <1>8 DEF SpuriousWakeup
<1>9. ASSUME NEW w \in Workers, WorkerRun(w) PROVE Rest'
  BY <1>9 DEF WorkerRun
<1>10. CASE ShutdownCall
  BY <1>10 DEF ShutdownCall
<1>11. CASE ShutdownStore
  BY <1>11 DEF ShutdownStore
<1>12. CASE ShutdownNotify
  BY <1>12 DEF ShutdownNotify
<1>13. CASE ShutdownJoin
  BY <1>13 DEF ShutdownJoin
<1>14. CASE UNCHANGED vars
  BY <1>14 DEF vars
<1> QED
  BY <1>1, <1>2, <1>3, <1>4, <1>5, <1>6, <1>7, <1>8, <1>9, <1>10, <1>11, <1>12, <1>13, <1>14
     DEF Next, Enqueue, worker_thread, Shutdown

\* The threads on the way to a task can be counted.
LEMMA OnTheWayFinite == IsFiniteSet(OnTheWay) /\ Cardinality(OnTheWay) \in Nat
<1>1. IsFiniteSet(Workers \cup Producers)
  BY PoolAssumption, FS_Union
<1>2. OnTheWay \in SUBSET (Workers \cup Producers)
  BY DEF OnTheWay
<1> QED
  BY <1>1, <1>2, FS_Subset, FS_CardinalityType

\* Every step keeps each queued task attended.
LEMMA AttendStep == LockInv /\ TasksAttended /\ [Next]_vars => TasksAttended'
<1> SUFFICES ASSUME LockInv, TasksAttended, [Next]_vars PROVE TasksAttended'
  OBVIOUS
<1>0. IsFiniteSet(OnTheWay) /\ Cardinality(OnTheWay) \in Nat
  BY OnTheWayFinite
<1> DEFINE n == Cardinality(OnTheWay)
<1> USE PoolAssumption DEF LockInv, TypeInv, TypeOK, Threads, WorkerPC, ProducerPC, CloserPC
<1>a. ASSUME tasks' = tasks, Asleep' = Asleep, OnTheWay' = OnTheWay PROVE TasksAttended'
  BY <1>a DEF TasksAttended
<1>1. ASSUME NEW p \in Producers, NEW t \in Tasks, EnqueueCheck(p, t) PROVE TasksAttended'
  <2>1. tasks' = tasks /\ Asleep' = Asleep /\ OnTheWay' = OnTheWay
    BY <1>1 DEF EnqueueCheck, Asleep, OnTheWay
  <2> QED
    BY <2>1, <1>a
<1>2. ASSUME NEW p \in Producers, EnqueuePush(p) PROVE TasksAttended'
  <2>1. Asleep' = Asleep /\ p \notin OnTheWay /\ OnTheWay' = OnTheWay \cup {p}
    BY <1>2 DEF EnqueuePush, Asleep, OnTheWay
  <2>2. Len(tasks') = Len(tasks) + 1 /\ Len(tasks) \in Nat
    BY <1>2 DEF EnqueuePush, JobWhenRunning
  <2>3. Cardinality(OnTheWay') = n + 1
    BY <2>1, <1>0, FS_AddElement
  <2> HIDE DEF n
  <2> QED
    BY <2>1, <2>2, <2>3, <1>0 DEF TasksAttended, n
<1>3. ASSUME NEW p \in Producers, EnqueueNotify(p) PROVE TasksAttended'
  <2>1. CASE Asleep = {}
    <3>1. Asleep' = {}
      BY <1>3, <2>1 DEF EnqueueNotify, Asleep
    <3> QED
      BY <3>1 DEF TasksAttended
  <2>2. CASE Asleep # {}
    <3>1. PICK w \in Asleep : pc' = [pc EXCEPT ![p] = "idle", ![w] = "lock"]
      BY <1>3, <2>2 DEF EnqueueNotify
    <3> DEFINE Without == OnTheWay \ {p}
    <3>2. p \in OnTheWay /\ w \notin OnTheWay /\ w # p
      BY <1>3, <3>1 DEF EnqueueNotify, Asleep, OnTheWay
    <3>3. OnTheWay' = Without \cup {w}
      BY <1>3, <3>1 DEF Asleep, OnTheWay
    <3>4. IsFiniteSet(Without) /\ Cardinality(Without) = n - 1
      BY <3>2, <1>0, FS_RemoveElement
    <3>5. Cardinality(OnTheWay') = Cardinality(Without) + 1
      <4>1. w \notin Without
        BY <3>2
      <4> HIDE DEF Without
      <4> QED
        BY <4>1, <3>3, <3>4, FS_AddElement
    <3>6. tasks' = tasks
      BY <1>3 DEF EnqueueNotify
    <3> HIDE DEF Without
    <3> QED
      BY <3>4, <3>5, <3>6, <2>2, <1>0 DEF TasksAttended
  <2> QED
    BY <2>1, <2>2
<1>4. ASSUME NEW w \in Workers, WorkerLoop(w) PROVE TasksAttended'
  <2>1. tasks' = tasks /\ Asleep' = Asleep
    BY <1>4 DEF WorkerLoop, Asleep
  <2>2. OnTheWay' = OnTheWay \/ OnTheWay' = OnTheWay \cup {w}
    BY <1>4 DEF WorkerLoop, OnTheWay
  <2>3. n <= Cardinality(OnTheWay')
    <3>1. Cardinality(OnTheWay \cup {w}) = IF w \in OnTheWay THEN n ELSE n + 1
      BY <1>0, FS_AddElement
    <3>2. CASE OnTheWay' = OnTheWay
      BY <3>2, <1>0
    <3>3. CASE OnTheWay' = OnTheWay \cup {w}
      BY <3>3, <3>1, <1>0
    <3> QED
      BY <3>2, <3>3, <2>2
  <2>4. Len(tasks) \in Nat
    OBVIOUS
  <2>5. Cardinality(OnTheWay') \in Nat
    BY <2>2, <1>0, FS_AddElement, FS_CardinalityType
  <2> QED
    BY <2>1, <2>3, <2>4, <2>5, <1>0 DEF TasksAttended
<1>5. ASSUME NEW w \in Workers, WorkerLock(w) PROVE TasksAttended'
  <2>1. tasks' = tasks /\ Asleep' = Asleep /\ OnTheWay' = OnTheWay
    BY <1>5 DEF WorkerLock, Asleep, OnTheWay
  <2> QED
    BY <2>1, <1>a
<1>6. ASSUME NEW w \in Workers, WorkerCheck(w) PROVE TasksAttended'
  <2>1. CASE tasks = <<>>
    <3>1. Len(tasks') = 0
      BY <1>6, <2>1 DEF WorkerCheck
    <3>2. Cardinality(OnTheWay') \in Nat
      <4>1. OnTheWay' = OnTheWay \ {w}
        BY <1>6, <2>1 DEF WorkerCheck, OnTheWay
      <4> QED
        BY <4>1, <1>0, FS_RemoveElement, FS_CardinalityType
    <3> QED
      BY <3>1, <3>2 DEF TasksAttended
  <2>2. CASE tasks # <<>>
    <3>1. Asleep' = Asleep /\ w \in OnTheWay /\ OnTheWay' = OnTheWay \ {w}
      BY <1>6, <2>2 DEF WorkerCheck, Asleep, OnTheWay
    <3>2. Cardinality(OnTheWay') = n - 1
      BY <3>1, <1>0, FS_RemoveElement
    <3>3. Len(tasks') = Len(tasks) - 1 /\ Len(tasks) \in Nat
      BY <1>6, <2>2 DEF WorkerCheck
    <3> QED
      BY <3>1, <3>2, <3>3, <1>0 DEF TasksAttended
  <2> QED
    BY <2>1, <2>2
<1>7. ASSUME NEW w \in Workers, WorkerBlock(w) PROVE TasksAttended'
  <2>1. tasks' = <<>>
    BY <1>7 DEF WorkerBlock, TestStillTrue
  <2>2. OnTheWay' = OnTheWay
    BY <1>7 DEF WorkerBlock, OnTheWay
  <2> QED
    BY <2>1, <2>2, <1>0 DEF TasksAttended
<1>8. ASSUME NEW w \in Workers, SpuriousWakeup(w) PROVE TasksAttended'
  <2>1. tasks' = tasks /\ Asleep # {} /\ w \notin OnTheWay /\ OnTheWay' = OnTheWay \cup {w}
    BY <1>8 DEF SpuriousWakeup, Asleep, OnTheWay
  <2>2. Cardinality(OnTheWay') = n + 1
    BY <2>1, <1>0, FS_AddElement
  <2>3. Len(tasks) \in Nat
    OBVIOUS
  <2> QED
    BY <2>1, <2>2, <2>3, <1>0 DEF TasksAttended
<1>9. ASSUME NEW w \in Workers, WorkerRun(w) PROVE TasksAttended'
  <2>1. tasks' = tasks /\ Asleep' = Asleep /\ OnTheWay' = OnTheWay
    BY <1>9 DEF WorkerRun, Asleep, OnTheWay
  <2> QED
    BY <2>1, <1>a
<1>10. CASE ShutdownCall \/ ShutdownStore \/ ShutdownJoin
  <2>1. tasks' = tasks /\ Asleep' = Asleep /\ OnTheWay' = OnTheWay
    BY <1>10 DEF ShutdownCall, ShutdownStore, ShutdownJoin, Asleep, OnTheWay
  <2> QED
    BY <2>1, <1>a
<1>11. CASE ShutdownNotify
  <2>1. Asleep' = {}
    BY <1>11 DEF ShutdownNotify, Asleep
  <2> QED
    BY <2>1 DEF TasksAttended
<1>12. CASE UNCHANGED vars
  BY <1>12, <1>a DEF vars, Asleep, OnTheWay
<1> QED
  BY <1>1, <1>2, <1>3, <1>4, <1>5, <1>6, <1>7, <1>8, <1>9, <1>10, <1>11, <1>12
     DEF Next, Enqueue, worker_thread, Shutdown

\* Whatever the number of workers, producers and tasks, no interleaving loses a
\* notification of enqueue or shutdown.
THEOREM NoWakeupIsLost == Spec => []NoLostWakeup
<1>1. Init => TasksAttended
  BY PoolAssumption DEF Init, TasksAttended, Asleep, Threads
<1>2. Spec => [](LockInv /\ TasksAttended)
  BY <1>1, LockInit, LockStep, AttendStep, PTL DEF Spec
<1>3. LockInv /\ TasksAttended => NoLostWakeup
  BY DEF LockInv, NoLostWakeup
<1> QED
  BY <1>2, <1>3, PTL

-------------------------------------------------------------------------------
(* A task is in one place *)

\* A thread holds a task only while it hands it over or runs it.
FreeHands ==
  /\ \A w \in Workers : pc[w] # "run" => job[w] = NoTask
  /\ \A p \in Producers : pc[p] # "push" => job[p] = NoTask

PlaceInv == TypeInv /\ FreeHands /\ TaskInOnePlace

\* Appending adds the new element to the elements of a sequence, at its end.
LEMMA AppendElements ==
  ASSUME NEW s \in Seq(Tasks), NEW t \in Tasks
  PROVE  LET r == Append(s, t)
         IN  /\ {r[i] : i \in DOMAIN r} = {s[i] : i \in DOMAIN s} \cup {t}
             /\ DOMAIN r = DOMAIN s \cup {Len(s) + 1}
             /\ \A i \in DOMAIN s : r[i] = s[i] /\ i # Len(s) + 1
             /\ r[Len(s) + 1] = t
<1> DEFINE r == Append(s, t)
<1>1. /\ DOMAIN r = DOMAIN s \cup {Len(s) + 1}
      /\ \A i \in DOMAIN s : r[i] = s[i] /\ i # Len(s) + 1
      /\ r[Len(s) + 1] = t
  OBVIOUS
<1> HIDE DEF r
<1>2. {r[i] : i \in DOMAIN r} = {s[i] : i \in DOMAIN s} \cup {t}
  BY <1>1
<1> QED
  BY <1>1, <1>2 DEF r

\* The tail of a sequence without repetitions has every element but the head.
LEMMA TailElements ==
  ASSUME NEW s \in Seq(Tasks), s # <<>>,
         \A i, j \in DOMAIN s : s[i] = s[j] => i = j
  PROVE  LET r == Tail(s)
         IN  /\ {r[i] : i \in DOMAIN r} = {s[i] : i \in DOMAIN s} \ {Head(s)}
             /\ \A i, j \in DOMAIN r : r[i] = r[j] => i = j
             /\ Head(s) \in {s[i] : i \in DOMAIN s}
<1> DEFINE r == Tail(s)
<1>1. /\ Len(s) \in Nat \ {0} /\ DOMAIN s = 1..Len(s) /\ Head(s) = s[1]
      /\ DOMAIN r = 1..(Len(s) - 1)
      /\ \A i \in DOMAIN r : r[i] = s[i + 1] /\ i + 1 \in DOMAIN s
  OBVIOUS
<1> HIDE DEF r
<1>2. \A i, j \in DOMAIN r : r[i] = r[j] => i = j
  BY <1>1
<1>3. ASSUME NEW i \in DOMAIN s, s[i] # Head(s)
      PROVE  s[i] \in {r[k] : k \in DOMAIN r}
  <2>1. i - 1 \in DOMAIN r /\ r[i - 1] = s[i]
    BY <1>1, <1>3
  <2> QED
    BY <2>1
<1>4. ASSUME NEW i \in DOMAIN r
      PROVE  r[i] \in {s[k] : k \in DOMAIN s} \ {Head(s)}
  BY <1>1
<1>5. Head(s) \in {s[k] : k \in DOMAIN s}
  BY <1>1
<1> QED
  BY <1>2, <1>3, <1>4, <1>5 DEF r

\* Nothing is held or queued when the pool is constructed.
LEMMA PlaceInit == Init => PlaceInv
<1> SUFFICES ASSUME Init PROVE PlaceInv
  OBVIOUS
<1>1. TypeInv
  BY TypeInit
<1>2. FreeHands
  BY DEF Init, FreeHands
<1>3. Queued = {}
  BY DEF Init, Queued
<1>4. TaskInOnePlace
  BY <1>3, PoolAssumption DEF Init, TaskInOnePlace
<1> QED
  BY <1>1, <1>2, <1>4 DEF PlaceInv

\* Every step keeps each pending task in one place.
LEMMA PlaceStep == PlaceInv /\ [Next]_vars => PlaceInv'
<1> SUFFICES ASSUME PlaceInv, [Next]_vars PROVE PlaceInv'
  OBVIOUS
<1>0. TypeInv'
  BY TypeStep DEF PlaceInv
<1> DEFINE Goal == FreeHands /\ TaskInOnePlace
<1> SUFFICES Goal'
  BY <1>0 DEF PlaceInv
<1> USE PoolAssumption DEF PlaceInv, TypeInv, TypeOK, Threads, WorkerPC, ProducerPC, CloserPC
<1>a. ASSUME tasks' = tasks, job' = job, future' = future,
             \A w \in Workers : pc'[w] = "run" <=> pc[w] = "run",
             \A p \in Producers : pc'[p] = "push" <=> pc[p] = "push"
      PROVE  Goal'
  BY <1>a DEF FreeHands, TaskInOnePlace, Queued
<1>1. ASSUME NEW p \in Producers, NEW t \in Tasks, EnqueueCheck(p, t) PROVE Goal'
  BY <1>1 DEF EnqueueCheck, FreeHands, TaskInOnePlace, Queued
<1>2. ASSUME NEW p \in Producers, EnqueuePush(p) PROVE Goal'
  <2>1. job[p] \in Tasks /\ job[p] \notin Queued
    BY <1>2 DEF EnqueuePush, JobWhenRunning, TaskInOnePlace
  <2>2. tasks' = Append(tasks, job[p]) /\ job' = [job EXCEPT ![p] = NoTask] /\ future' = future
    BY <1>2 DEF EnqueuePush
  <2>3. /\ Queued' = Queued \cup {job[p]}
        /\ DOMAIN tasks' = DOMAIN tasks \cup {Len(tasks) + 1}
        /\ \A i \in DOMAIN tasks : tasks'[i] = tasks[i] /\ i # Len(tasks) + 1
        /\ tasks'[Len(tasks) + 1] = job[p]
    BY <2>1, <2>2, AppendElements DEF Queued
  <2>4. \A i, j \in DOMAIN tasks' : tasks'[i] = tasks'[j] => i = j
    BY <2>1, <2>3 DEF TaskInOnePlace, Queued
  <2>5. FreeHands'
    BY <1>2 DEF EnqueuePush, FreeHands
  <2>6. /\ \A s, t \in Workers \cup Producers :
              (job'[s] = job'[t] /\ job'[s] # NoTask) => s = t
        /\ \A t \in Workers \cup Producers : job'[t] \notin Queued'
    <3>1. NoTask \notin Queued
      BY DEF Queued
    <3> QED
      BY <2>1, <2>2, <2>3, <3>1 DEF TaskInOnePlace
  <2>7. \A t \in Tasks : future'[t] = "pending" <=>
          t \in Queued' \cup {job'[s] : s \in Workers \cup Producers}
    BY <2>1, <2>2, <2>3 DEF TaskInOnePlace
  <2> QED
    BY <2>4, <2>5, <2>6, <2>7 DEF TaskInOnePlace
<1>3. ASSUME NEW p \in Producers, EnqueueNotify(p) PROVE Goal'
  BY <1>3, <1>a DEF EnqueueNotify, Asleep
<1>4. ASSUME NEW w \in Workers, WorkerLoop(w) PROVE Goal'
  BY <1>4, <1>a DEF WorkerLoop
<1>5. ASSUME NEW w \in Workers, WorkerLock(w) PROVE Goal'
  BY <1>5, <1>a DEF WorkerLock
<1>6. ASSUME NEW w \in Workers, WorkerCheck(w) PROVE Goal'
  <2>1. CASE tasks = <<>>
    BY <1>6, <2>1, <1>a DEF WorkerCheck
  <2>2. CASE tasks # <<>>
    <3> DEFINE h == Head(tasks)
    <3>1. /\ pc' = [pc EXCEPT ![w] = "run"] /\ job' = [job EXCEPT ![w] = h]
          /\ tasks' = Tail(tasks) /\ future' = future
      BY <1>6, <2>2 DEF WorkerCheck
    <3>2. job[w] = NoTask
      BY <1>6 DEF WorkerCheck, FreeHands
    <3>a. /\ tasks \in Seq(Tasks) /\ tasks # <<>>
          /\ \A i, j \in DOMAIN tasks : tasks[i] = tasks[j] => i = j
      BY <2>2 DEF TaskInOnePlace
    <3>b. h \in Tasks
      BY <2>2
    <3> HIDE DEF PlaceInv, TypeInv, TypeOK
    <3>c. /\ {Tail(tasks)[i] : i \in DOMAIN Tail(tasks)} = {tasks[i] : i \in DOMAIN tasks} \ {h}
          /\ h \in {tasks[i] : i \in DOMAIN tasks}
      BY <3>a, TailElements, Zenon
    <3>3. h \in Queued /\ Queued' = Queued \ {h}
      BY <3>1, <3>c, Zenon DEF Queued
    <3>4. \A i, j \in DOMAIN tasks' : tasks'[i] = tasks'[j] => i = j
      BY <3>a, <3>1, TailElements
    <3> USE DEF PlaceInv, TypeInv, TypeOK
    <3> HIDE DEF h
    <3>5. FreeHands'
      BY <3>1 DEF FreeHands
    <3>6. /\ \A s, t \in Workers \cup Producers :
                (job'[s] = job'[t] /\ job'[s] # NoTask) => s = t
          /\ \A t \in Workers \cup Producers : job'[t] \notin Queued'
      BY <3>1, <3>2, <3>b, <3>3 DEF TaskInOnePlace
    <3>7. \A t \in Tasks : future'[t] = "pending" <=>
            t \in Queued' \cup {job'[s] : s \in Workers \cup Producers}
      BY <3>1, <3>2, <3>b, <3>3 DEF TaskInOnePlace
    <3> QED
      BY <3>4, <3>5, <3>6, <3>7 DEF TaskInOnePlace
  <2> QED
    BY <2>1, <2>2
<1>7. ASSUME NEW w \in Workers, WorkerBlock(w) PROVE Goal'
  BY <1>7, <1>a DEF WorkerBlock
<1>8. ASSUME NEW w \in Workers, SpuriousWakeup(w) PROVE Goal'
  BY <1>8, <1>a DEF SpuriousWakeup
<1>9. ASSUME NEW w \in Workers, WorkerRun(w) PROVE Goal'
  BY <1>9 DEF WorkerRun, JobWhenRunning, FreeHands, TaskInOnePlace, Queued
<1>10. CASE ShutdownCall \/ ShutdownStore \/ ShutdownJoin
  BY <1>10, <1>a DEF ShutdownCall, ShutdownStore, ShutdownJoin
<1>11. CASE ShutdownNotify
  BY <1>11, <1>a DEF ShutdownNotify, Asleep
<1>12. CASE UNCHANGED vars
  BY <1>12, <1>a DEF vars
<1> QED
  BY <1>1, <1>2, <1>3, <1>4, <1>5, <1>6, <1>7, <1>8, <1>9, <1>10, <1>11, <1>12
     DEF Next, Enqueue, worker_thread, Shutdown

\* No task is lost, duplicated or run by two workers, whatever the number of
\* threads: a future is pending exactly while its task is in one place.
THEOREM TaskStaysInOnePlace == Spec => []TaskInOnePlace
<1>1. Spec => []PlaceInv
  BY PlaceInit, PlaceStep, PTL DEF Spec
<1>2. PlaceInv => TaskInOnePlace
  BY DEF PlaceInv
<1> QED
  BY <1>1, <1>2, PTL

-------------------------------------------------------------------------------
(* The pool implements TaskPool *)

\* shutdown returns only after it has joined every worker, and an exited worker
\* stays where it is.
JoinedAll == pc[Closer] = "returned" => \A w \in Workers : pc[w] = "exited"

RefInv == PlaceInv /\ JoinedAll

\* Nobody leaves "exited", and shutdown waits for all of them.
LEMMA JoinedStep == PlaceInv /\ JoinedAll /\ [Next]_vars => JoinedAll'
<1> SUFFICES ASSUME PlaceInv, JoinedAll, [Next]_vars PROVE JoinedAll'
  OBVIOUS
<1> USE PoolAssumption DEF PlaceInv, TypeInv, TypeOK, Threads, JoinedAll
<1>1. ASSUME NEW p \in Producers, Enqueue(p) PROVE JoinedAll'
  BY <1>1 DEF Enqueue, EnqueueCheck, EnqueuePush, EnqueueNotify, Asleep
<1>2. ASSUME NEW w \in Workers, worker_thread(w) PROVE JoinedAll'
  BY <1>2 DEF worker_thread, WorkerLoop, WorkerLock, WorkerCheck, WorkerBlock,
     SpuriousWakeup, WorkerRun
<1>3. CASE Shutdown
  BY <1>3 DEF Shutdown, ShutdownCall, ShutdownStore, ShutdownNotify, ShutdownJoin, Asleep
<1>4. CASE UNCHANGED vars
  BY <1>4 DEF vars
<1> QED
  BY <1>1, <1>2, <1>3, <1>4 DEF Next

\* A freshly constructed pool is an empty abstract pool.
LEMMA RefInit == Init => Pool!Init
<1> SUFFICES ASSUME Init PROVE Pool!Init
  OBVIOUS
<1>1. tasks = <<>>
  BY DEF Init
<1>2. Running = {}
  BY PoolAssumption DEF Init, Running, Threads
<1>3. {t \in Tasks : future[t] \in {"value", "exception"}} = {}
  BY DEF Init
<1>4. (pc[Closer] = "returned") = FALSE
  BY PoolAssumption DEF Init, Threads
<1> QED
  BY <1>1, <1>2, <1>3, <1>4 DEF Pool!Init

\* The push of enqueue submits, the pop of a worker starts, the end of a task
\* finishes, the end of shutdown stops, and every other step changes nothing.
LEMMA RefStep == RefInv /\ [Next]_vars => [Pool!Next]_(Pool!poolVars)
<1> SUFFICES ASSUME RefInv, [Next]_vars PROVE [Pool!Next]_(Pool!poolVars)
  OBVIOUS
<1> DEFINE Finished == {t \in Tasks : future[t] \in {"value", "exception"}}
           Stopped == pc[Closer] = "returned"
<1> USE PoolAssumption DEF RefInv, PlaceInv, TypeInv, TypeOK, Threads
<1>a. ASSUME tasks' = tasks, Running' = Running, Finished' = Finished, Stopped' = Stopped
      PROVE  [Pool!Next]_(Pool!poolVars)
  BY <1>a DEF Pool!poolVars
<1>b. ASSUME tasks' = tasks, job' = job, future' = future,
             \A w \in Workers : pc'[w] = "run" <=> pc[w] = "run", pc'[Closer] = pc[Closer]
      PROVE  [Pool!Next]_(Pool!poolVars)
  BY <1>a, <1>b DEF Running
<1>1. ASSUME NEW p \in Producers, NEW t \in Tasks, EnqueueCheck(p, t)
      PROVE  [Pool!Next]_(Pool!poolVars)
  <2>1. Running' = Running
    BY <1>1 DEF EnqueueCheck, Running
  <2>2. Finished' = Finished /\ tasks' = tasks /\ pc'[Closer] = pc[Closer]
    BY <1>1 DEF EnqueueCheck
  <2> QED
    BY <2>1, <2>2, <1>a
<1>2. ASSUME NEW p \in Producers, EnqueuePush(p) PROVE [Pool!Next]_(Pool!poolVars)
  <2>1. job[p] \in Tasks /\ job[p] \notin Queued /\ job[p] \notin Finished
    BY <1>2 DEF EnqueuePush, JobWhenRunning, TaskInOnePlace
  <2>2. job[p] \notin Running
    BY <2>1 DEF Running, TaskInOnePlace
  <2>3. tasks' = Append(tasks, job[p])
    BY <1>2 DEF EnqueuePush
  <2>4. Running' = Running
    BY <1>2 DEF EnqueuePush, Running
  <2>5. Finished' = Finished /\ pc'[Closer] = pc[Closer]
    BY <1>2 DEF EnqueuePush
  <2>6. PICK t \in Tasks : t = job[p]
    BY <2>1
  <2>7. Pool!Submit(t)
    BY <2>1, <2>2, <2>3, <2>4, <2>5, <2>6 DEF Pool!Submit, Pool!Queued, Queued
  <2> QED
    BY <2>7 DEF Pool!Next
<1>3. ASSUME NEW p \in Producers, EnqueueNotify(p) PROVE [Pool!Next]_(Pool!poolVars)
  BY <1>3, <1>b DEF EnqueueNotify, Asleep
<1>4. ASSUME NEW w \in Workers, WorkerLoop(w) \/ WorkerLock(w) \/ WorkerBlock(w) \/ SpuriousWakeup(w)
      PROVE  [Pool!Next]_(Pool!poolVars)
  BY <1>4, <1>b DEF WorkerLoop, WorkerLock, WorkerBlock, SpuriousWakeup
<1>5. ASSUME NEW w \in Workers, WorkerCheck(w) PROVE [Pool!Next]_(Pool!poolVars)
  <2>1. CASE tasks = <<>>
    BY <1>5, <2>1, <1>b DEF WorkerCheck
  <2>2. CASE tasks # <<>>
    <3>1. /\ pc' = [pc EXCEPT ![w] = "run"] /\ job' = [job EXCEPT ![w] = Head(tasks)]
          /\ tasks' = Tail(tasks) /\ future' = future /\ pc[w] = "check"
      BY <1>5, <2>2 DEF WorkerCheck
    <3>2. Running' = Running \cup {Head(tasks)}
      BY <3>1 DEF Running
    <3>3. ~Stopped /\ ~Stopped'
      BY <3>1 DEF JoinedAll
    <3>4. Pool!Start
      BY <2>2, <3>1, <3>2, <3>3 DEF Pool!Start
    <3> QED
      BY <3>4 DEF Pool!Next
  <2> QED
    BY <2>1, <2>2
<1>6. ASSUME NEW w \in Workers, WorkerRun(w) PROVE [Pool!Next]_(Pool!poolVars)
  <2>1. job[w] \in Tasks /\ job[w] \in Running
    BY <1>6 DEF WorkerRun, JobWhenRunning, Running
  <2>2. Running' = Running \ {job[w]}
    BY <1>6, <2>1 DEF WorkerRun, Running, TaskInOnePlace
  <2>3. Finished' = Finished \cup {job[w]}
    BY <1>6, <2>1 DEF WorkerRun
  <2>4. tasks' = tasks /\ pc'[Closer] = pc[Closer]
    BY <1>6 DEF WorkerRun
  <2>5. PICK t \in Tasks : t = job[w]
    BY <2>1
  <2>6. Pool!Finish(t)
    BY <2>1, <2>2, <2>3, <2>4, <2>5 DEF Pool!Finish
  <2> QED
    BY <2>6 DEF Pool!Next
<1>7. CASE ShutdownCall \/ ShutdownStore \/ ShutdownNotify
  <2>1. /\ tasks' = tasks /\ job' = job /\ future' = future
        /\ \A w \in Workers : pc'[w] = "run" <=> pc[w] = "run"
    BY <1>7 DEF ShutdownCall, ShutdownStore, ShutdownNotify, Asleep
  <2>2. pc[Closer] # "returned" /\ pc'[Closer] # "returned"
    BY <1>7 DEF ShutdownCall, ShutdownStore, ShutdownNotify
  <2> QED
    BY <2>1, <2>2, <1>a DEF Running
<1>8. CASE ShutdownJoin
  <2>1. tasks' = tasks /\ Finished' = Finished /\ Stopped'
    BY <1>8 DEF ShutdownJoin
  <2>2. Running = {} /\ Running' = {}
    BY <1>8 DEF ShutdownJoin, Running
  <2>3. Stopped' = TRUE
    BY <2>1
  <2>4. Pool!Stop
    BY <2>1, <2>2, <2>3 DEF Pool!Stop
  <2> QED
    BY <2>4 DEF Pool!Next
<1>9. CASE UNCHANGED vars
  BY <1>9, <1>b DEF vars
<1> QED
  BY <1>1, <1>2, <1>3, <1>4, <1>5, <1>6, <1>7, <1>8, <1>9
     DEF Next, Enqueue, worker_thread, Shutdown

\* The thread pool implements the abstract one for every number of threads and
\* tasks: each task is started at most once, in the order of the pushes, and none
\* runs or starts once shutdown has returned.
THEOREM PoolImplementsTaskPool == Spec => ImplementsTaskPool
<1>1. Init => JoinedAll
  BY PoolAssumption DEF Init, JoinedAll, Threads
<1>2. Spec => []RefInv
  BY <1>1, PlaceInit, PlaceStep, JoinedStep, PTL DEF Spec, RefInv
<1> QED
  BY <1>2, RefInit, RefStep, PTL DEF Spec, ImplementsTaskPool, Pool!Spec

===============================================================================
