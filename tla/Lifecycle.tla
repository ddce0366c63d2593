------------------------------- MODULE Lifecycle -------------------------------
(***************************************************************************)
(* src/main.cpp, Server::start, Server::stop and the destructors: how the  *)
(* main thread, the event thread, the thread pool and the signal handlers  *)
(* that interrupt them start and stop together.                            *)
(*                                                                         *)
(* The pool is the abstract TaskPool, which ThreadPool implements, with    *)
(* its shutdown_ flag beside it.  What the event thread and the workers do *)
(* to single connections is module Server; here a connection is open or    *)
(* not, in the map or not, and sends at most one request.                  *)
(*                                                                         *)
(* std::signal blocks a signal in the thread that runs its handler, and in *)
(* no other.  The kernel gives a signal to the main thread; while that is  *)
(* handling one already, the next may go to any thread of the process, the *)
(* same signal included.  An interrupted thread goes on when its handler   *)
(* has returned.                                                           *)
(***************************************************************************)
EXTENDS Naturals, Sequences, FiniteSets

CONSTANTS
  Clients,
  Signals,       \* SIGINT and SIGTERM
  Main,          \* the main thread
  Event,         \* the event thread
  Idle,          \* a worker without a task
  Listen,        \* the number of the listening socket
  None,          \* a server_fd_ of -1
  Descriptors,   \* how many client sockets the process may have open
  MaxSignals,    \* bound: signals handled
  EarlySignals   \* signals may come before start has returned

\* The threads that may handle a signal: a client stands for the worker that has
\* its task.  Bound: of the workers without a task one at a time is interrupted.
Threads == {Main, Event, Idle} \cup Clients

ASSUME LifecycleAssumption ==
  /\ Listen \notin Clients /\ None # Listen
  /\ Main # Event /\ Main # Idle /\ Event # Idle
  /\ {Main, Event, Idle} \cap Clients = {}
  /\ Descriptors \in Nat \ {0}
  /\ MaxSignals \in Nat
  /\ EarlySignals \in BOOLEAN

VARIABLES
  main,          \* where the main thread is
  frames,        \* the signal handlers on each thread, innermost last
  handled,       \* how many there were
  outcome,       \* "alive", or how the process ended
  early,         \* history: stop was called before event_thread_ was set
  astray,        \* history: stop found the server running on another thread than Main
  (* the Server object *)
  running,       \* running_
  event_thread,  \* event_thread_: "null", "joinable" or "joined"
  server_fd,     \* server_fd_
  connections,   \* the clients in connections_
  (* the kernel *)
  listening,     \* whether the listening socket is open
  open,          \* the clients whose accepted socket is open
  backlog,       \* connected, not accepted
  fresh,         \* not yet connected
  (* the event thread *)
  event, batch, cur,
  (* the thread pool *)
  shutdown, queue, busy, done, stopped

historyVars == <<handled, early, astray>>
signalVars == <<frames, historyVars>>
mainVars == <<main, outcome, signalVars>>
serverVars == <<running, event_thread, server_fd, connections>>
kernelVars == <<listening, open, backlog, fresh>>
eventVars == <<event, batch, cur>>
poolVars == <<queue, busy, done, stopped>>
vars == <<mainVars, serverVars, kernelVars, eventVars, shutdown, poolVars>>

Pool == INSTANCE TaskPool WITH Tasks <- Clients, running <- busy, finished <- done

Init ==
  /\ main = "construct" /\ frames = [t \in Threads |-> <<>>] /\ handled = 0
  /\ outcome = "alive" /\ early = FALSE /\ astray = FALSE
  /\ running = FALSE /\ event_thread = "null" /\ server_fd = None /\ connections = {}
  /\ listening = FALSE /\ open = {} /\ backlog = {} /\ fresh = Clients
  /\ event = "none" /\ batch = {} /\ cur = None
  /\ shutdown = FALSE
  /\ Pool!Init

-------------------------------------------------------------------------------
(* main and start, while no handler runs on the main thread *)

Alive == outcome = "alive"

MainAt(from, to) ==
  /\ Alive
  /\ frames[Main] = <<>>
  /\ main = from
  /\ main' = to

\* server_instance is set.
Construct ==
  /\ MainAt("construct", "start")
  /\ UNCHANGED <<outcome, signalVars, serverVars, kernelVars,
                 eventVars, shutdown, poolVars>>

\* The system calls of start up to the registration of the listening socket.
StartListen ==
  /\ MainAt("start", "store")
  /\ server_fd' = Listen
  /\ listening' = TRUE
  /\ UNCHANGED <<outcome, signalVars, running, event_thread, connections,
                 open, backlog, fresh, eventVars, shutdown, poolVars>>

\* One of them fails: socket itself, or a later one, after which the socket is
\* closed but server_fd_ is not reset.  main returns.
StartFail ==
  /\ MainAt("start", "destroy")
  /\ server_fd' \in {None, Listen}
  /\ UNCHANGED <<outcome, signalVars, running, event_thread, connections,
                 kernelVars, eventVars, shutdown, poolVars>>

StartStore ==
  /\ MainAt("store", "spawn")
  /\ running' = TRUE
  /\ UNCHANGED <<outcome, signalVars, event_thread, server_fd, connections,
                 kernelVars, eventVars, shutdown, poolVars>>

\* The new thread runs before the pointer to it is stored in event_thread_.
StartSpawn ==
  /\ MainAt("spawn", "publish")
  /\ event' = "loop"
  /\ UNCHANGED <<outcome, signalVars, serverVars, kernelVars,
                 batch, cur, shutdown, poolVars>>

StartPublish ==
  /\ MainAt("publish", "poll")
  /\ event_thread' = "joinable"
  /\ UNCHANGED <<outcome, signalVars, running, server_fd, connections,
                 kernelVars, eventVars, shutdown, poolVars>>

\* Mutant: main does not wait.
PollOnce ==
  /\ MainAt("poll", "destroy")
  /\ UNCHANGED <<outcome, signalVars, serverVars, kernelVars,
                 eventVars, shutdown, poolVars>>

\* main looks at running_ every 100 ms.
Poll ==
  /\ MainAt("poll", "destroy")
  /\ ~running
  /\ UNCHANGED <<outcome, signalVars, serverVars, kernelVars,
                 eventVars, shutdown, poolVars>>

\* ~Server finds running_ false, so its stop does nothing.  To destroy a
\* std::thread that was not joined ends the process: the event thread, or the
\* workers, if a stop that is not finished has set shutdown_, so that ~ThreadPool
\* does not join them.  Else ~ThreadPool shuts the pool down, if stop has not.
Destroy ==
  /\ \/ /\ event_thread = "joinable" \/ (shutdown /\ ~stopped)
        /\ MainAt("destroy", "destroy")
        /\ outcome' = "aborted"
        /\ UNCHANGED shutdown
     \/ /\ event_thread # "joinable" /\ (shutdown => stopped)
        /\ MainAt("destroy", "quit")
        /\ shutdown' = TRUE
        /\ UNCHANGED outcome
  /\ UNCHANGED <<signalVars, serverVars, kernelVars, eventVars, poolVars>>

\* Every worker has left its task, and its handler, and is joined.
WorkersEnd == Pool!Stop /\ frames[Idle] = <<>>

Quit ==
  /\ MainAt("quit", "quit")
  /\ WorkersEnd
  /\ outcome' = IF event = "none" THEN "failed" ELSE "exited"
  /\ UNCHANGED <<signalVars, serverVars, kernelVars, eventVars, shutdown>>

-------------------------------------------------------------------------------
(* signal_handler and stop *)

Top(t) == frames[t][Len(frames[t])]
At(t, label) == Alive /\ frames[t] # <<>> /\ Top(t).pc = label
Goto(t, label) == frames' = [frames EXCEPT ![t][Len(frames[t])].pc = label]
Return(t) == frames' = [frames EXCEPT ![t] = SubSeq(@, 1, Len(@) - 1)]

\* The threads that a signal may be given to.
MayHandle(t) ==
  \/ t = Main
  \/ /\ frames[Main] # <<>>
     /\ \/ t = Event /\ event \notin {"none", "exited"}
        \/ t \in busy
        \/ t = Idle /\ ~stopped

\* Mutant: a handler may be interrupted by its own signal.
SignalUnmasked(s, t) ==
  /\ Alive
  /\ running \/ main \in {"start", "store"}
  /\ EarlySignals \/ event_thread # "null"
  /\ MayHandle(t)
  /\ handled < MaxSignals
  /\ handled' = handled + 1
  /\ frames' = [frames EXCEPT ![t] = Append(@, [sig |-> s, pc |-> "load"])]
  /\ UNCHANGED <<main, outcome, early, astray, serverVars, kernelVars,
                 eventVars, shutdown, poolVars>>

\* A thread starts to run signal_handler, which prints a line before it calls
\* stop.  Not modelled are handlers that come when running_ is false and stays
\* so: they do nothing.
Signal(s, t) ==
  /\ Alive
  /\ running \/ main \in {"start", "store"}
  /\ EarlySignals \/ event_thread # "null"
  /\ MayHandle(t)
  /\ \A i \in DOMAIN frames[t] : frames[t][i].sig # s
  /\ handled < MaxSignals
  /\ handled' = handled + 1
  /\ frames' = [frames EXCEPT ![t] = Append(@, [sig |-> s, pc |-> "load"])]
  /\ UNCHANGED <<main, outcome, early, astray, serverVars, kernelVars,
                 eventVars, shutdown, poolVars>>

StopLoad(t) ==
  /\ At(t, "load")
  /\ \/ /\ running
        /\ Goto(t, "store")
        /\ early' = (early \/ event_thread = "null")
        /\ astray' = (astray \/ t # Main)
     \/ /\ ~running
        /\ Return(t)
        /\ UNCHANGED <<early, astray>>
  /\ UNCHANGED <<main, handled, outcome, serverVars, kernelVars,
                 eventVars, shutdown, poolVars>>

StopStore(t) ==
  /\ At(t, "store")
  /\ running' = FALSE
  /\ Goto(t, "test")
  /\ UNCHANGED <<main, outcome, historyVars, event_thread, server_fd, connections,
                 kernelVars, eventVars, shutdown, poolVars>>

\* The shutdown of the pool tests shutdown_ without its mutex: whoever finds it
\* set leaves the joining to the other call.
ShutdownTest(t) ==
  /\ At(t, "test")
  /\ Goto(t, IF shutdown THEN "join" ELSE "flag")
  /\ UNCHANGED <<main, outcome, historyVars, serverVars, kernelVars, eventVars,
                 shutdown, poolVars>>

ShutdownStore(t) ==
  /\ At(t, "flag")
  /\ shutdown' = TRUE
  /\ Goto(t, "pool")
  /\ UNCHANGED <<main, outcome, historyVars, serverVars, kernelVars,
                 eventVars, poolVars>>

\* An exception leaves the handler.  Nothing catches it, unless the handler has
\* interrupted a task.
Throws(t) ==
  \/ outcome' = "aborted" /\ UNCHANGED frames
  \/ t \in Clients /\ frames' = [frames EXCEPT ![t] = <<>>] /\ UNCHANGED outcome

\* The workers are joined.  A worker that joins itself gets an exception, and two
\* calls that join the same threads may.
StopPool(t) ==
  /\ At(t, "pool")
  /\ \/ /\ t \in {Main, Event}
        /\ WorkersEnd
        /\ Goto(t, "join")
        /\ UNCHANGED outcome
     \/ /\ t \notin {Main, Event} \/ \E u \in Threads \ {t} : At(u, "pool")
        /\ Throws(t)
        /\ UNCHANGED poolVars
  /\ UNCHANGED <<main, historyVars, serverVars, kernelVars, eventVars, shutdown>>

\* Mutant: the event thread is not waited for.
JoinReturnsAtOnce == TRUE

\* A joinable thread is waited for.
JoinReturns == event_thread = "joinable" => event = "exited"

\* So it is with the event thread.
StopJoin(t) ==
  /\ At(t, "join")
  /\ \/ /\ JoinReturns
        /\ event_thread' = IF event_thread = "joinable" THEN "joined" ELSE event_thread
        /\ Goto(t, "cleanup")
        /\ UNCHANGED outcome
     \/ /\ event_thread = "joinable"
        /\ t = Event \/ \E u \in Threads \ {t} : At(u, "join")
        /\ Throws(t)
        /\ UNCHANGED event_thread
  /\ UNCHANGED <<main, historyVars, running, server_fd, connections,
                 kernelVars, eventVars, shutdown, poolVars>>

\* Mutant: the map is emptied, its descriptors stay open.
SocketsLeftOpen == open

SocketsLeft == open \ connections

StopCleanup(t) ==
  /\ At(t, "cleanup")
  /\ open' = SocketsLeft
  /\ connections' = {}
  /\ Goto(t, "close")
  /\ UNCHANGED <<main, outcome, historyVars, running, event_thread, server_fd,
                 listening, backlog, fresh, eventVars, shutdown, poolVars>>

\* Mutant: server_fd_ is not reset.
FdAfterCloseKept == server_fd

FdAfterClose == None

StopClose(t) ==
  /\ At(t, "close")
  /\ \/ /\ server_fd = None
        /\ Return(t)
        /\ UNCHANGED listening
     \/ /\ server_fd # None
        /\ listening' = FALSE
        /\ Goto(t, "reset")
  /\ UNCHANGED <<main, outcome, historyVars, serverVars, open, backlog, fresh,
                 eventVars, shutdown, poolVars>>

StopReset(t) ==
  /\ At(t, "reset")
  /\ server_fd' = FdAfterClose
  /\ Return(t)
  /\ UNCHANGED <<main, outcome, historyVars, running, event_thread, connections,
                 kernelVars, eventVars, shutdown, poolVars>>

-------------------------------------------------------------------------------
(* event_loop *)

EventAt(label) == Alive /\ frames[Event] = <<>> /\ event = label

\* Mutant: the loop is endless.
KeepsServingAlways == TRUE

KeepsServing == running

EventLoop ==
  /\ EventAt("loop")
  /\ event' = IF KeepsServing THEN "wait" ELSE "exited"
  /\ UNCHANGED <<mainVars, serverVars, kernelVars, batch, cur, shutdown, poolVars>>

\* epoll_wait returns, at the latest after a second: no events are possible.
EventWait ==
  /\ EventAt("wait")
  /\ \E ready \in SUBSET connections :
       batch' = ready \cup (IF listening /\ backlog # {} THEN {Listen} ELSE {})
  /\ event' = "dispatch"
  /\ UNCHANGED <<mainVars, serverVars, kernelVars, cur, shutdown, poolVars>>

\* handle_client_data on client c: the connection is gone, ends, has sent part
\* of a request, or all of one that no worker has seen.
ClientEvent(c) ==
  \/ /\ connections' = connections \ {c}
     /\ open' = open \ {c}
     /\ event' = "dispatch"
     /\ UNCHANGED cur
  \/ /\ event' = "dispatch"
     /\ UNCHANGED <<connections, open, cur>>
  \/ /\ c \in connections
     /\ c \notin Pool!Queued \cup busy \cup done
     /\ cur' = c
     /\ event' = "enqueue"
     /\ UNCHANGED <<connections, open>>

EventDispatch ==
  /\ EventAt("dispatch")
  /\ \/ /\ Listen \in batch
        /\ batch' = batch \ {Listen}
        /\ event' = IF server_fd = Listen THEN "accept" ELSE "dispatch"
        /\ UNCHANGED <<connections, open, cur>>
     \/ \E c \in batch \ {Listen} :
          /\ batch' = batch \ {c}
          /\ ClientEvent(c)
  /\ UNCHANGED <<mainVars, running, event_thread, server_fd, listening, backlog,
                 fresh,
                 shutdown, poolVars>>

\* cleanup_inactive_connections, which ends a round.
EventCleanup ==
  /\ EventAt("dispatch")
  /\ batch = {}
  /\ \E inactive \in SUBSET connections :
       /\ connections' = connections \ inactive
       /\ open' = open \ inactive
  /\ event' = "loop"
  /\ UNCHANGED <<mainVars, running, event_thread, server_fd, listening, backlog,
                 fresh,
                 batch, cur, shutdown, poolVars>>

\* One round of handle_accept: the connection is registered or closed again.
\* accept takes a descriptor before it looks whether a client is waiting.  There
\* is no step while it finds none, or because stop has set server_fd_ to -1: it
\* fails with EMFILE or EBADF, not EAGAIN, and the loop spins.
EventAccept ==
  /\ EventAt("accept")
  /\ server_fd = Listen
  /\ Cardinality(open) < Descriptors
  /\ \/ /\ backlog = {}
        /\ event' = "dispatch"
        /\ UNCHANGED <<connections, open, backlog>>
     \/ \E c \in backlog :
          /\ backlog' = backlog \ {c}
          /\ \/ open' = open \cup {c} /\ connections' = connections \cup {c}
             \/ UNCHANGED <<open, connections>>
          /\ UNCHANGED event
  /\ UNCHANGED <<mainVars, running, event_thread, server_fd, listening, fresh,
                 batch, cur, shutdown, poolVars>>

\* enqueue throws when the pool is shut down; nothing catches the exception.
EventEnqueue ==
  /\ EventAt("enqueue")
  /\ \/ /\ shutdown
        /\ outcome' = "aborted"
        /\ UNCHANGED event
     \/ /\ ~shutdown
        /\ event' = "push"
        /\ UNCHANGED outcome
  /\ UNCHANGED <<main, signalVars, serverVars, kernelVars,
                 batch, cur, shutdown, poolVars>>

EventPush ==
  /\ EventAt("push")
  /\ Pool!Submit(cur)
  /\ event' = "dispatch"
  /\ UNCHANGED <<mainVars, serverVars, kernelVars, batch, cur, shutdown>>

-------------------------------------------------------------------------------
(* The workers and the clients *)

TaskStart ==
  /\ Alive
  /\ Pool!Start
  /\ UNCHANGED <<mainVars, serverVars, kernelVars, eventVars, shutdown>>

\* The response is sent; the connection is closed or kept.
TaskEnd(c) ==
  /\ Alive
  /\ frames[c] = <<>>
  /\ Pool!Finish(c)
  /\ \/ /\ connections' = connections \ {c}
        /\ open' = open \ {c}
     \/ UNCHANGED <<connections, open>>
  /\ UNCHANGED <<mainVars, running, event_thread, server_fd, listening, backlog,
                 fresh,
                 eventVars, shutdown>>

Connect(c) ==
  /\ Alive
  /\ listening
  /\ c \in fresh
  /\ fresh' = fresh \ {c}
  /\ backlog' = backlog \cup {c}
  /\ UNCHANGED <<mainVars, serverVars, listening, open,
                 eventVars, shutdown, poolVars>>

MainThread ==
  \/ Construct \/ StartListen \/ StartFail \/ StartStore \/ StartSpawn \/ StartPublish
  \/ Poll \/ Destroy \/ Quit

stop(t) ==
  \/ StopLoad(t) \/ StopStore(t) \/ ShutdownTest(t) \/ ShutdownStore(t) \/ StopPool(t)
  \/ StopJoin(t) \/ StopCleanup(t) \/ StopClose(t) \/ StopReset(t)

EventThread ==
  \/ EventLoop \/ EventWait \/ EventDispatch \/ EventCleanup
  \/ EventAccept \/ EventEnqueue \/ EventPush

Next ==
  \/ MainThread
  \/ \E t \in Threads : stop(t) \/ \E s \in Signals : Signal(s, t)
  \/ EventThread
  \/ TaskStart
  \/ \E c \in Clients : TaskEnd(c) \/ Connect(c)

Spec == Init /\ [][Next]_vars

\* Every thread runs, and a worker ends the task it has.  A handler on another
\* thread than Main goes on as far as the load of running_; in the rest of stop
\* it may wait for a mutex that the thread it has interrupted holds.
Fairness ==
  /\ WF_vars(MainThread)
  /\ WF_vars(stop(Main))
  /\ \A t \in Threads : WF_vars(StopLoad(t))
  /\ WF_vars(EventThread)
  /\ \A c \in Clients : WF_vars(TaskEnd(c))

FairSpec == Spec /\ Fairness

-------------------------------------------------------------------------------
(* Properties *)

StopPC == {"load", "store", "test", "flag", "pool", "join", "cleanup", "close", "reset"}

\* No thread handles a signal that it has not finished handling.
FramesOK ==
  /\ frames \in [Threads -> Seq([sig : Signals, pc : StopPC])]
  /\ \A t \in Threads : \A i, j \in DOMAIN frames[t] :
       frames[t][i].sig = frames[t][j].sig => i = j

TypeOK ==
  /\ main \in {"construct", "start", "store", "spawn", "publish", "poll", "destroy",
               "quit"}
  /\ FramesOK
  /\ handled \in 0..MaxSignals
  /\ outcome \in {"alive", "aborted", "failed", "exited"}
  /\ early \in BOOLEAN /\ astray \in BOOLEAN
  /\ running \in BOOLEAN /\ listening \in BOOLEAN /\ shutdown \in BOOLEAN
  /\ event_thread \in {"null", "joinable", "joined"}
  /\ server_fd \in {None, Listen}
  /\ connections \subseteq Clients /\ open \subseteq Clients
  /\ backlog \subseteq Clients /\ fresh \subseteq Clients
  /\ event \in {"none", "loop", "wait", "dispatch", "accept", "enqueue", "push",
                "exited"}
  /\ batch \subseteq Clients \cup {Listen}
  /\ cur \in Clients \cup {None}
  /\ queue \in Seq(Clients) /\ busy \subseteq Clients /\ done \subseteq Clients
  /\ stopped \in BOOLEAN

\* Nobody but the thread that cleans up is at work.
Quiet == busy = {} /\ event \in {"none", "exited"}

\* "all threads are stopped" (server.cpp:155) when stop cleans up, whichever of
\* two nested handlers it is: no worker is in a task and the event thread has
\* left its loop, unless stop came before start had stored it.  It is so when
\* stop runs on the main thread only.  Signals repeated on other threads do no
\* harm once the first stop has stored running_.
CleanupAlone ==
  ~astray =>
    \A i \in DOMAIN frames[Main] :
      frames[Main][i].pc \in {"cleanup", "close", "reset"}
        => Quiet \/ (busy = {} /\ early)

\* Once stop has joined the event thread and closed the listening socket,
\* nothing is left of the server's sockets and nothing comes back, whatever
\* threads were doing when the signals came (server.cpp:141-171), unless stop ran
\* on one of these threads.
StopIsClean ==
  ~astray /\ event_thread = "joined" /\ server_fd = None =>
    /\ open = {} /\ connections = {} /\ ~listening
    /\ event = "exited" /\ busy = {}

\* No descriptor is closed twice: the map holds open ones only, on whichever
\* threads stop runs; and stop closes server_fd_ only while it is open, although a
\* second signal can run all of stop between the load and the store of running_
\* in the first one's, unless it does so on another thread.
ClosedOnce ==
  /\ connections \subseteq open
  /\ ~astray => \A i \in DOMAIN frames[Main] :
       frames[Main][i].pc = "close" /\ server_fd # None => listening

\* The program ends by destroying a thread nobody has joined only when stop was
\* called before start had stored that thread, or on another thread than Main:
\* running_ is false in ~Server, so there is no other chance to join it
\* (server.cpp:64-66, 136).
JoinedBeforeDestroyed ==
  main \in {"destroy", "quit"} =>
    ~running /\ (event_thread = "joinable" => early \/ astray)

\* accept fails again and again.
AcceptSpins ==
  /\ EventAt("accept")
  /\ server_fd = None \/ Cardinality(open) = Descriptors

\* A signal that finds the server running ends the process: the joins of stop
\* and the polling of main all come to an end, unless accept keeps failing
\* and the event thread is never joined (server.cpp:218), or a stop on another
\* thread than Main is involved, which may wait for itself.
SignalEnds ==
  \/ (\E i \in DOMAIN frames[Main] : frames[Main][i].pc # "load") ~> ~Alive
  \/ <>[]AcceptSpins
  \/ <>astray

\* The process is never aborted: a signal makes it stop, as main announces.
OrderlyExit == outcome # "aborted"
===============================================================================
