---------------------------- MODULE LifecycleProofs ----------------------------
(***************************************************************************)
(* Proofs about Lifecycle, for every set of clients and signals and every  *)
(* number of descriptors and signals, on whichever threads these come.     *)
(*                                                                         *)
(* While no other thread than Main has found the server running in a call  *)
(* of stop (~astray), what stop relies on is still not said by any of its  *)
(* own tests.  Handlers on other threads do nothing (OtherInv); a handler  *)
(* is interrupted only while running_ is true, so every call of stop but   *)
(* the innermost has not stored yet (FrameInv); running_ is true only      *)
(* between the start of listening and the first store, so whoever finds it *)
(* true finds the listening socket open (StageInv); and how far a call of  *)
(* stop has come tells what has ended already (StopInv, ThreadInv).        *)
(***************************************************************************)
EXTENDS Lifecycle, TLAPS

Frames == [sig : Signals, pc : StopPC]

\* The calls of stop on the main thread, outermost first.
calls == frames[Main]

AllLoad == \A i \in DOMAIN calls : calls[i].pc = "load"

Booleans ==
  early \in BOOLEAN /\ running \in BOOLEAN /\ shutdown \in BOOLEAN /\ stopped \in BOOLEAN

\* What holds on whichever threads stop runs.
AnyInv ==
  /\ TypeOK
  /\ main \in {"construct", "start", "store", "destroy", "quit"} => ~running
  /\ event \in {"enqueue", "push"} => cur \in Clients
  /\ open = connections

\* A handler on another thread has yet to load running_.
OtherInv ==
  \A t \in Threads \ {Main} : \A i \in DOMAIN frames[t] : frames[t][i].pc = "load"

\* Only the innermost call of stop has stored FALSE in running_.
FrameInv == \A i \in DOMAIN calls : i # Len(calls) => calls[i].pc \in {"load", "store"}

\* What main has done by now, and what running_ says of the listening socket.
StageInv ==
  /\ main \in {"construct", "start", "store", "destroy", "quit"} => AllLoad
  /\ main \in {"construct", "start"} => ~listening
  /\ main = "store" => server_fd = Listen /\ listening
  /\ main \in {"construct", "start", "store", "spawn", "publish"} => event_thread = "null"
  /\ running => server_fd = Listen /\ listening
  /\ listening => server_fd = Listen

\* How far each call of stop has come, and what it has left behind.
StopInv ==
  \A i \in DOMAIN calls :
    /\ calls[i].pc \notin {"load", "store"} => ~running
    /\ calls[i].pc # "load" /\ server_fd # None =>
         listening \/ calls[Len(calls)].pc = "reset"
    /\ calls[i].pc = "reset" => ~listening
    /\ calls[i].pc # "load" /\ event_thread = "joinable" => server_fd # None
    /\ calls[i].pc # "load" /\ event_thread = "null" => early
    /\ calls[i].pc \in {"join", "cleanup", "close", "reset"} => stopped
    /\ calls[i].pc \in {"cleanup", "close", "reset"} => event_thread # "joinable"
    /\ calls[i].pc \in {"close", "reset"} /\ event_thread = "joined" => connections = {}

\* The event thread and the pool once stop has dealt with them.
ThreadInv ==
  /\ event_thread = "joined" => event = "exited" /\ stopped
  /\ event_thread = "joined" /\ server_fd = None => connections = {}
  /\ event_thread = "joinable" /\ AllLoad /\ ~running => early
  /\ main \in {"spawn", "publish"} /\ AllLoad /\ ~running => early
  /\ shutdown => \/ stopped
                 \/ main = "quit"
                 \/ calls # <<>> /\ calls[Len(calls)].pc = "pool"
  /\ stopped => busy = {}

IInv ==
  /\ AnyInv
  /\ ~astray => OtherInv /\ FrameInv /\ StageInv /\ StopInv /\ ThreadInv

-------------------------------------------------------------------------------
(* The stacks of calls of stop *)

\* A step of stop moves the innermost call of its thread on and leaves the others.
LEMMA GotoFrames ==
  ASSUME frames \in [Threads -> Seq(Frames)], NEW t \in Threads, frames[t] # <<>>,
         NEW label \in StopPC, Goto(t, label)
  PROVE  /\ frames' \in [Threads -> Seq(Frames)] /\ frames'[t] # <<>>
         /\ \A u \in Threads \ {t} : frames'[u] = frames[u]
         /\ Len(frames'[t]) = Len(frames[t]) /\ DOMAIN frames'[t] = DOMAIN frames[t]
         /\ Len(frames[t]) \in DOMAIN frames[t]
         /\ \A i \in DOMAIN frames[t] : frames'[t][i].sig = frames[t][i].sig
         /\ \A i \in DOMAIN frames[t] :
              i # Len(frames[t]) => frames'[t][i].pc = frames[t][i].pc
         /\ frames'[t][Len(frames[t])].pc = label
<1> DEFINE f == frames[t]
           top == Len(f)
           call == [f[top] EXCEPT !.pc = label]
           moved == [f EXCEPT ![top] = call]
<1>1. f \in Seq(Frames) /\ f # <<>>
  OBVIOUS
<1>2. top \in DOMAIN f /\ top \in Nat \ {0} /\ DOMAIN f = 1..top
  BY <1>1
<1>3. f[top] \in Frames
  BY <1>1, <1>2
<1>4. call \in Frames /\ call.sig = f[top].sig /\ call.pc = label
  BY <1>3 DEF Frames
<1>5. frames' = [frames EXCEPT ![t] = moved]
  BY Zenon DEF Goto
<1>6. frames'[t] = moved
  BY <1>5
<1> HIDE DEF call
<1>7. /\ moved \in Seq(Frames) /\ moved # <<>>
      /\ Len(moved) = Len(f) /\ DOMAIN moved = DOMAIN f
      /\ \A i \in DOMAIN f : moved[i].sig = f[i].sig
      /\ \A i \in DOMAIN f : i # top => moved[i].pc = f[i].pc
      /\ moved[top].pc = label
  BY <1>1, <1>2, <1>4
<1> HIDE DEF moved
<1>8. frames' \in [Threads -> Seq(Frames)] /\ \A u \in Threads \ {t} : frames'[u] = frames[u]
  BY <1>5, <1>7
<1>9. /\ frames'[t] # <<>> /\ Len(frames'[t]) = Len(f) /\ DOMAIN frames'[t] = DOMAIN f
      /\ \A i \in DOMAIN f : frames'[t][i].sig = f[i].sig
      /\ \A i \in DOMAIN f : i # top => frames'[t][i].pc = f[i].pc
      /\ frames'[t][top].pc = label
  BY <1>6, <1>7, Zenon
<1> HIDE DEF f, top
<1> QED
  BY <1>2, <1>8, <1>9 DEF f, top

\* A call of stop that returns leaves the calls it interrupted as they were.
LEMMA ReturnFrames ==
  ASSUME frames \in [Threads -> Seq(Frames)], NEW t \in Threads, frames[t] # <<>>, Return(t)
  PROVE  /\ frames' \in [Threads -> Seq(Frames)]
         /\ \A u \in Threads \ {t} : frames'[u] = frames[u]
         /\ Len(frames'[t]) = Len(frames[t]) - 1 /\ Len(frames[t]) \in DOMAIN frames[t]
         /\ \A i \in DOMAIN frames'[t] :
              i \in DOMAIN frames[t] /\ i # Len(frames[t]) /\ frames'[t][i] = frames[t][i]
         /\ \A i \in DOMAIN frames[t] : i # Len(frames[t]) => i \in DOMAIN frames'[t]
<1> DEFINE f == frames[t]
           rest == SubSeq(f, 1, Len(f) - 1)
<1>1. f \in Seq(Frames) /\ f # <<>>
  OBVIOUS
<1>2. /\ Len(f) \in Nat \ {0} /\ DOMAIN f = 1..Len(f)
      /\ \A i \in 1..Len(f) : f[i] \in Frames
  BY <1>1
<1>3. frames' = [frames EXCEPT ![t] = rest]
  BY DEF Return
<1>4. /\ rest \in Seq(Frames) /\ Len(rest) = Len(f) - 1
      /\ \A i \in DOMAIN rest : i \in DOMAIN f /\ i # Len(f) /\ rest[i] = f[i]
      /\ \A i \in DOMAIN f : i # Len(f) => i \in DOMAIN rest
  BY <1>1, <1>2
<1>5. frames'[t] = rest /\ \A u \in Threads \ {t} : frames'[u] = frames[u]
  BY <1>3
<1> HIDE DEF rest
<1>6. frames' \in [Threads -> Seq(Frames)]
  BY <1>3, <1>4
<1>7. /\ Len(frames'[t]) = Len(f) - 1 /\ Len(f) \in DOMAIN f
      /\ \A i \in DOMAIN frames'[t] :
           i \in DOMAIN f /\ i # Len(f) /\ frames'[t][i] = f[i]
      /\ \A i \in DOMAIN f : i # Len(f) => i \in DOMAIN frames'[t]
  <2>1. Len(f) \in DOMAIN f
    BY <1>2
  <2> QED
    BY <1>4, <1>5, <2>1, Zenon
<1> QED
  BY <1>5, <1>6, <1>7, Zenon

\* A signal puts a call of stop on top of the others of its thread.
LEMMA SignalFrames ==
  ASSUME frames \in [Threads -> Seq(Frames)], NEW s \in Signals, NEW t \in Threads,
         frames' = [frames EXCEPT ![t] = Append(@, [sig |-> s, pc |-> "load"])]
  PROVE  /\ frames' \in [Threads -> Seq(Frames)]
         /\ \A u \in Threads \ {t} : frames'[u] = frames[u]
         /\ Len(frames'[t]) = Len(frames[t]) + 1
         /\ DOMAIN frames'[t] = DOMAIN frames[t] \cup {Len(frames'[t])}
         /\ Len(frames'[t]) \notin DOMAIN frames[t]
         /\ frames'[t][Len(frames'[t])] = [sig |-> s, pc |-> "load"]
         /\ \A i \in DOMAIN frames[t] : frames'[t][i] = frames[t][i]
<1> DEFINE f == frames[t]
           new == [sig |-> s, pc |-> "load"]
           more == Append(f, new)
<1>1. f \in Seq(Frames) /\ new \in Frames
  BY DEF Frames, StopPC
<1> HIDE DEF new
<1>2. /\ more \in Seq(Frames) /\ Len(more) = Len(f) + 1
      /\ DOMAIN more = DOMAIN f \cup {Len(more)} /\ Len(more) \notin DOMAIN f
      /\ more[Len(more)] = new
      /\ \A i \in DOMAIN f : more[i] = f[i]
  BY <1>1
<1>3. frames' = [frames EXCEPT ![t] = more]
  BY DEF new
<1>4. frames'[t] = more /\ \A u \in Threads \ {t} : frames'[u] = frames[u]
  BY <1>3
<1> HIDE DEF more
<1>5. frames' \in [Threads -> Seq(Frames)]
  BY <1>2, <1>3
<1> QED
  BY <1>2, <1>4, <1>5 DEF new

-------------------------------------------------------------------------------
(* The inductive invariant *)

\* It holds before main has done anything.
LEMMA LifecycleInit == Init => IInv
<1> SUFFICES ASSUME Init PROVE IInv
  OBVIOUS
<1>1. frames = [t \in Threads |-> <<>>] /\ Main \in Threads
  BY Zenon DEF Init, Threads
<1>2. \A t \in Threads : frames[t] = <<>> /\ DOMAIN frames[t] = {}
  BY <1>1
<1>3. frames \in [Threads -> Seq([sig : Signals, pc : StopPC])]
  BY <1>1
<1>4. AnyInv
  <2>1. early \in BOOLEAN /\ astray \in BOOLEAN /\ running \in BOOLEAN /\ listening \in BOOLEAN
    BY Zenon DEF Init
  <2>2. shutdown \in BOOLEAN /\ stopped \in BOOLEAN
    BY Zenon DEF Init, Pool!Init
  <2> QED
    BY <1>2, <1>3, <2>1, <2>2, LifecycleAssumption DEF Init, Pool!Init, TypeOK, FramesOK, AnyInv
<1>5. AllLoad /\ OtherInv /\ FrameInv /\ StopInv
  BY <1>1, <1>2 DEF AllLoad, OtherInv, FrameInv, StopInv, calls
<1>6. StageInv /\ ThreadInv
  BY <1>5, LifecycleAssumption DEF Init, Pool!Init, StageInv, ThreadInv
<1> QED
  BY <1>4, <1>5, <1>6 DEF IInv

\* What every step that leaves the stacks alone preserves.
LEMMA SameFrames ==
  ASSUME frames' = frames
  PROVE  /\ calls' = calls
         /\ AllLoad' <=> AllLoad
         /\ OtherInv => OtherInv'
         /\ FrameInv => FrameInv'
         /\ FramesOK => FramesOK'
BY DEF calls, AllLoad, OtherInv, FrameInv, FramesOK

\* Every step of main and start keeps the types.
LEMMA MainTypes == AnyInv /\ MainThread => AnyInv'
<1> SUFFICES ASSUME AnyInv, MainThread PROVE AnyInv'
  OBVIOUS
<1> USE LifecycleAssumption DEF AnyInv, MainAt, signalVars, historyVars, serverVars,
     kernelVars, eventVars, poolVars
<1>a. FramesOK'
  BY SameFrames DEF MainThread, Construct, StartListen, StartFail, StartStore, StartSpawn,
     StartPublish, Poll, Destroy, Quit, TypeOK
<1> USE <1>a
<1>1. CASE Construct
  BY <1>1 DEF Construct, TypeOK
<1>2. CASE StartListen
  BY <1>2 DEF StartListen, TypeOK
<1>3. CASE StartFail
  BY <1>3 DEF StartFail, TypeOK
<1>4. CASE StartStore
  BY <1>4 DEF StartStore, TypeOK
<1>5. CASE StartSpawn
  BY <1>5 DEF StartSpawn, TypeOK
<1>6. CASE StartPublish
  BY <1>6 DEF StartPublish, TypeOK
<1>7. CASE Poll
  BY <1>7 DEF Poll, TypeOK
<1>8. CASE Destroy
  <2>1. shutdown' \in BOOLEAN
    BY <1>8, Zenon DEF Destroy, TypeOK
  <2>2. main' \in {"destroy", "quit"} /\ outcome' \in {outcome, "aborted"}
    BY <1>8 DEF Destroy
  <2> QED
    BY <1>8, <2>1, <2>2 DEF Destroy, TypeOK
<1>9. CASE Quit
  BY <1>9 DEF Quit, WorkersEnd, Pool!Stop, TypeOK
<1> QED
  BY <1>1, <1>2, <1>3, <1>4, <1>5, <1>6, <1>7, <1>8, <1>9 DEF MainThread

\* Every step of main and start keeps the invariant.
LEMMA MainStep == IInv /\ MainThread => IInv'
<1> SUFFICES ASSUME AnyInv, OtherInv, FrameInv, StageInv, StopInv, ThreadInv, MainThread
             PROVE  OtherInv' /\ FrameInv' /\ StageInv' /\ StopInv' /\ ThreadInv'
  BY MainTypes DEF IInv, MainThread, Construct, StartListen, StartFail, StartStore,
     StartSpawn, StartPublish, Poll, Destroy, Quit, signalVars, historyVars
<1> USE LifecycleAssumption DEF MainAt, signalVars, historyVars, serverVars, kernelVars,
     eventVars, poolVars
<1>a. frames' = frames /\ calls = <<>>
  BY DEF MainThread, Construct, StartListen, StartFail, StartStore, StartSpawn, StartPublish,
     Poll, Destroy, Quit, calls
<1>b. AllLoad /\ AllLoad' /\ calls' = <<>> /\ OtherInv' /\ FrameInv' /\ StopInv'
  <2>1. DOMAIN calls = {}
    BY <1>a
  <2>2. AllLoad /\ calls' = <<>>
    BY <1>a, <2>1, SameFrames DEF AllLoad
  <2> QED
    BY <1>a, <2>1, <2>2, SameFrames DEF StopInv
<1>c. Booleans /\ Booleans'
  BY MainTypes DEF AnyInv, TypeOK, Booleans
<1> USE <1>a, <1>b, <1>c DEF Booleans, StageInv, ThreadInv
<1>1. CASE Construct
  BY <1>1 DEF Construct
<1>2. CASE StartListen
  BY <1>2 DEF StartListen
<1>3. CASE StartFail
  BY <1>3 DEF StartFail
<1>4. CASE StartStore
  BY <1>4 DEF StartStore
<1>5. CASE StartSpawn
  BY <1>5 DEF StartSpawn
<1>6. CASE StartPublish
  BY <1>6 DEF StartPublish
<1>7. CASE Poll
  BY <1>7 DEF Poll
<1>8. CASE Destroy
  BY <1>8 DEF Destroy
<1>9. CASE Quit
  BY <1>9 DEF Quit, WorkersEnd, Pool!Stop
<1> QED
  BY <1>1, <1>2, <1>3, <1>4, <1>5, <1>6, <1>7, <1>8, <1>9 DEF MainThread

\* Every step of the event thread keeps it.
LEMMA EventStep == IInv /\ EventThread => IInv'
<1> SUFFICES ASSUME IInv, EventThread PROVE IInv'
  OBVIOUS
<1> USE LifecycleAssumption DEF EventAt, mainVars, signalVars, historyVars, serverVars,
     kernelVars, poolVars
<1>a. UNCHANGED <<main, frames, handled, early, astray>>
  BY DEF EventThread, EventLoop, EventWait, EventDispatch, EventCleanup, EventAccept,
     EventEnqueue, EventPush
<1>b. /\ calls' = calls /\ (AllLoad' <=> AllLoad)
      /\ (OtherInv => OtherInv') /\ (FrameInv => FrameInv') /\ (FramesOK => FramesOK')
  BY <1>a, SameFrames
<1> USE <1>a, <1>b DEF IInv, AnyInv, TypeOK, StageInv, StopInv, ThreadInv
<1>1. CASE EventLoop
  BY <1>1 DEF EventLoop, KeepsServing
<1>2. CASE EventWait
  BY <1>2 DEF EventWait
<1>3. CASE EventDispatch
  <2>1. CASE Listen \in batch /\ batch' = batch \ {Listen} /\ UNCHANGED <<connections, open, cur>>
               /\ event' = IF server_fd = Listen THEN "accept" ELSE "dispatch"
    BY <1>3, <2>1 DEF EventDispatch
  <2>2. ASSUME NEW c \in batch \ {Listen}, batch' = batch \ {c}, ClientEvent(c)
        PROVE  IInv'
    <3>1. c \in Clients
      OBVIOUS
    <3>2. CASE connections' = connections \ {c} /\ open' = open \ {c} /\ event' = "dispatch"
               /\ UNCHANGED cur
      BY <1>3, <2>2, <3>2 DEF EventDispatch
    <3>3. CASE event' = "dispatch" /\ UNCHANGED <<connections, open, cur>>
      BY <1>3, <2>2, <3>3 DEF EventDispatch
    <3>4. CASE cur' = c /\ event' = "enqueue" /\ UNCHANGED <<connections, open>>
      BY <1>3, <2>2, <3>1, <3>4 DEF EventDispatch
    <3> QED
      BY <2>2, <3>2, <3>3, <3>4 DEF ClientEvent
  <2> QED
    BY <1>3, <2>1, <2>2 DEF EventDispatch
<1>4. CASE EventCleanup
  BY <1>4 DEF EventCleanup
<1>5. CASE EventAccept
  <2>1. CASE event' = "dispatch" /\ UNCHANGED <<connections, open, backlog>>
    BY <1>5, <2>1 DEF EventAccept
  <2>2. ASSUME NEW c \in backlog, backlog' = backlog \ {c}, UNCHANGED event,
               \/ open' = open \cup {c} /\ connections' = connections \cup {c}
               \/ UNCHANGED <<open, connections>>
        PROVE  IInv'
    <3>1. c \in Clients /\ backlog' \subseteq Clients
      BY <2>2
    <3>2. server_fd = Listen /\ server_fd' = server_fd /\ event = "accept"
      BY <1>5 DEF EventAccept
    <3>3. open' = connections' /\ connections' \subseteq Clients
      BY <2>2, <3>1
    <3>4. ~astray => event_thread # "joined"
      BY <3>2
    <3> QED
      BY <1>5, <2>2, <3>1, <3>2, <3>3, <3>4 DEF EventAccept
  <2> QED
    BY <1>5, <2>1, <2>2 DEF EventAccept
<1>6. CASE EventEnqueue
  BY <1>6 DEF EventEnqueue
<1>7. CASE EventPush
  BY <1>7 DEF EventPush, Pool!Submit
<1> QED
  BY <1>1, <1>2, <1>3, <1>4, <1>5, <1>6, <1>7 DEF EventThread

\* The workers and the clients keep it.
LEMMA OtherStep ==
  IInv /\ (TaskStart \/ \E c \in Clients : TaskEnd(c) \/ Connect(c)) => IInv'
<1> SUFFICES ASSUME IInv, TaskStart \/ \E c \in Clients : TaskEnd(c) \/ Connect(c) PROVE IInv'
  OBVIOUS
<1> USE LifecycleAssumption DEF mainVars, signalVars, historyVars, serverVars, kernelVars,
     eventVars, poolVars
<1>a. UNCHANGED <<main, frames, handled, early, astray>>
  BY DEF TaskStart, TaskEnd, Connect
<1>b. /\ calls' = calls /\ (AllLoad' <=> AllLoad)
      /\ (OtherInv => OtherInv') /\ (FrameInv => FrameInv') /\ (FramesOK => FramesOK')
  BY <1>a, SameFrames
<1> USE <1>a, <1>b DEF IInv, AnyInv, TypeOK, StageInv, StopInv, ThreadInv
<1>1. CASE TaskStart
  BY <1>1 DEF TaskStart, Pool!Start
<1>2. ASSUME NEW c \in Clients, TaskEnd(c) PROVE IInv'
  <2>1. busy # {} /\ (~astray => ~stopped /\ event_thread # "joined")
    BY <1>2 DEF TaskEnd, Pool!Finish
  <2>2. busy' \subseteq Clients /\ done' \subseteq Clients
    BY <1>2 DEF TaskEnd, Pool!Finish
  <2>3. open' = connections' /\ connections' \subseteq Clients
    BY <1>2 DEF TaskEnd
  <2> QED
    BY <1>2, <2>1, <2>2, <2>3 DEF TaskEnd, Pool!Finish
<1>3. ASSUME NEW c \in Clients, Connect(c) PROVE IInv'
  BY <1>3 DEF Connect
<1> QED
  BY <1>1, <1>2, <1>3

\* Every step of stop keeps the types, on every thread.
LEMMA StopTypes == ASSUME AnyInv, NEW t \in Threads, stop(t) PROVE AnyInv'
<1> USE LifecycleAssumption DEF AnyInv, TypeOK, historyVars, serverVars, kernelVars,
     eventVars, poolVars
<1>0. /\ frames \in [Threads -> Seq(Frames)]
      /\ \A u \in Threads : \A i, j \in DOMAIN frames[u] :
           frames[u][i].sig = frames[u][j].sig => i = j
  BY DEF FramesOK, Frames
<1>a. ASSUME NEW label \in StopPC, frames[t] # <<>>, Goto(t, label)
      PROVE  FramesOK'
  <2>1. /\ frames' \in [Threads -> Seq(Frames)]
        /\ \A u \in Threads \ {t} : frames'[u] = frames[u]
        /\ DOMAIN frames'[t] = DOMAIN frames[t]
        /\ \A i \in DOMAIN frames[t] : frames'[t][i].sig = frames[t][i].sig
    BY <1>0, <1>a, GotoFrames, Zenon
  <2>2. ASSUME NEW u \in Threads, NEW i \in DOMAIN frames'[u], NEW j \in DOMAIN frames'[u],
               frames'[u][i].sig = frames'[u][j].sig
        PROVE  i = j
    <3>1. CASE u = t
      BY <1>0, <2>1, <2>2, <3>1
    <3>2. CASE u # t
      BY <1>0, <2>1, <2>2, <3>2
    <3> QED
      BY <3>1, <3>2
  <2> QED
    BY <2>1, <2>2 DEF FramesOK, Frames
<1>b. ASSUME frames[t] # <<>>, Return(t)
      PROVE  FramesOK'
  <2>1. /\ frames' \in [Threads -> Seq(Frames)]
        /\ \A u \in Threads \ {t} : frames'[u] = frames[u]
        /\ \A i \in DOMAIN frames'[t] : i \in DOMAIN frames[t] /\ frames'[t][i] = frames[t][i]
    BY <1>0, <1>b, ReturnFrames, Zenon
  <2>2. ASSUME NEW u \in Threads, NEW i \in DOMAIN frames'[u], NEW j \in DOMAIN frames'[u],
               frames'[u][i].sig = frames'[u][j].sig
        PROVE  i = j
    <3>1. CASE u = t
      BY <1>0, <2>1, <2>2, <3>1
    <3>2. CASE u # t
      BY <1>0, <2>1, <2>2, <3>2
    <3> QED
      BY <3>1, <3>2
  <2> QED
    BY <2>1, <2>2 DEF FramesOK, Frames
<1>c. ASSUME Throws(t)
      PROVE  FramesOK' /\ outcome' \in {outcome, "aborted"}
  <2>1. CASE UNCHANGED frames
    BY <1>c, <2>1, SameFrames DEF Throws
  <2>2. CASE frames' = [frames EXCEPT ![t] = <<>>]
    <3>0. <<>> \in Seq(Frames)
      OBVIOUS
    <3>1. frames' \in [Threads -> Seq(Frames)]
      BY <1>0, <2>2, <3>0, Zenon
    <3>2. ASSUME NEW u \in Threads, NEW i \in DOMAIN frames'[u], NEW j \in DOMAIN frames'[u],
                 frames'[u][i].sig = frames'[u][j].sig
          PROVE  i = j
      <4>1. u # t /\ frames'[u] = frames[u]
        BY <1>0, <2>2, <3>2
      <4> QED
        BY <1>0, <3>2, <4>1
    <3> QED
      BY <1>c, <3>1, <3>2 DEF FramesOK, Frames, Throws
  <2> QED
    BY <1>c, <2>1, <2>2 DEF Throws
<1>1. CASE StopLoad(t)
  <2>1. early' \in BOOLEAN /\ astray' \in BOOLEAN
    BY <1>1, Zenon DEF StopLoad
  <2>2. FramesOK'
    BY <1>1, <1>a, <1>b DEF StopLoad, At, StopPC
  <2> QED
    BY <1>1, <2>1, <2>2 DEF StopLoad
<1>2. CASE StopStore(t)
  <2>1. running' \in BOOLEAN
    BY <1>2, Zenon DEF StopStore
  <2>2. FramesOK'
    BY <1>2, <1>a DEF StopStore, At, StopPC
  <2> QED
    BY <1>2, <2>1, <2>2 DEF StopStore
<1>3. CASE ShutdownTest(t)
  <2>1. FramesOK'
    BY <1>3, <1>a DEF ShutdownTest, At, StopPC
  <2> QED
    BY <1>3, <2>1 DEF ShutdownTest
<1>4. CASE ShutdownStore(t)
  <2>1. shutdown' \in BOOLEAN
    BY <1>4, Zenon DEF ShutdownStore
  <2>2. FramesOK'
    BY <1>4, <1>a DEF ShutdownStore, At, StopPC
  <2> QED
    BY <1>4, <2>1, <2>2 DEF ShutdownStore
<1>5. CASE StopPool(t)
  <2>1. FramesOK' /\ outcome' \in {outcome, "aborted"}
    BY <1>5, <1>a, <1>c DEF StopPool, At, StopPC
  <2>2. stopped' \in BOOLEAN
    BY <1>5, Zenon DEF StopPool, WorkersEnd, Pool!Stop
  <2> QED
    BY <1>5, <2>1, <2>2 DEF StopPool, WorkersEnd, Pool!Stop
<1>6. CASE StopJoin(t)
  <2>1. FramesOK' /\ outcome' \in {outcome, "aborted"}
    BY <1>6, <1>a, <1>c DEF StopJoin, At, StopPC
  <2> QED
    BY <1>6, <2>1 DEF StopJoin
<1>7. CASE StopCleanup(t)
  <2>1. FramesOK'
    BY <1>7, <1>a DEF StopCleanup, At, StopPC
  <2> QED
    BY <1>7, <2>1 DEF StopCleanup, SocketsLeft
<1>8. CASE StopClose(t)
  <2>1. FramesOK'
    BY <1>8, <1>a, <1>b DEF StopClose, At, StopPC
  <2>2. listening' \in BOOLEAN
    BY <1>8, Zenon DEF StopClose
  <2> QED
    BY <1>8, <2>1, <2>2 DEF StopClose
<1>9. CASE StopReset(t)
  <2>1. FramesOK'
    BY <1>9, <1>b DEF StopReset, At
  <2> QED
    BY <1>9, <2>1 DEF StopReset, FdAfterClose
<1> QED
  BY <1>1, <1>2, <1>3, <1>4, <1>5, <1>6, <1>7, <1>8, <1>9 DEF stop

\* On another thread than Main all that stop does, unless it finds the server
\* running, is to return.
LEMMA StopElsewhere ==
  ASSUME IInv, NEW t \in Threads \ {Main}, stop(t), ~astray'
  PROVE  IInv'
<1>0. frames \in [Threads -> Seq(Frames)] /\ Main \in Threads
  BY DEF IInv, AnyInv, TypeOK, FramesOK, Frames, Threads
<1>1. ~astray
  BY DEF stop, StopLoad, StopStore, ShutdownTest, ShutdownStore, StopPool, StopJoin,
     StopCleanup, StopClose, StopReset, historyVars
<1>2. frames[t] # <<>> => Top(t).pc = "load"
  <2>1. frames[t] # <<>> => Len(frames[t]) \in DOMAIN frames[t]
    BY <1>0
  <2> QED
    BY <1>1, <2>1 DEF IInv, OtherInv, Top
<1>3. StopLoad(t)
  BY <1>2 DEF stop, StopStore, ShutdownTest, ShutdownStore, StopPool, StopJoin,
     StopCleanup, StopClose, StopReset, At
<1>4. frames[t] # <<>> /\ Return(t) /\ UNCHANGED <<early, astray>>
  BY <1>3 DEF StopLoad, At
<1>5. /\ \A u \in Threads \ {t} : frames'[u] = frames[u]
      /\ \A i \in DOMAIN frames'[t] : i \in DOMAIN frames[t] /\ frames'[t][i] = frames[t][i]
  BY <1>0, <1>4, ReturnFrames
<1>6. calls' = calls
  BY <1>0, <1>5 DEF calls
<1>7. OtherInv'
  BY <1>1, <1>5 DEF IInv, OtherInv
<1>8. AnyInv'
  BY StopTypes DEF IInv
<1> QED
  BY <1>1, <1>3, <1>4, <1>6, <1>7, <1>8 DEF IInv, FrameInv, StageInv, StopInv, ThreadInv, AllLoad,
     StopLoad, serverVars, kernelVars, eventVars, poolVars

\* On the main thread, while stop has run on no other, each step of it finds what
\* the calls below it rely on as they left it.
LEMMA StopOnMain ==
  ASSUME AnyInv, OtherInv, FrameInv, StageInv, StopInv, ThreadInv, stop(Main)
  PROVE  OtherInv' /\ FrameInv' /\ StageInv' /\ StopInv' /\ ThreadInv'
<1> DEFINE top == Len(calls)
<1>0. frames \in [Threads -> Seq(Frames)] /\ Main \in Threads
  BY DEF AnyInv, TypeOK, FramesOK, Frames, Threads
<1>a. ASSUME NEW label \in StopPC, calls # <<>>, Goto(Main, label)
      PROVE  /\ calls' # <<>> /\ Len(calls') = top /\ DOMAIN calls' = DOMAIN calls
             /\ top \in DOMAIN calls /\ calls'[top].pc = label
             /\ \A i \in DOMAIN calls : i # top =>
                  calls'[i].pc = calls[i].pc /\ calls[i].pc \in {"load", "store"}
             /\ OtherInv' /\ FrameInv'
  <2>1. /\ \A u \in Threads \ {Main} : frames'[u] = frames[u]
        /\ calls' # <<>> /\ Len(calls') = top /\ DOMAIN calls' = DOMAIN calls
        /\ top \in DOMAIN calls /\ calls'[top].pc = label
        /\ \A i \in DOMAIN calls : i # top => calls'[i].pc = calls[i].pc
    BY <1>0, <1>a, GotoFrames, Zenon DEF calls
  <2> QED
    BY <2>1 DEF OtherInv, FrameInv
<1>b. ASSUME calls # <<>>, Return(Main)
      PROVE  /\ top \in DOMAIN calls /\ Len(calls') = top - 1
             /\ \A i \in DOMAIN calls' : /\ i \in DOMAIN calls /\ i # top
                                         /\ calls'[i] = calls[i]
                                         /\ calls[i].pc \in {"load", "store"}
             /\ \A i \in DOMAIN calls : i # top => i \in DOMAIN calls'
             /\ OtherInv' /\ FrameInv'
  <2>1. /\ \A u \in Threads \ {Main} : frames'[u] = frames[u]
        /\ top \in DOMAIN calls /\ Len(calls') = top - 1
        /\ \A i \in DOMAIN calls' : i \in DOMAIN calls /\ i # top /\ calls'[i] = calls[i]
        /\ \A i \in DOMAIN calls : i # top => i \in DOMAIN calls'
    BY <1>0, <1>b, ReturnFrames, Zenon DEF calls
  <2> QED
    BY <2>1 DEF OtherInv, FrameInv
<1>c. Booleans /\ Booleans'
  BY StopTypes, <1>0 DEF AnyInv, TypeOK, Booleans
<1>d. \A label : At(Main, label) => calls # <<>> /\ calls[top].pc = label
  BY DEF At, Top, calls
<1> HIDE DEF top
<1> USE LifecycleAssumption, <1>c DEF Booleans, StageInv, StopInv, ThreadInv, AllLoad,
     historyVars, serverVars, kernelVars, eventVars, poolVars
<1>1. CASE StopLoad(Main)
  <2>1. calls # <<>> /\ calls[top].pc = "load"
    BY <1>1, <1>d DEF StopLoad
  <2>2. CASE running /\ Goto(Main, "store") /\ early' = (early \/ event_thread = "null")
    <3>1. "store" \in StopPC
      BY DEF StopPC
    <3>2. main \notin {"construct", "start", "store", "destroy", "quit"}
      BY <2>2 DEF AnyInv
    <3> QED
      BY <1>1, <1>a, <2>1, <2>2, <3>1, <3>2 DEF StopLoad, top
  <2>3. CASE ~running /\ Return(Main) /\ UNCHANGED <<early, astray>>
    BY <1>1, <1>b, <2>1, <2>3 DEF StopLoad, top
  <2> QED
    BY <1>1, <2>2, <2>3 DEF StopLoad
<1>2. CASE StopStore(Main)
  <2>1. calls # <<>> /\ calls[top].pc = "store" /\ Goto(Main, "test") /\ "test" \in StopPC
    BY <1>2, <1>d DEF StopStore, StopPC
  <2> QED
    BY <1>2, <1>a, <2>1 DEF StopStore, top
<1>3. CASE ShutdownTest(Main)
  <2> DEFINE label == IF shutdown THEN "join" ELSE "flag"
  <2>1. calls # <<>> /\ calls[top].pc = "test" /\ Goto(Main, label) /\ label \in StopPC
    BY <1>3, <1>d DEF ShutdownTest, StopPC
  <2> QED
    BY <1>3, <1>a, <2>1 DEF ShutdownTest, top
<1>4. CASE ShutdownStore(Main)
  <2>1. calls # <<>> /\ calls[top].pc = "flag" /\ Goto(Main, "pool") /\ "pool" \in StopPC
    BY <1>4, <1>d DEF ShutdownStore, StopPC
  <2> QED
    BY <1>4, <1>a, <2>1 DEF ShutdownStore, top
<1>e. ASSUME NEW u \in Threads \ {Main}, NEW label, label # "load" PROVE ~At(u, label)
  <2>1. frames[u] # <<>> => Len(frames[u]) \in DOMAIN frames[u]
    BY <1>0
  <2> QED
    BY <1>e, <2>1 DEF OtherInv, At, Top
<1>5. CASE StopPool(Main)
  <2>1. calls # <<>> /\ calls[top].pc = "pool" /\ Goto(Main, "join") /\ "join" \in StopPC
    BY <1>5, <1>d, <1>e DEF StopPool, StopPC
  <2>2. WorkersEnd
    BY <1>5, <1>e DEF StopPool
  <2> QED
    BY <1>5, <1>a, <2>1, <2>2 DEF StopPool, WorkersEnd, Pool!Stop, top
<1>6. CASE StopJoin(Main)
  <2>1. /\ calls # <<>> /\ calls[top].pc = "join" /\ Goto(Main, "cleanup")
        /\ "cleanup" \in StopPC
    BY <1>6, <1>d, <1>e, LifecycleAssumption DEF StopJoin, StopPC
  <2>2. /\ JoinReturns
        /\ event_thread' = IF event_thread = "joinable" THEN "joined" ELSE event_thread
    BY <1>6, <1>e, LifecycleAssumption DEF StopJoin
  <2> QED
    BY <1>6, <1>a, <2>1, <2>2 DEF StopJoin, JoinReturns, top
<1>7. CASE StopCleanup(Main)
  <2>1. /\ calls # <<>> /\ calls[top].pc = "cleanup" /\ Goto(Main, "close")
        /\ "close" \in StopPC
    BY <1>7, <1>d DEF StopCleanup, StopPC
  <2> QED
    BY <1>7, <1>a, <2>1 DEF StopCleanup, top
<1>8. CASE StopClose(Main)
  <2>1. calls # <<>> /\ calls[top].pc = "close"
    BY <1>8, <1>d DEF StopClose
  <2>2. CASE server_fd = None /\ Return(Main) /\ UNCHANGED listening
    BY <1>8, <1>b, <2>1, <2>2 DEF StopClose, top
  <2>3. CASE server_fd # None /\ listening' = FALSE /\ Goto(Main, "reset")
    <3>1. "reset" \in StopPC
      BY DEF StopPC
    <3> QED
      BY <1>8, <1>a, <2>1, <2>3, <3>1 DEF StopClose, top
  <2> QED
    BY <1>8, <2>2, <2>3 DEF StopClose
<1>9. CASE StopReset(Main)
  <2>1. calls # <<>> /\ calls[top].pc = "reset" /\ Return(Main)
    BY <1>9, <1>d DEF StopReset
  <2> QED
    BY <1>9, <1>b, <2>1 DEF StopReset, FdAfterClose, top
<1> QED
  BY <1>1, <1>2, <1>3, <1>4, <1>5, <1>6, <1>7, <1>8, <1>9 DEF stop

\* Every step of stop keeps the invariant.
LEMMA StopStep == ASSUME IInv, NEW t \in Threads, stop(t) PROVE IInv'
<1>1. astray' = FALSE => astray = FALSE
  BY DEF stop, StopLoad, StopStore, ShutdownTest, ShutdownStore, StopPool, StopJoin,
     StopCleanup, StopClose, StopReset, historyVars, IInv, AnyInv, TypeOK
<1>2. AnyInv'
  BY StopTypes DEF IInv
<1>3. CASE astray'
  BY <1>2, <1>3 DEF IInv
<1>4. CASE ~astray'
  <2>1. ~astray
    BY <1>1, <1>2, <1>4 DEF AnyInv, TypeOK
  <2>2. CASE t = Main
    BY <1>2, <2>1, <2>2, StopOnMain DEF IInv
  <2>3. CASE t # Main
    BY <1>4, <2>3, StopElsewhere
  <2> QED
    BY <2>2, <2>3
<1> QED
  BY <1>3, <1>4

\* A signal keeps it, on whichever thread its handler starts.
LEMMA SignalStep ==
  ASSUME IInv, NEW s \in Signals, NEW t \in Threads, Signal(s, t)
  PROVE  IInv'
<1> USE LifecycleAssumption DEF serverVars, kernelVars, eventVars, poolVars
<1> DEFINE new == [sig |-> s, pc |-> "load"]
<1>0. frames \in [Threads -> Seq(Frames)] /\ Main \in Threads
  BY DEF IInv, AnyInv, TypeOK, FramesOK, Frames, Threads
<1>1. /\ frames' \in [Threads -> Seq(Frames)]
      /\ \A u \in Threads \ {t} : frames'[u] = frames[u]
      /\ Len(frames'[t]) = Len(frames[t]) + 1
      /\ DOMAIN frames'[t] = DOMAIN frames[t] \cup {Len(frames'[t])}
      /\ Len(frames'[t]) \notin DOMAIN frames[t]
      /\ frames'[t][Len(frames'[t])] = new
      /\ \A i \in DOMAIN frames[t] : frames'[t][i] = frames[t][i]
  BY <1>0, SignalFrames, Zenon DEF Signal
<1>2. new.sig = s /\ new.pc = "load"
  OBVIOUS
<1> HIDE DEF new
<1>3. FramesOK'
  <2>1. ASSUME NEW u \in Threads, NEW i \in DOMAIN frames'[u], NEW j \in DOMAIN frames'[u],
               frames'[u][i].sig = frames'[u][j].sig
        PROVE  i = j
    <3>1. CASE u = t
      BY <1>1, <1>2, <2>1, <3>1 DEF IInv, AnyInv, TypeOK, FramesOK, Signal
    <3>2. CASE u # t
      BY <1>1, <2>1, <3>2 DEF IInv, AnyInv, TypeOK, FramesOK
    <3> QED
      BY <3>1, <3>2
  <2> QED
    BY <1>1, <2>1 DEF FramesOK, Frames
<1>4. AnyInv'
  BY <1>3 DEF IInv, AnyInv, TypeOK, Signal
<1>5. ASSUME ~astray
      PROVE  OtherInv' /\ FrameInv' /\ StageInv' /\ StopInv' /\ ThreadInv'
  <2>1. OtherInv'
    BY <1>1, <1>2, <1>5 DEF IInv, OtherInv
  <2>2. CASE t # Main
    <3>1. calls' = calls
      BY <1>0, <1>1, <2>2 DEF calls
    <3> QED
      BY <1>5, <2>1, <3>1 DEF IInv, FrameInv, StageInv, StopInv, ThreadInv, AllLoad, Signal
  <2>3. CASE t = Main
    <3>1. /\ DOMAIN calls' = DOMAIN calls \cup {Len(calls')} /\ Len(calls') \notin DOMAIN calls
          /\ Len(calls') = Len(calls) + 1
          /\ calls'[Len(calls')].pc = "load"
          /\ \A i \in DOMAIN calls : calls'[i] = calls[i]
          /\ (calls # <<>> => Len(calls) \in DOMAIN calls)
      BY <1>0, <1>1, <1>2, <2>3 DEF calls
    <3>2. \A i \in DOMAIN calls : calls[i].pc \in {"load", "store"}
      BY <1>5 DEF IInv, StageInv, StopInv, AllLoad, Signal
    <3>3. AllLoad' <=> AllLoad
      BY <3>1 DEF AllLoad
    <3> QED
      BY <1>5, <2>1, <3>1, <3>2, <3>3 DEF IInv, FrameInv, StageInv, StopInv, ThreadInv, Signal
  <2> QED
    BY <2>2, <2>3
<1> QED
  BY <1>4, <1>5 DEF IInv, Signal

\* Every behaviour of the program keeps the inductive invariant.
LEMMA Invariance == Spec => []IInv
<1>1. IInv /\ [Next]_vars => IInv'
  <2> SUFFICES ASSUME IInv, [Next]_vars PROVE IInv'
    OBVIOUS
  <2>1. CASE UNCHANGED vars
    <3>1. /\ calls' = calls /\ (AllLoad' <=> AllLoad)
          /\ (OtherInv => OtherInv') /\ (FrameInv => FrameInv') /\ (FramesOK => FramesOK')
      BY <2>1, SameFrames DEF vars, mainVars, signalVars
    <3> QED
      BY <2>1, <3>1 DEF vars, mainVars, signalVars, historyVars, serverVars, kernelVars,
         eventVars, poolVars, IInv, AnyInv, TypeOK, StageInv, StopInv, ThreadInv
  <2> QED
    BY <2>1, MainStep, EventStep, StopStep, SignalStep, OtherStep DEF Next
<1> QED
  BY <1>1, LifecycleInit, PTL DEF Spec

-------------------------------------------------------------------------------
(* The properties *)

\* The variables of the process keep their types, and no thread handles a signal
\* while it is handling it already.
THEOREM LifecycleTypes == Spec => []TypeOK
<1>1. IInv => TypeOK
  BY DEF IInv, AnyInv
<1> QED
  BY <1>1, Invariance, PTL

\* A stop on the main thread cleans up alone: for any number of clients and
\* signals, on whichever threads these come, no task runs and the event thread has
\* left its loop, unless a signal came before start had stored the thread, or
\* another thread, too, has found the server running in its call of stop.
THEOREM CleanupIsAlone == Spec => []CleanupAlone
<1>1. IInv => CleanupAlone
  <2> SUFFICES ASSUME IInv, ~astray, NEW i \in DOMAIN frames[Main],
                      frames[Main][i].pc \in {"cleanup", "close", "reset"}
               PROVE  Quiet \/ (busy = {} /\ early)
    BY DEF CleanupAlone
  <2>1. event_thread \in {"null", "joinable", "joined"}
    BY DEF IInv, AnyInv, TypeOK
  <2> QED
    BY <2>1 DEF IInv, StopInv, ThreadInv, Quiet, calls
<1> QED
  BY <1>1, Invariance, PTL

\* What stop leaves behind is clean: no open socket, no map entry, no thread at
\* work, and none of them comes back, unless stop ran on another thread.
THEOREM StopLeavesNothing == Spec => []StopIsClean
<1>1. IInv => StopIsClean
  BY LifecycleAssumption DEF IInv, AnyInv, StageInv, ThreadInv, StopIsClean
<1> QED
  BY <1>1, Invariance, PTL

\* The map holds open descriptors only, whatever happens, and the listening one is
\* not closed twice however signals interrupt each other's handlers on the main
\* thread.
THEOREM NothingClosedTwice == Spec => []ClosedOnce
<1>1. IInv => ClosedOnce
  <2> SUFFICES ASSUME IInv PROVE ClosedOnce
    OBVIOUS
  <2>1. connections \subseteq open
    BY DEF IInv, AnyInv
  <2>2. ASSUME ~astray, NEW i \in DOMAIN calls, calls[i].pc = "close", server_fd # None
        PROVE  listening
    BY <2>2 DEF IInv, FrameInv, StopInv
  <2> QED
    BY <2>1, <2>2 DEF ClosedOnce, calls
<1> QED
  BY <1>1, Invariance, PTL

\* ~Server destroys a thread nobody has joined only after a signal that came
\* before start had stored that thread, or that was handled on another thread.
THEOREM JoinedUnlessEarly == Spec => []JoinedBeforeDestroyed
<1>1. IInv => JoinedBeforeDestroyed
  BY DEF IInv, AnyInv, StageInv, ThreadInv, JoinedBeforeDestroyed
<1> QED
  BY <1>1, Invariance, PTL
===============================================================================
