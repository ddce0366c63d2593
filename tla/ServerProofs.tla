------------------------------ MODULE ServerProofs ------------------------------
(***************************************************************************)
(* Proofs about Server, for every number of clients, workers, descriptors, *)
(* connection slots and requests, pipelined or not.                        *)
(*                                                                         *)
(* A close takes three steps (find, erase, close the descriptor) and an    *)
(* accept four (accept, test the limit, register, insert), and they run on *)
(* different threads.  What keeps them apart is spread over the code: who  *)
(* erases has held the map since it found the entry (LockInv), who closes  *)
(* an oversized connection holds its mutex, which keeps others from        *)
(* erasing it (LockInv, DataInv), only the event thread inserts, so what  *)
(* it found under a number is there or gone but never replaced (DataInv), *)
(* and a Connection is made for a client no thread has seen (BirthInv).    *)
(***************************************************************************)
EXTENDS Server, FiniteSetTheorems, TLAPS

-------------------------------------------------------------------------------
(* The inductive invariant *)

DataPC == {"lookup", "recv", "datalock", "datacheck", "oversize", "oversizeclose", "enqueue"}
AcceptPC == {"limit", "register", "insert"}
SendPC == {"send", "arm", "disarm"}
ClosePC == {"close", "erase", "closefd"}

\* Where a thread returns to, and where the descriptor and the Connection it
\* works on are valid.
ControlInv ==
  /\ pc[Event] \in EventPC \cup SharedPC
  /\ ret[Event] # "finish"
  /\ pc[Event] \in DataPC => ret[Event] \in {"dispatch", "write"}
  /\ pc[Event] \in SharedPC => ret[Event] \in {"dispatch", "write", "cleanup"}
  /\ pc[Event] \in SendPC => ret[Event] = "dispatch"
  /\ pc[Event] \in AcceptPC \cup DataPC \cup ClosePC \cup {"write", "arm", "disarm"} =>
       cfd[Event] \in Fds
  /\ pc[Event] \in AcceptPC \cup (DataPC \ {"lookup"}) \cup SendPC => cur[Event] \in Clients
  /\ \A w \in Workers :
       /\ pc[w] \in WorkerPC \cup SharedPC
       /\ pc[w] \in SharedPC => ret[w] = "finish"
       /\ pc[w] \in ClosePC \cup {"arm", "disarm"} => cfd[w] \in Fds
       /\ pc[w] # "idle" => cur[w] \in Clients

Queued(k) == \E i \in DOMAIN tasks : tasks[i] = k
Handled(k) == \E w \in Workers : pc[w] # "idle" /\ cur[w] = k
InHand(k) == pc[Event] \in (DataPC \ {"lookup"}) \cup SendPC /\ cur[Event] = k

\* The server has a Connection for client k, or has yet to make one.
Known(k) == InMap(k) \/ Queued(k) \/ Handled(k) \/ InHand(k)
Unborn(k) == peer[k] = "new" \/ InBacklog(k) \/ (Accepting /\ cur[Event] = k)

\* A Connection is made once, before anybody works on it.
BirthInv ==
  /\ \A k \in Clients : Known(k) => ~Unborn(k) /\ conn[k].fd \in Fds
  /\ \A k \in Clients : peer[k] = "new" => ~InBacklog(k) /\ ~(Accepting /\ cur[Event] = k)
  /\ \A k \in Clients : InBacklog(k) => ~(Accepting /\ cur[Event] = k)
  /\ \A i, j \in DOMAIN backlog : backlog[i] = backlog[j] => i = j

\* Who holds which mutex.
LockInv ==
  /\ \A t \in Threads : pc[t] \in {"erase", "abandon", "scan"} => map_mutex = t
  /\ \A t \in Threads : pc[t] = "erase" => connections[cfd[t]] # None
  /\ \A t \in Threads : pc[t] \in {"arm", "disarm"} => conn_mutex[cur[t]] = t
  /\ pc[Event] \in {"datacheck", "oversize", "oversizeclose"} => conn_mutex[cur[Event]] = Event

\* What the event thread knows of the descriptor it accepts a connection on,
AcceptInv ==
  /\ Accepting => connections[cfd[Event]] = None /\ sock[cfd[Event]] = cur[Event]
  /\ pc[Event] = "insert" => "IN" \in interest[cfd[Event]]

\* and of the one it receives from: what it found there is there or gone, but
\* not replaced, and stays there while it holds the Connection's mutex.
DataInv ==
  /\ pc[Event] \in {"recv", "datalock", "datacheck"} =>
       connections[cfd[Event]] \in {None, cur[Event]}
  /\ pc[Event] = "oversize" => connections[cfd[Event]] = cur[Event]

\* The limit was tested, and only the event thread adds entries.
LimitInv ==
  /\ IsFiniteSet(Mapped)
  /\ ConnectionLimit
  /\ pc[Event] \in {"register", "insert"} => Cardinality(Mapped) < MaxConnections

\* A Connection is in one place, and processing_request says so.
HandlerInv ==
  /\ \A v, w \in Workers : pc[v] # "idle" /\ pc[w] # "idle" /\ cur[v] = cur[w] => v = w
  /\ \A i, j \in DOMAIN tasks : tasks[i] = tasks[j] => i = j
  /\ \A k \in Clients :
       /\ ~(Queued(k) /\ Handled(k))
       /\ pc[Event] = "enqueue" /\ cur[Event] = k => ~Queued(k) /\ ~Handled(k)
       /\ Queued(k) \/ Handled(k) \/ (pc[Event] = "enqueue" /\ cur[Event] = k)
            => conn[k].processing_request

IInv ==
  /\ TypeOK /\ ControlInv /\ BirthInv /\ LockInv /\ AcceptInv /\ DataInv
  /\ MapMatchesDescriptors /\ CloseIsExclusive /\ NoDescriptorLeak
  /\ LimitInv /\ HandlerInv /\ PendingResponseHasBytes

-------------------------------------------------------------------------------
(* Types, in groups of variables that change together *)

Connections ==
  [fd : Fds \cup {0}, buffer : Seq(Units), keep_alive : BOOLEAN, idle : BOOLEAN,
   pending : Requests, offset : 0..RespLen, has_pending_write : BOOLEAN,
   processing_request : BOOLEAN]

ControlTypes ==
  /\ pc \in [Threads -> EventPC \cup WorkerPC \cup SharedPC]
  /\ cur \in [Threads -> Clients \cup {None}]
  /\ cfd \in [Threads -> Fds \cup {0}]
  /\ ret \in [Threads -> {"wait", "dispatch", "write", "cleanup", "finish"}]

MapTypes ==
  /\ connections \in [Fds -> Clients \cup {None}]
  /\ sock \in [Fds -> Clients \cup {None}]
  /\ map_mutex \in Threads \cup {None}
  /\ conn_mutex \in [Clients -> Threads \cup {None}]
  /\ tasks \in Seq(Clients)
  /\ backlog \in Seq(Clients)

ConnType == conn \in [Clients -> Connections]

CoreTypes == ControlTypes /\ MapTypes /\ ConnType

ListTypes ==
  /\ batch \subseteq [fd : Fds \cup {Listen}, events : SUBSET Events]
  /\ scan \subseteq Fds
  /\ inactive \subseteq Fds
  /\ interest \in [Fds -> SUBSET Events]

ClientTypes ==
  /\ inbox \in [Clients -> Seq(Units)]
  /\ peer \in [Clients -> {"new", "open", "closed"}]
  /\ pos \in [Clients -> Nat]
  /\ data \in Seq(Units)

SentTypes ==
  /\ sent \in [Clients -> Seq(ResponseUnits)]
  /\ unread \in [Clients -> 0..SndCap]

ReplyTypes == reply \in [Workers -> Requests]

\* The groups make up the type invariant.
LEMMA TypeGroups ==
  TypeOK <=> CoreTypes /\ ListTypes /\ ClientTypes /\ SentTypes /\ ReplyTypes
  BY Zenon DEF TypeOK, CoreTypes, ControlTypes, MapTypes, ConnType, Connections, ListTypes,
     ClientTypes, SentTypes, ReplyTypes

\* accept returns a descriptor that is free, if there is one: a set of numbers
\* that is not empty has a smallest one.
LEMMA LowestFreeIsFree ==
  ASSUME \E f \in Fds : sock[f] = None
  PROVE  LowestFree \in Fds /\ sock[LowestFree] = None
<1> DEFINE Free == {f \in Fds : sock[f] = None}
<1>1. Free \subseteq Nat /\ Free # {}
  BY ServerAssumption
<1>2. PICK m \in Free : \A f \in Free : ~(<<f, m>> \in OpToRel(<, Nat))
  BY <1>1, NatLessThanWellFounded, WFMin, Zenon
<1>3. ASSUME NEW f \in Free PROVE m <= f
  <2>1. f \in Nat /\ m \in Nat
    BY <1>1
  <2>2. <<f, m>> \in Nat \X Nat /\ <<f, m>>[1] = f /\ <<f, m>>[2] = m
    BY <2>1
  <2>3. ~(f < m)
    BY <1>2, <2>2 DEF OpToRel
  <2> QED
    BY <2>1, <2>3
<1>4. \E f \in Fds : sock[f] = None /\ \A g \in Fds : sock[g] = None => f <= g
  BY <1>3
<1> QED
  BY <1>4 DEF LowestFree

\* The steps that change a Connection.
LEMMA ConnFrame ==
  ASSUME [Next]_vars
  PROVE  \/ UNCHANGED conn
         \/ \E k \in Clients : Timeout(k)
         \/ AcceptInsert \/ DataCheck
         \/ \E t \in Threads : SendBegin(t)
         \/ \E w \in Workers : \/ RequestKeepAlive(w) \/ RequestAbandon(w)
                               \/ RequestPublish(w) \/ RequestFinish(w)
  BY ZenonT(30) DEF Threads, Goto, serverVars, kernelVars, clientVars, localVars, vars,
     Next, EventThread, WorkerThread, Environment, send_response_async, close_connection,
     Connect, ClientSend, ClientRead, ClientClose, EpollWait, EventDispatch, Accept,
     AcceptLimit, AcceptRegister, DataLookup, DataRecv, DataLock, DataOversize,
     DataOversizeClose, DataEnqueue, WriteLookup, CleanupBegin, CleanupVisit, CleanupEnd,
     CleanupNext, SendArm, SendDisarm, CloseFind, CloseErase, CloseFd, TaskBegin, RequestParse,
     RequestThrow, RequestPresent

\* The steps that write to a socket or read from it at the other end.
LEMMA SentFrame ==
  ASSUME [Next]_vars
  PROVE  \/ UNCHANGED <<sent, unread>>
         \/ \E k \in Clients : ClientRead(k)
         \/ \E t \in Threads : SendBegin(t)
  BY ZenonT(30) DEF Threads, Goto, serverVars, kernelVars, clientVars, localVars, vars,
     Next, EventThread, WorkerThread, Environment, send_response_async, close_connection,
     Connect, ClientSend, ClientClose, Timeout, EpollWait, EventDispatch, Accept, AcceptLimit,
     AcceptRegister, AcceptInsert, DataLookup, DataRecv, DataLock, DataCheck, DataOversize,
     DataOversizeClose, DataEnqueue, WriteLookup, CleanupBegin, CleanupVisit, CleanupEnd,
     CleanupNext, SendArm, SendDisarm, CloseFind, CloseErase, CloseFd, TaskBegin, RequestParse,
     RequestKeepAlive, RequestThrow, RequestPresent, RequestAbandon, RequestPublish,
     RequestFinish

\* The Connection that a thread sends from, or a worker handles, has a descriptor.
LEMMA InUse ==
  ASSUME CoreTypes, ControlInv, BirthInv
  PROVE  /\ \A t \in Threads : pc[t] \in SendPC => cur[t] \in Clients /\ conn[cur[t]].fd \in Fds
         /\ \A w \in Workers : pc[w] # "idle" => cur[w] \in Clients /\ conn[cur[w]].fd \in Fds
<1>1. ASSUME NEW w \in Workers, pc[w] # "idle"
      PROVE  cur[w] \in Clients /\ conn[cur[w]].fd \in Fds
  BY <1>1 DEF ControlInv, BirthInv, Known, Handled
<1>2. ASSUME pc[Event] \in SendPC PROVE cur[Event] \in Clients /\ conn[cur[Event]].fd \in Fds
  BY <1>2 DEF ControlInv, BirthInv, Known, InHand
<1> QED
  BY <1>1, <1>2 DEF Threads, SendPC, ControlInv, WorkerPC

\* A send goes one of three ways: nothing to do, a full or failing socket, or n
\* units are written.
LEMMA SendCases ==
  ASSUME CoreTypes, SentTypes, ControlInv, BirthInv, PendingResponseHasBytes,
         NEW t \in Threads, SendBegin(t)
  PROVE  LET k == cur[t]
             s == sock[conn[k].fd]
             n == SendCount(conn[k], s)
         IN  /\ cfd' = [cfd EXCEPT ![t] = conn[k].fd]
             /\ pc[t] = "send" /\ conn_mutex[k] = None /\ k \in Clients /\ conn[k].fd \in Fds
             /\ \/ /\ pc' = [pc EXCEPT ![t] = ret[t]]
                   /\ UNCHANGED <<conn, conn_mutex, sent, unread>>
                \/ /\ pc' = [pc EXCEPT ![t] = "arm"]
                   /\ conn_mutex' = [conn_mutex EXCEPT ![k] = t]
                   /\ UNCHANGED <<conn, sent, unread>>
                \/ /\ s \in Clients /\ n \in 1..(RespLen - conn[k].offset)
                   /\ n <= SndCap - unread[s]
                   /\ sent' = [sent EXCEPT ![s] = @ \o SubSeq(Remaining(k), 1, n)]
                   /\ unread' = [unread EXCEPT ![s] = @ + n]
                   /\ conn' = [conn EXCEPT ![k] = AfterSend(conn[k], n)]
                   /\ conn_mutex' = [conn_mutex EXCEPT ![k] = t]
                   /\ pc' = [pc EXCEPT ![t] = "arm"] \/ pc' = [pc EXCEPT ![t] = "disarm"]
                \/ /\ pc' = [pc EXCEPT ![t] = "close"]
                   /\ conn' = [conn EXCEPT ![k] = [conn[k] EXCEPT !.keep_alive = FALSE,
                                                                   !.has_pending_write = FALSE]]
                   /\ UNCHANGED <<conn_mutex, sent, unread>>
             /\ UNCHANGED <<connections, map_mutex, tasks, sock, interest, backlog, inbox,
                            peer, pos, cur, ret, reply, batch, data, scan, inactive>>
<1> DEFINE k == cur[t]
           s == sock[conn[k].fd]
           n == SendCount(conn[k], s)
<1>0. pc[t] = "send" /\ k \in Clients /\ conn[k].fd \in Fds
  BY InUse, Zenon DEF SendBegin, SendPC
<1>1. /\ conn[k] \in Connections /\ conn[k].offset \in 0..RespLen
      /\ conn[k].has_pending_write => conn[k].offset < RespLen
      /\ s \in Clients \cup {None}
  BY <1>0 DEF CoreTypes, ConnType, Connections, MapTypes, PendingResponseHasBytes
<1>2. s # None => s \in Clients /\ unread[s] \in 0..SndCap
  BY <1>1 DEF SentTypes
<1>3. conn[k].has_pending_write /\ s # None =>
        n \in 0..(RespLen - conn[k].offset) /\ n <= SndCap - unread[s]
  <2>1. ASSUME NEW a \in Nat, NEW b \in Nat
        PROVE  Smaller(a, b) \in 0..a /\ Smaller(a, b) <= b
    BY DEF Smaller
  <2>2. ASSUME conn[k].has_pending_write, s # None
        PROVE  RespLen - conn[k].offset \in Nat /\ SndCap - unread[s] \in Nat
    BY <1>1, <1>2, <2>2, ServerAssumption
  <2> HIDE DEF k, s
  <2> QED
    BY <2>1, <2>2 DEF SendCount
<1>a. /\ cfd' = [cfd EXCEPT ![t] = conn[k].fd]
      /\ pc[t] = "send" /\ conn_mutex[k] = None /\ k \in Clients /\ conn[k].fd \in Fds
      /\ UNCHANGED <<connections, map_mutex, tasks, sock, interest, backlog, inbox,
                     peer, pos, cur, ret, reply, batch, data, scan, inactive>>
  BY <1>0, Zenon DEF SendBegin, clientVars
<1>4. CASE pc' = [pc EXCEPT ![t] = ret[t]] /\ UNCHANGED <<conn, conn_mutex, sent, unread>>
  BY <1>4, <1>a
<1>5. CASE /\ pc' = [pc EXCEPT ![t] = "arm"] /\ conn_mutex' = [conn_mutex EXCEPT ![k] = t]
           /\ UNCHANGED <<conn, sent, unread>>
  BY <1>5, <1>a
<1>6. CASE /\ conn[k].has_pending_write /\ s # None /\ n > 0
           /\ sent' = [sent EXCEPT ![s] = @ \o SubSeq(Remaining(k), 1, n)]
           /\ unread' = [unread EXCEPT ![s] = @ + n]
           /\ conn' = [conn EXCEPT ![k] = AfterSend(@, n)]
           /\ conn_mutex' = [conn_mutex EXCEPT ![k] = t]
           /\ Goto(t, IF AfterSend(conn[k], n).has_pending_write THEN "arm" ELSE "disarm")
  <2>1. n \in 1..(RespLen - conn[k].offset) /\ n <= SndCap - unread[s] /\ s \in Clients
    <3> HIDE DEF k, s, n
    <3>1. conn[k].offset \in Nat /\ RespLen \in Nat
      BY <1>1, ServerAssumption
    <3> QED
      BY <1>2, <1>3, <1>6, <3>1
  <2>2. pc' = [pc EXCEPT ![t] = "arm"] \/ pc' = [pc EXCEPT ![t] = "disarm"]
    BY <1>6, Zenon DEF Goto
  <2>3. conn' = [conn EXCEPT ![k] = AfterSend(conn[k], n)]
    BY <1>0, <1>6, Zenon DEF CoreTypes, ConnType
  <2> QED
    BY <1>6, <1>a, <2>1, <2>2, <2>3, Zenon
<1>7. CASE /\ conn' = [conn EXCEPT ![k].keep_alive = FALSE, ![k].has_pending_write = FALSE]
           /\ pc' = [pc EXCEPT ![t] = "close"]
           /\ UNCHANGED <<conn_mutex, sent, unread>>
  <2>1. conn' = [conn EXCEPT ![k] = [conn[k] EXCEPT !.keep_alive = FALSE,
                                                     !.has_pending_write = FALSE]]
    BY <1>0, <1>7 DEF CoreTypes, ConnType, Connections
  <2> QED
    BY <1>7, <1>a, <2>1, Zenon
<1> QED
  BY <1>4, <1>5, <1>6, <1>7, Zenon DEF SendBegin, Goto

\* What a send does to the threads and the mutexes.
SendMoves(t) ==
  /\ pc[t] = "send" /\ conn_mutex[cur[t]] = None
  /\ cur[t] \in Clients /\ conn[cur[t]].fd \in Fds
  /\ cfd' = [cfd EXCEPT ![t] = conn[cur[t]].fd]
  /\ \/ pc' = [pc EXCEPT ![t] = ret[t]] /\ UNCHANGED conn_mutex
     \/ pc' = [pc EXCEPT ![t] = "close"] /\ UNCHANGED conn_mutex
     \/ /\ pc' \in {[pc EXCEPT ![t] = "arm"], [pc EXCEPT ![t] = "disarm"]}
        /\ conn_mutex' = [conn_mutex EXCEPT ![cur[t]] = t]
  /\ UNCHANGED <<connections, map_mutex, tasks, sock, interest, backlog, inbox,
                 peer, pos, cur, ret, reply, batch, data, scan, inactive>>

\* Every send moves its thread on in one of those ways.
LEMMA SendControl ==
  ASSUME CoreTypes, SentTypes, ControlInv, BirthInv, PendingResponseHasBytes,
         NEW t \in Threads, SendBegin(t)
  PROVE  SendMoves(t)
  BY SendCases, Zenon DEF SendMoves

\* The labels, the Connection and the descriptor a thread works on keep their
\* types.
LEMMA ControlTypesStep == CoreTypes /\ ListTypes /\ SentTypes /\ ControlInv /\ BirthInv /\
  PendingResponseHasBytes /\ [Next]_vars => ControlTypes'
<1> SUFFICES ASSUME CoreTypes, ListTypes, SentTypes, ControlInv, BirthInv,
  PendingResponseHasBytes, [Next]_vars PROVE ControlTypes'
  OBVIOUS
<1> USE ServerAssumption DEF Threads, Goto, serverVars, kernelVars, clientVars, localVars,
     EventPC, WorkerPC, SharedPC, DataPC, AcceptPC, SendPC, ClosePC, CoreTypes, ControlTypes,
     MapTypes, ListTypes
<1>1. ASSUME NEW k \in Clients, Connect(k) \/ ClientSend(k) \/ ClientRead(k) \/
         ClientClose(k) \/ Timeout(k)
      PROVE  ControlTypes'
  BY <1>1 DEF Connect, ClientSend, ClientRead, ClientClose, Timeout
<1>2. CASE EpollWait \/ EventDispatch
  BY <1>2 DEF EpollWait, EventDispatch
<1>3. CASE Accept
  <2>1. CASE backlog = <<>>
    BY <1>3, <2>1 DEF Accept
  <2>2. CASE backlog # <<>>
    <3>1. LowestFree \in Fds
      BY <1>3, <2>2, LowestFreeIsFree DEF Accept
    <3> HIDE DEF MapTypes
    <3>2. Head(backlog) \in Clients
      BY <2>2 DEF MapTypes
    <3> QED
      BY <1>3, <2>2, <3>1, <3>2 DEF Accept
  <2> QED
    BY <2>1, <2>2
<1>4. CASE AcceptLimit \/ AcceptRegister
  BY <1>4 DEF AcceptLimit, AcceptRegister, add_fd
<1>5. CASE AcceptInsert
  BY <1>5 DEF AcceptInsert
<1>6. CASE DataLookup
  BY <1>6 DEF DataLookup, ControlInv
<1>7. CASE DataRecv
  BY <1>7 DEF DataRecv
<1>8. CASE DataLock
  BY <1>8 DEF DataLock
<1>9. CASE DataCheck
  BY <1>9 DEF DataCheck
<1>10. CASE DataOversize \/ DataOversizeClose
  BY <1>10 DEF DataOversize, DataOversizeClose, remove_fd
<1>11. CASE DataEnqueue
  BY <1>11 DEF DataEnqueue
<1>12. CASE WriteLookup
  BY <1>12 DEF WriteLookup, ControlInv
<1>13. CASE CleanupBegin \/ CleanupVisit \/ CleanupEnd \/ CleanupNext
  BY <1>13 DEF CleanupBegin, CleanupVisit, CleanupEnd, CleanupNext
<1>14. ASSUME NEW t \in Threads, SendBegin(t) PROVE ControlTypes'
  <2>1. SendMoves(t)
    BY <1>14, SendControl, Zenon
  <2> HIDE DEF MapTypes, ListTypes
  <2> QED
    BY <2>1 DEF SendMoves
<1>15. ASSUME NEW t \in Threads, SendArm(t) PROVE ControlTypes'
  BY <1>15 DEF SendArm, modify_fd
<1>16. ASSUME NEW t \in Threads, SendDisarm(t) PROVE ControlTypes'
  BY <1>16 DEF SendDisarm, modify_fd
<1>17. ASSUME NEW t \in Threads, CloseFind(t) PROVE ControlTypes'
  BY <1>17 DEF CloseFind
<1>18. ASSUME NEW t \in Threads, CloseErase(t) PROVE ControlTypes'
  BY <1>18 DEF CloseErase
<1>19. ASSUME NEW t \in Threads, CloseFd(t) PROVE ControlTypes'
  BY <1>19 DEF CloseFd, remove_fd
<1>20. ASSUME NEW w \in Workers, TaskBegin(w) PROVE ControlTypes'
  BY <1>20 DEF TaskBegin
<1>21. ASSUME NEW w \in Workers, RequestParse(w) PROVE ControlTypes'
  BY <1>21 DEF RequestParse
<1>22. ASSUME NEW w \in Workers, RequestKeepAlive(w) PROVE ControlTypes'
  BY <1>22 DEF RequestKeepAlive
<1>23. ASSUME NEW w \in Workers, RequestThrow(w) PROVE ControlTypes'
  BY <1>23 DEF RequestThrow
<1>24. ASSUME NEW w \in Workers, RequestPresent(w) PROVE ControlTypes'
  BY <1>24 DEF RequestPresent
<1>25. ASSUME NEW w \in Workers, RequestAbandon(w) PROVE ControlTypes'
  BY <1>25 DEF RequestAbandon
<1>26. ASSUME NEW w \in Workers, RequestPublish(w) PROVE ControlTypes'
  BY <1>26 DEF RequestPublish
<1>27. ASSUME NEW w \in Workers, RequestFinish(w) PROVE ControlTypes'
  BY <1>27 DEF RequestFinish
<1>28. CASE UNCHANGED vars
  BY <1>28 DEF vars
<1> QED
  BY <1>1, <1>2, <1>3, <1>4, <1>5, <1>6, <1>7, <1>8, <1>9, <1>10, <1>11, <1>12, <1>13, <1>14,
     <1>15, <1>16, <1>17, <1>18, <1>19, <1>20, <1>21, <1>22, <1>23, <1>24, <1>25, <1>26, <1>27,
     <1>28
     DEF Next, EventThread, WorkerThread, Environment, send_response_async, close_connection

\* The map, the mutexes, the queue and the descriptor table keep their types.
LEMMA MapTypesStep == CoreTypes /\ ListTypes /\ SentTypes /\ ControlInv /\ BirthInv /\
  PendingResponseHasBytes /\ [Next]_vars => MapTypes'
<1> SUFFICES ASSUME CoreTypes, ListTypes, SentTypes, ControlInv, BirthInv,
  PendingResponseHasBytes, [Next]_vars PROVE MapTypes'
  OBVIOUS
<1> USE ServerAssumption DEF Threads, Goto, serverVars, kernelVars, clientVars, localVars,
     EventPC, WorkerPC, SharedPC, DataPC, AcceptPC, SendPC, ClosePC, CoreTypes, ControlTypes,
     MapTypes, ControlInv
<1>1. ASSUME NEW k \in Clients, Connect(k) PROVE MapTypes'
  BY <1>1 DEF Connect
<1>2. ASSUME NEW k \in Clients, ClientSend(k) PROVE MapTypes'
  BY <1>2 DEF ClientSend
<1>3. ASSUME NEW k \in Clients, ClientRead(k) PROVE MapTypes'
  BY <1>3 DEF ClientRead
<1>4. ASSUME NEW k \in Clients, ClientClose(k) PROVE MapTypes'
  BY <1>4 DEF ClientClose
<1>5. ASSUME NEW k \in Clients, Timeout(k) PROVE MapTypes'
  BY <1>5 DEF Timeout
<1>6. CASE EpollWait \/ EventDispatch
  BY <1>6 DEF EpollWait, EventDispatch
<1>7. CASE Accept
  <2>1. CASE backlog = <<>>
    BY <1>7, <2>1 DEF Accept
  <2>2. CASE backlog # <<>>
    <3>1. LowestFree \in Fds
      BY <1>7, <2>2, LowestFreeIsFree DEF Accept
    <3>2. Head(backlog) \in Clients /\ Tail(backlog) \in Seq(Clients)
      BY <2>2
    <3>3. /\ sock' = [sock EXCEPT ![LowestFree] = Head(backlog)] /\ backlog' = Tail(backlog)
          /\ UNCHANGED <<connections, map_mutex, conn_mutex, tasks>>
      BY <1>7, <2>2 DEF Accept
    <3> QED
      BY <3>1, <3>2, <3>3
  <2> QED
    BY <2>1, <2>2
<1>8. CASE AcceptLimit
  BY <1>8 DEF AcceptLimit
<1>9. CASE AcceptRegister
  BY <1>9 DEF AcceptRegister, add_fd
<1>10. CASE AcceptInsert
  BY <1>10 DEF AcceptInsert
<1>11. CASE DataLookup
  BY <1>11 DEF DataLookup
<1>12. CASE DataRecv
  BY <1>12 DEF DataRecv
<1>13. CASE DataLock
  BY <1>13 DEF DataLock
<1>14. CASE DataCheck
  BY <1>14, Zenon DEF DataCheck
<1>15. CASE DataOversize
  BY <1>15, Zenon DEF DataOversize
<1>16. CASE DataOversizeClose
  BY <1>16, Zenon DEF DataOversizeClose, remove_fd
<1>17. CASE DataEnqueue
  BY <1>17 DEF DataEnqueue
<1>18. CASE WriteLookup
  BY <1>18 DEF WriteLookup
<1>19. CASE CleanupBegin \/ CleanupVisit \/ CleanupEnd \/ CleanupNext
  BY <1>19 DEF CleanupBegin, CleanupVisit, CleanupEnd, CleanupNext
<1>20. ASSUME NEW t \in Threads, SendBegin(t) PROVE MapTypes'
  <2>1. SendMoves(t)
    BY <1>20, SendControl, Zenon
  <2> HIDE DEF ControlInv, ControlTypes
  <2>2. conn_mutex' \in [Clients -> Threads \cup {None}]
    BY <2>1 DEF SendMoves
  <2>3. UNCHANGED <<connections, sock, map_mutex, tasks, backlog>>
    BY <2>1 DEF SendMoves
  <2> QED
    BY <2>2, <2>3
<1>21. ASSUME NEW t \in Threads, SendArm(t) PROVE MapTypes'
  BY <1>21 DEF SendArm, modify_fd
<1>22. ASSUME NEW t \in Threads, SendDisarm(t) PROVE MapTypes'
  BY <1>22 DEF SendDisarm, modify_fd
<1>23. ASSUME NEW t \in Threads, CloseFind(t) PROVE MapTypes'
  BY <1>23 DEF CloseFind
<1>24. ASSUME NEW t \in Threads, CloseErase(t) PROVE MapTypes'
  BY <1>24 DEF CloseErase
<1>25. ASSUME NEW t \in Threads, CloseFd(t) PROVE MapTypes'
  BY <1>25 DEF CloseFd, remove_fd
<1>26. ASSUME NEW w \in Workers, TaskBegin(w) PROVE MapTypes'
  BY <1>26 DEF TaskBegin
<1>27. ASSUME NEW w \in Workers, RequestParse(w) \/ RequestKeepAlive(w) \/ RequestThrow(w)
         \/ RequestPresent(w)
      PROVE  MapTypes'
  BY <1>27 DEF RequestParse, RequestKeepAlive, RequestThrow, RequestPresent
<1>28. ASSUME NEW w \in Workers, RequestAbandon(w) \/ RequestPublish(w) \/
         RequestFinish(w)
      PROVE  MapTypes'
  BY <1>28 DEF RequestAbandon, RequestPublish, RequestFinish
<1>29. CASE UNCHANGED vars
  BY <1>29 DEF vars
<1> QED
  BY <1>1, <1>2, <1>3, <1>4, <1>5, <1>6, <1>7, <1>8, <1>9, <1>10, <1>11, <1>12, <1>13, <1>14,
     <1>15, <1>16, <1>17, <1>18, <1>19, <1>20, <1>21, <1>22, <1>23, <1>24, <1>25, <1>26, <1>27,
     <1>28, <1>29
     DEF Next, EventThread, WorkerThread, Environment, send_response_async, close_connection

\* The event batch, the cleanup lists and the epoll registrations keep their
\* types.
LEMMA ListTypesStep == CoreTypes /\ ListTypes /\ SentTypes /\ ControlInv /\ BirthInv /\
  PendingResponseHasBytes /\ [Next]_vars => ListTypes'
<1> SUFFICES ASSUME CoreTypes, ListTypes, SentTypes, ControlInv, BirthInv,
  PendingResponseHasBytes, [Next]_vars PROVE ListTypes'
  OBVIOUS
<1> USE ServerAssumption DEF Threads, Goto, serverVars, kernelVars, clientVars, localVars,
     CoreTypes, ControlTypes, MapTypes, ListTypes, ControlInv, AcceptPC, ClosePC, DataPC, Events
<1>1. ASSUME NEW k \in Clients, Connect(k) \/ ClientSend(k) \/ ClientRead(k) \/
         ClientClose(k) \/ Timeout(k)
      PROVE  ListTypes'
  BY <1>1 DEF Connect, ClientSend, ClientRead, ClientClose, Timeout
<1>2. CASE EpollWait
  <2>1. \A f \in Fds : Ready(f) \in SUBSET Events
    BY DEF Ready
  <2>2. batch' \subseteq [fd : Fds \cup {Listen}, events : SUBSET Events]
    BY <1>2, <2>1 DEF EpollWait
  <2>3. UNCHANGED <<scan, inactive, interest>>
    BY <1>2 DEF EpollWait
  <2> QED
    BY <2>2, <2>3
<1>3. CASE EventDispatch
  BY <1>3 DEF EventDispatch
<1>4. CASE Accept
  BY <1>4 DEF Accept
<1>5. CASE AcceptLimit
  BY <1>5 DEF AcceptLimit
<1>6. CASE AcceptRegister
  <2>1. cfd[Event] \in Fds /\ {"IN"} \in SUBSET Events
    BY <1>6 DEF AcceptRegister
  <2> HIDE DEF ControlInv, CoreTypes
  <2> QED
    BY <1>6, <2>1 DEF AcceptRegister, add_fd
<1>7. CASE AcceptInsert
  BY <1>7 DEF AcceptInsert
<1>8. CASE DataLookup
  BY <1>8 DEF DataLookup
<1>9. CASE DataRecv
  BY <1>9 DEF DataRecv
<1>10. CASE DataLock
  BY <1>10 DEF DataLock
<1>11. CASE DataCheck
  BY <1>11 DEF DataCheck
<1>12. CASE DataOversize \/ DataOversizeClose
  BY <1>12 DEF DataOversize, DataOversizeClose, remove_fd
<1>13. CASE DataEnqueue \/ WriteLookup
  BY <1>13 DEF DataEnqueue, WriteLookup
<1>14. CASE CleanupBegin
  BY <1>14 DEF CleanupBegin, Mapped
<1>15. CASE CleanupVisit
  BY <1>15 DEF CleanupVisit
<1>16. CASE CleanupEnd
  BY <1>16 DEF CleanupEnd
<1>17. CASE CleanupNext
  BY <1>17 DEF CleanupNext
<1>18. ASSUME NEW t \in Threads, SendBegin(t) PROVE ListTypes'
  <2>1. SendMoves(t)
    BY <1>18, SendControl, Zenon
  <2> QED
    BY <2>1 DEF SendMoves
<1>19. ASSUME NEW t \in Threads, SendArm(t) PROVE ListTypes'
  BY <1>19 DEF SendArm, modify_fd
<1>20. ASSUME NEW t \in Threads, SendDisarm(t) PROVE ListTypes'
  BY <1>20 DEF SendDisarm, modify_fd
<1>21. ASSUME NEW t \in Threads, CloseFind(t) PROVE ListTypes'
  BY <1>21 DEF CloseFind
<1>22. ASSUME NEW t \in Threads, CloseErase(t) PROVE ListTypes'
  BY <1>22 DEF CloseErase
<1>23. ASSUME NEW t \in Threads, CloseFd(t) PROVE ListTypes'
  BY <1>23 DEF CloseFd, remove_fd
<1>24. ASSUME NEW w \in Workers, TaskBegin(w) PROVE ListTypes'
  BY <1>24 DEF TaskBegin
<1>25. ASSUME NEW w \in Workers, RequestParse(w) \/ RequestKeepAlive(w) \/ RequestThrow(w)
         \/ RequestPresent(w)
      PROVE  ListTypes'
  BY <1>25 DEF RequestParse, RequestKeepAlive, RequestThrow, RequestPresent
<1>26. ASSUME NEW w \in Workers, RequestAbandon(w) \/ RequestPublish(w) \/
         RequestFinish(w)
      PROVE  ListTypes'
  BY <1>26 DEF RequestAbandon, RequestPublish, RequestFinish
<1>27. CASE UNCHANGED vars
  BY <1>27 DEF vars
<1> QED
  BY <1>1, <1>2, <1>3, <1>4, <1>5, <1>6, <1>7, <1>8, <1>9, <1>10, <1>11, <1>12, <1>13, <1>14,
     <1>15, <1>16, <1>17, <1>18, <1>19, <1>20, <1>21, <1>22, <1>23, <1>24, <1>25, <1>26, <1>27
     DEF Next, EventThread, WorkerThread, Environment, send_response_async, close_connection

\* One Connection changes, to c.  It stays a Connection, keeps its descriptor
\* unless it is new, has bytes left if it has a response to write, and only four
\* steps change processing_request.
ConnUpdate(k, c) ==
  /\ conn' = [conn EXCEPT ![k] = c]
  /\ c.fd = conn[k].fd \/ (AcceptInsert /\ k = cur[Event] /\ c.fd = cfd[Event])
  /\ c.has_pending_write => c.offset < RespLen
  /\ \/ c.processing_request = conn[k].processing_request
     \/ AcceptInsert /\ k = cur[Event]
     \/ DataCheck /\ k = cur[Event] /\ c.processing_request
     \/ \E w \in Workers : (RequestAbandon(w) \/ RequestFinish(w)) /\ k = cur[w]

\* Every change of a Connection is such an update.
LEMMA ConnCases ==
  ASSUME CoreTypes, ClientTypes, SentTypes, ReplyTypes, ControlInv, BirthInv,
         PendingResponseHasBytes, [Next]_vars
  PROVE  UNCHANGED conn \/ \E k \in Clients, c \in Connections : ConnUpdate(k, c)
<1> DEFINE Updated == \E k \in Clients, c \in Connections : ConnUpdate(k, c)
<1>0. ASSUME NEW k \in Clients
      PROVE  conn[k] \in Connections /\ (conn[k].has_pending_write => conn[k].offset < RespLen)
  BY DEF CoreTypes, ConnType, PendingResponseHasBytes
<1>a. conn \in [Clients -> Connections]
  BY DEF CoreTypes, ConnType
<1>1. ASSUME NEW k \in Clients, Timeout(k) PROVE Updated
  <2> DEFINE c == [conn[k] EXCEPT !.idle = TRUE]
  <2>1. c \in Connections /\ c.fd = conn[k].fd /\ (c.has_pending_write => c.offset < RespLen)
        /\ c.processing_request = conn[k].processing_request
    BY <1>0 DEF Connections
  <2>2. conn' = [conn EXCEPT ![k] = c]
    BY <1>1, <1>a DEF Timeout
  <2> HIDE DEF c
  <2> QED
    BY <2>1, <2>2 DEF ConnUpdate
<1>2. ASSUME AcceptInsert PROVE Updated
  <2> DEFINE k == cur[Event]
             c == NewConnection(cfd[Event])
  <2>1. k \in Clients /\ cfd[Event] \in Fds
    BY <1>2 DEF AcceptInsert, ControlInv, AcceptPC
  <2>2. BadRequest \in Requests /\ <<>> \in Seq(Units) /\ 0 \in 0..RespLen
    BY ServerAssumption DEF Requests
  <2>3. c \in Connections /\ c.fd = cfd[Event] /\ ~c.has_pending_write
    BY <2>1, <2>2 DEF NewConnection, Connections
  <2>4. conn' = [conn EXCEPT ![k] = c]
    BY <1>2 DEF AcceptInsert
  <2> HIDE DEF c
  <2> QED
    BY <1>2, <2>1, <2>3, <2>4 DEF ConnUpdate
<1>3. ASSUME DataCheck PROVE UNCHANGED conn \/ Updated
  <2> DEFINE k == cur[Event]
             buffer == conn[k].buffer \o data
             process == ShouldProcess(conn[k], buffer)
             c == [conn[k] EXCEPT !.buffer = buffer, !.idle = FALSE,
                                  !.processing_request = conn[k].processing_request \/ process]
  <2>1. k \in Clients
    BY <1>3 DEF DataCheck, ControlInv, DataPC
  <2>2. buffer \in Seq(Units)
    BY <1>0, <2>1 DEF Connections, ClientTypes
  <2>3. process \in BOOLEAN /\ (conn[k].processing_request \/ process) \in BOOLEAN
    BY DEF ShouldProcess
  <2>4. CASE UNCHANGED conn
    BY <2>4
  <2>5. CASE conn' = [conn EXCEPT ![k].buffer = buffer, ![k].idle = FALSE,
                                  ![k].processing_request = @ \/ process]
    <3> HIDE DEF buffer, process
    <3>1. /\ c \in Connections /\ c.fd = conn[k].fd
          /\ c.has_pending_write = conn[k].has_pending_write /\ c.offset = conn[k].offset
          /\ c.processing_request = (conn[k].processing_request \/ process)
      BY <1>0, <2>1, <2>2, <2>3, Zenon DEF Connections
    <3>2. conn' = [conn EXCEPT ![k] = c]
      BY <1>a, <2>1, <2>5, Zenon DEF Connections
    <3>3. conn[k].processing_request \in BOOLEAN
      BY <1>0, <2>1 DEF Connections
    <3>4. c.processing_request = conn[k].processing_request \/ c.processing_request
      BY <2>3, <3>1, <3>3
    <3> HIDE DEF c
    <3> QED
      BY <1>0, <1>3, <2>1, <3>1, <3>2, <3>4 DEF ConnUpdate
  <2> QED
    BY <1>3, <2>4, <2>5, Zenon DEF DataCheck
<1>4. ASSUME NEW t \in Threads, SendBegin(t) PROVE UNCHANGED conn \/ Updated
  <2> DEFINE k == cur[t]
             n == SendCount(conn[k], sock[conn[k].fd])
             d == [conn[k] EXCEPT !.keep_alive = FALSE, !.has_pending_write = FALSE]
  <2>1. k \in Clients
    BY <1>4, SendControl, Zenon DEF SendMoves
  <2>2. ASSUME n \in 1..(RespLen - conn[k].offset), conn' = [conn EXCEPT ![k] = AfterSend(conn[k], n)]
        PROVE  Updated
    <3> DEFINE c == AfterSend(conn[k], n)
    <3> HIDE DEF n
    <3>1. BadRequest \in Requests /\ 0 \in 0..RespLen /\ RespLen \in Nat
      BY ServerAssumption DEF Requests
    <3>2. conn[k].offset \in 0..RespLen
      BY <1>0, <2>1 DEF Connections
    <3>3. conn[k].offset + n \in 0..RespLen
      BY <2>2, <3>1, <3>2
    <3>4. c \in Connections /\ c.fd = conn[k].fd /\ c.processing_request = conn[k].processing_request
      BY <1>0, <2>1, <3>1, <3>3 DEF AfterSend, Connections
    <3>5. c.has_pending_write => c.offset < RespLen
      BY <1>0, <2>1, <3>1, <3>3 DEF AfterSend, Connections
    <3> HIDE DEF c, k
    <3> QED
      BY <2>1, <2>2, <3>4, <3>5 DEF ConnUpdate, c
  <2>3. ASSUME conn' = [conn EXCEPT ![k] = d]
        PROVE  Updated
    <3>1. d \in Connections /\ d.fd = conn[k].fd /\ d.processing_request = conn[k].processing_request
          /\ ~d.has_pending_write
      BY <1>0, <2>1 DEF Connections
    <3> HIDE DEF d
    <3> QED
      BY <2>1, <2>3, <3>1 DEF ConnUpdate
  <2>4. \/ UNCHANGED conn
        \/ n \in 1..(RespLen - conn[k].offset) /\ conn' = [conn EXCEPT ![k] = AfterSend(conn[k], n)]
        \/ conn' = [conn EXCEPT ![k] = d]
    BY <1>4, SendCases, Zenon
  <2> QED
    BY <2>2, <2>3, <2>4, Zenon
<1>5. ASSUME NEW w \in Workers, RequestKeepAlive(w) PROVE Updated
  <2> DEFINE k == cur[w]
             c == [conn[k] EXCEPT !.keep_alive = reply[w].keep]
  <2>1. k \in Clients
    BY <1>5 DEF RequestKeepAlive, ControlInv
  <2>2. reply[w].keep \in BOOLEAN
    <3>1. reply[w] \in Units \/ reply[w] = BadRequest
      BY DEF ReplyTypes, Requests
    <3>2. \A u \in Units : u.keep \in BOOLEAN
      BY DEF Units
    <3>3. BadRequest.keep \in BOOLEAN
      BY DEF BadRequest
    <3> QED
      BY <3>1, <3>2, <3>3
  <2>3. c \in Connections /\ c.fd = conn[k].fd /\ (c.has_pending_write => c.offset < RespLen)
        /\ c.processing_request = conn[k].processing_request
    BY <1>0, <2>1, <2>2 DEF Connections
  <2>4. conn' = [conn EXCEPT ![k] = c]
    BY <1>a, <1>5, <2>1 DEF RequestKeepAlive
  <2> HIDE DEF c, k
  <2> QED
    BY <2>1, <2>3, <2>4 DEF ConnUpdate
<1>6. ASSUME NEW w \in Workers, RequestAbandon(w) PROVE Updated
  <2> DEFINE k == cur[w]
             c == [conn[k] EXCEPT !.processing_request = FALSE]
  <2>1. k \in Clients
    BY <1>6 DEF RequestAbandon, ControlInv
  <2>2. c \in Connections /\ c.fd = conn[k].fd /\ (c.has_pending_write => c.offset < RespLen)
    BY <1>0, <2>1 DEF Connections
  <2>3. conn' = [conn EXCEPT ![k] = c]
    BY <1>a, <1>6, <2>1 DEF RequestAbandon
  <2> HIDE DEF c
  <2> QED
    BY <1>6, <2>1, <2>2, <2>3 DEF ConnUpdate
<1>7. ASSUME NEW w \in Workers, RequestPublish(w) PROVE Updated
  <2> DEFINE k == cur[w]
             c == [conn[k] EXCEPT !.pending = reply[w], !.offset = 0, !.has_pending_write = TRUE]
  <2>1. k \in Clients
    BY <1>7 DEF RequestPublish, ControlInv
  <2>2. reply[w] \in Requests /\ 0 \in 0..RespLen /\ 0 < RespLen
    BY ServerAssumption DEF ReplyTypes
  <2>3. c \in Connections /\ c.fd = conn[k].fd /\ c.offset = 0
        /\ c.processing_request = conn[k].processing_request
    BY <1>0, <2>1, <2>2 DEF Connections
  <2>4. conn' = [conn EXCEPT ![k] = c]
    BY <1>a, <1>7, <2>1 DEF RequestPublish, Connections
  <2> HIDE DEF c, k
  <2> QED
    BY <2>1, <2>2, <2>3, <2>4 DEF ConnUpdate
<1>8. ASSUME NEW w \in Workers, RequestFinish(w) PROVE Updated
  <2> DEFINE k == cur[w]
             c == [conn[k] EXCEPT !.buffer = <<>>, !.processing_request = FALSE, !.idle = FALSE]
  <2>1. k \in Clients
    BY <1>8 DEF RequestFinish, ControlInv
  <2>2. <<>> \in Seq(Units)
    OBVIOUS
  <2>3. c \in Connections /\ c.fd = conn[k].fd /\ (c.has_pending_write => c.offset < RespLen)
    BY <1>0, <2>1, <2>2 DEF Connections
  <2>4. conn' = [conn EXCEPT ![k] = c]
    BY <1>a, <1>8, <2>1 DEF RequestFinish, Connections
  <2> HIDE DEF c
  <2> QED
    BY <1>8, <2>1, <2>3, <2>4 DEF ConnUpdate
<1> QED
  BY <1>1, <1>2, <1>3, <1>4, <1>5, <1>6, <1>7, <1>8, ConnFrame, Zenon

\* The Connection objects keep their type.
LEMMA ConnTypeStep ==
  ASSUME CoreTypes, ClientTypes, SentTypes, ReplyTypes, ControlInv, BirthInv,
         PendingResponseHasBytes, [Next]_vars
  PROVE  ConnType'
  BY ConnCases DEF ConnUpdate, CoreTypes, ConnType

\* A pending response is published whole and cleared by the send that ends it.
LEMMA PendingStep ==
  ASSUME CoreTypes, ClientTypes, SentTypes, ReplyTypes, ControlInv, BirthInv,
         PendingResponseHasBytes, [Next]_vars
  PROVE  PendingResponseHasBytes'
  BY ConnCases DEF ConnUpdate, CoreTypes, ConnType, PendingResponseHasBytes

\* No step but the insertion of an accepted one changes a Connection's descriptor.
LEMMA FdKept ==
  ASSUME CoreTypes, ClientTypes, SentTypes, ReplyTypes, ControlInv, BirthInv,
         PendingResponseHasBytes, [Next]_vars, NEW k \in Clients
  PROVE  conn'[k].fd = conn[k].fd \/ (AcceptInsert /\ k = cur[Event])
  BY ConnCases DEF ConnUpdate, CoreTypes, ConnType

\* The kernel buffers and what the clients know keep their types.
LEMMA ClientTypesStep == CoreTypes /\ ListTypes /\ SentTypes /\ ControlInv /\ BirthInv /\
  PendingResponseHasBytes /\ ClientTypes /\ [Next]_vars => ClientTypes'
<1> SUFFICES ASSUME CoreTypes, ListTypes, SentTypes, ControlInv, BirthInv,
  PendingResponseHasBytes, ClientTypes, [Next]_vars PROVE ClientTypes'
  OBVIOUS
<1> USE ServerAssumption DEF Threads, Goto, serverVars, kernelVars, clientVars, localVars,
     ClientTypes
<1>1. ASSUME NEW k \in Clients, Connect(k) PROVE ClientTypes'
  BY <1>1 DEF Connect
<1>2. ASSUME NEW k \in Clients, ClientSend(k) PROVE ClientTypes'
  BY <1>2 DEF ClientSend
<1>3. ASSUME NEW k \in Clients, ClientRead(k) PROVE ClientTypes'
  BY <1>3 DEF ClientRead
<1>4. ASSUME NEW k \in Clients, ClientClose(k) PROVE ClientTypes'
  BY <1>4 DEF ClientClose
<1>5. ASSUME NEW k \in Clients, Timeout(k) PROVE ClientTypes'
  BY <1>5 DEF Timeout
<1>6. CASE EpollWait \/ EventDispatch
  BY <1>6 DEF EpollWait, EventDispatch
<1>7. CASE Accept
  BY <1>7 DEF Accept
<1>8. CASE AcceptLimit \/ AcceptRegister
  BY <1>8 DEF AcceptLimit, AcceptRegister, add_fd
<1>9. CASE AcceptInsert
  BY <1>9 DEF AcceptInsert
<1>10. CASE DataLookup
  BY <1>10 DEF DataLookup
<1>11. CASE DataRecv
  <2> DEFINE k == sock[cfd[Event]]
             got == SubSeq(inbox[k], 1, Smaller(RecvMax, Len(inbox[k])))
  <2>1. CASE UNCHANGED <<inbox, data>>
    BY <1>11, <2>1 DEF DataRecv
  <2>2. CASE k # None /\ data' = got
             /\ inbox' = [inbox EXCEPT ![k] = SubSeq(inbox[k], Len(got) + 1, Len(inbox[k]))]
    <3>0. cfd[Event] \in Fds
      BY <1>11 DEF DataRecv, ControlInv, DataPC
    <3>1. k \in Clients
      BY <2>2, <3>0 DEF CoreTypes, MapTypes
    <3>2. ASSUME NEW q \in Seq(Units), NEW i \in Nat \ {0}, NEW j \in 0..Len(q)
          PROVE  SubSeq(q, i, j) \in Seq(Units)
      BY <3>2
    <3>3. inbox[k] \in Seq(Units) /\ Len(inbox[k]) \in Nat
      BY <3>1
    <3> HIDE DEF k
    <3>4. Smaller(RecvMax, Len(inbox[k])) \in 0..Len(inbox[k])
      BY <3>3 DEF Smaller
    <3>5. got \in Seq(Units)
      BY <3>2, <3>3, <3>4
    <3> HIDE DEF got
    <3>6. Len(got) + 1 \in Nat \ {0} /\ Len(inbox[k]) \in 0..Len(inbox[k])
      BY <3>3, <3>5
    <3>7. SubSeq(inbox[k], Len(got) + 1, Len(inbox[k])) \in Seq(Units)
      BY <3>2, <3>3, <3>6
    <3>8. UNCHANGED <<peer, pos>>
      BY <1>11 DEF DataRecv
    <3>9. inbox' \in [Clients -> Seq(Units)]
      BY <2>2, <3>1, <3>7
    <3> QED
      BY <2>2, <3>5, <3>8, <3>9
  <2> QED
    BY <1>11, <2>1, <2>2 DEF DataRecv, Goto
<1>12. CASE DataLock
  BY <1>12 DEF DataLock
<1>13. CASE DataCheck
  BY <1>13 DEF DataCheck
<1>14. CASE DataOversize \/ DataOversizeClose
  BY <1>14 DEF DataOversize, DataOversizeClose, remove_fd
<1>15. CASE DataEnqueue \/ WriteLookup
  BY <1>15 DEF DataEnqueue, WriteLookup
<1>16. CASE CleanupBegin \/ CleanupVisit \/ CleanupEnd \/ CleanupNext
  BY <1>16 DEF CleanupBegin, CleanupVisit, CleanupEnd, CleanupNext
<1>17. ASSUME NEW t \in Threads, SendBegin(t) PROVE ClientTypes'
  <2>1. SendMoves(t)
    BY <1>17, SendControl, Zenon
  <2> QED
    BY <2>1 DEF SendMoves
<1>18. ASSUME NEW t \in Threads, SendArm(t) \/ SendDisarm(t) PROVE ClientTypes'
  BY <1>18 DEF SendArm, modify_fd, SendDisarm
<1>19. ASSUME NEW t \in Threads, CloseFind(t) PROVE ClientTypes'
  BY <1>19 DEF CloseFind
<1>20. ASSUME NEW t \in Threads, CloseErase(t) PROVE ClientTypes'
  BY <1>20 DEF CloseErase
<1>21. ASSUME NEW t \in Threads, CloseFd(t) PROVE ClientTypes'
  BY <1>21 DEF CloseFd, remove_fd
<1>22. ASSUME NEW w \in Workers, TaskBegin(w) PROVE ClientTypes'
  BY <1>22 DEF TaskBegin
<1>23. ASSUME NEW w \in Workers, RequestParse(w) \/ RequestKeepAlive(w) \/ RequestThrow(w)
         \/ RequestPresent(w)
      PROVE  ClientTypes'
  BY <1>23 DEF RequestParse, RequestKeepAlive, RequestThrow, RequestPresent
<1>24. ASSUME NEW w \in Workers, RequestAbandon(w) \/ RequestPublish(w) \/
         RequestFinish(w)
      PROVE  ClientTypes'
  BY <1>24 DEF RequestAbandon, RequestPublish, RequestFinish
<1>25. CASE UNCHANGED vars
  BY <1>25 DEF vars
<1> QED
  BY <1>1, <1>2, <1>3, <1>4, <1>5, <1>6, <1>7, <1>8, <1>9, <1>10, <1>11, <1>12, <1>13, <1>14,
     <1>15, <1>16, <1>17, <1>18, <1>19, <1>20, <1>21, <1>22, <1>23, <1>24, <1>25
     DEF Next, EventThread, WorkerThread, Environment, send_response_async, close_connection

\* What is written to a socket are units of responses, and no more of them are
\* unread than the send buffer holds.
LEMMA SentTypesStep ==
  ASSUME CoreTypes, SentTypes, ControlInv, BirthInv, PendingResponseHasBytes, [Next]_vars
  PROVE  SentTypes'
<1>1. ASSUME NEW k \in Clients, ClientRead(k) PROVE SentTypes'
  BY <1>1, ServerAssumption DEF ClientRead, SentTypes
<1>2. ASSUME NEW t \in Threads, SendBegin(t) PROVE SentTypes'
  <2> DEFINE k == cur[t]
             s == sock[conn[k].fd]
             n == SendCount(conn[k], s)
  <2>1. CASE UNCHANGED <<sent, unread>>
    BY <2>1 DEF SentTypes
  <2>2. CASE /\ s \in Clients /\ k \in Clients /\ n \in 1..(RespLen - conn[k].offset)
             /\ n <= SndCap - unread[s]
             /\ sent' = [sent EXCEPT ![s] = @ \o SubSeq(Remaining(k), 1, n)]
             /\ unread' = [unread EXCEPT ![s] = @ + n]
    <3> HIDE DEF s, n
    <3>1. /\ conn[k].offset \in 0..RespLen /\ conn[k].pending \in Requests
          /\ RespLen \in Nat /\ SndCap \in Nat
      BY <2>2, ServerAssumption DEF CoreTypes, ConnType, Connections
    <3>2. conn[k].pending.req \in Nat
      BY <3>1 DEF Requests, Units, BadRequest
    <3>3. Remaining(k) \in Seq(ResponseUnits) /\ Len(Remaining(k)) = RespLen - conn[k].offset
      <4> HIDE DEF k
      <4>1. ASSUME NEW i \in 1..(RespLen - conn[k].offset)
            PROVE  [to |-> k, req |-> conn[k].pending.req, off |-> conn[k].offset + i]
                     \in ResponseUnits
        BY <2>2, <3>1, <3>2 DEF ResponseUnits
      <4>2. RespLen - conn[k].offset \in Nat
        BY <3>1
      <4>3. Remaining(k) \in [1..(RespLen - conn[k].offset) -> ResponseUnits]
        BY <4>1 DEF Remaining
      <4> QED
        BY <4>2, <4>3
    <3>4. SubSeq(Remaining(k), 1, n) \in Seq(ResponseUnits)
      BY <2>2, <3>1, <3>3
    <3>5. sent[s] \o SubSeq(Remaining(k), 1, n) \in Seq(ResponseUnits)
      BY <2>2, <3>4 DEF SentTypes
    <3>6. unread[s] + n \in 0..SndCap
      BY <2>2, <3>1 DEF SentTypes
    <3> HIDE DEF k
    <3> QED
      BY <2>2, <3>5, <3>6 DEF SentTypes
  <2> QED
    BY <1>2, <2>1, <2>2, SendCases, Zenon
<1>3. CASE UNCHANGED <<sent, unread>>
  BY <1>3 DEF SentTypes
<1> QED
  BY <1>1, <1>2, <1>3, SentFrame

\* A worker answers a request that it parsed, or the 400 page.
LEMMA ReplyTypesStep ==
  ASSUME CoreTypes, ReplyTypes, ControlInv, [Next]_vars
  PROVE  ReplyTypes'
<1>1. ASSUME NEW w \in Workers, RequestParse(w) PROVE ReplyTypes'
  <2>1. conn[cur[w]].buffer \in Seq(Units)
    BY <1>1 DEF RequestParse, ControlInv, CoreTypes, ConnType, Connections
  <2>2. ASSUME NEW q \in Seq(Units) PROVE Parse(q) \in Requests
    BY DEF Parse, Requests
  <2> QED
    BY <1>1, <2>1, <2>2 DEF RequestParse, ReplyTypes
<1>2. UNCHANGED reply \/ \E w \in Workers : RequestParse(w)
  BY ZenonT(30) DEF Threads, Goto, serverVars, kernelVars, clientVars, localVars, vars,
     Next, EventThread, WorkerThread, Environment, send_response_async, close_connection,
     Connect, ClientSend, ClientRead, ClientClose, Timeout, EpollWait, EventDispatch, Accept,
     AcceptLimit, AcceptRegister, AcceptInsert, DataLookup, DataRecv, DataLock, DataCheck,
     DataOversize, DataOversizeClose, DataEnqueue, WriteLookup, CleanupBegin, CleanupVisit,
     CleanupEnd, CleanupNext, SendBegin, SendArm, SendDisarm, CloseFind, CloseErase, CloseFd,
     TaskBegin, RequestKeepAlive, RequestThrow, RequestPresent, RequestAbandon, RequestPublish,
     RequestFinish
<1> QED
  BY <1>1, <1>2 DEF ReplyTypes

-------------------------------------------------------------------------------
(* Control, mutexes and what the event thread knows *)

\* A thread returns to where it was called from.
LEMMA ControlStep == CoreTypes /\ ListTypes /\ SentTypes /\ ControlInv /\ BirthInv /\
  PendingResponseHasBytes /\ [Next]_vars => ControlInv'
<1> SUFFICES ASSUME CoreTypes, ListTypes, SentTypes, ControlInv, BirthInv,
  PendingResponseHasBytes, [Next]_vars PROVE ControlInv'
  OBVIOUS
<1> USE ServerAssumption DEF Threads, Goto, serverVars, kernelVars, clientVars, localVars,
     EventPC, WorkerPC, SharedPC, DataPC, AcceptPC, SendPC, ClosePC, CoreTypes, ControlTypes,
     MapTypes, ListTypes, ControlInv
<1>1. ASSUME NEW k \in Clients, Connect(k) \/ ClientSend(k) \/ ClientRead(k) \/
         ClientClose(k) \/ Timeout(k)
      PROVE  ControlInv'
  BY <1>1 DEF Connect, ClientSend, ClientRead, ClientClose, Timeout
<1>2. CASE EpollWait \/ EventDispatch
  BY <1>2 DEF EpollWait, EventDispatch
<1>3. CASE Accept
  <2>1. CASE backlog = <<>>
    BY <1>3, <2>1 DEF Accept
  <2>2. CASE backlog # <<>>
    <3>1. LowestFree \in Fds
      BY <1>3, <2>2, LowestFreeIsFree DEF Accept
    <3>2. Head(backlog) \in Clients
      BY <2>2
    <3>3. /\ cur' = [cur EXCEPT ![Event] = Head(backlog)] /\ cfd' = [cfd EXCEPT ![Event] = LowestFree]
          /\ pc' = [pc EXCEPT ![Event] = "limit"] /\ UNCHANGED ret
      BY <1>3, <2>2 DEF Accept
    <3> HIDE DEF MapTypes, ListTypes
    <3> QED
      BY <3>1, <3>2, <3>3
  <2> QED
    BY <2>1, <2>2
<1>4. CASE AcceptLimit \/ AcceptRegister
  BY <1>4 DEF AcceptLimit, AcceptRegister, add_fd
<1>5. CASE AcceptInsert
  BY <1>5 DEF AcceptInsert
<1>6. CASE DataLookup
  BY <1>6 DEF DataLookup
<1>7. CASE DataRecv
  BY <1>7 DEF DataRecv
<1>8. CASE DataLock
  BY <1>8 DEF DataLock
<1>9. CASE DataCheck
  BY <1>9 DEF DataCheck
<1>10. CASE DataOversize \/ DataOversizeClose
  BY <1>10 DEF DataOversize, DataOversizeClose, remove_fd
<1>11. CASE DataEnqueue
  BY <1>11 DEF DataEnqueue
<1>12. CASE WriteLookup
  BY <1>12 DEF WriteLookup
<1>13. CASE CleanupBegin \/ CleanupVisit \/ CleanupEnd \/ CleanupNext
  BY <1>13 DEF CleanupBegin, CleanupVisit, CleanupEnd, CleanupNext
<1>14. ASSUME NEW t \in Threads, SendBegin(t) PROVE ControlInv'
  <2>1. SendMoves(t)
    BY <1>14, SendControl, Zenon
  <2> HIDE DEF MapTypes, ListTypes
  <2>2. CASE t = Event
    BY <2>1, <2>2 DEF SendMoves
  <2>3. CASE t \in Workers
    BY <2>1, <2>3 DEF SendMoves
  <2> QED
    BY <2>2, <2>3
<1>15. ASSUME NEW t \in Threads, SendArm(t) \/ SendDisarm(t) PROVE ControlInv'
  BY <1>15 DEF SendArm, modify_fd, SendDisarm
<1>16. ASSUME NEW t \in Threads, CloseFind(t) PROVE ControlInv'
  BY <1>16 DEF CloseFind
<1>17. ASSUME NEW t \in Threads, CloseErase(t) PROVE ControlInv'
  BY <1>17 DEF CloseErase
<1>18. ASSUME NEW t \in Threads, CloseFd(t) PROVE ControlInv'
  BY <1>18 DEF CloseFd, remove_fd
<1>19. ASSUME NEW w \in Workers, TaskBegin(w) PROVE ControlInv'
  BY <1>19 DEF TaskBegin
<1>20. ASSUME NEW w \in Workers, RequestParse(w) PROVE ControlInv'
  BY <1>20 DEF RequestParse
<1>21. ASSUME NEW w \in Workers, RequestKeepAlive(w) PROVE ControlInv'
  BY <1>21 DEF RequestKeepAlive
<1>22. ASSUME NEW w \in Workers, RequestThrow(w) PROVE ControlInv'
  BY <1>22 DEF RequestThrow
<1>23. ASSUME NEW w \in Workers, RequestPresent(w) PROVE ControlInv'
  BY <1>23 DEF RequestPresent
<1>24. ASSUME NEW w \in Workers, RequestAbandon(w) \/ RequestPublish(w) \/
         RequestFinish(w)
      PROVE  ControlInv'
  BY <1>24 DEF RequestAbandon, RequestPublish, RequestFinish
<1>25. CASE UNCHANGED vars
  BY <1>25 DEF vars
<1> QED
  BY <1>1, <1>2, <1>3, <1>4, <1>5, <1>6, <1>7, <1>8, <1>9, <1>10, <1>11, <1>12, <1>13, <1>14,
     <1>15, <1>16, <1>17, <1>18, <1>19, <1>20, <1>21, <1>22, <1>23, <1>24, <1>25
     DEF Next, EventThread, WorkerThread, Environment, send_response_async, close_connection

\* Between taking a mutex and giving it back, a thread holds it.
LEMMA LockStep == CoreTypes /\ ListTypes /\ SentTypes /\ ControlInv /\ BirthInv /\
  PendingResponseHasBytes /\ LockInv /\ [Next]_vars => LockInv'
<1> SUFFICES ASSUME CoreTypes, ListTypes, SentTypes, ControlInv, BirthInv,
  PendingResponseHasBytes, LockInv, [Next]_vars PROVE LockInv'
  OBVIOUS
<1> USE ServerAssumption DEF Threads, Goto, serverVars, kernelVars, clientVars, localVars,
     EventPC, WorkerPC, SharedPC, DataPC, AcceptPC, SendPC, ClosePC, CoreTypes, ControlTypes,
     MapTypes, ControlInv, LockInv
<1>1. ASSUME NEW k \in Clients, Connect(k) \/ ClientSend(k) \/ ClientRead(k) \/
         ClientClose(k) \/ Timeout(k)
      PROVE  LockInv'
  BY <1>1 DEF Connect, ClientSend, ClientRead, ClientClose, Timeout
<1>2. CASE EpollWait \/ EventDispatch
  BY <1>2 DEF EpollWait, EventDispatch
<1>3. CASE Accept
  BY <1>3 DEF Accept
<1>4. CASE AcceptLimit \/ AcceptRegister
  BY <1>4 DEF AcceptLimit, AcceptRegister, add_fd
<1>5. CASE AcceptInsert
  BY <1>5 DEF AcceptInsert
<1>6. CASE DataLookup
  BY <1>6 DEF DataLookup
<1>7. CASE DataRecv
  BY <1>7 DEF DataRecv
<1>8. CASE DataLock
  BY <1>8 DEF DataLock
<1>9. CASE DataCheck
  BY <1>9 DEF DataCheck
<1>10. CASE DataOversize \/ DataOversizeClose
  BY <1>10 DEF DataOversize, DataOversizeClose, remove_fd
<1>11. CASE DataEnqueue \/ WriteLookup
  BY <1>11 DEF DataEnqueue, WriteLookup
<1>12. CASE CleanupBegin \/ CleanupVisit \/ CleanupEnd \/ CleanupNext
  BY <1>12 DEF CleanupBegin, CleanupVisit, CleanupEnd, CleanupNext
<1>13. ASSUME NEW t \in Threads, SendBegin(t) PROVE LockInv'
  <2>1. SendMoves(t)
    BY <1>13, SendControl, Zenon
  <2> QED
    BY <2>1 DEF SendMoves
<1>14. ASSUME NEW t \in Threads, SendArm(t) \/ SendDisarm(t) PROVE LockInv'
  BY <1>14 DEF SendArm, modify_fd, SendDisarm
<1>15. ASSUME NEW t \in Threads, CloseFind(t) PROVE LockInv'
  BY <1>15 DEF CloseFind
<1>16. ASSUME NEW t \in Threads, CloseErase(t) PROVE LockInv'
  BY <1>16 DEF CloseErase
<1>17. ASSUME NEW t \in Threads, CloseFd(t) PROVE LockInv'
  BY <1>17 DEF CloseFd, remove_fd
<1>18. ASSUME NEW w \in Workers, TaskBegin(w) PROVE LockInv'
  BY <1>18 DEF TaskBegin
<1>19. ASSUME NEW w \in Workers, RequestParse(w) PROVE LockInv'
  BY <1>19 DEF RequestParse
<1>20. ASSUME NEW w \in Workers, RequestKeepAlive(w) PROVE LockInv'
  BY <1>20 DEF RequestKeepAlive
<1>21. ASSUME NEW w \in Workers, RequestThrow(w) PROVE LockInv'
  BY <1>21 DEF RequestThrow
<1>22. ASSUME NEW w \in Workers, RequestPresent(w) PROVE LockInv'
  BY <1>22 DEF RequestPresent
<1>23. ASSUME NEW w \in Workers, RequestAbandon(w) PROVE LockInv'
  BY <1>23 DEF RequestAbandon
<1>24. ASSUME NEW w \in Workers, RequestPublish(w) PROVE LockInv'
  BY <1>24 DEF RequestPublish
<1>25. ASSUME NEW w \in Workers, RequestFinish(w) PROVE LockInv'
  BY <1>25 DEF RequestFinish
<1>26. CASE UNCHANGED vars
  BY <1>26 DEF vars
<1> QED
  BY <1>1, <1>2, <1>3, <1>4, <1>5, <1>6, <1>7, <1>8, <1>9, <1>10, <1>11, <1>12, <1>13, <1>14,
     <1>15, <1>16, <1>17, <1>18, <1>19, <1>20, <1>21, <1>22, <1>23, <1>24, <1>25, <1>26
     DEF Next, EventThread, WorkerThread, Environment, send_response_async, close_connection

\* The steps that neither open nor close a descriptor, nor change the map, nor
\* who is about to do so.
Quiet ==
  /\ UNCHANGED <<connections, sock>>
  /\ \A k \in Clients : conn'[k].fd = conn[k].fd
  /\ \A f \in Fds : "IN" \in interest[f] => "IN" \in interest'[f]
  /\ \A t \in Threads : (Closing(t)' <=> Closing(t)) /\ (Closing(t) => cfd'[t] = cfd[t])
  /\ Accepting' <=> Accepting
  /\ Accepting => /\ pc'[Event] = pc[Event] /\ cur'[Event] = cur[Event]
                  /\ cfd'[Event] = cfd[Event]

DescriptorStep ==
  \/ Accept \/ AcceptLimit \/ AcceptRegister \/ AcceptInsert
  \/ DataOversize \/ DataOversizeClose
  \/ \E t \in Threads : CloseErase(t) \/ CloseFd(t)


\* Every step is quiet or one of those eight.
LEMMA QuietOrNot == CoreTypes /\ ListTypes /\ ClientTypes /\ SentTypes /\ ReplyTypes /\
  ControlInv /\ BirthInv /\ PendingResponseHasBytes /\ ~DescriptorStep /\ [Next]_vars => Quiet
<1> SUFFICES ASSUME CoreTypes, ListTypes, ClientTypes, SentTypes, ReplyTypes, ControlInv,
  BirthInv, PendingResponseHasBytes, ~DescriptorStep, [Next]_vars PROVE Quiet
  OBVIOUS
<1> USE ServerAssumption DEF Threads, Goto, serverVars, kernelVars, clientVars, localVars,
     CoreTypes, ControlTypes, MapTypes, ControlInv, EventPC, WorkerPC, SharedPC, Quiet, Closing,
     Accepting
<1>a. \A k \in Clients : conn'[k].fd = conn[k].fd
  BY FdKept DEF DescriptorStep
<1> USE <1>a
<1>1. ASSUME NEW k \in Clients, Connect(k) \/ ClientSend(k) \/ ClientRead(k) \/
         ClientClose(k) \/ Timeout(k)
      PROVE  Quiet
  BY <1>1 DEF Connect, ClientSend, ClientRead, ClientClose, Timeout
<1>2. CASE EpollWait \/ EventDispatch
  BY <1>2 DEF EpollWait, EventDispatch
<1>3. CASE DataLookup
  BY <1>3 DEF DataLookup
<1>4. CASE DataRecv
  BY <1>4 DEF DataRecv
<1>5. CASE DataLock
  BY <1>5 DEF DataLock
<1>6. CASE DataCheck
  <2>1. pc'[Event] \in {"oversize", "enqueue", ret[Event]}
    BY <1>6, Zenon DEF DataCheck
  <2>2. /\ pc[Event] = "datacheck" /\ UNCHANGED <<connections, sock, interest, cur, cfd>>
        /\ \A t \in Threads \ {Event} : pc'[t] = pc[t]
    BY <1>6 DEF DataCheck
  <2> QED
    BY <2>1, <2>2
<1>7. CASE DataEnqueue \/ WriteLookup
  BY <1>7 DEF DataEnqueue, WriteLookup
<1>8. CASE CleanupBegin \/ CleanupVisit \/ CleanupEnd \/ CleanupNext
  BY <1>8 DEF CleanupBegin, CleanupVisit, CleanupEnd, CleanupNext
<1>9. ASSUME NEW t \in Threads, SendBegin(t) PROVE Quiet
  <2>1. SendMoves(t)
    BY <1>9, SendControl, Zenon
  <2> HIDE DEF MapTypes
  <2> QED
    BY <2>1 DEF SendMoves
<1>10. ASSUME NEW t \in Threads, SendArm(t) \/ SendDisarm(t) PROVE Quiet
  <2>0. \/ interest' = interest
        \/ interest' = [interest EXCEPT ![conn[cur[t]].fd] = {"IN", "OUT"}]
        \/ interest' = [interest EXCEPT ![conn[cur[t]].fd] = {"IN"}]
    BY <1>10 DEF SendArm, SendDisarm, modify_fd
  <2>1. \A f \in Fds : "IN" \in interest[f] => "IN" \in interest'[f]
    BY <2>0 DEF ListTypes
  <2> QED
    BY <1>10, <2>1 DEF SendArm, SendDisarm
<1>11. ASSUME NEW t \in Threads, CloseFind(t) PROVE Quiet
  BY <1>11 DEF CloseFind
<1>12. ASSUME NEW w \in Workers, TaskBegin(w) PROVE Quiet
  BY <1>12 DEF TaskBegin
<1>13. ASSUME NEW w \in Workers, RequestParse(w) PROVE Quiet
  BY <1>13 DEF RequestParse
<1>14. ASSUME NEW w \in Workers, RequestKeepAlive(w) PROVE Quiet
  BY <1>14 DEF RequestKeepAlive
<1>15. ASSUME NEW w \in Workers, RequestThrow(w) PROVE Quiet
  BY <1>15 DEF RequestThrow
<1>16. ASSUME NEW w \in Workers, RequestPresent(w) PROVE Quiet
  BY <1>16 DEF RequestPresent
<1>17. ASSUME NEW w \in Workers, RequestAbandon(w) PROVE Quiet
  BY <1>17 DEF RequestAbandon
<1>18. ASSUME NEW w \in Workers, RequestPublish(w) PROVE Quiet
  BY <1>18 DEF RequestPublish
<1>19. ASSUME NEW w \in Workers, RequestFinish(w) PROVE Quiet
  BY <1>19 DEF RequestFinish
<1>20. CASE UNCHANGED vars
  BY <1>20 DEF vars
<1> QED
  BY <1>1, <1>2, <1>3, <1>4, <1>5, <1>6, <1>7, <1>8, <1>9, <1>10, <1>11, <1>12, <1>13, <1>14,
     <1>15, <1>16, <1>17, <1>18, <1>19, <1>20
     DEF Next, EventThread, WorkerThread, Environment, send_response_async, close_connection, DescriptorStep

\* What the event thread found under a number is there or gone, but not
\* replaced.
LEMMA DataStep == CoreTypes /\ ListTypes /\ SentTypes /\ ControlInv /\ BirthInv /\
  PendingResponseHasBytes /\ LockInv /\ DataInv /\ [Next]_vars => DataInv'
<1> SUFFICES ASSUME CoreTypes, ListTypes, SentTypes, ControlInv, BirthInv,
  PendingResponseHasBytes, LockInv, DataInv, [Next]_vars PROVE DataInv'
  OBVIOUS
<1> USE ServerAssumption DEF Threads, Goto, serverVars, kernelVars, clientVars, localVars,
     EventPC, WorkerPC, SharedPC, DataPC, AcceptPC, SendPC, ClosePC, CoreTypes, ControlTypes,
     MapTypes, ControlInv, LockInv, DataInv
<1>1. ASSUME NEW k \in Clients, Connect(k) \/ ClientSend(k) \/ ClientRead(k) \/
         ClientClose(k) \/ Timeout(k)
      PROVE  DataInv'
  BY <1>1 DEF Connect, ClientSend, ClientRead, ClientClose, Timeout
<1>2. CASE EpollWait \/ EventDispatch
  BY <1>2 DEF EpollWait, EventDispatch
<1>3. CASE Accept
  <2>1. pc'[Event] \in {"dispatch", "limit"}
    BY <1>3 DEF Accept
  <2> QED
    BY <2>1
<1>4. CASE AcceptLimit
  BY <1>4 DEF AcceptLimit
<1>5. CASE AcceptRegister
  BY <1>5 DEF AcceptRegister, add_fd
<1>6. CASE AcceptInsert
  BY <1>6 DEF AcceptInsert
<1>7. CASE DataLookup
  BY <1>7 DEF DataLookup
<1>8. CASE DataRecv
  BY <1>8 DEF DataRecv
<1>9. CASE DataLock
  BY <1>9 DEF DataLock
<1>10. CASE DataCheck
  BY <1>10 DEF DataCheck
<1>11. CASE DataOversize
  BY <1>11 DEF DataOversize
<1>12. CASE DataOversizeClose
  BY <1>12 DEF DataOversizeClose, remove_fd
<1>13. CASE DataEnqueue \/ WriteLookup
  BY <1>13 DEF DataEnqueue, WriteLookup
<1>14. CASE CleanupBegin \/ CleanupVisit \/ CleanupEnd \/ CleanupNext
  BY <1>14 DEF CleanupBegin, CleanupVisit, CleanupEnd, CleanupNext
<1>15. ASSUME NEW t \in Threads, SendBegin(t) PROVE DataInv'
  <2>1. SendMoves(t)
    BY <1>15, SendControl, Zenon
  <2> QED
    BY <2>1 DEF SendMoves
<1>16. ASSUME NEW t \in Threads, SendArm(t) PROVE DataInv'
  BY <1>16 DEF SendArm, modify_fd
<1>17. ASSUME NEW t \in Threads, SendDisarm(t) PROVE DataInv'
  BY <1>17 DEF SendDisarm, modify_fd
<1>18. ASSUME NEW t \in Threads, CloseFind(t) PROVE DataInv'
  BY <1>18 DEF CloseFind
<1>19. ASSUME NEW t \in Threads, CloseErase(t) PROVE DataInv'
  BY <1>19 DEF CloseErase
<1>20. ASSUME NEW t \in Threads, CloseFd(t) PROVE DataInv'
  BY <1>20 DEF CloseFd, remove_fd
<1>21. ASSUME NEW w \in Workers, TaskBegin(w) PROVE DataInv'
  BY <1>21 DEF TaskBegin
<1>22. ASSUME NEW w \in Workers, RequestParse(w) PROVE DataInv'
  BY <1>22 DEF RequestParse
<1>23. ASSUME NEW w \in Workers, RequestKeepAlive(w) PROVE DataInv'
  BY <1>23 DEF RequestKeepAlive
<1>24. ASSUME NEW w \in Workers, RequestThrow(w) PROVE DataInv'
  BY <1>24 DEF RequestThrow
<1>25. ASSUME NEW w \in Workers, RequestPresent(w) PROVE DataInv'
  BY <1>25 DEF RequestPresent
<1>26. ASSUME NEW w \in Workers, RequestAbandon(w) PROVE DataInv'
  BY <1>26 DEF RequestAbandon
<1>27. ASSUME NEW w \in Workers, RequestPublish(w) PROVE DataInv'
  BY <1>27 DEF RequestPublish
<1>28. ASSUME NEW w \in Workers, RequestFinish(w) PROVE DataInv'
  BY <1>28 DEF RequestFinish
<1>29. CASE UNCHANGED vars
  BY <1>29 DEF vars
<1> QED
  BY <1>1, <1>2, <1>3, <1>4, <1>5, <1>6, <1>7, <1>8, <1>9, <1>10, <1>11, <1>12, <1>13, <1>14,
     <1>15, <1>16, <1>17, <1>18, <1>19, <1>20, <1>21, <1>22, <1>23, <1>24, <1>25, <1>26, <1>27,
     <1>28, <1>29
     DEF Next, EventThread, WorkerThread, Environment, send_response_async, close_connection

\* The descriptor being accepted stays open, unmapped and, once registered,
\* watched.
LEMMA AcceptStep ==
  ASSUME CoreTypes, ListTypes, ClientTypes, SentTypes, ReplyTypes, ControlInv, BirthInv,
         PendingResponseHasBytes, LockInv, MapMatchesDescriptors, CloseIsExclusive, AcceptInv,
         [Next]_vars
  PROVE  AcceptInv'
<1> USE ServerAssumption
    DEF Threads, Goto, serverVars, kernelVars, clientVars, localVars, CoreTypes, ControlTypes,
        MapTypes, ControlInv, Accepting, AcceptInv, EventPC, WorkerPC, SharedPC, AcceptPC, DataPC
<1>1. CASE Quiet
  BY <1>1 DEF Quiet
<1>2. CASE Accept
  <2>1. CASE pc'[Event] = "dispatch"
    BY <2>1
  <2>2. CASE pc'[Event] # "dispatch"
    <3>1. LowestFree \in Fds /\ sock[LowestFree] = None
      BY <1>2, <2>2, LowestFreeIsFree DEF Accept
    <3>2. connections[LowestFree] = None
      BY <3>1 DEF MapMatchesDescriptors, Mapped
    <3>3. /\ sock' = [sock EXCEPT ![LowestFree] = Head(backlog)]
          /\ cur' = [cur EXCEPT ![Event] = Head(backlog)]
          /\ cfd' = [cfd EXCEPT ![Event] = LowestFree]
          /\ pc' = [pc EXCEPT ![Event] = "limit"]
          /\ UNCHANGED connections
      BY <1>2, <2>2 DEF Accept
    <3> QED
      BY <3>1, <3>2, <3>3
  <2> QED
    BY <2>1, <2>2
<1>3. CASE AcceptLimit
  BY <1>3 DEF AcceptLimit
<1>4. CASE AcceptRegister
  <2>1. CASE pc'[Event] = "accept"
    BY <2>1
  <2>2. CASE pc'[Event] # "accept"
    <3>1. /\ pc' = [pc EXCEPT ![Event] = "insert"] /\ cfd[Event] \in Fds
          /\ interest' = [interest EXCEPT ![cfd[Event]] = {"IN"}]
          /\ UNCHANGED <<connections, sock, cur, cfd>>
      BY <1>4, <2>2 DEF AcceptRegister, add_fd
    <3>2. "IN" \in interest'[cfd[Event]]
      BY <3>1 DEF ListTypes
    <3> QED
      BY <1>4, <3>1, <3>2 DEF AcceptRegister
  <2> QED
    BY <2>1, <2>2
<1>5. CASE AcceptInsert \/ DataOversize \/ DataOversizeClose
  BY <1>5 DEF AcceptInsert, DataOversize, DataOversizeClose
<1>6. ASSUME NEW t \in Threads, CloseErase(t) PROVE AcceptInv'
  BY <1>6 DEF CloseErase
<1>7. ASSUME NEW t \in Threads, CloseFd(t) PROVE AcceptInv'
  <2>1. CASE t = Event
    BY <1>7, <2>1 DEF CloseFd
  <2>2. CASE t # Event
    <3>1. Accepting => cfd[Event] # cfd[t]
      BY <1>7, <2>2 DEF CloseFd, CloseIsExclusive, Closing
    <3>2. /\ interest' = [interest EXCEPT ![cfd[t]] = {}] /\ sock' = [sock EXCEPT ![cfd[t]] = None]
          /\ pc'[Event] = pc[Event] /\ UNCHANGED <<connections, cur, cfd>>
      BY <1>7, <2>2 DEF CloseFd, remove_fd
    <3> QED
      BY <3>1, <3>2 DEF ListTypes
  <2> QED
    BY <2>1, <2>2
<1> QED
  BY <1>1, <1>2, <1>3, <1>4, <1>5, <1>6, <1>7, QuietOrNot DEF DescriptorStep

-------------------------------------------------------------------------------
(* The map and the descriptor table *)

\* The map agrees with the descriptor table: a descriptor is closed when it is
\* out of the map, and a new entry is made for a Connection that is in no other.
LEMMA MapStep ==
  ASSUME CoreTypes, ListTypes, ClientTypes, SentTypes, ReplyTypes, ControlInv, BirthInv,
         PendingResponseHasBytes, LockInv, AcceptInv, DataInv, MapMatchesDescriptors,
         CloseIsExclusive, NoDescriptorLeak, LimitInv, [Next]_vars
  PROVE  MapMatchesDescriptors'
<1> USE ServerAssumption
    DEF Threads, Goto, serverVars, kernelVars, clientVars, localVars, CoreTypes, ControlTypes,
        MapTypes, ControlInv, Accepting, AcceptInv, EventPC, WorkerPC, SharedPC, AcceptPC, DataPC,
        ClosePC, MapMatchesDescriptors, Mapped
<1>0. \A f \in Fds : connections[f] # None => connections[f] \in Clients
  OBVIOUS
<1>1. CASE Quiet
  BY <1>0, <1>1, Zenon DEF Quiet
<1>2. CASE Accept
  <2>1. CASE backlog = <<>>
    BY <1>2, <2>1 DEF Accept
  <2>2. CASE backlog # <<>>
    <3>1. LowestFree \in Fds /\ sock[LowestFree] = None /\ Head(backlog) \in Clients
      BY <1>2, <2>2, LowestFreeIsFree DEF Accept
    <3>2. /\ sock' = [sock EXCEPT ![LowestFree] = Head(backlog)]
          /\ cur' = [cur EXCEPT ![Event] = Head(backlog)]
          /\ cfd' = [cfd EXCEPT ![Event] = LowestFree]
          /\ pc' = [pc EXCEPT ![Event] = "limit"]
          /\ UNCHANGED <<connections, conn, interest>>
      BY <1>2, <2>2 DEF Accept
    <3> QED
      BY <3>1, <3>2
  <2> QED
    BY <2>1, <2>2
<1>3. CASE AcceptLimit
  BY <1>3 DEF AcceptLimit
<1>4. CASE AcceptRegister
  <2>1. cfd[Event] \in Fds /\ connections[cfd[Event]] = None /\ UNCHANGED <<connections, conn>>
    BY <1>4 DEF AcceptRegister
  <2>2. \A f \in Fds : f # cfd[Event] => sock'[f] = sock[f] /\ interest'[f] = interest[f]
    BY <1>4 DEF AcceptRegister, add_fd, ListTypes
  <2> QED
    BY <2>1, <2>2, Zenon
<1>5. CASE AcceptInsert
  <2> DEFINE k == cur[Event]
  <2>1. k \in Clients /\ cfd[Event] \in Fds /\ Accepting /\ sock[cfd[Event]] = k
        /\ "IN" \in interest[cfd[Event]]
    BY <1>5 DEF AcceptInsert
  <2>2. \A f \in Fds : connections[f] # k
    BY <2>1 DEF BirthInv, Known, Unborn, InMap
  <2>3. /\ connections' = [connections EXCEPT ![cfd[Event]] = k]
        /\ conn' = [conn EXCEPT ![k] = NewConnection(cfd[Event])]
        /\ UNCHANGED <<sock, interest>>
    BY <1>5 DEF AcceptInsert
  <2>4. conn'[k].fd = cfd[Event] /\ \A j \in Clients \ {k} : conn'[j] = conn[j]
    BY <2>1, <2>3 DEF ConnType, NewConnection
  <2> QED
    <3>1. ASSUME NEW f \in Fds, f # cfd[Event], connections'[f] # None
          PROVE  connections'[f] = connections[f] /\ conn'[connections'[f]] = conn[connections[f]]
      BY <1>0, <2>1, <2>2, <2>3, <2>4, <3>1
    <3>2. connections'[cfd[Event]] = k
      BY <2>1, <2>3
    <3> HIDE DEF k, CoreTypes, ControlTypes, MapTypes, ControlInv, AcceptInv, Accepting
    <3> QED
      BY <2>1, <2>3, <2>4, <3>1, <3>2, Zenon
<1>6. CASE DataOversize
  <2>1. \A f \in Fds : connections'[f] # None => connections'[f] = connections[f]
    BY <1>6 DEF DataOversize
  <2>2. UNCHANGED <<conn, sock, interest>>
    BY <1>6 DEF DataOversize
  <2> HIDE DEF CoreTypes, ControlTypes, MapTypes, ControlInv, AcceptInv, Accepting
  <2> QED
    BY <2>1, <2>2
<1>7. CASE DataOversizeClose
  BY <1>7 DEF DataOversizeClose, remove_fd, ListTypes, CloseIsExclusive, Closing
<1>8. ASSUME NEW t \in Threads, CloseErase(t) PROVE MapMatchesDescriptors'
  BY <1>8 DEF CloseErase
<1>9. ASSUME NEW t \in Threads, CloseFd(t) PROVE MapMatchesDescriptors'
  <2>1. connections[cfd[t]] = None
    BY <1>9 DEF CloseFd, CloseIsExclusive, Closing
  <2> QED
    BY <1>9, <2>1 DEF CloseFd, remove_fd, ListTypes
<1> QED
  BY <1>1, <1>2, <1>3, <1>4, <1>5, <1>6, <1>7, <1>8, <1>9, QuietOrNot DEF DescriptorStep

\* Who takes an entry out of the map is the only one to close its descriptor.
LEMMA CloseStep ==
  ASSUME CoreTypes, ListTypes, ClientTypes, SentTypes, ReplyTypes, ControlInv, BirthInv,
         PendingResponseHasBytes, LockInv, AcceptInv, DataInv, MapMatchesDescriptors,
         CloseIsExclusive, NoDescriptorLeak, LimitInv, [Next]_vars
  PROVE  CloseIsExclusive'
<1> USE ServerAssumption
    DEF Threads, Goto, serverVars, kernelVars, clientVars, localVars, CoreTypes, ControlTypes,
        MapTypes, ControlInv, Accepting, AcceptInv, EventPC, WorkerPC, SharedPC, AcceptPC, DataPC,
        ClosePC, Closing
<1>0. \A t \in Threads : Closing(t) => cfd[t] \in Fds
  OBVIOUS
<1> USE DEF CloseIsExclusive
<1>1. CASE Quiet
  BY <1>0, <1>1 DEF Quiet
<1>2. CASE Accept
  <2>1. CASE backlog = <<>>
    BY <1>2, <2>1 DEF Accept
  <2>2. CASE backlog # <<>>
    <3>1. LowestFree \in Fds /\ sock[LowestFree] = None /\ Head(backlog) \in Clients
      BY <1>2, <2>2, LowestFreeIsFree DEF Accept
    <3>2. /\ sock' = [sock EXCEPT ![LowestFree] = Head(backlog)]
          /\ cur' = [cur EXCEPT ![Event] = Head(backlog)]
          /\ cfd' = [cfd EXCEPT ![Event] = LowestFree]
          /\ pc' = [pc EXCEPT ![Event] = "limit"]
          /\ UNCHANGED <<connections, conn, interest>>
      BY <1>2, <2>2 DEF Accept
    <3>3. pc[Event] = "accept"
      BY <1>2 DEF Accept
    <3> QED
      BY <1>0, <3>1, <3>2, <3>3
  <2> QED
    BY <2>1, <2>2
<1>3. CASE AcceptLimit
  BY <1>0, <1>3 DEF AcceptLimit
<1>4. CASE AcceptRegister
  BY <1>0, <1>4 DEF AcceptRegister
<1>5. CASE AcceptInsert
  BY <1>0, <1>5 DEF AcceptInsert
<1>6. CASE DataOversize
  <2>0. pc[Event] = "oversize" /\ cfd[Event] \in Fds /\ cur[Event] \in Clients
    BY <1>6 DEF DataOversize
  <2>1. connections[cfd[Event]] # None /\ sock[cfd[Event]] # None
    <3> HIDE DEF CoreTypes, ControlTypes, MapTypes, ControlInv, AcceptInv, Accepting
    <3>1. connections[cfd[Event]] # None
      BY <2>0 DEF DataInv
    <3> QED
      BY <2>0, <3>1 DEF MapMatchesDescriptors, Mapped
  <2>2. /\ pc' = [pc EXCEPT ![Event] = "oversizeclose"]
        /\ connections' = [connections EXCEPT ![cfd[Event]] = None]
        /\ UNCHANGED <<sock, cfd>>
    BY <1>6 DEF DataOversize
  <2> QED
    BY <1>0, <2>0, <2>1, <2>2
<1>7. CASE DataOversizeClose
  BY <1>0, <1>7 DEF DataOversizeClose
<1>8. ASSUME NEW t \in Threads, CloseErase(t) PROVE CloseIsExclusive'
  <2>0. pc[t] = "erase" /\ cfd[t] \in Fds
    BY <1>8 DEF CloseErase
  <2>1. connections[cfd[t]] # None /\ sock[cfd[t]] # None
    <3> HIDE DEF CoreTypes, ControlTypes, MapTypes, ControlInv, AcceptInv, Accepting
    <3>1. connections[cfd[t]] # None
      BY <2>0 DEF LockInv
    <3> QED
      BY <2>0, <3>1 DEF MapMatchesDescriptors, Mapped
  <2>2. /\ pc' = [pc EXCEPT ![t] = "closefd"]
        /\ connections' = [connections EXCEPT ![cfd[t]] = None]
        /\ UNCHANGED <<sock, cfd>>
    BY <1>8 DEF CloseErase
  <2> QED
    BY <1>0, <2>0, <2>1, <2>2
<1>9. ASSUME NEW t \in Threads, CloseFd(t) PROVE CloseIsExclusive'
  <2>1. /\ pc[t] = "closefd" /\ cfd[t] \in Fds
        /\ pc' = [pc EXCEPT ![t] = ret[t]]
        /\ sock' = [sock EXCEPT ![cfd[t]] = None]
        /\ UNCHANGED <<connections, cfd>>
    BY <1>9 DEF CloseFd
  <2> QED
    BY <1>0, <2>1
<1> QED
  BY <1>1, <1>2, <1>3, <1>4, <1>5, <1>6, <1>7, <1>8, <1>9, QuietOrNot DEF DescriptorStep

\* An open descriptor is accounted for.
LEMMA LeakStep ==
  ASSUME CoreTypes, ListTypes, ClientTypes, SentTypes, ReplyTypes, ControlInv, BirthInv,
         PendingResponseHasBytes, LockInv, AcceptInv, DataInv, MapMatchesDescriptors,
         CloseIsExclusive, NoDescriptorLeak, LimitInv, [Next]_vars
  PROVE  NoDescriptorLeak'
<1> USE ServerAssumption
    DEF Threads, Goto, serverVars, kernelVars, clientVars, localVars, CoreTypes, ControlTypes,
        MapTypes, ControlInv, Accepting, AcceptInv, EventPC, WorkerPC, SharedPC, AcceptPC, DataPC,
        ClosePC, Closing, Mapped
<1>1. CASE Quiet
  <2>1. SUFFICES ASSUME NEW f \in Fds, sock'[f] # None
                 PROVE  \/ f \in Mapped'
                        \/ Accepting' /\ cfd'[Event] = f
                        \/ \E t \in Threads : Closing(t)' /\ cfd'[t] = f
    BY DEF NoDescriptorLeak
  <2>2. \/ f \in Mapped
        \/ Accepting /\ cfd[Event] = f
        \/ \E t \in Threads : Closing(t) /\ cfd[t] = f
    BY <1>1, <2>1 DEF NoDescriptorLeak, Quiet
  <2>3. f \in Mapped => f \in Mapped'
    BY <1>1 DEF Quiet
  <2> HIDE DEF Accepting, Closing, Mapped
  <2> QED
    BY <1>1, <2>2, <2>3 DEF Quiet
<1> USE DEF NoDescriptorLeak
<1>2. CASE Accept
  <2>1. CASE backlog = <<>>
    <3>1. /\ pc[Event] = "accept" /\ pc' = [pc EXCEPT ![Event] = "dispatch"]
          /\ UNCHANGED <<connections, sock, cfd>>
      BY <1>2, <2>1 DEF Accept
    <3>2. ~Accepting /\ \A t \in Threads : Closing(t) => Closing(t)' /\ cfd'[t] = cfd[t]
      BY <3>1
    <3>3. Mapped' = Mapped
      BY <3>1
    <3> HIDE DEF Accepting, Closing, Mapped
    <3> QED
      BY <3>1, <3>2, <3>3
  <2>2. CASE backlog # <<>>
    <3>1. LowestFree \in Fds /\ sock[LowestFree] = None /\ Head(backlog) \in Clients
      <4>1. \E f \in Fds : sock[f] = None
        BY <1>2 DEF Accept
      <4> QED
        BY <2>2, <4>1, LowestFreeIsFree
    <3>2. /\ sock' = [sock EXCEPT ![LowestFree] = Head(backlog)]
          /\ cur' = [cur EXCEPT ![Event] = Head(backlog)]
          /\ cfd' = [cfd EXCEPT ![Event] = LowestFree]
          /\ pc' = [pc EXCEPT ![Event] = "limit"]
          /\ UNCHANGED <<connections, conn, interest>>
      BY <1>2, <2>2 DEF Accept
    <3>3. pc[Event] = "accept"
      BY <1>2 DEF Accept
    <3>4. \A f \in Fds : f # LowestFree => sock'[f] = sock[f]
      BY <3>1, <3>2
    <3>5. Accepting' /\ cfd'[Event] = LowestFree /\ ~Accepting /\ ~Closing(Event)
      BY <3>2, <3>3
    <3>6. \A t \in Threads : Closing(t) => Closing(t)' /\ cfd'[t] = cfd[t]
      BY <3>2, <3>3
    <3>7. Mapped' = Mapped
      BY <3>2
    <3> HIDE DEF CoreTypes, ControlTypes, MapTypes, ControlInv, AcceptInv, Accepting,
                 Closing, Mapped, NoDescriptorLeak, Threads
    <3>8. ASSUME NEW f \in Fds, sock'[f] # None, f # LowestFree
          PROVE  f \in Mapped \/ \E t \in Threads : Closing(t) /\ cfd[t] = f
      BY <3>4, <3>5, <3>8 DEF NoDescriptorLeak
    <3>9. ASSUME NEW f \in Fds, sock'[f] # None
          PROVE  \/ f \in Mapped'
                 \/ Accepting' /\ cfd'[Event] = f
                 \/ \E t \in Threads : Closing(t)' /\ cfd'[t] = f
      BY <3>5, <3>6, <3>7, <3>8, <3>9
    <3> QED
      BY <3>9 DEF NoDescriptorLeak
  <2> QED
    BY <2>1, <2>2
<1>3. CASE AcceptLimit
  <2>1. \/ pc'[Event] = "register" /\ UNCHANGED sock
        \/ sock' = [sock EXCEPT ![cfd[Event]] = None]
    BY <1>3 DEF AcceptLimit
  <2>2. pc[Event] = "limit" /\ UNCHANGED <<connections, cfd>>
    BY <1>3 DEF AcceptLimit
  <2>3. \A t \in Threads : Closing(t) => Closing(t)' /\ cfd'[t] = cfd[t]
    BY <1>3 DEF AcceptLimit
  <2>4. \A f \in Fds : sock'[f] # None =>
          sock'[f] = sock[f] /\ (Accepting /\ cfd[Event] = f => Accepting' /\ cfd'[Event] = f)
    BY <2>1, <2>2
  <2>5. Mapped' = Mapped
    BY <2>2
  <2> HIDE DEF CoreTypes, ControlTypes, MapTypes, ControlInv, AcceptInv, Accepting,
               Closing, Mapped
  <2> QED
    BY <2>3, <2>4, <2>5
<1>4. CASE AcceptRegister
  BY <1>4 DEF AcceptRegister
<1>5. CASE AcceptInsert
  BY <1>5 DEF AcceptInsert
<1>6. CASE DataOversize
  BY <1>6 DEF DataOversize
<1>7. CASE DataOversizeClose
  BY <1>7 DEF DataOversizeClose
<1>8. ASSUME NEW t \in Threads, CloseErase(t) PROVE NoDescriptorLeak'
  BY <1>8 DEF CloseErase
<1>9. ASSUME NEW t \in Threads, CloseFd(t) PROVE NoDescriptorLeak'
  <2>1. /\ pc[t] = "closefd" /\ cfd[t] \in Fds
        /\ pc' = [pc EXCEPT ![t] = ret[t]]
        /\ sock' = [sock EXCEPT ![cfd[t]] = None]
        /\ UNCHANGED <<connections, cfd>>
    BY <1>9 DEF CloseFd
  <2> QED
    BY <2>1
<1> QED
  BY <1>1, <1>2, <1>3, <1>4, <1>5, <1>6, <1>7, <1>8, <1>9, QuietOrNot DEF DescriptorStep

\* Between the test of the limit and the insertion the map only shrinks.
LEMMA LimitStep ==
  ASSUME CoreTypes, ListTypes, ClientTypes, SentTypes, ReplyTypes, ControlInv, BirthInv,
         PendingResponseHasBytes, LockInv, AcceptInv, DataInv, MapMatchesDescriptors,
         CloseIsExclusive, NoDescriptorLeak, LimitInv, [Next]_vars
  PROVE  LimitInv'
<1> USE ServerAssumption
    DEF Threads, Goto, serverVars, kernelVars, clientVars, localVars, CoreTypes, ControlTypes,
        MapTypes, ControlInv, Accepting, AcceptInv, EventPC, WorkerPC, SharedPC, AcceptPC, DataPC,
        ClosePC
<1> USE DEF LimitInv, ConnectionLimit
<1>0. Cardinality(Mapped) \in Nat
  BY FS_CardinalityType
<1>a. ASSUME Mapped' \subseteq Mapped,
             pc'[Event] \in {"register", "insert"} =>
               pc[Event] \in {"register", "insert"} \/ Cardinality(Mapped) < MaxConnections
      PROVE  LimitInv'
  <2>1. IsFiniteSet(Mapped') /\ Cardinality(Mapped') <= Cardinality(Mapped)
    BY <1>a, FS_Subset
  <2>2. Cardinality(Mapped') \in Nat
    BY <2>1, FS_CardinalityType
  <2> QED
    BY <1>0, <1>a, <2>1, <2>2
<1>1. CASE Quiet
  BY <1>1, <1>a DEF Quiet, Mapped
<1>2. CASE Accept
  BY <1>2, <1>a DEF Accept, Mapped
<1>3. CASE AcceptLimit
  <2>1. Mapped' = Mapped
    BY <1>3 DEF AcceptLimit, Mapped
  <2>2. pc'[Event] = "register" => Cardinality(Mapped) < MaxConnections
    BY <1>0, <1>3 DEF AcceptLimit, AtLimit
  <2>3. pc'[Event] # "insert"
    BY <1>3 DEF AcceptLimit
  <2> QED
    BY <1>a, <2>1, <2>2, <2>3
<1>4. CASE AcceptRegister
  BY <1>4, <1>a DEF AcceptRegister, Mapped
<1>5. CASE AcceptInsert
  <2>1. Cardinality(Mapped) < MaxConnections
    BY <1>5 DEF AcceptInsert
  <2>2. cfd[Event] \in Fds /\ cfd[Event] \notin Mapped /\ cur[Event] # None
    BY <1>5 DEF AcceptInsert, Mapped
  <2>3. Mapped' = Mapped \cup {cfd[Event]}
    BY <1>5, <2>2 DEF AcceptInsert, Mapped
  <2>4. IsFiniteSet(Mapped') /\ Cardinality(Mapped') = Cardinality(Mapped) + 1
    BY <2>2, <2>3, FS_AddElement
  <2>5. pc'[Event] = "accept"
    BY <1>5 DEF AcceptInsert
  <2> QED
    BY <1>0, <2>1, <2>4, <2>5
<1>6. CASE DataOversize
  BY <1>6, <1>a DEF DataOversize, Mapped
<1>7. CASE DataOversizeClose
  BY <1>7, <1>a DEF DataOversizeClose, Mapped
<1>8. ASSUME NEW t \in Threads, CloseErase(t) PROVE LimitInv'
  BY <1>8, <1>a DEF CloseErase, Mapped
<1>9. ASSUME NEW t \in Threads, CloseFd(t) PROVE LimitInv'
  BY <1>9, <1>a DEF CloseFd, Mapped
<1> QED
  BY <1>1, <1>2, <1>3, <1>4, <1>5, <1>6, <1>7, <1>8, <1>9, QuietOrNot DEF DescriptorStep

-------------------------------------------------------------------------------
(* Where a Connection is: in the map, in the queue, on a worker, with the event
   thread, or not yet made *)

\* Taking the first element off a queue.
LEMMA TailFacts ==
  ASSUME NEW S, NEW q \in Seq(S), q # <<>>
  PROVE  /\ Head(q) = q[1] /\ 1 \in DOMAIN q
         /\ \A i \in DOMAIN Tail(q) : i + 1 \in DOMAIN q /\ Tail(q)[i] = q[i + 1] /\ i + 1 # 1
         /\ \A i, j \in DOMAIN Tail(q) : i + 1 = j + 1 => i = j
  OBVIOUS

\* Putting an element at the end of a queue.
LEMMA AppendFacts ==
  ASSUME NEW S, NEW q \in Seq(S), NEW e \in S
  PROVE  \A i \in DOMAIN Append(q, e) :
           \/ i \in DOMAIN q /\ Append(q, e)[i] = q[i]
           \/ i = Len(q) + 1 /\ Append(q, e)[i] = e
  OBVIOUS

InHandPC == (DataPC \ {"lookup"}) \cup SendPC

\* How a Connection gets to the places a thread works on it from.
Motion ==
  /\ \A w \in Workers :
       pc'[w] # "idle" => (pc[w] # "idle" /\ cur'[w] = cur[w]) \/ TaskBegin(w)
  /\ pc'[Event] \in InHandPC =>
       \/ pc[Event] \in InHandPC /\ cur'[Event] = cur[Event]
       \/ cfd[Event] \in Fds /\ cur'[Event] = connections[cfd[Event]]
  /\ pc'[Event] = "enqueue" => (pc[Event] = "enqueue" /\ cur'[Event] = cur[Event]) \/ DataCheck

\* How a client gets to the server: by Connect and Accept.
Arrival ==
  \/ Accept \/ \E k \in Clients : Connect(k)
  \/ /\ UNCHANGED backlog
     /\ \A k \in Clients : peer'[k] = "new" => peer[k] = "new"
     /\ Accepting' => Accepting /\ cur'[Event] = cur[Event]

\* The steps that change the queue.
LEMMA TasksFrame ==
  ASSUME [Next]_vars
  PROVE  UNCHANGED tasks \/ DataEnqueue \/ \E w \in Workers : TaskBegin(w)
  BY ZenonT(30) DEF Threads, Goto, serverVars, kernelVars, clientVars, localVars, vars,
     Next, EventThread, WorkerThread, Environment, send_response_async, close_connection,
     Connect, ClientSend, ClientRead, ClientClose, Timeout, EpollWait, EventDispatch, Accept,
     AcceptLimit, AcceptRegister, AcceptInsert, DataLookup, DataRecv, DataLock, DataCheck,
     DataOversize, DataOversizeClose, WriteLookup, CleanupBegin, CleanupVisit, CleanupEnd,
     CleanupNext, SendBegin, SendArm, SendDisarm, CloseFind, CloseErase, CloseFd, RequestParse,
     RequestKeepAlive, RequestThrow, RequestPresent, RequestAbandon, RequestPublish,
     RequestFinish

\* The steps that change the map.
LEMMA MapFrame ==
  ASSUME [Next]_vars
  PROVE  \/ UNCHANGED connections \/ AcceptInsert \/ DataOversize
         \/ \E t \in Threads : CloseErase(t)
  BY ZenonT(30) DEF Threads, Goto, serverVars, kernelVars, clientVars, localVars, vars,
     Next, EventThread, WorkerThread, Environment, send_response_async, close_connection,
     Connect, ClientSend, ClientRead, ClientClose, Timeout, EpollWait, EventDispatch, Accept,
     AcceptLimit, AcceptRegister, DataLookup, DataRecv, DataLock, DataCheck, DataOversizeClose,
     DataEnqueue, WriteLookup, CleanupBegin, CleanupVisit, CleanupEnd, CleanupNext, SendBegin,
     SendArm, SendDisarm, CloseFind, CloseFd, TaskBegin, RequestParse, RequestKeepAlive,
     RequestThrow, RequestPresent, RequestAbandon, RequestPublish, RequestFinish

\* Every step moves Connections only in those ways.
LEMMA MotionCases == CoreTypes /\ ListTypes /\ SentTypes /\ ControlInv /\ BirthInv /\
  PendingResponseHasBytes /\ [Next]_vars => Motion
<1> SUFFICES ASSUME CoreTypes, ListTypes, SentTypes, ControlInv, BirthInv,
  PendingResponseHasBytes, [Next]_vars PROVE Motion
  OBVIOUS
<1> USE ServerAssumption DEF Threads, Goto, serverVars, kernelVars, clientVars, localVars,
     EventPC, WorkerPC, SharedPC, DataPC, AcceptPC, SendPC, ClosePC, CoreTypes, ControlTypes,
     MapTypes, InHandPC, ControlInv, Motion
<1>1. ASSUME NEW k \in Clients, Connect(k) \/ ClientSend(k) \/ ClientRead(k) \/
         ClientClose(k) \/ Timeout(k)
      PROVE  Motion
  BY <1>1 DEF Connect, ClientSend, ClientRead, ClientClose, Timeout
<1>2. CASE EpollWait \/ EventDispatch
  BY <1>2 DEF EpollWait, EventDispatch
<1>3. CASE Accept
  <2>1. pc'[Event] \in {"dispatch", "limit"}
    BY <1>3 DEF Accept
  <2>2. \A w \in Workers : pc'[w] = pc[w] /\ cur'[w] = cur[w]
    BY <1>3 DEF Accept
  <2> QED
    BY <2>1, <2>2
<1>4. CASE AcceptLimit
  BY <1>4 DEF AcceptLimit
<1>5. CASE AcceptRegister
  BY <1>5 DEF AcceptRegister, add_fd
<1>6. CASE AcceptInsert
  BY <1>6 DEF AcceptInsert
<1>7. CASE DataLookup
  BY <1>7 DEF DataLookup
<1>8. CASE DataRecv
  BY <1>8 DEF DataRecv
<1>9. CASE DataLock
  BY <1>9 DEF DataLock
<1>10. CASE DataCheck
  BY <1>10 DEF DataCheck
<1>11. CASE DataOversize
  BY <1>11 DEF DataOversize
<1>12. CASE DataOversizeClose
  BY <1>12 DEF DataOversizeClose, remove_fd
<1>13. CASE DataEnqueue
  BY <1>13 DEF DataEnqueue
<1>14. CASE WriteLookup
  BY <1>14 DEF WriteLookup
<1>15. CASE CleanupBegin \/ CleanupVisit \/ CleanupEnd \/ CleanupNext
  BY <1>15 DEF CleanupBegin, CleanupVisit, CleanupEnd, CleanupNext
<1>16. ASSUME NEW t \in Threads, SendBegin(t) PROVE Motion
  <2>1. SendMoves(t)
    BY <1>16, SendControl, Zenon
  <2> QED
    BY <2>1 DEF SendMoves
<1>17. ASSUME NEW t \in Threads, SendArm(t) PROVE Motion
  BY <1>17 DEF SendArm, modify_fd
<1>18. ASSUME NEW t \in Threads, SendDisarm(t) PROVE Motion
  BY <1>18 DEF SendDisarm, modify_fd
<1>19. ASSUME NEW t \in Threads, CloseFind(t) PROVE Motion
  BY <1>19 DEF CloseFind
<1>20. ASSUME NEW t \in Threads, CloseErase(t) PROVE Motion
  BY <1>20 DEF CloseErase
<1>21. ASSUME NEW t \in Threads, CloseFd(t) PROVE Motion
  BY <1>21 DEF CloseFd, remove_fd
<1>22. ASSUME NEW w \in Workers, TaskBegin(w) PROVE Motion
  BY <1>22 DEF TaskBegin
<1>23. ASSUME NEW w \in Workers, RequestParse(w) PROVE Motion
  BY <1>23 DEF RequestParse
<1>24. ASSUME NEW w \in Workers, RequestKeepAlive(w) PROVE Motion
  BY <1>24 DEF RequestKeepAlive
<1>25. ASSUME NEW w \in Workers, RequestThrow(w) PROVE Motion
  BY <1>25 DEF RequestThrow
<1>26. ASSUME NEW w \in Workers, RequestPresent(w) PROVE Motion
  BY <1>26 DEF RequestPresent
<1>27. ASSUME NEW w \in Workers, RequestAbandon(w) PROVE Motion
  BY <1>27 DEF RequestAbandon
<1>28. ASSUME NEW w \in Workers, RequestPublish(w) PROVE Motion
  BY <1>28 DEF RequestPublish
<1>29. ASSUME NEW w \in Workers, RequestFinish(w) PROVE Motion
  BY <1>29 DEF RequestFinish
<1>30. CASE UNCHANGED vars
  BY <1>30 DEF vars
<1> QED
  BY <1>1, <1>2, <1>3, <1>4, <1>5, <1>6, <1>7, <1>8, <1>9, <1>10, <1>11, <1>12, <1>13, <1>14,
     <1>15, <1>16, <1>17, <1>18, <1>19, <1>20, <1>21, <1>22, <1>23, <1>24, <1>25, <1>26, <1>27,
     <1>28, <1>29, <1>30
     DEF Next, EventThread, WorkerThread, Environment, send_response_async, close_connection

\* Every step brings clients to the server only in those ways.
LEMMA ArrivalCases == CoreTypes /\ ListTypes /\ SentTypes /\ ControlInv /\ BirthInv /\
  PendingResponseHasBytes /\ [Next]_vars => Arrival
<1> SUFFICES ASSUME CoreTypes, ListTypes, SentTypes, ControlInv, BirthInv,
  PendingResponseHasBytes, [Next]_vars PROVE Arrival
  OBVIOUS
<1> USE ServerAssumption DEF Threads, Goto, serverVars, kernelVars, clientVars, localVars,
     CoreTypes, ControlTypes, MapTypes, EventPC, WorkerPC, SharedPC, Accepting, ControlInv
<1>1. ASSUME NEW k \in Clients, Connect(k) PROVE Arrival
  BY <1>1 DEF Arrival
<1>2. ASSUME NEW k \in Clients, ClientSend(k) PROVE Arrival
  BY <1>2 DEF ClientSend, Arrival
<1>3. ASSUME NEW k \in Clients, ClientRead(k) PROVE Arrival
  BY <1>3 DEF ClientRead, Arrival
<1>4. ASSUME NEW k \in Clients, ClientClose(k) PROVE Arrival
  <2>1. \A j \in Clients : peer'[j] = "new" => peer[j] = "new"
    BY <1>4 DEF ClientClose
  <2> QED
    BY <1>4, <2>1 DEF ClientClose, Arrival
<1>5. ASSUME NEW k \in Clients, Timeout(k) PROVE Arrival
  BY <1>5 DEF Timeout, Arrival
<1>6. CASE EpollWait \/ EventDispatch
  BY <1>6 DEF EpollWait, Arrival, EventDispatch
<1>7. CASE Accept
  BY <1>7 DEF Arrival
<1>8. CASE AcceptLimit
  BY <1>8 DEF AcceptLimit, Arrival
<1>9. CASE AcceptRegister
  BY <1>9 DEF AcceptRegister, add_fd, Arrival
<1>10. CASE AcceptInsert
  BY <1>10 DEF AcceptInsert, Arrival
<1>11. CASE DataLookup
  BY <1>11 DEF DataLookup, Arrival
<1>12. CASE DataRecv
  BY <1>12 DEF DataRecv, Arrival
<1>13. CASE DataLock
  BY <1>13 DEF DataLock, Arrival
<1>14. CASE DataCheck
  BY <1>14, Zenon DEF DataCheck, Arrival
<1>15. CASE DataOversize
  BY <1>15 DEF DataOversize, Arrival
<1>16. CASE DataOversizeClose
  BY <1>16 DEF DataOversizeClose, remove_fd, Arrival
<1>17. CASE DataEnqueue
  BY <1>17 DEF DataEnqueue, Arrival
<1>18. CASE WriteLookup
  BY <1>18 DEF WriteLookup, Arrival
<1>19. CASE CleanupBegin \/ CleanupVisit \/ CleanupEnd \/ CleanupNext
  BY <1>19 DEF CleanupBegin, Arrival, CleanupVisit, CleanupEnd, CleanupNext
<1>20. ASSUME NEW t \in Threads, SendBegin(t) PROVE Arrival
  <2>1. SendMoves(t)
    BY <1>20, SendControl, Zenon
  <2> QED
    BY <2>1 DEF SendMoves, Arrival
<1>21. ASSUME NEW t \in Threads, SendArm(t) PROVE Arrival
  BY <1>21 DEF SendArm, modify_fd, Arrival
<1>22. ASSUME NEW t \in Threads, SendDisarm(t) PROVE Arrival
  BY <1>22 DEF SendDisarm, modify_fd, Arrival
<1>23. ASSUME NEW t \in Threads, CloseFind(t) PROVE Arrival
  BY <1>23 DEF CloseFind, Arrival
<1>24. ASSUME NEW t \in Threads, CloseErase(t) PROVE Arrival
  BY <1>24 DEF CloseErase, Arrival
<1>25. ASSUME NEW t \in Threads, CloseFd(t) PROVE Arrival
  BY <1>25 DEF CloseFd, remove_fd, Arrival
<1>26. ASSUME NEW w \in Workers, TaskBegin(w) PROVE Arrival
  BY <1>26 DEF TaskBegin, Arrival
<1>27. ASSUME NEW w \in Workers, RequestParse(w) PROVE Arrival
  BY <1>27 DEF RequestParse, Arrival
<1>28. ASSUME NEW w \in Workers, RequestKeepAlive(w) PROVE Arrival
  BY <1>28 DEF RequestKeepAlive, Arrival
<1>29. ASSUME NEW w \in Workers, RequestThrow(w) PROVE Arrival
  BY <1>29 DEF RequestThrow, Arrival
<1>30. ASSUME NEW w \in Workers, RequestPresent(w) PROVE Arrival
  BY <1>30 DEF RequestPresent, Arrival
<1>31. ASSUME NEW w \in Workers, RequestAbandon(w) PROVE Arrival
  BY <1>31 DEF RequestAbandon, Arrival
<1>32. ASSUME NEW w \in Workers, RequestPublish(w) PROVE Arrival
  BY <1>32 DEF RequestPublish, Arrival
<1>33. ASSUME NEW w \in Workers, RequestFinish(w) PROVE Arrival
  BY <1>33 DEF RequestFinish, Arrival
<1>34. CASE UNCHANGED vars
  BY <1>34 DEF vars, Arrival
<1> QED
  BY <1>1, <1>2, <1>3, <1>4, <1>5, <1>6, <1>7, <1>8, <1>9, <1>10, <1>11, <1>12, <1>13, <1>14,
     <1>15, <1>16, <1>17, <1>18, <1>19, <1>20, <1>21, <1>22, <1>23, <1>24, <1>25, <1>26, <1>27,
     <1>28, <1>29, <1>30, <1>31, <1>32, <1>33, <1>34
     DEF Next, EventThread, WorkerThread, Environment, send_response_async, close_connection

\* Only an accept makes a Connection known to the server.
LEMMA KnownKept ==
  ASSUME CoreTypes, ListTypes, ClientTypes, SentTypes, ReplyTypes, ControlInv, BirthInv,
         PendingResponseHasBytes, [Next]_vars, NEW k \in Clients, Known(k)'
  PROVE  Known(k) \/ (AcceptInsert /\ k = cur[Event])
<1>0. Motion
  BY MotionCases
<1>1. CASE InMap(k)'
  <2>1. PICK f \in Fds : connections'[f] = k
    BY <1>1 DEF InMap
  <2>2. connections[f] = k \/ (AcceptInsert /\ k = cur[Event])
    BY <2>1, MapFrame, ServerAssumption
       DEF AcceptInsert, DataOversize, CloseErase, CoreTypes, MapTypes
  <2> QED
    BY <2>2 DEF Known, InMap
<1>2. CASE Queued(k)'
  <2>1. CASE UNCHANGED tasks
    BY <1>2, <2>1 DEF Known, Queued
  <2>2. CASE DataEnqueue
    <3>1. /\ pc[Event] = "enqueue" /\ cur[Event] \in Clients /\ tasks' = Append(tasks, cur[Event])
      BY <2>2 DEF DataEnqueue, ControlInv, DataPC
    <3>2. (\E i \in DOMAIN tasks : tasks[i] = k) \/ k = cur[Event]
      BY <1>2, <3>1, AppendFacts DEF Queued, CoreTypes, MapTypes
    <3> QED
      BY <3>1, <3>2 DEF Known, Queued, InHand, DataPC
  <2>3. ASSUME NEW w \in Workers, TaskBegin(w) PROVE Known(k)
    BY <1>2, <2>3, TailFacts DEF TaskBegin, Queued, Known, CoreTypes, MapTypes
  <2> QED
    BY <2>1, <2>2, <2>3, TasksFrame
<1>3. CASE Handled(k)'
  <2>1. PICK w \in Workers : pc'[w] # "idle" /\ cur'[w] = k
    BY <1>3 DEF Handled
  <2>2. CASE pc[w] # "idle" /\ cur'[w] = cur[w]
    BY <2>1, <2>2 DEF Known, Handled
  <2>3. CASE TaskBegin(w)
    <3>1. k = Head(tasks) /\ tasks # <<>>
      BY <2>1, <2>3 DEF TaskBegin, CoreTypes, ControlTypes, Threads
    <3> QED
      BY <3>1, TailFacts DEF Known, Queued, CoreTypes, MapTypes
  <2> QED
    BY <1>0, <2>1, <2>2, <2>3 DEF Motion
<1>4. CASE InHand(k)'
  <2>1. pc'[Event] \in InHandPC /\ cur'[Event] = k
    BY <1>4 DEF InHand, InHandPC
  <2>2. CASE pc[Event] \in InHandPC /\ cur'[Event] = cur[Event]
    BY <2>1, <2>2 DEF Known, InHand, InHandPC
  <2>3. CASE cfd[Event] \in Fds /\ cur'[Event] = connections[cfd[Event]]
    BY <2>1, <2>3 DEF Known, InMap
  <2> QED
    BY <1>0, <2>1, <2>2, <2>3 DEF Motion
<1> QED
  BY <1>1, <1>2, <1>3, <1>4 DEF Known

\* A client arrives once: new, then in the backlog, then being accepted.
LEMMA ArrivalStep ==
  ASSUME CoreTypes, ListTypes, SentTypes, ControlInv, BirthInv, PendingResponseHasBytes,
         ClientTypes, [Next]_vars
  PROVE  /\ \A k \in Clients : Unborn(k)' => Unborn(k)
         /\ \A k \in Clients : (peer[k] = "new")' =>
              ~InBacklog(k)' /\ ~(Accepting /\ cur[Event] = k)'
         /\ \A k \in Clients : InBacklog(k)' => ~(Accepting /\ cur[Event] = k)'
         /\ \A i, j \in DOMAIN backlog' : backlog'[i] = backlog'[j] => i = j
<1> USE DEF BirthInv, Unborn
<1>1. CASE /\ UNCHANGED backlog
           /\ \A k \in Clients : peer'[k] = "new" => peer[k] = "new"
           /\ Accepting' => Accepting /\ cur'[Event] = cur[Event]
  <2>1. \A k : InBacklog(k)' <=> InBacklog(k)
    BY <1>1 DEF InBacklog
  <2> QED
    BY <1>1, <2>1
<1>2. ASSUME NEW c \in Clients, Connect(c)
      PROVE  /\ \A k \in Clients : Unborn(k)' => Unborn(k)
             /\ \A k \in Clients : (peer[k] = "new")' =>
                  ~InBacklog(k)' /\ ~(Accepting /\ cur[Event] = k)'
             /\ \A k \in Clients : InBacklog(k)' => ~(Accepting /\ cur[Event] = k)'
             /\ \A i, j \in DOMAIN backlog' : backlog'[i] = backlog'[j] => i = j
  <2>1. /\ peer[c] = "new" /\ backlog' = Append(backlog, c)
        /\ peer'[c] # "new" /\ \A k \in Clients \ {c} : peer'[k] = peer[k]
        /\ UNCHANGED <<pc, cur>>
    BY <1>2 DEF Connect, ClientTypes, localVars
  <2>2. Accepting' <=> Accepting
    BY <2>1 DEF Accepting
  <2>3. \A i \in DOMAIN backlog' : \/ i \in DOMAIN backlog /\ backlog'[i] = backlog[i]
                                   \/ i = Len(backlog) + 1 /\ backlog'[i] = c
    BY <2>1, AppendFacts DEF CoreTypes, MapTypes
  <2>4. ~InBacklog(c) /\ \A k : InBacklog(k)' => InBacklog(k) \/ k = c
    BY <2>1, <2>3 DEF InBacklog
  <2>5. \A i, j \in DOMAIN backlog' : backlog'[i] = backlog'[j] => i = j
    BY <2>3, <2>4 DEF InBacklog
  <2> QED
    BY <2>1, <2>2, <2>4, <2>5
<1>3. CASE Accept
  <2>1. CASE backlog = <<>>
    <3>1. UNCHANGED <<backlog, peer>> /\ ~Accepting'
      BY <1>3, <2>1 DEF Accept, Accepting, Goto, clientVars, CoreTypes, ControlTypes, Threads
    <3>2. \A k : InBacklog(k)' <=> InBacklog(k)
      BY <3>1 DEF InBacklog
    <3> QED
      BY <3>1, <3>2
  <2>2. CASE backlog # <<>>
    <3>1. /\ backlog' = Tail(backlog) /\ cur'[Event] = Head(backlog) /\ UNCHANGED peer
      BY <1>3, <2>2 DEF Accept, clientVars, CoreTypes, ControlTypes, Threads
    <3>2. backlog \in Seq(Clients)
      BY DEF CoreTypes, MapTypes
    <3>3. /\ cur'[Event] = backlog[1] /\ 1 \in DOMAIN backlog
          /\ \A i \in DOMAIN backlog' :
               i + 1 \in DOMAIN backlog /\ backlog'[i] = backlog[i + 1] /\ i + 1 # 1
          /\ \A i, j \in DOMAIN backlog' : i + 1 = j + 1 => i = j
      BY <2>2, <3>1, <3>2, TailFacts
    <3>4. /\ \A k \in Clients : InBacklog(k)' => InBacklog(k)
          /\ \A k \in Clients : k = cur'[Event] => InBacklog(k) /\ ~InBacklog(k)'
      BY <3>3 DEF InBacklog, BirthInv
    <3>5. \A i, j \in DOMAIN backlog' : backlog'[i] = backlog'[j] => i = j
      BY <3>3
    <3> QED
      BY <3>1, <3>4, <3>5
  <2> QED
    BY <2>1, <2>2
<1> QED
  BY <1>1, <1>2, <1>3, ArrivalCases DEF Arrival

\* So the Connection that an accept makes is one nobody works on.
LEMMA BirthStep ==
  ASSUME CoreTypes, ListTypes, ClientTypes, SentTypes, ReplyTypes, ControlInv, BirthInv,
         PendingResponseHasBytes, [Next]_vars
  PROVE  BirthInv'
<1>1. ASSUME NEW k \in Clients, Known(k)' PROVE ~Unborn(k)' /\ conn'[k].fd \in Fds
  <2>1. CASE AcceptInsert /\ k = cur[Event]
    <3>1. Accepting /\ cfd[Event] \in Fds /\ pc'[Event] = "accept" /\ UNCHANGED <<peer, backlog>>
      BY <2>1 DEF AcceptInsert, Accepting, ControlInv, AcceptPC, Goto, kernelVars, clientVars,
         CoreTypes, ControlTypes, Threads
    <3>2. peer'[k] # "new" /\ ~InBacklog(k)'
      BY <2>1, <3>1 DEF BirthInv, InBacklog
    <3>3. ~Unborn(k)'
      BY <3>1, <3>2 DEF Unborn, Accepting
    <3>4. conn'[k].fd = cfd[Event]
      BY <2>1 DEF AcceptInsert, NewConnection, CoreTypes, ConnType
    <3> QED
      BY <3>1, <3>3, <3>4
  <2>2. CASE ~(AcceptInsert /\ k = cur[Event])
    <3>1. Known(k)
      BY <1>1, <2>2, KnownKept
    <3>2. ~Unborn(k) /\ conn[k].fd \in Fds
      BY <3>1 DEF BirthInv
    <3>3. conn'[k].fd = conn[k].fd
      BY <2>2, FdKept
    <3> QED
      BY <3>2, <3>3, ArrivalStep
  <2> QED
    BY <2>1, <2>2
<1> QED
  BY <1>1, ArrivalStep DEF BirthInv

-------------------------------------------------------------------------------
(* One handler per Connection *)

AtEnqueue(k) == pc[Event] = "enqueue" /\ cur[Event] = k

\* Where a Connection goes when a step changes the queue or a worker takes it.
LEMMA PlaceCases ==
  ASSUME CoreTypes, ListTypes, SentTypes, ControlInv, BirthInv, PendingResponseHasBytes,
         HandlerInv, [Next]_vars, NEW k \in Clients
  PROVE  /\ Queued(k)' => Queued(k) \/ (DataEnqueue /\ AtEnqueue(k))
         /\ Handled(k)' => Handled(k) \/ \E w \in Workers : TaskBegin(w) /\ k = Head(tasks)
         /\ AtEnqueue(k)' => AtEnqueue(k) \/ (DataCheck /\ cur[Event] = k)
<1>0. Motion
  BY MotionCases
<1>a. tasks \in Seq(Clients)
  BY DEF CoreTypes, MapTypes
<1>1. ASSUME Queued(k)' PROVE Queued(k) \/ (DataEnqueue /\ AtEnqueue(k))
  <2>1. CASE UNCHANGED tasks
    BY <1>1, <2>1 DEF Queued
  <2>2. CASE DataEnqueue
    <3>1. pc[Event] = "enqueue" /\ cur[Event] \in Clients /\ tasks' = Append(tasks, cur[Event])
      BY <2>2 DEF DataEnqueue, ControlInv, DataPC
    <3> QED
      BY <1>1, <1>a, <2>2, <3>1, AppendFacts DEF Queued, AtEnqueue
  <2>3. ASSUME NEW w \in Workers, TaskBegin(w) PROVE Queued(k)
    BY <1>1, <1>a, <2>3, TailFacts DEF TaskBegin, Queued
  <2> QED
    BY <2>1, <2>2, <2>3, TasksFrame
<1>2. ASSUME Handled(k)'
      PROVE  Handled(k) \/ \E w \in Workers : TaskBegin(w) /\ k = Head(tasks)
  <2>1. PICK w \in Workers : pc'[w] # "idle" /\ cur'[w] = k
    BY <1>2 DEF Handled
  <2>2. TaskBegin(w) => k = Head(tasks)
    BY <2>1 DEF TaskBegin, CoreTypes, ControlTypes, Threads
  <2> QED
    BY <1>0, <2>1, <2>2 DEF Motion, Handled
<1>3. ASSUME AtEnqueue(k)' PROVE AtEnqueue(k) \/ (DataCheck /\ cur[Event] = k)
  BY <1>0, <1>3 DEF Motion, AtEnqueue, DataCheck
<1> QED
  BY <1>1, <1>2, <1>3

\* A Connection is handed over only when processing_request is not set, and it
\* is set before the Connection's mutex is given back.
LEMMA HandOver ==
  ASSUME CoreTypes, ControlInv, DataCheck, pc'[Event] = "enqueue"
  PROVE  /\ cur[Event] \in Clients
         /\ ~conn[cur[Event]].processing_request /\ conn'[cur[Event]].processing_request
<1> DEFINE k == cur[Event]
           buffer == conn[k].buffer \o data
           process == ShouldProcess(conn[k], buffer)
<1>1. k \in Clients /\ ret[Event] # "enqueue"
  BY DEF DataCheck, ControlInv, DataPC
<1>2. /\ process
      /\ conn' = [conn EXCEPT ![k].buffer = buffer, ![k].idle = FALSE,
                              ![k].processing_request = @ \/ process]
  BY <1>1, ServerAssumption DEF DataCheck, Goto, CoreTypes, ControlTypes, Threads
<1>3. ~conn[k].processing_request
  BY <1>2 DEF ShouldProcess
<1> HIDE DEF buffer, process
<1>4. conn'[k].processing_request
  BY <1>1, <1>2 DEF CoreTypes, ConnType, Connections
<1> QED
  BY <1>1, <1>3, <1>4

\* From queue to worker and back a Connection stays in one place, and
\* processing_request stays set until its handler is done with it.
LEMMA HandlerStep ==
  ASSUME CoreTypes, ListTypes, ClientTypes, SentTypes, ReplyTypes, ControlInv, BirthInv,
         PendingResponseHasBytes, HandlerInv, [Next]_vars
  PROVE  HandlerInv'
<1>0. Motion
  BY MotionCases
<1>a. tasks \in Seq(Clients) /\ pc \in [Threads -> EventPC \cup WorkerPC \cup SharedPC]
      /\ cur \in [Threads -> Clients \cup {None}]
  BY DEF CoreTypes, ControlTypes, MapTypes
<1>b. ASSUME NEW w \in Workers, TaskBegin(w), NEW k \in Clients, k = Head(tasks)
      PROVE  /\ pc[w] = "idle" /\ cur'[w] = k
             /\ \A v \in Threads \ {w} : pc'[v] = pc[v] /\ cur'[v] = cur[v]
             /\ Queued(k) /\ ~Queued(k)' /\ ~Handled(k) /\ ~AtEnqueue(k)
  <2>1. /\ tasks # <<>> /\ tasks' = Tail(tasks) /\ pc[w] = "idle" /\ cur'[w] = k
        /\ \A v \in Threads \ {w} : pc'[v] = pc[v] /\ cur'[v] = cur[v]
    BY <1>a, <1>b DEF TaskBegin, Goto, Threads
  <2>2. Queued(k)
    BY <1>a, <1>b, <2>1, TailFacts DEF Queued
  <2>3. ~Queued(k)'
    BY <1>a, <1>b, <2>1, TailFacts DEF Queued, HandlerInv
  <2> QED
    BY <2>1, <2>2, <2>3 DEF HandlerInv, AtEnqueue
<1>c. ASSUME NEW w \in Workers, TaskBegin(w) PROVE Head(tasks) \in Clients
  BY <1>a, <1>c, TailFacts DEF TaskBegin
<1>1. ASSUME NEW v \in Workers, NEW w \in Workers, pc'[v] # "idle", pc'[w] # "idle",
             cur'[v] = cur'[w], v # w
      PROVE  FALSE
  <2>1. ASSUME NEW x \in Workers, NEW y \in Workers, x # y, TaskBegin(x),
               pc'[y] # "idle", cur'[x] = cur'[y]
        PROVE  FALSE
    <3>1. PICK k \in Clients : k = Head(tasks)
      BY <1>c, <2>1
    <3>2. cur'[x] = k /\ pc'[y] = pc[y] /\ cur'[y] = cur[y] /\ ~Handled(k)
      BY <1>b, <2>1, <3>1 DEF Threads
    <3> QED
      BY <2>1, <3>2 DEF Handled
  <2>2. ~TaskBegin(v) /\ ~TaskBegin(w)
    BY <1>1, <2>1
  <2> QED
    BY <1>0, <1>1, <2>2 DEF Motion, HandlerInv
<1>2. \A i, j \in DOMAIN tasks' : tasks'[i] = tasks'[j] => i = j
  <2>1. CASE UNCHANGED tasks
    BY <2>1 DEF HandlerInv
  <2>2. CASE DataEnqueue
    <3>1. AtEnqueue(cur[Event]) /\ cur[Event] \in Clients /\ tasks' = Append(tasks, cur[Event])
      BY <2>2 DEF DataEnqueue, ControlInv, DataPC, AtEnqueue
    <3>2. ~Queued(cur[Event])
      BY <3>1 DEF HandlerInv, AtEnqueue
    <3> QED
      BY <1>a, <3>1, <3>2, AppendFacts DEF HandlerInv, Queued
  <2>3. ASSUME NEW w \in Workers, TaskBegin(w)
        PROVE  \A i, j \in DOMAIN tasks' : tasks'[i] = tasks'[j] => i = j
    BY <1>a, <2>3, TailFacts DEF TaskBegin, HandlerInv
  <2> QED
    BY <2>1, <2>2, <2>3, TasksFrame
<1>3. ASSUME NEW k \in Clients PROVE ~(Queued(k)' /\ Handled(k)')
  <2>1. CASE DataEnqueue /\ AtEnqueue(k)
    <3>1. ~Handled(k)
      BY <2>1 DEF HandlerInv, AtEnqueue
    <3>2. \A w \in Workers : ~TaskBegin(w)
      BY <2>1, <1>a, ServerAssumption DEF DataEnqueue, TaskBegin, Goto, AtEnqueue, Threads
    <3> QED
      BY <3>1, <3>2, PlaceCases
  <2>2. ASSUME NEW w \in Workers, TaskBegin(w), k = Head(tasks) PROVE ~Queued(k)'
    BY <1>b, <2>2
  <2> QED
    BY <2>1, <2>2, PlaceCases DEF HandlerInv
<1>4. ASSUME NEW k \in Clients, AtEnqueue(k)' PROVE ~Queued(k)' /\ ~Handled(k)'
  <2>1. CASE AtEnqueue(k)
    <3>1. ~DataEnqueue
      BY <1>4, <1>a, <2>1 DEF DataEnqueue, AtEnqueue, Goto, Threads, ControlInv, DataPC
    <3>2. \A w \in Workers : ~(TaskBegin(w) /\ k = Head(tasks))
      BY <1>b, <2>1
    <3> QED
      BY <2>1, <3>1, <3>2, PlaceCases DEF HandlerInv, AtEnqueue
  <2>2. CASE DataCheck /\ cur[Event] = k
    <3>1. ~conn[k].processing_request
      BY <1>4, <2>2, HandOver DEF AtEnqueue
    <3>2. ~Queued(k) /\ ~Handled(k)
      BY <3>1 DEF HandlerInv
    <3>3. ~AtEnqueue(k)
      BY <2>2 DEF DataCheck, AtEnqueue
    <3>4. \A w \in Workers : ~(TaskBegin(w) /\ k = Head(tasks))
      BY <1>b, <3>2
    <3> QED
      BY <3>2, <3>3, <3>4, PlaceCases
  <2> QED
    BY <1>4, <2>1, <2>2, PlaceCases
<1>5. ASSUME NEW k \in Clients, Queued(k)' \/ Handled(k)' \/ AtEnqueue(k)'
      PROVE  conn'[k].processing_request
  <2>1. CASE DataCheck /\ cur[Event] = k /\ pc'[Event] = "enqueue"
    BY <2>1, HandOver
  <2>2. CASE Queued(k) \/ Handled(k) \/ AtEnqueue(k)
    <3>1. conn[k].processing_request
      BY <2>2 DEF HandlerInv, AtEnqueue
    <3>2. ~(AcceptInsert /\ k = cur[Event])
      BY <2>2 DEF AcceptInsert, BirthInv, Known, Unborn, Accepting, AtEnqueue
    <3>3. ASSUME NEW w \in Workers, RequestAbandon(w) \/ RequestFinish(w), k = cur[w] PROVE FALSE
      <4>1. /\ pc[w] # "idle" /\ pc'[w] = "idle" /\ UNCHANGED <<tasks, cur>>
            /\ \A v \in Threads \ {w} : pc'[v] = pc[v]
        BY <1>a, <3>3 DEF RequestAbandon, RequestFinish, Goto, Threads
      <4>2. ~Queued(k) /\ ~AtEnqueue(k)
        BY <3>3, <4>1 DEF HandlerInv, AtEnqueue, Handled
      <4>3. ~Queued(k)' /\ ~AtEnqueue(k)'
        BY <4>1, <4>2, ServerAssumption DEF Queued, AtEnqueue, Threads
      <4>4. ~Handled(k)'
        BY <3>3, <4>1 DEF Handled, HandlerInv, Threads
      <4> QED
        BY <1>5, <4>3, <4>4
    <3> QED
      BY <3>1, <3>2, <3>3, ConnCases DEF ConnUpdate, CoreTypes, ConnType
  <2>3. ASSUME NEW w \in Workers, TaskBegin(w), k = Head(tasks) PROVE Queued(k)
    BY <1>b, <2>3
  <2>4. \/ DataCheck /\ cur[Event] = k /\ AtEnqueue(k)'
        \/ Queued(k) \/ Handled(k) \/ AtEnqueue(k)
    BY <1>5, <2>3, PlaceCases
  <2> QED
    BY <2>1, <2>2, <2>4 DEF AtEnqueue
<1> QED
  BY <1>1, <1>2, <1>3, <1>4, <1>5 DEF HandlerInv, AtEnqueue

-------------------------------------------------------------------------------
(* The theorems *)

\* At the start there are no connections, no tasks and no open descriptors.
LEMMA ServerInit == Init => IInv
<1> SUFFICES ASSUME Init PROVE IInv
  OBVIOUS
<1> USE ServerAssumption DEF Init
<1>1. CoreTypes
  <2>1. ControlTypes
    BY DEF ControlTypes, Threads, EventPC, WorkerPC
  <2>2. MapTypes
    BY DEF MapTypes
  <2>3. BadRequest \in Requests /\ <<>> \in Seq(Units) /\ 0 \in 0..RespLen
    BY DEF Requests
  <2>4. NewConnection(0) \in Connections
    BY <2>3 DEF NewConnection, Connections
  <2>5. ConnType
    BY <2>4 DEF ConnType
  <2> QED
    BY <2>1, <2>2, <2>5 DEF CoreTypes
<1>2. ListTypes /\ ClientTypes /\ SentTypes /\ ReplyTypes
  <2>1. ListTypes
    BY DEF ListTypes
  <2>2. ClientTypes
    BY DEF ClientTypes
  <2>3. SentTypes
    BY DEF SentTypes
  <2>4. ReplyTypes
    BY DEF ReplyTypes, Requests
  <2> QED
    BY <2>1, <2>2, <2>3, <2>4
<1>3. Mapped = {}
  BY DEF Mapped
<1>4. ControlInv
  BY DEF ControlInv, Threads, EventPC, WorkerPC, SharedPC, DataPC, AcceptPC, SendPC, ClosePC
<1>5. pc[Event] = "wait" /\ \A w \in Workers : pc[w] = "idle"
  BY DEF Threads
<1>6. BirthInv /\ HandlerInv
  <2>1. DOMAIN tasks = {} /\ DOMAIN backlog = {}
    OBVIOUS
  <2>2. \A k \in Clients : ~Queued(k) /\ ~InBacklog(k) /\ ~Handled(k)
    BY <1>5, <2>1 DEF Queued, InBacklog, Handled
  <2>3. \A k \in Clients : ~InMap(k) /\ ~InHand(k) /\ ~Accepting
    BY <1>5 DEF InMap, InHand, Accepting, DataPC, SendPC
  <2> QED
    BY <1>5, <2>1, <2>2, <2>3 DEF BirthInv, HandlerInv, Known
<1>7. LockInv /\ AcceptInv /\ DataInv
  BY <1>5 DEF LockInv, AcceptInv, DataInv, Accepting, Threads
<1>8. MapMatchesDescriptors /\ CloseIsExclusive /\ NoDescriptorLeak
  BY <1>3, <1>5 DEF MapMatchesDescriptors, CloseIsExclusive, NoDescriptorLeak, Closing, Threads
<1>9. LimitInv
  BY <1>3, <1>5, FS_EmptySet DEF LimitInv, ConnectionLimit
<1>10. PendingResponseHasBytes
  BY DEF PendingResponseHasBytes, NewConnection
<1> QED
  BY <1>1, <1>2, <1>4, <1>6, <1>7, <1>8, <1>9, <1>10, TypeGroups DEF IInv

\* No step breaks the invariant.
LEMMA ServerNext == IInv /\ [Next]_vars => IInv'
<1> SUFFICES ASSUME IInv, [Next]_vars PROVE IInv'
  OBVIOUS
<1>1. /\ CoreTypes /\ ListTypes /\ ClientTypes /\ SentTypes /\ ReplyTypes
      /\ ControlInv /\ BirthInv /\ LockInv /\ AcceptInv /\ DataInv
      /\ MapMatchesDescriptors /\ CloseIsExclusive /\ NoDescriptorLeak
      /\ LimitInv /\ HandlerInv /\ PendingResponseHasBytes
  BY TypeGroups DEF IInv
<1>2. CoreTypes'
  BY <1>1, ControlTypesStep, MapTypesStep, ConnTypeStep DEF CoreTypes
<1>3. ListTypes' /\ ClientTypes' /\ SentTypes' /\ ReplyTypes'
  BY <1>1, ListTypesStep, ClientTypesStep, SentTypesStep, ReplyTypesStep
<1>4. TypeOK'
  BY <1>2, <1>3, Zenon DEF TypeOK, CoreTypes, ControlTypes, MapTypes, ConnType, Connections,
     ListTypes, ClientTypes, SentTypes, ReplyTypes
<1>5. ControlInv' /\ LockInv' /\ DataInv' /\ AcceptInv'
  BY <1>1, ControlStep, LockStep, DataStep, AcceptStep
<1>6. MapMatchesDescriptors' /\ CloseIsExclusive' /\ NoDescriptorLeak' /\ LimitInv'
  BY <1>1, MapStep, CloseStep, LeakStep, LimitStep
<1>7. BirthInv' /\ HandlerInv' /\ PendingResponseHasBytes'
  BY <1>1, BirthStep, HandlerStep, PendingStep
<1> QED
  BY <1>4, <1>5, <1>6, <1>7 DEF IInv

\* The inductive invariant holds in every behaviour of the server.
THEOREM ServerInvariance == Spec => []IInv
  BY ServerInit, ServerNext, PTL DEF Spec

\* Every variable keeps its type: no descriptor, Connection or queue entry is
\* ever used where there is none.
THEOREM ServerTypes == Spec => []TypeOK
<1>1. IInv => TypeOK
  BY DEF IInv
<1> QED
  BY <1>1, ServerInvariance, PTL

\* A descriptor in connections_ denotes the socket of the Connection it is
\* mapped to, and epoll watches it.
THEOREM MapIsRight == Spec => []MapMatchesDescriptors
<1>1. IInv => MapMatchesDescriptors
  BY DEF IInv
<1> QED
  BY <1>1, ServerInvariance, PTL

\* No descriptor is closed twice, nor under a connection that has taken over its
\* number, however many threads run close_connection at a time.
THEOREM NothingClosedUnderOthers == Spec => []CloseIsExclusive
<1>1. IInv => CloseIsExclusive
  BY DEF IInv
<1> QED
  BY <1>1, ServerInvariance, PTL

\* No path through handle_accept, handle_client_data and close_connection
\* leaks a descriptor.
THEOREM NothingLeaks == Spec => []NoDescriptorLeak
<1>1. IInv => NoDescriptorLeak
  BY DEF IInv
<1> QED
  BY <1>1, ServerInvariance, PTL

\* max_connections_ is never exceeded.
THEOREM LimitHolds == Spec => []ConnectionLimit
<1>1. IInv => ConnectionLimit
  BY DEF IInv, LimitInv
<1> QED
  BY <1>1, ServerInvariance, PTL

\* send_response_async never finds a pending response with nothing left to
\* write.
THEOREM PendingHasBytes == Spec => []PendingResponseHasBytes
<1>1. IInv => PendingResponseHasBytes
  BY DEF IInv
<1> QED
  BY <1>1, ServerInvariance, PTL

\* What a set with at most one element counts.
LEMMA AtMostOne ==
  ASSUME NEW S, \A x, y \in S : x = y
  PROVE  S = {} \/ (S # {} /\ Cardinality(S) = 1)
<1>1. CASE S # {}
  <2>1. PICK x \in S : S = {x}
    BY <1>1
  <2> QED
    BY <1>1, <2>1, FS_Singleton
<1> QED
  BY <1>1

\* A Connection is handled once at a time: processing_request is tested and set
\* under its mutex, and cleared by its one handler.
THEOREM HandledOnce == Spec => []OneHandlerPerConnection
<1>1. ASSUME IInv PROVE OneHandlerPerConnection
  <2>1. SUFFICES ASSUME NEW k \in Clients
        PROVE /\ Cardinality(Handlers(k)) + Cardinality(QueuedAt(k))
                   + (IF pc[Event] = "enqueue" /\ cur[Event] = k THEN 1 ELSE 0) <= 1
              /\ Handlers(k) # {} \/ QueuedAt(k) # {} => conn[k].processing_request
    BY DEF OneHandlerPerConnection
  <2>2. HandlerInv
    BY <1>1 DEF IInv
  <2>3. (Handlers(k) # {} <=> Handled(k)) /\ (QueuedAt(k) # {} <=> Queued(k))
    BY DEF Handlers, Handled, QueuedAt, Queued
  <2>4. \A v, w \in Handlers(k) : v = w
    BY <2>2 DEF HandlerInv, Handlers
  <2>5. \A i, j \in QueuedAt(k) : i = j
    BY <2>2 DEF HandlerInv, QueuedAt
  <2>6. /\ Handlers(k) = {} \/ Cardinality(Handlers(k)) = 1
        /\ QueuedAt(k) = {} \/ Cardinality(QueuedAt(k)) = 1
    BY <2>4, <2>5, AtMostOne
  <2>7. Cardinality({}) = 0
    BY FS_EmptySet
  <2> QED
    BY <2>2, <2>3, <2>6, <2>7 DEF HandlerInv
<1> QED
  BY <1>1, ServerInvariance, PTL
===============================================================================
