-------------------------- MODULE ServerStreamProofs --------------------------
(***************************************************************************)
(* Proofs about what Server writes to its clients: whole responses, the    *)
(* n-th of them to the n-th request of the client, and none left half      *)
(* written with nobody waiting to write the rest; and about the order in   *)
(* which connections_mutex_ and the mutex_ of a Connection are taken.      *)
(*                                                                         *)
(* None of this holds without more.  A worker keeps a descriptor number    *)
(* while the event thread may close it and accept another client under it *)
(* (the run Server_misdelivery), so every theorem here is about behaviours *)
(* in which that does not happen (NumberKept); where a single client       *)
(* connects it cannot, and the last theorems say so.  And a client that    *)
(* sends requests without waiting for their responses has a response that  *)
(* is half written replaced by the next one, so StreamIsWhole is about     *)
(* clients that wait; and the lock theorem is about clients that, besides, *)
(* send nothing behind a request to have the connection closed.            *)
(*                                                                         *)
(* The argument is one of counting.  A client starts request n when it has *)
(* read n - 1 whole responses (TurnInv).  Units reach the buffer in order  *)
(* (OrderInv), and those of a request are emptied out of it before the     *)
(* next one is handled, so each unit that is still on its way belongs to a *)
(* request later than every response published so far (AnswerInv).  Hence  *)
(* a worker that has a request to answer finds the response before it      *)
(* wholly written; and as the client has started no later one either, what *)
(* the worker parsed (ReplyInv) is the request after those that are        *)
(* answered (TagInv).                                                      *)
(*                                                                         *)
(* A circle of locks takes a worker that closes a Connection, or one that  *)
(* abandons a request, while the event thread holds the mutex of the same  *)
(* Connection because its buffer grew too long.  A worker closes only a    *)
(* Connection that is not kept alive, and the client of such a Connection  *)
(* has nothing left to send that could reach the buffer (KeepInv).         *)
(***************************************************************************)
EXTENDS ServerProofs

-------------------------------------------------------------------------------
(* Hypotheses *)

\* While a worker writes to a Connection or closes it, the descriptor number it
\* uses is not given to another client.
NumberKept ==
  \A w \in Workers :
    pc[w] \in SendPC \cup {"close", "erase"} => sock[conn[cur[w]].fd] \in {None, cur[w]}

-------------------------------------------------------------------------------
(* What a step does to the threads that send *)

\* A thread that is sending goes on with the same Connection until it is done,
\* and the event thread starts with one it has just looked up.
SendingMoves ==
  /\ \A t \in Threads : pc[t] \in SendPC =>
       \/ pc'[t] \in SendPC /\ cur'[t] = cur[t]
       \/ SendBegin(t) \/ SendArm(t) \/ SendDisarm(t)
  /\ pc'[Event] \in SendPC =>
       (pc[Event] \in SendPC /\ cur'[Event] = cur[Event]) \/ WriteLookup
  /\ pc'[Event] = "recv" =>
       \/ pc[Event] = "recv" /\ cur'[Event] = cur[Event] /\ cfd'[Event] = cfd[Event]
       \/ DataLookup
  /\ \A t \in Threads : pc'[t] = "disarm" =>
       (pc[t] = "disarm" /\ cur'[t] = cur[t]) \/ SendBegin(t)

\* Every step moves the threads that send only in those ways.
LEMMA SendingCases == CoreTypes /\ ListTypes /\ SentTypes /\ ControlInv /\ BirthInv /\
  PendingResponseHasBytes /\ [Next]_vars => SendingMoves
<1> SUFFICES ASSUME CoreTypes, ListTypes, SentTypes, ControlInv, BirthInv,
  PendingResponseHasBytes, [Next]_vars PROVE SendingMoves
  OBVIOUS
<1> USE ServerAssumption DEF Threads, Goto, serverVars, kernelVars, clientVars, localVars,
     EventPC, WorkerPC, SharedPC, DataPC, AcceptPC, SendPC, ClosePC, CoreTypes, ControlTypes,
     MapTypes, ControlInv
<1>1. ASSUME NEW k \in Clients, Connect(k) \/ ClientSend(k) \/ ClientRead(k) \/ ClientClose(k)
      \/ Timeout(k)
      PROVE  SendingMoves
  BY <1>1 DEF SendingMoves, Connect, ClientSend, ClientRead, ClientClose, Timeout
<1>2. CASE EpollWait \/ EventDispatch
  BY <1>2 DEF SendingMoves, EpollWait, EventDispatch
<1>3. CASE Accept
  <2>1. pc'[Event] \in {"dispatch", "limit"}
    BY <1>3 DEF SendingMoves, Accept
  <2>2. \A w \in Workers : pc'[w] = pc[w] /\ cur'[w] = cur[w]
    BY <1>3 DEF SendingMoves, Accept
  <2>3. pc[Event] = "accept"
    BY <1>3 DEF SendingMoves, Accept
  <2> QED
    BY <2>1, <2>2, <2>3 DEF SendingMoves
<1>4. CASE AcceptLimit
  BY <1>4 DEF SendingMoves, AcceptLimit
<1>5. CASE AcceptRegister
  BY <1>5 DEF SendingMoves, AcceptRegister, add_fd
<1>6. CASE AcceptInsert
  BY <1>6 DEF SendingMoves, AcceptInsert
<1>7. CASE DataLookup
  BY <1>7 DEF SendingMoves, DataLookup
<1>8. CASE DataRecv
  BY <1>8 DEF SendingMoves, DataRecv
<1>9. CASE DataLock
  BY <1>9 DEF SendingMoves, DataLock
<1>10. CASE DataCheck
  BY <1>10 DEF SendingMoves, DataCheck
<1>11. CASE DataOversize
  BY <1>11 DEF SendingMoves, DataOversize
<1>12. CASE DataOversizeClose
  BY <1>12 DEF SendingMoves, DataOversizeClose, remove_fd
<1>13. CASE DataEnqueue
  BY <1>13 DEF SendingMoves, DataEnqueue
<1>14. CASE WriteLookup
  BY <1>14 DEF SendingMoves, WriteLookup
<1>15. CASE CleanupBegin \/ CleanupVisit \/ CleanupEnd \/ CleanupNext
  BY <1>15 DEF SendingMoves, CleanupBegin, CleanupVisit, CleanupEnd, CleanupNext
<1>16. ASSUME NEW t \in Threads, SendBegin(t)
      PROVE  SendingMoves
  <2>1. SendMoves(t)
    BY <1>16, SendControl, Zenon
  <2>2. /\ pc[t] = "send" /\ \A u \in Threads \ {t} : pc'[u] = pc[u] /\ cfd'[u] = cfd[u]
        /\ UNCHANGED cur
    BY <2>1 DEF SendMoves
  <2>3. pc'[t] \in {ret[t], "close", "arm", "disarm"}
    BY <2>1 DEF SendMoves
  <2>4. t = Event => ret[t] = "dispatch"
    BY <2>2
  <2>5. t # Event => ret[t] = "finish"
    BY <2>2
  <2> QED
    BY <1>16, <2>2, <2>3, <2>4, <2>5 DEF SendingMoves
<1>17. ASSUME NEW t \in Threads, SendArm(t)
      PROVE  SendingMoves
  BY <1>17 DEF SendingMoves, SendArm, modify_fd
<1>18. ASSUME NEW t \in Threads, SendDisarm(t)
      PROVE  SendingMoves
  BY <1>18 DEF SendingMoves, SendDisarm, modify_fd
<1>19. ASSUME NEW t \in Threads, CloseFind(t)
      PROVE  SendingMoves
  BY <1>19 DEF SendingMoves, CloseFind
<1>20. ASSUME NEW t \in Threads, CloseErase(t)
      PROVE  SendingMoves
  BY <1>20 DEF SendingMoves, CloseErase
<1>21. ASSUME NEW t \in Threads, CloseFd(t)
      PROVE  SendingMoves
  BY <1>21 DEF SendingMoves, CloseFd, remove_fd
<1>22. ASSUME NEW w \in Workers, TaskBegin(w)
      PROVE  SendingMoves
  BY <1>22 DEF SendingMoves, TaskBegin
<1>23. ASSUME NEW w \in Workers, RequestParse(w)
      PROVE  SendingMoves
  BY <1>23 DEF SendingMoves, RequestParse
<1>24. ASSUME NEW w \in Workers, RequestKeepAlive(w)
      PROVE  SendingMoves
  BY <1>24 DEF SendingMoves, RequestKeepAlive
<1>25. ASSUME NEW w \in Workers, RequestThrow(w)
      PROVE  SendingMoves
  BY <1>25 DEF SendingMoves, RequestThrow
<1>26. ASSUME NEW w \in Workers, RequestPresent(w)
      PROVE  SendingMoves
  BY <1>26 DEF SendingMoves, RequestPresent
<1>27. ASSUME NEW w \in Workers, RequestAbandon(w)
      PROVE  SendingMoves
  BY <1>27 DEF SendingMoves, RequestAbandon
<1>28. ASSUME NEW w \in Workers, RequestPublish(w)
      PROVE  SendingMoves
  BY <1>28 DEF SendingMoves, RequestPublish
<1>29. ASSUME NEW w \in Workers, RequestFinish(w)
      PROVE  SendingMoves
  BY <1>29 DEF SendingMoves, RequestFinish
<1>30. CASE UNCHANGED vars
  BY <1>30 DEF SendingMoves, vars
<1> QED
  BY <1>1, <1>2, <1>3, <1>4, <1>5, <1>6, <1>7, <1>8, <1>9, <1>10, <1>11, <1>12, <1>13, <1>14,
     <1>15, <1>16, <1>17, <1>18, <1>19, <1>20, <1>21, <1>22, <1>23, <1>24, <1>25, <1>26, <1>27,
     <1>28, <1>29, <1>30
     DEF Next, EventThread, WorkerThread, Environment, send_response_async, close_connection

\* A send finds nothing to do, or the buffer full, or writes n units, all there
\* are or not, or fails.
SendOutcome(t) ==
  LET k == cur[t]
      s == sock[conn[k].fd]
      n == SendCount(conn[k], s)
  IN  \/ /\ ~conn[k].has_pending_write
         /\ pc' = [pc EXCEPT ![t] = ret[t]]
         /\ UNCHANGED <<conn, conn_mutex, sent, unread>>
      \/ /\ conn[k].has_pending_write
         /\ pc' = [pc EXCEPT ![t] = "arm"]
         /\ UNCHANGED <<conn, sent, unread>>
      \/ /\ conn[k].has_pending_write
         /\ s \in Clients /\ n \in 1..(RespLen - conn[k].offset)
         /\ sent' = [sent EXCEPT ![s] = @ \o SubSeq(Remaining(k), 1, n)]
         /\ conn' = [conn EXCEPT ![k] = AfterSend(conn[k], n)]
         /\ pc' = [pc EXCEPT ![t] = IF conn[k].offset + n < RespLen THEN "arm" ELSE "disarm"]
      \/ /\ conn[k].has_pending_write
         /\ pc' = [pc EXCEPT ![t] = "close"]
         /\ conn' = [conn EXCEPT ![k] = [conn[k] EXCEPT !.keep_alive = FALSE,
                                                         !.has_pending_write = FALSE]]
         /\ UNCHANGED <<conn_mutex, sent, unread>>

\* Every send has one of those outcomes.
LEMMA SendOutcomes ==
  ASSUME CoreTypes, SentTypes, ControlInv, BirthInv, PendingResponseHasBytes,
         NEW t \in Threads, SendBegin(t)
  PROVE  SendOutcome(t)
<1> DEFINE k == cur[t]
           s == sock[conn[k].fd]
           n == SendCount(conn[k], s)
<1>0. pc[t] = "send" /\ k \in Clients /\ conn[k].fd \in Fds
  BY InUse, Zenon DEF SendBegin, SendPC
<1>1. /\ conn[k] \in Connections /\ conn[k].offset \in 0..RespLen
      /\ conn[k].has_pending_write => conn[k].offset < RespLen
      /\ s \in Clients \cup {None}
      /\ conn \in [Clients -> Connections]
  BY <1>0 DEF CoreTypes, ConnType, Connections, MapTypes, PendingResponseHasBytes
<1>4. CASE /\ ~conn[k].has_pending_write
           /\ pc' = [pc EXCEPT ![t] = ret[t]] /\ UNCHANGED <<conn, conn_mutex, sent, unread>>
  BY <1>4, Zenon DEF SendOutcome
<1>5. CASE /\ conn[k].has_pending_write
           /\ pc' = [pc EXCEPT ![t] = "arm"] /\ UNCHANGED <<conn, sent, unread>>
  BY <1>5, Zenon DEF SendOutcome
<1>6. CASE /\ conn[k].has_pending_write /\ s # None /\ n > 0
           /\ sent' = [sent EXCEPT ![s] = @ \o SubSeq(Remaining(k), 1, n)]
           /\ conn' = [conn EXCEPT ![k] = AfterSend(@, n)]
           /\ Goto(t, IF AfterSend(conn[k], n).has_pending_write THEN "arm" ELSE "disarm")
  <2>1. s \in Clients /\ SndCap - unread[s] \in Nat /\ RespLen - conn[k].offset \in Nat
        /\ conn[k].offset \in Nat /\ RespLen \in Nat
    <3>1. s \in Clients
      BY <1>1, <1>6
    <3>2. unread[s] \in 0..SndCap
      BY <3>1 DEF SentTypes
    <3> HIDE DEF s
    <3> QED
      BY <1>1, <3>1, <3>2, ServerAssumption
  <2>2. ASSUME NEW a \in Nat, NEW b \in Nat PROVE Smaller(a, b) \in 0..a
    BY DEF Smaller
  <2>3. n \in 0..(RespLen - conn[k].offset)
    <3> HIDE DEF k, s
    <3> QED
      BY <2>1, <2>2 DEF SendCount
  <2> HIDE DEF n
  <2>4. n \in 1..(RespLen - conn[k].offset)
    <3> HIDE DEF k, s
    <3> QED
      BY <1>6, <2>1, <2>3
  <2>5. AfterSend(conn[k], n).has_pending_write <=> conn[k].offset + n < RespLen
    <3>1. CASE conn[k].offset + n < RespLen
      BY <1>1, <1>6, <3>1 DEF AfterSend, Connections
    <3>2. CASE ~(conn[k].offset + n < RespLen)
      BY <1>1, <3>2 DEF AfterSend, Connections
    <3> QED
      BY <3>1, <3>2
  <2>6. pc' = [pc EXCEPT ![t] = IF conn[k].offset + n < RespLen THEN "arm" ELSE "disarm"]
    BY <1>6, <2>5, Zenon DEF Goto
  <2>7. conn' = [conn EXCEPT ![k] = AfterSend(conn[k], n)]
    BY <1>0, <1>1, <1>6, Zenon
  <2> QED
    BY <1>6, <2>1, <2>4, <2>6, <2>7, Zenon DEF SendOutcome, n
<1>7. CASE /\ conn[k].has_pending_write
           /\ conn' = [conn EXCEPT ![k].keep_alive = FALSE, ![k].has_pending_write = FALSE]
           /\ pc' = [pc EXCEPT ![t] = "close"]
           /\ UNCHANGED <<conn_mutex, sent, unread>>
  <2>1. conn' = [conn EXCEPT ![k] = [conn[k] EXCEPT !.keep_alive = FALSE,
                                                     !.has_pending_write = FALSE]]
    BY <1>0, <1>1, <1>7 DEF Connections
  <2> QED
    BY <1>7, <2>1, Zenon DEF SendOutcome
<1> QED
  BY <1>4, <1>5, <1>6, <1>7, Zenon DEF SendBegin, Goto

\* What AfterSend leaves of a Connection.
LEMMA AfterSendFields ==
  ASSUME NEW c \in Connections, NEW n \in Nat
  PROVE  LET d == AfterSend(c, n)
         IN  /\ d.fd = c.fd /\ d.buffer = c.buffer /\ d.keep_alive = c.keep_alive
             /\ c.offset + n < RespLen =>
                  /\ d.offset = c.offset + n /\ d.pending = c.pending
                  /\ d.has_pending_write = c.has_pending_write
             /\ ~(c.offset + n < RespLen) => d.offset = 0 /\ ~d.has_pending_write
<1>1. CASE c.offset + n < RespLen
  BY <1>1 DEF AfterSend, Connections
<1>2. CASE ~(c.offset + n < RespLen)
  BY <1>2 DEF AfterSend, Connections
<1> QED
  BY <1>1, <1>2

-------------------------------------------------------------------------------
(* Whose socket a descriptor number denotes *)

\* The steps that open or close a descriptor.
LEMMA SockFrame ==
  ASSUME [Next]_vars
  PROVE  \/ UNCHANGED sock
         \/ Accept \/ AcceptLimit \/ AcceptRegister \/ DataOversizeClose
         \/ \E t \in Threads : CloseFd(t)
  BY ZenonT(30) DEF Threads, Goto, serverVars, kernelVars, clientVars, localVars, vars, Next,
     EventThread, WorkerThread, Environment, send_response_async, close_connection, Connect,
     ClientSend, ClientRead, ClientClose, Timeout, EpollWait, EventDispatch, AcceptInsert,
     DataLookup, DataRecv, DataLock, DataCheck, DataOversize, DataEnqueue, WriteLookup,
     CleanupBegin, CleanupVisit, CleanupEnd, CleanupNext, SendBegin, SendArm, SendDisarm,
     CloseFind, CloseErase, TaskBegin, RequestParse, RequestKeepAlive, RequestThrow,
     RequestPresent, RequestAbandon, RequestPublish, RequestFinish

\* The steps that change what epoll watches.
LEMMA InterestFrame ==
  ASSUME [Next]_vars
  PROVE  \/ UNCHANGED interest
         \/ AcceptRegister \/ DataOversizeClose
         \/ \E t \in Threads : SendArm(t) \/ SendDisarm(t) \/ CloseFd(t)
  BY ZenonT(30) DEF Threads, Goto, serverVars, kernelVars, clientVars, localVars, vars, Next,
     EventThread, WorkerThread, Environment, send_response_async, close_connection, Connect,
     ClientSend, ClientRead, ClientClose, Timeout, EpollWait, EventDispatch, Accept,
     AcceptLimit, AcceptInsert, DataLookup, DataRecv, DataLock, DataCheck, DataOversize,
     DataEnqueue, WriteLookup, CleanupBegin, CleanupVisit, CleanupEnd, CleanupNext, SendBegin,
     CloseFind, CloseErase, TaskBegin, RequestParse, RequestKeepAlive, RequestThrow,
     RequestPresent, RequestAbandon, RequestPublish, RequestFinish

\* Only Accept gives a descriptor number to a socket.
LEMMA SockOnlyAccepted ==
  ASSUME CoreTypes, ControlInv, [Next]_vars, ~Accept, NEW f \in Fds
  PROVE  sock'[f] \in {None, sock[f]}
<1> USE ServerAssumption DEF CoreTypes, MapTypes, ControlInv, AcceptPC, DataPC, ClosePC, Threads
<1>1. CASE AcceptLimit \/ AcceptRegister
  BY <1>1 DEF AcceptLimit, AcceptRegister
<1>2. CASE DataOversizeClose
  BY <1>2 DEF DataOversizeClose
<1>3. ASSUME NEW t \in Threads, CloseFd(t) PROVE sock'[f] \in {None, sock[f]}
  BY <1>3 DEF CloseFd
<1> QED
  BY <1>1, <1>2, <1>3, SockFrame

\* The event thread is the one that accepts: while it writes to a Connection or
\* receives from it, the descriptor number it found denotes the socket of that
\* Connection, or a worker has closed it.
EventNumber ==
  /\ pc[Event] \in SendPC => sock[conn[cur[Event]].fd] \in {None, cur[Event]}
  /\ pc[Event] = "recv" => sock[cfd[Event]] \in {None, cur[Event]}

\* Both are so because the map was right when the number was looked up.
LEMMA EventNumberStep == IInv /\ EventNumber /\ [Next]_vars => EventNumber'
<1> SUFFICES ASSUME IInv, EventNumber, [Next]_vars PROVE EventNumber'
  OBVIOUS
<1>0. /\ CoreTypes /\ ListTypes /\ ClientTypes /\ SentTypes /\ ReplyTypes
      /\ ControlInv /\ BirthInv /\ MapMatchesDescriptors /\ PendingResponseHasBytes
  BY TypeGroups DEF IInv
<1>1. SendingMoves
  BY <1>0, SendingCases
<1>2. ASSUME pc'[Event] \in SendPC \cup {"recv"} PROVE ~Accept /\ ~AcceptInsert
  <2>1. Accept => pc'[Event] \in {"dispatch", "limit"}
    BY <1>0 DEF Accept, Goto, CoreTypes, ControlTypes, Threads
  <2>2. AcceptInsert => pc'[Event] = "accept"
    BY <1>0 DEF AcceptInsert, Goto, CoreTypes, ControlTypes, Threads
  <2> QED
    BY <1>2, <2>1, <2>2 DEF SendPC
<1>3. ASSUME pc'[Event] \in SendPC PROVE (sock[conn[cur[Event]].fd] \in {None, cur[Event]})'
  <2>1. CASE pc[Event] \in SendPC /\ cur'[Event] = cur[Event]
    <3>1. cur[Event] \in Clients /\ conn[cur[Event]].fd \in Fds
      BY <1>0, <2>1, InUse DEF Threads
    <3>2. conn'[cur[Event]].fd = conn[cur[Event]].fd
      BY <1>0, <1>2, <1>3, <3>1, FdKept
    <3>3. sock'[conn[cur[Event]].fd] \in {None, sock[conn[cur[Event]].fd]}
      BY <1>0, <1>2, <1>3, <3>1, SockOnlyAccepted
    <3> QED
      BY <2>1, <3>2, <3>3 DEF EventNumber
  <2>2. CASE WriteLookup
    <3>1. /\ pc[Event] = "write" /\ cur'[Event] = connections[cfd[Event]]
          /\ UNCHANGED <<connections, conn, sock>>
      BY <1>0, <2>2 DEF WriteLookup, serverVars, kernelVars, CoreTypes, ControlTypes, Threads
    <3>2. cfd[Event] \in Fds /\ connections[cfd[Event]] # None
      BY <1>0, <1>3, <2>2, <3>1 DEF WriteLookup, ControlInv, SendPC, Goto, CoreTypes, ControlTypes, Threads
    <3>3. sock[cfd[Event]] = connections[cfd[Event]] /\ conn[connections[cfd[Event]]].fd = cfd[Event]
      BY <1>0, <3>2 DEF MapMatchesDescriptors, Mapped
    <3> QED
      BY <3>1, <3>3
  <2> QED
    BY <1>1, <1>3, <2>1, <2>2 DEF SendingMoves
<1>4. ASSUME pc'[Event] = "recv" PROVE (sock[cfd[Event]] \in {None, cur[Event]})'
  <2>1. CASE pc[Event] = "recv" /\ cur'[Event] = cur[Event] /\ cfd'[Event] = cfd[Event]
    <3>1. cfd[Event] \in Fds
      BY <1>0, <2>1 DEF ControlInv, DataPC
    <3>2. sock'[cfd[Event]] \in {None, sock[cfd[Event]]}
      BY <1>0, <1>2, <1>4, <3>1, SockOnlyAccepted
    <3> QED
      BY <2>1, <3>2 DEF EventNumber
  <2>2. CASE DataLookup
    <3>1. /\ pc[Event] = "lookup" /\ cur'[Event] = connections[cfd[Event]]
          /\ UNCHANGED <<connections, sock, cfd>>
      BY <1>0, <2>2 DEF DataLookup, serverVars, kernelVars, CoreTypes, ControlTypes, Threads
    <3>2. cfd[Event] \in Fds /\ connections[cfd[Event]] # None
      BY <1>0, <1>4, <2>2, <3>1 DEF DataLookup, ControlInv, DataPC, Goto, CoreTypes, ControlTypes, Threads
    <3>3. sock[cfd[Event]] = connections[cfd[Event]]
      BY <1>0, <3>2 DEF MapMatchesDescriptors, Mapped
    <3> QED
      BY <3>1, <3>3
  <2> QED
    BY <1>1, <1>4, <2>1, <2>2 DEF SendingMoves
<1> QED
  BY <1>3, <1>4 DEF EventNumber

\* So a thread that sends writes to the socket of its Connection.
LEMMA SendsToItsOwn ==
  ASSUME NumberKept, EventNumber, NEW t \in Threads, pc[t] \in SendPC
  PROVE  sock[conn[cur[t]].fd] \in {None, cur[t]}
  BY DEF NumberKept, EventNumber, Threads

\* What is left of a response is addressed to its client.
LEMMA RemainingUnits ==
  ASSUME CoreTypes, NEW k \in Clients, NEW n \in 1..(RespLen - conn[k].offset)
  PROVE  /\ Remaining(k) \in Seq(ResponseUnits)
         /\ SubSeq(Remaining(k), 1, n) \in Seq(ResponseUnits)
         /\ Len(SubSeq(Remaining(k), 1, n)) = n
         /\ \A i \in 1..n : SubSeq(Remaining(k), 1, n)[i] =
              [to |-> k, req |-> conn[k].pending.req, off |-> conn[k].offset + i]
<1>1. /\ conn[k].offset \in 0..RespLen /\ conn[k].pending \in Requests /\ RespLen \in Nat
  BY ServerAssumption DEF CoreTypes, ConnType, Connections
<1>2. conn[k].pending.req \in Nat
  BY <1>1 DEF Requests, Units, BadRequest
<1>3. ASSUME NEW i \in 1..(RespLen - conn[k].offset)
      PROVE  [to |-> k, req |-> conn[k].pending.req, off |-> conn[k].offset + i] \in ResponseUnits
  BY <1>1, <1>2 DEF ResponseUnits
<1>4. /\ Remaining(k) \in [1..(RespLen - conn[k].offset) -> ResponseUnits]
      /\ \A i \in 1..(RespLen - conn[k].offset) : Remaining(k)[i] =
           [to |-> k, req |-> conn[k].pending.req, off |-> conn[k].offset + i]
  BY <1>3 DEF Remaining
<1>5. RespLen - conn[k].offset \in Nat /\ n \in Nat /\ 1 <= n /\ n <= RespLen - conn[k].offset
  BY <1>1
<1> DEFINE r == Remaining(k)
           l == RespLen - conn[k].offset
<1>6. r \in Seq(ResponseUnits) /\ Len(r) = l
  BY <1>4, <1>5
<1> HIDE DEF r, l
<1>7. ASSUME NEW m \in Nat, 1 <= m, m <= Len(r)
      PROVE  /\ SubSeq(r, 1, m) \in Seq(ResponseUnits) /\ Len(SubSeq(r, 1, m)) = m
             /\ \A i \in 1..m : SubSeq(r, 1, m)[i] = r[i]
  BY <1>6, <1>7
<1>8. \A i \in 1..n : i \in 1..l
  BY <1>5 DEF l
<1> QED
  BY <1>4, <1>5, <1>6, <1>7, <1>8 DEF r, l

\* The places of what is appended.
LEMMA ConcatFacts ==
  ASSUME NEW S, NEW a \in Seq(S), NEW b \in Seq(S)
  PROVE  /\ a \o b \in Seq(S) /\ Len(a \o b) = Len(a) + Len(b)
         /\ \A i \in 1..Len(a) : (a \o b)[i] = a[i]
         /\ \A i \in 1..Len(b) : (a \o b)[Len(a) + i] = b[i]
         /\ \A i \in DOMAIN (a \o b) :
              \/ i \in 1..Len(a)
              \/ i - Len(a) \in 1..Len(b) /\ i = Len(a) + (i - Len(a))
  OBVIOUS

-------------------------------------------------------------------------------
(* A pending write is watched *)

\* A new Connection has nothing to write.
LEMMA NewHasNoPending ==
  ASSUME CoreTypes, ControlInv, AcceptInsert
  PROVE  /\ cur[Event] \in Clients /\ ~conn'[cur[Event]].has_pending_write
         /\ \A k \in Clients \ {cur[Event]} : conn'[k] = conn[k]
<1>1. cur[Event] \in Clients
  BY DEF AcceptInsert, ControlInv, AcceptPC
<1>2. /\ conn' = [conn EXCEPT ![cur[Event]] = NewConnection(cfd[Event])]
      /\ ~NewConnection(cfd[Event]).has_pending_write
  BY DEF AcceptInsert, NewConnection
<1> QED
  BY <1>1, <1>2 DEF CoreTypes, ConnType

\* What handle_client_data does with what it received: it appends it to the
\* buffer and changes nothing else that is sent or received, or throws it away.
CheckOutcome ==
  LET k == cur[Event]
  IN  /\ k \in Clients /\ pc[Event] = "datacheck" /\ data' = <<>>
      /\ UNCHANGED <<connections, tasks, inbox, sent, pos, cur, cfd, reply>>
      /\ \A t \in Threads \ {Event} : pc'[t] = pc[t]
      /\ pc'[Event] \in {"oversize", "enqueue", "dispatch", "write"}
      /\ \A c \in Clients \ {k} : conn'[c] = conn[c]
      /\ \/ /\ UNCHANGED conn /\ pc'[Event] # "enqueue"
            /\ connections[cfd[Event]] = None \/ pc'[Event] = "oversize"
         \/ /\ conn'[k].buffer = conn[k].buffer \o data
            /\ conn'[k].fd = conn[k].fd /\ conn'[k].keep_alive = conn[k].keep_alive
            /\ conn'[k].pending = conn[k].pending /\ conn'[k].offset = conn[k].offset
            /\ conn'[k].has_pending_write = conn[k].has_pending_write
            /\ connections[cfd[Event]] # None /\ pc'[Event] # "oversize"
            /\ pc'[Event] = "enqueue" => is_http_request_complete(conn'[k].buffer)

\* Those are its outcomes.
LEMMA CheckOutcomes ==
  ASSUME CoreTypes, ControlInv, DataCheck
  PROVE  CheckOutcome
<1> DEFINE k == cur[Event]
           buffer == conn[k].buffer \o data
           process == ShouldProcess(conn[k], buffer)
<1>1. /\ k \in Clients /\ pc[Event] = "datacheck" /\ ret[Event] \in {"dispatch", "write"}
      /\ conn \in [Clients -> Connections] /\ Event \in Threads
      /\ pc \in [Threads -> EventPC \cup WorkerPC \cup SharedPC]
  BY DEF DataCheck, ControlInv, DataPC, CoreTypes, ControlTypes, ConnType, Threads
<1>2. /\ data' = <<>>
      /\ UNCHANGED <<connections, tasks, inbox, sent, pos, cur, cfd, reply>>
  BY DEF DataCheck, kernelVars, clientVars
<1> HIDE DEF buffer, process
<1>3. CASE Goto(Event, ret[Event]) /\ UNCHANGED conn /\ connections[cfd[Event]] = None
  BY <1>1, <1>2, <1>3 DEF Goto, CheckOutcome
<1>4. CASE Goto(Event, "oversize") /\ UNCHANGED conn
  BY <1>1, <1>2, <1>4 DEF Goto, CheckOutcome
<1>5. CASE /\ conn' = [conn EXCEPT ![k].buffer = buffer, ![k].idle = FALSE,
                                   ![k].processing_request = @ \/ process]
           /\ Goto(Event, IF process THEN "enqueue" ELSE ret[Event])
           /\ connections[cfd[Event]] # None
  <2>1. /\ conn'[k].buffer = buffer
        /\ conn'[k].fd = conn[k].fd /\ conn'[k].keep_alive = conn[k].keep_alive
        /\ conn'[k].pending = conn[k].pending /\ conn'[k].offset = conn[k].offset
        /\ conn'[k].has_pending_write = conn[k].has_pending_write
        /\ \A c \in Clients \ {k} : conn'[c] = conn[c]
    BY <1>1, <1>5 DEF Connections
  <2>2. process => is_http_request_complete(buffer)
    BY DEF process, ShouldProcess
  <2>3. /\ \A t \in Threads \ {Event} : pc'[t] = pc[t]
        /\ pc'[Event] = IF process THEN "enqueue" ELSE ret[Event]
    BY <1>1, <1>5 DEF Goto
  <2> QED
    BY <1>1, <1>2, <1>5, <2>1, <2>2, <2>3 DEF CheckOutcome, buffer
<1>6. \/ Goto(Event, ret[Event]) /\ UNCHANGED conn /\ connections[cfd[Event]] = None
      \/ Goto(Event, "oversize") /\ UNCHANGED conn
      \/ /\ conn' = [conn EXCEPT ![k].buffer = buffer, ![k].idle = FALSE,
                                 ![k].processing_request = @ \/ process]
         /\ Goto(Event, IF process THEN "enqueue" ELSE ret[Event])
         /\ connections[cfd[Event]] # None
  BY Zenon DEF DataCheck, buffer, process
<1> QED
  BY <1>3, <1>4, <1>5, <1>6

\* The part of a Connection that is about what is received,
SameInput(c, d) == c.buffer = d.buffer /\ c.fd = d.fd

\* and the part about what is sent.
SameOutput(c, d) ==
  c.pending = d.pending /\ c.offset = d.offset /\ c.has_pending_write = d.has_pending_write

\* A worker publishes a response, or empties the buffer, or changes neither.
LEMMA RequestOutcomes ==
  ASSUME CoreTypes, ControlInv, NEW w \in Workers,
         \/ RequestPublish(w) \/ RequestFinish(w) \/ RequestKeepAlive(w) \/ RequestAbandon(w)
  PROVE  LET k == cur[w]
         IN  /\ k \in Clients /\ \A c \in Clients \ {k} : conn'[c] = conn[c]
             /\ RequestPublish(w) =>
                  /\ SameInput(conn'[k], conn[k]) /\ conn'[k].keep_alive = conn[k].keep_alive
                  /\ conn'[k].pending = reply[w] /\ conn'[k].offset = 0
                  /\ conn'[k].has_pending_write
             /\ RequestFinish(w) =>
                  /\ SameOutput(conn'[k], conn[k]) /\ conn'[k].keep_alive = conn[k].keep_alive
                  /\ conn'[k].fd = conn[k].fd /\ conn'[k].buffer = <<>>
             /\ RequestKeepAlive(w) =>
                  /\ SameInput(conn'[k], conn[k]) /\ SameOutput(conn'[k], conn[k])
                  /\ conn'[k].keep_alive = reply[w].keep
             /\ RequestAbandon(w) =>
                  /\ SameInput(conn'[k], conn[k]) /\ SameOutput(conn'[k], conn[k])
                  /\ conn'[k].keep_alive = conn[k].keep_alive
<1> DEFINE k == cur[w]
<1>1. k \in Clients /\ conn \in [Clients -> Connections] /\ conn[k] \in Connections
  <2>1. k \in Clients
    BY DEF ControlInv, RequestPublish, RequestFinish, RequestKeepAlive, RequestAbandon
  <2> QED
    BY <2>1 DEF CoreTypes, ConnType
<1>2. CASE RequestPublish(w)
  <2> DEFINE c == [conn[k] EXCEPT !.pending = reply[w], !.offset = 0, !.has_pending_write = TRUE]
  <2>1. /\ SameInput(c, conn[k]) /\ c.keep_alive = conn[k].keep_alive
        /\ c.pending = reply[w] /\ c.offset = 0 /\ c.has_pending_write
    BY <1>1 DEF Connections, SameInput
  <2>2. conn' = [conn EXCEPT ![k] = c]
    BY <1>1, <1>2 DEF RequestPublish, Connections
  <2>3. ~RequestFinish(w) /\ ~RequestKeepAlive(w) /\ ~RequestAbandon(w)
    BY <1>2 DEF RequestPublish, RequestFinish, RequestKeepAlive, RequestAbandon
  <2> HIDE DEF c
  <2>4. conn'[k] = c /\ \A d \in Clients \ {k} : conn'[d] = conn[d]
    BY <1>1, <2>2
  <2> QED
    BY <1>1, <2>1, <2>3, <2>4
<1>3. CASE RequestFinish(w)
  <2> DEFINE c == [conn[k] EXCEPT !.buffer = <<>>, !.processing_request = FALSE, !.idle = FALSE]
  <2>1. /\ SameOutput(c, conn[k]) /\ c.keep_alive = conn[k].keep_alive
        /\ c.fd = conn[k].fd /\ c.buffer = <<>>
    BY <1>1 DEF Connections, SameOutput
  <2>2. conn' = [conn EXCEPT ![k] = c]
    BY <1>1, <1>3 DEF RequestFinish, Connections
  <2>3. ~RequestPublish(w) /\ ~RequestKeepAlive(w) /\ ~RequestAbandon(w)
    BY <1>3 DEF RequestPublish, RequestFinish, RequestKeepAlive, RequestAbandon
  <2> HIDE DEF c
  <2>4. conn'[k] = c /\ \A d \in Clients \ {k} : conn'[d] = conn[d]
    BY <1>1, <2>2
  <2> QED
    BY <1>1, <2>1, <2>3, <2>4
<1>4. CASE RequestKeepAlive(w)
  <2> DEFINE c == [conn[k] EXCEPT !.keep_alive = reply[w].keep]
  <2>1. /\ SameInput(c, conn[k]) /\ SameOutput(c, conn[k]) /\ c.keep_alive = reply[w].keep
    BY <1>1 DEF Connections, SameInput, SameOutput
  <2>2. conn' = [conn EXCEPT ![k] = c]
    BY <1>1, <1>4 DEF RequestKeepAlive, Connections
  <2>3. ~RequestPublish(w) /\ ~RequestFinish(w) /\ ~RequestAbandon(w)
    BY <1>4 DEF RequestPublish, RequestFinish, RequestKeepAlive, RequestAbandon
  <2> HIDE DEF c
  <2>4. conn'[k] = c /\ \A d \in Clients \ {k} : conn'[d] = conn[d]
    BY <1>1, <2>2
  <2> QED
    BY <1>1, <2>1, <2>3, <2>4
<1>5. CASE RequestAbandon(w)
  <2> DEFINE c == [conn[k] EXCEPT !.processing_request = FALSE]
  <2>1. /\ SameInput(c, conn[k]) /\ SameOutput(c, conn[k]) /\ c.keep_alive = conn[k].keep_alive
    BY <1>1 DEF Connections, SameInput, SameOutput
  <2>2. conn' = [conn EXCEPT ![k] = c]
    BY <1>1, <1>5 DEF RequestAbandon, Connections
  <2>3. ~RequestPublish(w) /\ ~RequestFinish(w) /\ ~RequestKeepAlive(w)
    BY <1>5 DEF RequestPublish, RequestFinish, RequestKeepAlive, RequestAbandon
  <2> HIDE DEF c
  <2>4. conn'[k] = c /\ \A d \in Clients \ {k} : conn'[d] = conn[d]
    BY <1>1, <2>2
  <2> QED
    BY <1>1, <2>1, <2>3, <2>4
<1> QED
  BY <1>2, <1>3, <1>4, <1>5, Zenon

\* Only a worker that publishes makes a response pending.
LEMMA PendingIsPublished ==
  ASSUME IInv, [Next]_vars, NEW k \in Clients, conn'[k].has_pending_write
  PROVE  conn[k].has_pending_write \/ \E w \in Workers : (RequestPublish(w) /\ cur[w] = k)
<1>0. CoreTypes /\ SentTypes /\ ControlInv /\ BirthInv /\ PendingResponseHasBytes
  BY TypeGroups DEF IInv
<1>a. conn \in [Clients -> Connections]
  BY <1>0 DEF CoreTypes, ConnType
<1>1. CASE UNCHANGED conn
  BY <1>1
<1>2. ASSUME NEW c \in Clients, Timeout(c) PROVE conn[k].has_pending_write
  BY <1>2, <1>a DEF Timeout, Connections
<1>3. CASE AcceptInsert
  BY <1>0, <1>3, NewHasNoPending
<1>4. CASE DataCheck
  BY <1>0, <1>4, CheckOutcomes DEF CheckOutcome
<1>5. ASSUME NEW t \in Threads, SendBegin(t) PROVE conn[k].has_pending_write
  <2> DEFINE n == SendCount(conn[cur[t]], sock[conn[cur[t]].fd])
             d == AfterSend(conn[cur[t]], n)
             e == [conn[cur[t]] EXCEPT !.keep_alive = FALSE, !.has_pending_write = FALSE]
  <2>1. cur[t] \in Clients
    BY <1>0, <1>5, SendControl DEF SendMoves
  <2>2. e.has_pending_write = FALSE
    BY <1>a, <2>1 DEF Connections
  <2> HIDE DEF n, e
  <2>3. \/ UNCHANGED conn
        \/ conn[cur[t]].has_pending_write /\ conn' = [conn EXCEPT ![cur[t]] = d]
        \/ conn' = [conn EXCEPT ![cur[t]] = e]
    BY <1>0, <1>5, SendOutcomes, Zenon DEF SendOutcome, n, e
  <2> HIDE DEF d
  <2> QED
    BY <1>a, <2>1, <2>2, <2>3
<1>6. ASSUME NEW w \in Workers, RequestKeepAlive(w) \/ RequestAbandon(w) \/ RequestFinish(w)
      PROVE  conn[k].has_pending_write
  BY <1>0, <1>6, RequestOutcomes DEF SameOutput
<1>7. ASSUME NEW w \in Workers, RequestPublish(w)
      PROVE  conn[k].has_pending_write \/ (RequestPublish(w) /\ cur[w] = k)
  BY <1>0, <1>7, RequestOutcomes
<1>8. CASE \E w \in Workers : \/ RequestKeepAlive(w) \/ RequestAbandon(w)
                              \/ RequestPublish(w) \/ RequestFinish(w)
  BY <1>6, <1>7, <1>8
<1>9. \/ UNCHANGED conn \/ AcceptInsert \/ DataCheck
      \/ \E c \in Clients : Timeout(c)
      \/ \E t \in Threads : SendBegin(t)
      \/ \E w \in Workers : \/ RequestKeepAlive(w) \/ RequestAbandon(w)
                            \/ RequestPublish(w) \/ RequestFinish(w)
  BY ConnFrame, Zenon
<1> QED
  BY <1>1, <1>2, <1>3, <1>4, <1>5, <1>8, <1>9, Zenon

\* EPOLLOUT is given up only when the response is wholly written.
Written == \A t \in Threads : pc[t] = "disarm" => ~conn[cur[t]].has_pending_write

\* The mutex keeps a new response from being published between the last send
\* and the modify_fd after it.
LEMMA WrittenStep == IInv /\ Written /\ [Next]_vars => Written'
<1> SUFFICES ASSUME IInv, Written, [Next]_vars, NEW t \in Threads, pc'[t] = "disarm",
                    conn'[cur'[t]].has_pending_write
             PROVE  FALSE
  BY DEF Written
<1>0. /\ CoreTypes /\ ListTypes /\ SentTypes /\ ControlInv /\ BirthInv /\ LockInv
      /\ PendingResponseHasBytes /\ SendingMoves
  BY TypeGroups, SendingCases DEF IInv
<1>1. CASE pc[t] = "disarm" /\ cur'[t] = cur[t]
  <2>1. cur[t] \in Clients /\ conn_mutex[cur[t]] = t /\ ~conn[cur[t]].has_pending_write
    BY <1>0, <1>1, InUse DEF SendPC, LockInv, Written
  <2>2. PICK w \in Workers : RequestPublish(w) /\ cur[w] = cur[t]
    BY <1>1, <2>1, PendingIsPublished
  <2>3. conn_mutex[cur[t]] = None
    BY <2>2 DEF RequestPublish
  <2> QED
    BY <2>1, <2>3, ServerAssumption
<1>2. CASE SendBegin(t)
  <2> DEFINE k == cur[t]
             n == SendCount(conn[k], sock[conn[k].fd])
  <2>1. k \in Clients /\ UNCHANGED cur /\ pc[t] = "send" /\ ret[t] # "disarm"
    BY <1>0, <1>2, SendControl DEF SendMoves, ControlInv, CoreTypes, ControlTypes
  <2>2. /\ n \in 1..(RespLen - conn[k].offset) /\ ~(conn[k].offset + n < RespLen)
        /\ conn' = [conn EXCEPT ![k] = AfterSend(conn[k], n)]
    <3> HIDE DEF n
    <3>1. pc \in [Threads -> EventPC \cup WorkerPC \cup SharedPC]
      BY <1>0 DEF CoreTypes, ControlTypes
    <3>2. ~(pc' = [pc EXCEPT ![t] = ret[t]]) /\ ~(pc' = [pc EXCEPT ![t] = "arm"])
          /\ ~(pc' = [pc EXCEPT ![t] = "close"])
      BY <2>1, <3>1
    <3>3. /\ n \in 1..(RespLen - conn[k].offset)
          /\ conn' = [conn EXCEPT ![k] = AfterSend(conn[k], n)]
          /\ pc' = [pc EXCEPT ![t] = IF conn[k].offset + n < RespLen THEN "arm" ELSE "disarm"]
      BY <1>0, <1>2, <3>2, SendOutcomes, Zenon DEF SendOutcome, n
    <3> QED
      BY <3>2, <3>3
  <2> HIDE DEF n
  <2>3. conn[k] \in Connections /\ conn[k].offset \in Nat /\ n \in Nat
    BY <1>0, <2>1, <2>2, ServerAssumption DEF CoreTypes, ConnType, Connections
  <2>4. ~AfterSend(conn[k], n).has_pending_write
    BY <2>2, <2>3, AfterSendFields
  <2> QED
    BY <1>0, <2>1, <2>2, <2>4 DEF CoreTypes, ConnType
<1> QED
  BY <1>0, <1>1, <1>2 DEF SendingMoves

\* A thread that gives up sending has nothing left to write, or has asked epoll
\* to say when there is room; nobody else takes the request back, because the
\* number still denotes the same socket.
LEMMA WatchStep ==
  ASSUME IInv, EventNumber, Written, NumberKept, PendingWriteIsWatched, [Next]_vars,
         Written'
  PROVE  PendingWriteIsWatched'
<1>0. /\ CoreTypes /\ ListTypes /\ ClientTypes /\ SentTypes /\ ReplyTypes /\ ControlInv
      /\ BirthInv /\ LockInv /\ AcceptInv /\ MapMatchesDescriptors /\ CloseIsExclusive
      /\ PendingResponseHasBytes /\ SendingMoves
  BY TypeGroups, SendingCases DEF IInv
<1> SUFFICES ASSUME NEW f \in Fds, connections'[f] # None,
                    conn'[connections'[f]].has_pending_write
             PROVE  \/ "OUT" \in interest'[f]
                    \/ \E t \in Threads : cur'[t] = connections'[f] /\ pc'[t] \in SendPC
  BY DEF PendingWriteIsWatched, Mapped, SendPC
<1> DEFINE k == connections[f]
<1>1. connections'[f] = k /\ k \in Clients
  <2>1. ~AcceptInsert \/ f # cfd[Event]
    <3>1. AcceptInsert /\ f = cfd[Event] => connections'[f] = cur[Event]
      BY <1>0 DEF AcceptInsert, CoreTypes, MapTypes
    <3> QED
      BY <1>0, <3>1, NewHasNoPending
  <2>2. AcceptInsert => connections' = [connections EXCEPT ![cfd[Event]] = cur[Event]]
    BY DEF AcceptInsert
  <2>3. DataOversize => connections' = [connections EXCEPT ![cfd[Event]] = None]
    BY DEF DataOversize
  <2>4. \A t \in Threads : CloseErase(t) => connections' = [connections EXCEPT ![cfd[t]] = None]
    BY DEF CloseErase
  <2>5. connections'[f] = connections[f]
    BY <1>0, <2>1, <2>2, <2>3, <2>4, MapFrame DEF CoreTypes, MapTypes
  <2> QED
    BY <1>0, <2>5 DEF CoreTypes, MapTypes
<1>2. sock[f] = k /\ conn[k].fd = f /\ interest[f] # {} /\ k # None
  BY <1>0, <1>1 DEF MapMatchesDescriptors, Mapped
<1>3. ASSUME NEW w \in Workers, RequestPublish(w), cur[w] = k
      PROVE  cur'[w] = k /\ pc'[w] \in SendPC
  BY <1>0, <1>3 DEF RequestPublish, Goto, SendPC, CoreTypes, ControlTypes, Threads
<1>4. ASSUME "OUT" \in interest[f], conn[k].has_pending_write
      PROVE  "OUT" \in interest'[f]
  <2>1. CASE AcceptRegister \/ DataOversizeClose
    <3>1. cfd[Event] # f
      BY <1>0, <1>1, <1>2, <2>1 DEF AcceptRegister, DataOversizeClose, AcceptInv, Accepting,
         CloseIsExclusive, Closing, Threads
    <3>2. cfd[Event] \in Fds
      BY <1>0, <2>1 DEF AcceptRegister, DataOversizeClose, ControlInv, AcceptPC, DataPC
    <3>3. UNCHANGED interest \/ \E s : interest' = [interest EXCEPT ![cfd[Event]] = s]
      BY <2>1 DEF AcceptRegister, DataOversizeClose, add_fd, remove_fd
    <3> QED
      BY <1>0, <1>4, <3>1, <3>2, <3>3 DEF ListTypes
  <2>2. ASSUME NEW t \in Threads, CloseFd(t) PROVE "OUT" \in interest'[f]
    <3>1. cfd[t] # f /\ interest' = [interest EXCEPT ![cfd[t]] = {}]
      BY <1>0, <1>1, <1>2, <2>2 DEF CloseFd, remove_fd, CloseIsExclusive, Closing
    <3> QED
      BY <1>0, <1>4, <3>1 DEF ListTypes
  <2>3. ASSUME NEW t \in Threads, SendArm(t) PROVE "OUT" \in interest'[f]
    <3>1. \/ UNCHANGED interest
          \/ interest' = [interest EXCEPT ![conn[cur[t]].fd] = {"IN", "OUT"}]
      BY <2>3 DEF SendArm, modify_fd
    <3> QED
      BY <1>0, <1>4, <3>1 DEF ListTypes
  <2>4. ASSUME NEW t \in Threads, SendDisarm(t) PROVE "OUT" \in interest'[f]
    <3>1. pc[t] = "disarm" /\ cur[t] \in Clients /\ conn[cur[t]].fd \in Fds
      BY <1>0, <2>4, InUse DEF SendDisarm, SendPC
    <3>2. sock[conn[cur[t]].fd] \in {None, cur[t]}
      BY <3>1, SendsToItsOwn DEF SendPC
    <3>3. conn[cur[t]].fd # f
      BY <1>2, <1>4, <3>1, <3>2 DEF Written
    <3>4. \/ UNCHANGED interest
          \/ interest' = [interest EXCEPT ![conn[cur[t]].fd] = {"IN"}]
      BY <2>4 DEF SendDisarm, modify_fd
    <3> QED
      BY <1>0, <1>4, <3>3, <3>4 DEF ListTypes
  <2> QED
    BY <1>4, <2>1, <2>2, <2>3, <2>4, InterestFrame
<1>5. ASSUME NEW t \in Threads, cur[t] = k, pc[t] \in SendPC, conn[k].has_pending_write
      PROVE  "OUT" \in interest'[f] \/ (cur'[t] = k /\ pc'[t] \in SendPC)
  <2>1. CASE SendArm(t)
    <3>1. interest' = [interest EXCEPT ![f] = {"IN", "OUT"}]
      BY <1>2, <1>5, <2>1 DEF SendArm, modify_fd
    <3> QED
      BY <1>0, <3>1 DEF ListTypes
  <2>2. ~SendDisarm(t)
    BY <1>5 DEF SendDisarm, Written
  <2>3. CASE SendBegin(t)
    <3> DEFINE n == SendCount(conn[k], sock[conn[k].fd])
               e == [conn[k] EXCEPT !.keep_alive = FALSE, !.has_pending_write = FALSE]
    <3>1. UNCHANGED cur /\ pc[t] = "send"
      BY <1>0, <2>3, SendControl DEF SendMoves
    <3>2. e.has_pending_write = FALSE
      BY <1>0, <1>1 DEF CoreTypes, ConnType, Connections
    <3>3. pc \in [Threads -> EventPC \cup WorkerPC \cup SharedPC]
      BY <1>0 DEF CoreTypes, ControlTypes
    <3> HIDE DEF n, e
    <3>4. ~(conn' = [conn EXCEPT ![k] = e])
      BY <1>0, <1>1, <3>2 DEF CoreTypes, ConnType
    <3>5. \/ pc' = [pc EXCEPT ![t] = "arm"]
          \/ pc' = [pc EXCEPT ![t] = IF conn[k].offset + n < RespLen THEN "arm" ELSE "disarm"]
      BY <1>0, <1>5, <2>3, <3>4, SendOutcomes, Zenon DEF SendOutcome, n, e
    <3> QED
      BY <1>5, <3>1, <3>3, <3>5 DEF SendPC
  <2> QED
    BY <1>0, <1>5, <2>1, <2>2, <2>3 DEF SendingMoves
<1>6. conn[k].has_pending_write \/ \E w \in Workers : RequestPublish(w) /\ cur[w] = k
  BY <1>1, PendingIsPublished
<1>7. conn[k].has_pending_write =>
        \/ "OUT" \in interest[f] \/ \E t \in Threads : cur[t] = k /\ pc[t] \in SendPC
  BY <1>1, <1>2 DEF PendingWriteIsWatched, Mapped, SendPC
<1> QED
  BY <1>1, <1>3, <1>4, <1>5, <1>6, <1>7 DEF Threads

\* What the theorems need at the start.
LEMMA SendInit == Init => EventNumber /\ Written /\ PendingWriteIsWatched
<1> SUFFICES ASSUME Init PROVE EventNumber /\ Written /\ PendingWriteIsWatched
  OBVIOUS
<1>1. \A t \in Threads : pc[t] \in {"wait", "idle"}
  BY DEF Init
<1>2. Event \in Threads
  BY DEF Threads
<1>3. \A f \in Fds : connections[f] = None
  BY DEF Init
<1> QED
  BY <1>1, <1>2, <1>3 DEF EventNumber, Written, PendingWriteIsWatched, SendPC, Mapped

\* A response that is partly written is never forgotten: epoll watches for room
\* in the send buffer whenever no thread is at work on it, for clients that
\* pipeline too.
THEOREM PendingIsWatched == Spec /\ []NumberKept => []PendingWriteIsWatched
<1>1. EventNumber /\ Written /\ PendingWriteIsWatched /\ IInv /\ NumberKept /\ [Next]_vars
        => (EventNumber /\ Written /\ PendingWriteIsWatched)'
  <2>1. EventNumber /\ IInv /\ [Next]_vars => EventNumber'
    BY EventNumberStep
  <2>2. Written /\ IInv /\ [Next]_vars => Written'
    BY WrittenStep
  <2>3. IInv /\ EventNumber /\ Written /\ NumberKept /\ PendingWriteIsWatched /\ [Next]_vars /\ Written'
          => PendingWriteIsWatched'
    BY WatchStep
  <2> QED
    BY <2>1, <2>2, <2>3
<1>2. Init => EventNumber /\ Written /\ PendingWriteIsWatched
  BY SendInit
<1> QED
  BY <1>1, <1>2, ServerInvariance, PTL DEF Spec

-------------------------------------------------------------------------------
(* What is received, and what is written *)

\* The units of a sequence.
UnitsOf(s) == {s[i] : i \in DOMAIN s}

\* The event thread has received units and not yet looked at them.
Received == pc[Event] \in {"datalock", "datacheck"}

\* What is in the hands of the event thread of what client k sent,
InHandData(k) == IF Received /\ cur[Event] = k THEN UnitsOf(data) ELSE {}

\* what client k has sent so far, what it has yet to send,
Heard(k) == {Script[k][i] : i \in 1..pos[k]}
Unsaid(k) == {Script[k][i] : i \in (pos[k] + 1)..Len(Script[k])}

\* what has not got to the server's buffer, and what it may still work on.
Later(k) == InHandData(k) \cup UnitsOf(inbox[k]) \cup Unsaid(k)
Ahead(k) == UnitsOf(conn[k].buffer) \cup Later(k)

\* Unit v may come after unit u.
Follows(u, v) == u.req <= v.req /\ (u.last => u.req < v.req)
Before(S, T) == \A u \in S, v \in T : Follows(u, v)

\* The whole responses written to client k.
Wholes(k) == {i \in 1..Len(sent[k]) : sent[k][i].off = RespLen}
Complete(k) == Cardinality(Wholes(k))

\* What was written to client k ends with a whole response.
AtBoundary(k) == sent[k] = <<>> \/ sent[k][Len(sent[k])].off = RespLen

\* The responses that were ever published to client k: the last of them is
\* pending, or was given up after a part of it was written, or is written.
Owed(k) == conn[k].has_pending_write \/ ~AtBoundary(k)
Published(k) == IF Owed(k) THEN Complete(k) + 1 ELSE Complete(k)

\* A worker has published its response to client k and not emptied the buffer.
AnsweringPC == SharedPC \cup {"finish"}
Answering(k) == \E w \in Workers : pc[w] \in AnsweringPC /\ cur[w] = k

\* A worker knows which request it answers and has not published the response.
ReplyPC == {"keep", "answer", "publish"}

-------------------------------------------------------------------------------
(* The invariants about them *)

\* Units go from the script to the kernel, to the event thread and into the
\* buffer in order; what is lost on the way is lost for good.
OrderInv ==
  \A k \in Clients :
    /\ pos[k] <= Len(Script[k])
    /\ UnitsOf(conn[k].buffer) \cup InHandData(k) \cup UnitsOf(inbox[k]) \subseteq Heard(k)
    /\ \A i, j \in DOMAIN inbox[k] : i < j => Follows(inbox[k][i], inbox[k][j])
    /\ Before(InHandData(k), UnitsOf(inbox[k]))
    /\ Before(UnitsOf(conn[k].buffer), InHandData(k) \cup UnitsOf(inbox[k]))

\* A client waits for the response to a request before it starts the next one.
TurnInv == \A k \in Clients : \A u \in Heard(k) : u.req <= Complete(k) + 1

\* What the server may still work on is about requests it has not published a
\* response to, the one a worker is at excepted.
AnswerInv ==
  \A k \in Clients : \A u \in Ahead(k) :
    IF Answering(k) THEN u.req >= Published(k) ELSE u.req > Published(k)

\* Where a request is handled, the buffer has the end of one.
RequestInv ==
  \A k \in Clients :
    Queued(k) \/ Handled(k) \/ AtEnqueue(k) => is_http_request_complete(conn[k].buffer)

\* A pending response goes on where what was written ends.
PositionInv ==
  \A k \in Clients :
    conn[k].has_pending_write =>
      IF conn[k].offset = 0 THEN AtBoundary(k)
      ELSE /\ sent[k] # <<>>
           /\ sent[k][Len(sent[k])].off = conn[k].offset
           /\ sent[k][Len(sent[k])].req = conn[k].pending.req

\* A worker answers a request that starts with a unit of the buffer, or one of
\* which the first part was discarded.
ReplyInv ==
  \A w \in Workers :
    pc[w] \in ReplyPC => reply[w] = BadRequest \/ reply[w] \in UnitsOf(conn[cur[w]].buffer)

\* A pending response is for the request after those that are answered.
TagInv ==
  \A k \in Clients :
    conn[k].has_pending_write => conn[k].pending.req \in {BadRequest.req, Complete(k) + 1}

StreamInv ==
  /\ OrderInv /\ TurnInv /\ AnswerInv /\ RequestInv /\ ReplyInv
  /\ TagInv /\ PositionInv /\ StreamIsWhole

-------------------------------------------------------------------------------
(* How units get to the buffer *)

\* The steps that move units.
LEMMA FlowFrame ==
  ASSUME [Next]_vars
  PROVE  \/ UNCHANGED <<inbox, data, pos>>
         \/ DataRecv \/ DataCheck
         \/ \E k \in Clients : ClientSend(k)
  BY ZenonT(30) DEF Threads, Goto, serverVars, kernelVars, clientVars, localVars, vars, Next,
     EventThread, WorkerThread, Environment, send_response_async, close_connection, Connect,
     ClientRead, ClientClose, Timeout, EpollWait, EventDispatch, Accept, AcceptLimit,
     AcceptRegister, AcceptInsert, DataLookup, DataLock, DataOversize, DataOversizeClose,
     DataEnqueue, WriteLookup, CleanupBegin, CleanupVisit, CleanupEnd, CleanupNext, SendBegin,
     SendArm, SendDisarm, CloseFind, CloseErase, CloseFd, TaskBegin, RequestParse,
     RequestKeepAlive, RequestThrow, RequestPresent, RequestAbandon, RequestPublish,
     RequestFinish

\* The step that takes a request from the buffer.
LEMMA ReplyFrame ==
  ASSUME [Next]_vars
  PROVE  UNCHANGED reply \/ \E w \in Workers : RequestParse(w)
  BY ZenonT(30) DEF Threads, Goto, serverVars, kernelVars, clientVars, localVars, vars, Next,
     EventThread, WorkerThread, Environment, send_response_async, close_connection, Connect,
     ClientSend, ClientRead, ClientClose, Timeout, EpollWait, EventDispatch, Accept, AcceptLimit,
     AcceptRegister, AcceptInsert, DataLookup, DataRecv, DataLock, DataCheck, DataOversize,
     DataOversizeClose, DataEnqueue, WriteLookup, CleanupBegin, CleanupVisit, CleanupEnd,
     CleanupNext, SendBegin, SendArm, SendDisarm, CloseFind, CloseErase, CloseFd, TaskBegin,
     RequestKeepAlive, RequestThrow, RequestPresent, RequestAbandon, RequestPublish,
     RequestFinish

\* How the event thread comes by what it receives, and how a worker comes to
\* parse, to answer and is done.
FlowMoves ==
  /\ Received' => (Received /\ cur'[Event] = cur[Event]) \/ DataRecv
  /\ Received => Received' \/ DataCheck
  /\ \A w \in Workers : pc'[w] \in AnsweringPC =>
       (pc[w] \in AnsweringPC /\ cur'[w] = cur[w]) \/ RequestPublish(w)
  /\ \A w \in Workers : pc[w] \in AnsweringPC =>
       (pc'[w] \in AnsweringPC /\ cur'[w] = cur[w]) \/ RequestFinish(w)
  /\ \A w \in Workers : pc'[w] \in ReplyPC =>
       (pc[w] \in ReplyPC /\ cur'[w] = cur[w]) \/ RequestParse(w)

\* Every step moves them only in those ways.
LEMMA FlowMovesCases == CoreTypes /\ ListTypes /\ SentTypes /\ ControlInv /\ BirthInv /\
  PendingResponseHasBytes /\ [Next]_vars => FlowMoves
<1> SUFFICES ASSUME CoreTypes, ListTypes, SentTypes, ControlInv, BirthInv,
  PendingResponseHasBytes, [Next]_vars PROVE FlowMoves
  OBVIOUS
<1> USE ServerAssumption DEF Threads, Goto, serverVars, kernelVars, clientVars, localVars,
     EventPC, WorkerPC, SharedPC, DataPC, AcceptPC, SendPC, ClosePC, CoreTypes, ControlTypes,
     MapTypes, ControlInv
<1>1. ASSUME NEW k \in Clients, Connect(k) \/ ClientSend(k) \/ ClientRead(k) \/ ClientClose(k)
      \/ Timeout(k)
      PROVE  FlowMoves
  BY <1>1 DEF FlowMoves, Received, AnsweringPC, ReplyPC, Connect, ClientSend, ClientRead, ClientClose, Timeout
<1>2. CASE EpollWait \/ EventDispatch
  BY <1>2 DEF FlowMoves, Received, AnsweringPC, ReplyPC, EpollWait, EventDispatch
<1>3. CASE Accept
  <2>1. pc'[Event] \in {"dispatch", "limit"} /\ pc[Event] = "accept"
    BY <1>3 DEF FlowMoves, Received, AnsweringPC, ReplyPC, Accept
  <2>2. \A w \in Workers : pc'[w] = pc[w] /\ cur'[w] = cur[w]
    BY <1>3 DEF FlowMoves, Received, AnsweringPC, ReplyPC, Accept
  <2> QED
    BY <2>1, <2>2 DEF FlowMoves, Received, AnsweringPC, ReplyPC
<1>4. CASE AcceptLimit
  BY <1>4 DEF FlowMoves, Received, AnsweringPC, ReplyPC, AcceptLimit
<1>5. CASE AcceptRegister
  BY <1>5 DEF FlowMoves, Received, AnsweringPC, ReplyPC, AcceptRegister, add_fd
<1>6. CASE AcceptInsert
  BY <1>6 DEF FlowMoves, Received, AnsweringPC, ReplyPC, AcceptInsert
<1>7. CASE DataLookup
  BY <1>7 DEF FlowMoves, Received, AnsweringPC, ReplyPC, DataLookup
<1>8. CASE DataRecv
  BY <1>8 DEF FlowMoves, Received, AnsweringPC, ReplyPC, DataRecv
<1>9. CASE DataLock
  BY <1>9 DEF FlowMoves, Received, AnsweringPC, ReplyPC, DataLock
<1>10. CASE DataCheck
  BY <1>10 DEF FlowMoves, Received, AnsweringPC, ReplyPC, DataCheck
<1>11. CASE DataOversize
  BY <1>11 DEF FlowMoves, Received, AnsweringPC, ReplyPC, DataOversize
<1>12. CASE DataOversizeClose
  BY <1>12 DEF FlowMoves, Received, AnsweringPC, ReplyPC, DataOversizeClose, remove_fd
<1>13. CASE DataEnqueue
  BY <1>13 DEF FlowMoves, Received, AnsweringPC, ReplyPC, DataEnqueue
<1>14. CASE WriteLookup
  BY <1>14 DEF FlowMoves, Received, AnsweringPC, ReplyPC, WriteLookup
<1>15. CASE CleanupBegin \/ CleanupVisit \/ CleanupEnd \/ CleanupNext
  BY <1>15 DEF FlowMoves, Received, AnsweringPC, ReplyPC, CleanupBegin, CleanupVisit, CleanupEnd, CleanupNext
<1>16. ASSUME NEW t \in Threads, SendBegin(t)
      PROVE  FlowMoves
  <2>1. SendMoves(t)
    BY <1>16, SendControl, Zenon
  <2>2. /\ pc[t] = "send" /\ \A u \in Threads \ {t} : pc'[u] = pc[u]
        /\ UNCHANGED cur
    BY <2>1 DEF SendMoves
  <2>3. pc'[t] \in {ret[t], "close", "arm", "disarm"}
    BY <2>1 DEF SendMoves
  <2>4. t = Event => ret[t] = "dispatch"
    BY <2>2
  <2>5. t # Event => ret[t] = "finish"
    BY <2>2
  <2> QED
    BY <1>16, <2>2, <2>3, <2>4, <2>5 DEF FlowMoves, Received, AnsweringPC, ReplyPC
<1>17. ASSUME NEW t \in Threads, SendArm(t)
      PROVE  FlowMoves
  BY <1>17 DEF FlowMoves, Received, AnsweringPC, ReplyPC, SendArm, modify_fd
<1>18. ASSUME NEW t \in Threads, SendDisarm(t)
      PROVE  FlowMoves
  BY <1>18 DEF FlowMoves, Received, AnsweringPC, ReplyPC, SendDisarm, modify_fd
<1>19. ASSUME NEW t \in Threads, CloseFind(t)
      PROVE  FlowMoves
  BY <1>19 DEF FlowMoves, Received, AnsweringPC, ReplyPC, CloseFind
<1>20. ASSUME NEW t \in Threads, CloseErase(t)
      PROVE  FlowMoves
  BY <1>20 DEF FlowMoves, Received, AnsweringPC, ReplyPC, CloseErase
<1>21. ASSUME NEW t \in Threads, CloseFd(t)
      PROVE  FlowMoves
  BY <1>21 DEF FlowMoves, Received, AnsweringPC, ReplyPC, CloseFd, remove_fd
<1>22. ASSUME NEW w \in Workers, TaskBegin(w)
      PROVE  FlowMoves
  BY <1>22 DEF FlowMoves, Received, AnsweringPC, ReplyPC, TaskBegin
<1>23. ASSUME NEW w \in Workers, RequestParse(w)
      PROVE  FlowMoves
  BY <1>23 DEF FlowMoves, Received, AnsweringPC, ReplyPC, RequestParse
<1>24. ASSUME NEW w \in Workers, RequestKeepAlive(w)
      PROVE  FlowMoves
  BY <1>24 DEF FlowMoves, Received, AnsweringPC, ReplyPC, RequestKeepAlive
<1>25. ASSUME NEW w \in Workers, RequestThrow(w)
      PROVE  FlowMoves
  BY <1>25 DEF FlowMoves, Received, AnsweringPC, ReplyPC, RequestThrow
<1>26. ASSUME NEW w \in Workers, RequestPresent(w)
      PROVE  FlowMoves
  BY <1>26 DEF FlowMoves, Received, AnsweringPC, ReplyPC, RequestPresent
<1>27. ASSUME NEW w \in Workers, RequestAbandon(w)
      PROVE  FlowMoves
  BY <1>27 DEF FlowMoves, Received, AnsweringPC, ReplyPC, RequestAbandon
<1>28. ASSUME NEW w \in Workers, RequestPublish(w)
      PROVE  FlowMoves
  <2>1. /\ \A v \in Workers \ {w} : pc'[v] = pc[v]
        /\ pc'[Event] = pc[Event] /\ UNCHANGED cur
    BY <1>28 DEF RequestPublish
  <2>2. pc[w] = "publish" /\ pc'[w] = "send"
    BY <1>28 DEF RequestPublish
  <2> QED
    BY <1>28, <2>1, <2>2 DEF FlowMoves, Received, AnsweringPC, ReplyPC
<1>29. ASSUME NEW w \in Workers, RequestFinish(w)
      PROVE  FlowMoves
  <2>1. /\ \A v \in Workers \ {w} : pc'[v] = pc[v]
        /\ pc'[Event] = pc[Event] /\ UNCHANGED cur
    BY <1>29 DEF RequestFinish
  <2>2. pc[w] = "finish" /\ pc'[w] = "idle"
    BY <1>29 DEF RequestFinish
  <2> QED
    BY <1>29, <2>1, <2>2 DEF FlowMoves, Received, AnsweringPC, ReplyPC
<1>30. CASE UNCHANGED vars
  BY <1>30 DEF FlowMoves, Received, AnsweringPC, ReplyPC, vars
<1> QED
  BY <1>1, <1>2, <1>3, <1>4, <1>5, <1>6, <1>7, <1>8, <1>9, <1>10, <1>11, <1>12, <1>13, <1>14,
     <1>15, <1>16, <1>17, <1>18, <1>19, <1>20, <1>21, <1>22, <1>23, <1>24, <1>25, <1>26, <1>27,
     <1>28, <1>29, <1>30
     DEF Next, EventThread, WorkerThread, Environment, send_response_async, close_connection

-------------------------------------------------------------------------------
\* The units in the buffer of client k's Connection.
Buffered(k) == UnitsOf(conn[k].buffer)

\* The buffer of a Connection is emptied when it is made and when its request is
\* answered, and handle_client_data appends to it.
LEMMA BufferCases ==
  ASSUME IInv, [Next]_vars, NEW k \in Clients
  PROVE  \/ conn'[k].buffer = conn[k].buffer
         \/ /\ conn'[k].buffer = <<>>
            /\ (AcceptInsert /\ k = cur[Event]) \/ (\E w \in Workers : RequestFinish(w) /\ cur[w] = k)
         \/ /\ conn'[k].buffer = conn[k].buffer \o data
            /\ DataCheck /\ k = cur[Event]
<1>0. CoreTypes /\ SentTypes /\ ControlInv /\ BirthInv /\ PendingResponseHasBytes
  BY TypeGroups DEF IInv
<1>a. conn \in [Clients -> Connections]
  BY <1>0 DEF CoreTypes, ConnType
<1>1. CASE UNCHANGED conn
  BY <1>1
<1>2. ASSUME NEW c \in Clients, Timeout(c) PROVE conn'[k].buffer = conn[k].buffer
  BY <1>2, <1>a DEF Timeout, Connections
<1>3. CASE AcceptInsert
  <2>1. /\ conn' = [conn EXCEPT ![cur[Event]] = NewConnection(cfd[Event])]
        /\ NewConnection(cfd[Event]).buffer = <<>>
    BY <1>3 DEF AcceptInsert, NewConnection
  <2> QED
    BY <1>a, <1>3, <2>1
<1>4. CASE DataCheck
  BY <1>0, <1>4, CheckOutcomes DEF CheckOutcome
<1>5. ASSUME NEW t \in Threads, SendBegin(t) PROVE conn'[k].buffer = conn[k].buffer
  <2> DEFINE n == SendCount(conn[cur[t]], sock[conn[cur[t]].fd])
             d == AfterSend(conn[cur[t]], n)
             e == [conn[cur[t]] EXCEPT !.keep_alive = FALSE, !.has_pending_write = FALSE]
  <2>1. cur[t] \in Clients /\ conn[cur[t]] \in Connections /\ conn[cur[t]].offset \in Nat
    BY <1>0, <1>a, <1>5, SendControl, ServerAssumption DEF SendMoves, Connections
  <2>2. e.buffer = conn[cur[t]].buffer
    BY <2>1 DEF Connections
  <2> HIDE DEF e
  <2>3. \/ UNCHANGED conn
        \/ n \in 1..(RespLen - conn[cur[t]].offset) /\ conn' = [conn EXCEPT ![cur[t]] = d]
        \/ conn' = [conn EXCEPT ![cur[t]] = e]
    <3> HIDE DEF n, d
    <3> QED
      BY <1>0, <1>5, SendOutcomes, Zenon DEF SendOutcome, n, d, e
  <2>4. n \in 1..(RespLen - conn[cur[t]].offset) => d.buffer = conn[cur[t]].buffer
    <3> HIDE DEF n
    <3> QED
      BY <2>1, AfterSendFields
  <2> HIDE DEF n, d
  <2> QED
    BY <1>a, <2>1, <2>2, <2>3, <2>4
<1>6. ASSUME NEW w \in Workers,
             RequestPublish(w) \/ RequestKeepAlive(w) \/ RequestAbandon(w) \/ RequestFinish(w)
      PROVE  \/ conn'[k].buffer = conn[k].buffer
             \/ (conn'[k].buffer = <<>> /\ RequestFinish(w) /\ cur[w] = k)
  BY <1>0, <1>6, RequestOutcomes DEF SameInput
<1>7. \/ UNCHANGED conn \/ AcceptInsert \/ DataCheck
      \/ \E c \in Clients : Timeout(c)
      \/ \E t \in Threads : SendBegin(t)
      \/ \E w \in Workers : \/ RequestKeepAlive(w) \/ RequestAbandon(w)
                            \/ RequestPublish(w) \/ RequestFinish(w)
  BY ConnFrame, Zenon
<1> QED
  BY <1>1, <1>2, <1>3, <1>4, <1>5, <1>6, <1>7

\* What a step does to the units of client k that are on their way: nothing,
\* except that the buffer may be emptied; or the client sends one; or the event
\* thread receives some; or it passes on what it has, or throws it away.
FlowOf(k) ==
  \/ /\ Buffered(k)' \subseteq Buffered(k) /\ InHandData(k)' = InHandData(k)
     /\ inbox'[k] = inbox[k] /\ pos'[k] = pos[k]
  \/ /\ ClientSend(k)
     /\ Buffered(k)' = Buffered(k) /\ InHandData(k)' = InHandData(k)
  \/ /\ Buffered(k)' = Buffered(k) /\ InHandData(k) = {} /\ pos'[k] = pos[k]
     /\ \E n \in 0..Len(inbox[k]) :
          /\ InHandData(k)' = UnitsOf(SubSeq(inbox[k], 1, n))
          /\ inbox'[k] = SubSeq(inbox[k], n + 1, Len(inbox[k]))
  \/ /\ Buffered(k)' \subseteq Buffered(k) \cup InHandData(k) /\ InHandData(k)' = {}
     /\ inbox'[k] = inbox[k] /\ pos'[k] = pos[k]

\* The event thread receives from the socket of the Connection it looked up.
LEMMA RecvFlow ==
  ASSUME IInv, EventNumber, DataRecv, NEW k \in Clients
  PROVE  FlowOf(k)
<1>0. CoreTypes /\ ClientTypes /\ ControlInv
  BY TypeGroups DEF IInv
<1>1. /\ pc[Event] = "recv" /\ UNCHANGED <<conn, pos, cur>> /\ Event \in Threads
      /\ cur[Event] \in Clients /\ cfd[Event] \in Fds
      /\ sock[cfd[Event]] \in {None, cur[Event]}
      /\ pc \in [Threads -> EventPC \cup WorkerPC \cup SharedPC]
  BY <1>0 DEF DataRecv, EventNumber, ControlInv, DataPC, serverVars, clientVars, CoreTypes,
     ControlTypes, Threads
<1>2. Buffered(k)' = Buffered(k) /\ InHandData(k) = {} /\ pos'[k] = pos[k]
  BY <1>1 DEF Buffered, InHandData, Received
<1>3. CASE Goto(Event, "close") /\ UNCHANGED <<inbox, data>>
  <2>1. ~Received'
    BY <1>1, <1>3 DEF Goto, Received
  <2> QED
    BY <1>2, <1>3, <2>1 DEF FlowOf, InHandData
<1> DEFINE c == cur[Event]
           n == Smaller(RecvMax, Len(inbox[c]))
           got == SubSeq(inbox[c], 1, n)
<1>4. CASE /\ sock[cfd[Event]] = c /\ inbox[c] # <<>>
           /\ data' = got /\ Goto(Event, "datalock")
           /\ inbox' = [inbox EXCEPT ![c] = SubSeq(inbox[c], Len(got) + 1, Len(inbox[c]))]
  <2>1. inbox[c] \in Seq(Units) /\ inbox \in [Clients -> Seq(Units)]
    BY <1>0, <1>1 DEF ClientTypes
  <2>2. n \in 0..Len(inbox[c])
    BY <2>1, ServerAssumption DEF Smaller
  <2>3. Len(got) = n
    <3> HIDE DEF n
    <3> QED
      BY <2>1, <2>2
  <2> HIDE DEF n, got
  <2>4. Received'
    BY <1>1, <1>4 DEF Goto, Received
  <2>5. CASE k = c
    <3>1. inbox'[k] = SubSeq(inbox[k], n + 1, Len(inbox[k]))
      BY <1>4, <2>1, <2>3, <2>5
    <3>2. InHandData(k)' = UnitsOf(SubSeq(inbox[k], 1, n))
      BY <1>1, <1>4, <2>4, <2>5 DEF InHandData, got, UnitsOf
    <3> QED
      BY <1>2, <2>2, <2>5, <3>1, <3>2 DEF FlowOf
  <2>6. CASE k # c
    <3>1. inbox'[k] = inbox[k]
      BY <1>4, <2>1, <2>6
    <3>2. InHandData(k)' = {}
      BY <1>1, <2>6 DEF InHandData
    <3> QED
      BY <1>2, <3>1, <3>2 DEF FlowOf
  <2> QED
    BY <2>5, <2>6
<1>5. \/ Goto(Event, "close") /\ UNCHANGED <<inbox, data>>
      \/ /\ sock[cfd[Event]] # None /\ inbox[sock[cfd[Event]]] # <<>>
         /\ data' = SubSeq(inbox[sock[cfd[Event]]], 1, Smaller(RecvMax, Len(inbox[sock[cfd[Event]]])))
         /\ inbox' = [inbox EXCEPT ![sock[cfd[Event]]] =
              SubSeq(@, Len(SubSeq(inbox[sock[cfd[Event]]], 1, Smaller(RecvMax, Len(inbox[sock[cfd[Event]]])))) + 1, Len(@))]
         /\ Goto(Event, "datalock")
  BY Zenon DEF DataRecv
<1>6. inbox \in [Clients -> Seq(Units)]
  BY <1>0 DEF ClientTypes
<1> QED
  BY <1>1, <1>3, <1>4, <1>5, <1>6

\* Every step moves the units of a client in one of those ways.
LEMMA FlowCases ==
  ASSUME IInv, EventNumber, [Next]_vars, NEW k \in Clients
  PROVE  FlowOf(k)
<1>0. /\ CoreTypes /\ ListTypes /\ ClientTypes /\ SentTypes /\ ControlInv /\ BirthInv
      /\ PendingResponseHasBytes
  BY TypeGroups DEF IInv
<1>1. FlowMoves
  BY <1>0, FlowMovesCases
<1>2. CASE DataRecv
  BY <1>2, RecvFlow
<1>3. CASE DataCheck
  <2>1. /\ pc[Event] = "datacheck" /\ data' = <<>> /\ UNCHANGED <<inbox, pos, cur>>
        /\ pc'[Event] \in {"oversize", "enqueue", "dispatch", "write"}
        /\ conn'[k].buffer = conn[k].buffer
             \/ (k = cur[Event] /\ conn'[k].buffer = conn[k].buffer \o data)
    BY <1>0, <1>3, CheckOutcomes DEF CheckOutcome
  <2>2. InHandData(k)' = {}
    BY <2>1 DEF InHandData, Received
  <2>3. k = cur[Event] => InHandData(k) = UnitsOf(data)
    BY <2>1 DEF InHandData, Received
  <2>4. UnitsOf(conn[k].buffer \o data) \subseteq UnitsOf(conn[k].buffer) \cup UnitsOf(data)
    <3>1. conn[k].buffer \in Seq(Units) /\ data \in Seq(Units)
      BY <1>0 DEF CoreTypes, ConnType, Connections, ClientTypes
    <3> QED
      BY <3>1, ConcatFacts DEF UnitsOf
  <2>5. Buffered(k)' \subseteq Buffered(k) \cup InHandData(k)
    <3>1. CASE conn'[k].buffer = conn[k].buffer
      BY <3>1 DEF Buffered
    <3>2. CASE k = cur[Event] /\ conn'[k].buffer = conn[k].buffer \o data
      <4>1. Buffered(k)' = UnitsOf(conn[k].buffer \o data)
        BY <3>2 DEF Buffered, UnitsOf
      <4> QED
        BY <2>3, <2>4, <3>2, <4>1 DEF Buffered
    <3> QED
      BY <2>1, <3>1, <3>2
  <2> QED
    BY <2>1, <2>2, <2>5 DEF FlowOf
<1>4. CASE ~DataRecv /\ ~DataCheck
  <2>1. data' = data /\ (Received' <=> Received) /\ (Received => cur'[Event] = cur[Event])
    <3>1. (\E c \in Clients : ClientSend(c)) => UNCHANGED data
      BY DEF ClientSend, localVars
    <3> QED
      BY <1>1, <1>4, <3>1, FlowFrame DEF FlowMoves
  <2>2. InHandData(k)' = InHandData(k)
    BY <2>1 DEF InHandData
  <2>3. CASE ClientSend(k)
    BY <2>2, <2>3 DEF FlowOf, Buffered, ClientSend, serverVars
  <2>4. CASE ~ClientSend(k)
    <3>1. inbox'[k] = inbox[k] /\ pos'[k] = pos[k]
      <4>1. ASSUME NEW c \in Clients, ClientSend(c) PROVE inbox'[k] = inbox[k] /\ pos'[k] = pos[k]
        BY <1>0, <2>4, <4>1 DEF ClientSend, ClientTypes
      <4> QED
        BY <1>4, <4>1, FlowFrame
    <3>2. conn'[k].buffer = conn[k].buffer \/ conn'[k].buffer = <<>>
      BY <1>4, BufferCases
    <3>3. Buffered(k)' \subseteq Buffered(k)
      BY <3>2 DEF Buffered, UnitsOf
    <3> QED
      BY <2>2, <3>1, <3>3 DEF FlowOf
  <2> QED
    BY <2>3, <2>4
<1> QED
  BY <1>2, <1>3, <1>4

\* The two parts of a sequence.
LEMMA SplitFacts ==
  ASSUME NEW S, NEW q \in Seq(S), NEW n \in 0..Len(q)
  PROVE  /\ \A i \in DOMAIN SubSeq(q, 1, n) :
              i \in DOMAIN q /\ i <= n /\ SubSeq(q, 1, n)[i] = q[i]
         /\ \A i \in DOMAIN SubSeq(q, n + 1, Len(q)) :
              /\ i \in Nat /\ i >= 1 /\ i + n \in DOMAIN q
              /\ SubSeq(q, n + 1, Len(q))[i] = q[i + n]
  OBVIOUS

\* A client that sends its next unit.
LEMMA SendUnit ==
  ASSUME ClientTypes, NEW k \in Clients, ClientSend(k), RequestScripts
  PROVE  LET u == Script[k][pos[k] + 1]
         IN  /\ u \in Units /\ u \in Unsaid(k)
             /\ Heard(k)' = Heard(k) \cup {u} /\ Unsaid(k)' \subseteq Unsaid(k)
             /\ pos'[k] <= Len(Script[k])
             /\ inbox'[k] = Append(inbox[k], u)
             /\ UnitsOf(inbox'[k]) = UnitsOf(inbox[k]) \cup {u}
             /\ Before(Heard(k), {u})
             /\ ~u.first => \E v \in Heard(k) : v.req = u.req
             /\ u.first /\ ~Pipelining => Answers(k) >= u.req - 1
<1> DEFINE u == Script[k][pos[k] + 1]
<1>1. /\ pos \in [Clients -> Nat] /\ inbox \in [Clients -> Seq(Units)] /\ Script[k] \in Seq(Units)
      /\ pos[k] \in Nat
  BY ServerAssumption DEF ClientTypes
<1>2. /\ pos[k] < Len(Script[k]) /\ inbox' = [inbox EXCEPT ![k] = Append(@, u)]
      /\ pos' = [pos EXCEPT ![k] = @ + 1]
      /\ u.first /\ ~Pipelining => Answers(k) >= u.req - 1
  BY DEF ClientSend
<1>3. pos'[k] = pos[k] + 1 /\ inbox'[k] = Append(inbox[k], u)
  BY <1>1, <1>2
<1>4. u \in Units /\ pos[k] + 1 \in DOMAIN Script[k]
  BY <1>1, <1>2
<1>5. u \in Unsaid(k) /\ Unsaid(k)' \subseteq Unsaid(k) /\ Heard(k)' = Heard(k) \cup {u}
  <2>1. u \in Unsaid(k)
    <3>1. pos[k] + 1 \in (pos[k] + 1)..Len(Script[k])
      BY <1>1, <1>2
    <3> QED
      BY <3>1 DEF Unsaid
  <2>2. Unsaid(k)' \subseteq Unsaid(k)
    <3>1. (pos'[k] + 1)..Len(Script[k]) \subseteq (pos[k] + 1)..Len(Script[k])
      BY <1>1, <1>3
    <3> QED
      BY <3>1 DEF Unsaid
  <2>3. 1..pos'[k] = 1..pos[k] \cup {pos[k] + 1}
    BY <1>1, <1>3
  <2>4. Heard(k)' = Heard(k) \cup {u}
    BY <2>3 DEF Heard
  <2> QED
    BY <2>1, <2>2, <2>4
<1>6. UnitsOf(inbox'[k]) = UnitsOf(inbox[k]) \cup {u}
  <2> DEFINE q == inbox[k]
  <2>1. q \in Seq(Units)
    BY <1>1
  <2> HIDE DEF u, q
  <2>2. DOMAIN Append(q, u) = DOMAIN q \cup {Len(q) + 1} /\ Append(q, u)[Len(q) + 1] = u
        /\ \A i \in DOMAIN q : Append(q, u)[i] = q[i]
    BY <1>4, <2>1
  <2>3. UnitsOf(Append(q, u)) = UnitsOf(q) \cup {u}
    BY <2>2 DEF UnitsOf
  <2> QED
    BY <1>3, <2>3 DEF q
<1>7. ASSUME NEW i \in 1..pos[k] PROVE Follows(Script[k][i], u)
  <2>1. i \in DOMAIN Script[k] /\ i < pos[k] + 1
    BY <1>1, <1>2
  <2> QED
    BY <1>4, <2>1 DEF RequestScripts, Follows
<1>8. Before(Heard(k), {u})
  BY <1>7 DEF Before, Heard
<1>9. ~u.first => \E v \in Heard(k) : v.req = u.req
  <2> DEFINE m == pos[k] + 1
  <2>1. ~Script[k][m].first => m > 1 /\ Script[k][m - 1].req = Script[k][m].req
    <3>1. m \in DOMAIN Script[k]
      BY <1>4
    <3> HIDE DEF m, u
    <3>2. \A i \in DOMAIN Script[k] :
            ~Script[k][i].first => i > 1 /\ Script[k][i - 1].req = Script[k][i].req
      BY Zenon DEF RequestScripts
    <3> QED
      BY <3>1, <3>2
  <2>2. u = Script[k][m] /\ m - 1 = pos[k] /\ (m > 1 => pos[k] \in 1..pos[k])
    BY <1>1
  <2> HIDE DEF m, u
  <2> QED
    BY <2>1, <2>2 DEF Heard
<1> QED
  BY <1>1, <1>2, <1>3, <1>4, <1>5, <1>6, <1>8, <1>9

\* Units stay in order on their way.
LEMMA OrderStep ==
  ASSUME IInv, EventNumber, OrderInv, RequestScripts, [Next]_vars
  PROVE  OrderInv'
<1>0. ClientTypes
  BY TypeGroups DEF IInv
<1> SUFFICES ASSUME NEW k \in Clients
             PROVE  /\ pos'[k] <= Len(Script[k])
                    /\ Buffered(k)' \cup InHandData(k)' \cup UnitsOf(inbox'[k]) \subseteq Heard(k)'
                    /\ \A i, j \in DOMAIN inbox'[k] : i < j => Follows(inbox'[k][i], inbox'[k][j])
                    /\ Before(InHandData(k)', UnitsOf(inbox'[k]))
                    /\ Before(Buffered(k)', InHandData(k)' \cup UnitsOf(inbox'[k]))
  BY DEF OrderInv, Buffered, UnitsOf, Before
<1>1. /\ pos[k] <= Len(Script[k])
      /\ Buffered(k) \cup InHandData(k) \cup UnitsOf(inbox[k]) \subseteq Heard(k)
      /\ \A i, j \in DOMAIN inbox[k] : i < j => Follows(inbox[k][i], inbox[k][j])
      /\ Before(InHandData(k), UnitsOf(inbox[k]))
      /\ Before(Buffered(k), InHandData(k) \cup UnitsOf(inbox[k]))
  BY DEF OrderInv, Buffered
<1>2. FlowOf(k)
  BY FlowCases
<1>3. pos'[k] = pos[k] => Heard(k)' = Heard(k)
  BY DEF Heard
<1>4. CASE /\ Buffered(k)' \subseteq Buffered(k) /\ InHandData(k)' = InHandData(k)
           /\ inbox'[k] = inbox[k] /\ pos'[k] = pos[k]
  <2>1. UnitsOf(inbox'[k]) = UnitsOf(inbox[k])
    BY <1>4
  <2>2. \A i, j \in DOMAIN inbox'[k] : i < j => Follows(inbox'[k][i], inbox'[k][j])
    BY <1>1, <1>4
  <2> QED
    BY <1>1, <1>3, <1>4, <2>1, <2>2 DEF Before
<1>5. CASE ClientSend(k) /\ Buffered(k)' = Buffered(k) /\ InHandData(k)' = InHandData(k)
  <2> DEFINE u == Script[k][pos[k] + 1]
             q == inbox[k]
  <2>1. /\ u \in Units /\ Heard(k)' = Heard(k) \cup {u}
        /\ pos'[k] <= Len(Script[k]) /\ inbox'[k] = Append(q, u)
        /\ UnitsOf(inbox'[k]) = UnitsOf(q) \cup {u}
        /\ Before(Heard(k), {u})
    BY <1>0, <1>5, SendUnit
  <2>2. q \in Seq(Units)
    BY <1>0 DEF ClientTypes
  <2> HIDE DEF u
  <2>3. \A i \in DOMAIN q : Follows(q[i], u)
    BY <1>1, <2>1 DEF Before, UnitsOf
  <2>4. \A i, j \in DOMAIN inbox'[k] : i < j => Follows(inbox'[k][i], inbox'[k][j])
    <3> HIDE DEF q
    <3>1. DOMAIN Append(q, u) = 1..(Len(q) + 1) /\ Append(q, u)[Len(q) + 1] = u
          /\ DOMAIN q = 1..Len(q) /\ Len(q) \in Nat
          /\ \A i \in DOMAIN q : Append(q, u)[i] = q[i]
      BY <2>1, <2>2
    <3>2. \A i, j \in DOMAIN q : i < j => Follows(q[i], q[j])
      BY <1>1 DEF q
    <3>3. ASSUME NEW i \in 1..(Len(q) + 1), NEW j \in 1..(Len(q) + 1), i < j
          PROVE  Follows(Append(q, u)[i], Append(q, u)[j])
      <4>1. i \in DOMAIN q
        BY <3>1, <3>3
      <4>2. CASE j \in DOMAIN q
        BY <3>1, <3>2, <3>3, <4>1, <4>2
      <4>3. CASE j = Len(q) + 1
        BY <2>3, <3>1, <4>1, <4>3
      <4> QED
        BY <3>1, <4>2, <4>3
    <3> QED
      BY <2>1, <3>1, <3>3
  <2> QED
    BY <1>1, <1>5, <2>1, <2>4 DEF Before
<1>6. CASE /\ Buffered(k)' = Buffered(k) /\ InHandData(k) = {} /\ pos'[k] = pos[k]
           /\ \E n \in 0..Len(inbox[k]) :
                /\ InHandData(k)' = UnitsOf(SubSeq(inbox[k], 1, n))
                /\ inbox'[k] = SubSeq(inbox[k], n + 1, Len(inbox[k]))
  <2> DEFINE q == inbox[k]
  <2>1. PICK n \in 0..Len(q) : /\ InHandData(k)' = UnitsOf(SubSeq(q, 1, n))
                               /\ inbox'[k] = SubSeq(q, n + 1, Len(q))
    BY <1>6
  <2>2. q \in Seq(Units)
    BY <1>0 DEF ClientTypes
  <2> DEFINE p == SubSeq(q, 1, n)
             r == SubSeq(q, n + 1, Len(q))
  <2>3. /\ \A i \in DOMAIN p : i \in DOMAIN q /\ i <= n /\ p[i] = q[i]
        /\ \A i \in DOMAIN r : i \in Nat /\ i >= 1 /\ i + n \in DOMAIN q /\ r[i] = q[i + n]
    BY <2>2, SplitFacts
  <2>4. DOMAIN q \subseteq Nat /\ n \in Nat
    BY <2>2
  <2>5. \A i, j \in DOMAIN q : i < j => Follows(q[i], q[j])
    BY <1>1
  <2>6. InHandData(k)' = UnitsOf(p) /\ inbox'[k] = r
    BY <2>1
  <2> HIDE DEF p, r
  <2>7. UnitsOf(p) \subseteq UnitsOf(q) /\ UnitsOf(r) \subseteq UnitsOf(q)
    BY <2>3 DEF UnitsOf
  <2>8. Before(UnitsOf(p), UnitsOf(r))
    <3>1. ASSUME NEW i \in DOMAIN p, NEW j \in DOMAIN r PROVE Follows(p[i], r[j])
      <4>1. i \in DOMAIN q /\ j + n \in DOMAIN q /\ i < j + n /\ p[i] = q[i] /\ r[j] = q[j + n]
        BY <2>3, <2>4
      <4> QED
        BY <2>5, <4>1
    <3> QED
      BY <3>1 DEF Before, UnitsOf
  <2>9. \A i, j \in DOMAIN r : i < j => Follows(r[i], r[j])
    <3>1. ASSUME NEW i \in DOMAIN r, NEW j \in DOMAIN r, i < j PROVE Follows(r[i], r[j])
      <4>1. i + n \in DOMAIN q /\ j + n \in DOMAIN q /\ i + n < j + n
            /\ r[i] = q[i + n] /\ r[j] = q[j + n]
        BY <2>3, <2>4, <3>1
      <4> QED
        BY <2>5, <4>1
    <3> QED
      BY <3>1
  <2> HIDE DEF q
  <2>10. /\ Buffered(k) \cup UnitsOf(q) \subseteq Heard(k) /\ Before(Buffered(k), UnitsOf(q))
    BY <1>1 DEF Before, q
  <2> QED
    BY <1>1, <1>3, <1>6, <2>6, <2>7, <2>8, <2>9, <2>10 DEF Before
<1>7. CASE /\ Buffered(k)' \subseteq Buffered(k) \cup InHandData(k) /\ InHandData(k)' = {}
           /\ inbox'[k] = inbox[k] /\ pos'[k] = pos[k]
  <2>1. UnitsOf(inbox'[k]) = UnitsOf(inbox[k])
    BY <1>7
  <2>2. \A i, j \in DOMAIN inbox'[k] : i < j => Follows(inbox'[k][i], inbox'[k][j])
    BY <1>1, <1>7
  <2> QED
    BY <1>1, <1>3, <1>7, <2>1, <2>2 DEF Before
<1> QED
  BY <1>2, <1>4, <1>5, <1>6, <1>7 DEF FlowOf

-------------------------------------------------------------------------------
(* How responses get to the client *)

\* Connection k is sent the next n units of its pending response.
Writes(k, n) ==
  /\ conn[k].has_pending_write /\ n \in 1..(RespLen - conn[k].offset)
  /\ sent'[k] = sent[k] \o SubSeq(Remaining(k), 1, n)
  /\ conn'[k] = AfterSend(conn[k], n)

\* What a step does to the responses to client k: nothing, except that a pending
\* one may be given up; or one is published; or units of it are written.
OutputOf(k) ==
  \/ sent'[k] = sent[k] /\ SameOutput(conn'[k], conn[k])
  \/ sent'[k] = sent[k] /\ ~conn'[k].has_pending_write
  \/ /\ sent'[k] = sent[k] /\ conn'[k].has_pending_write /\ conn'[k].offset = 0
     /\ \E w \in Workers : RequestPublish(w) /\ cur[w] = k
  \/ \E n \in 1..(RespLen - conn[k].offset) : Writes(k, n)

\* A send writes to the Connection it is for and to no other.
LEMMA SendOutput ==
  ASSUME IInv, NumberKept, EventNumber, NEW t \in Threads, SendBegin(t), NEW k \in Clients
  PROVE  OutputOf(k)
<1>0. CoreTypes /\ SentTypes /\ ControlInv /\ BirthInv /\ PendingResponseHasBytes
  BY TypeGroups DEF IInv
<1> DEFINE c == cur[t]
           s == sock[conn[c].fd]
           n == SendCount(conn[c], s)
           r == SubSeq(Remaining(c), 1, n)
           e == [conn[c] EXCEPT !.keep_alive = FALSE, !.has_pending_write = FALSE]
<1>1. /\ pc[t] = "send" /\ c \in Clients
      /\ conn \in [Clients -> Connections] /\ sent \in [Clients -> Seq(ResponseUnits)]
  BY <1>0, <1>0, SendControl DEF SendMoves, CoreTypes, ConnType, SentTypes
<1>2. e.has_pending_write = FALSE
  BY <1>1 DEF Connections
<1>3. s \in {None, c}
  BY <1>1, SendsToItsOwn DEF SendPC
<1>4. \/ UNCHANGED <<conn, sent>>
      \/ /\ conn[c].has_pending_write /\ s \in Clients /\ n \in 1..(RespLen - conn[c].offset)
         /\ sent' = [sent EXCEPT ![s] = @ \o r]
         /\ conn' = [conn EXCEPT ![c] = AfterSend(conn[c], n)]
      \/ conn' = [conn EXCEPT ![c] = e] /\ UNCHANGED sent
  <2> HIDE DEF s, n, r, e
  <2> QED
    BY <1>0, SendOutcomes, Zenon DEF SendOutcome, s, n, r, e
<1> HIDE DEF n, s, r, e
<1>5. CASE UNCHANGED <<conn, sent>>
  BY <1>5 DEF OutputOf, SameOutput
<1>6. CASE conn' = [conn EXCEPT ![c] = e] /\ UNCHANGED sent
  <2>1. k = c => conn'[k] = e
    BY <1>1, <1>6
  <2>2. k # c => conn'[k] = conn[k]
    BY <1>1, <1>6
  <2> QED
    BY <1>2, <1>6, <2>1, <2>2 DEF OutputOf, SameOutput
<1>7. CASE /\ conn[c].has_pending_write /\ s \in Clients /\ n \in 1..(RespLen - conn[c].offset)
           /\ sent' = [sent EXCEPT ![s] = @ \o r]
           /\ conn' = [conn EXCEPT ![c] = AfterSend(conn[c], n)]
  <2> DEFINE d == AfterSend(conn[c], n)
             v == sent[c] \o r
  <2>1. s = c
    BY <1>3, <1>7, ServerAssumption
  <2>2. sent' = [sent EXCEPT ![c] = v] /\ conn' = [conn EXCEPT ![c] = d]
    BY <1>7, <2>1
  <2> HIDE DEF d, v
  <2>3. k = c => sent'[k] = v /\ conn'[k] = d
    BY <1>1, <2>2
  <2>4. k # c => sent'[k] = sent[k] /\ conn'[k] = conn[k]
    BY <1>1, <2>2
  <2>5. k = c => Writes(k, n)
    BY <1>7, <2>3 DEF Writes, r, d, v
  <2> QED
    BY <1>7, <2>4, <2>5 DEF OutputOf, SameOutput
<1> QED
  BY <1>4, <1>5, <1>6, <1>7

\* Every step is one of those for every client.
LEMMA OutputCases ==
  ASSUME IInv, NumberKept, EventNumber, [Next]_vars, NEW k \in Clients
  PROVE  OutputOf(k)
<1>0. CoreTypes /\ SentTypes /\ ControlInv /\ BirthInv /\ PendingResponseHasBytes
  BY TypeGroups DEF IInv
<1>a. conn \in [Clients -> Connections]
  BY <1>0 DEF CoreTypes, ConnType
<1>1. ASSUME NEW t \in Threads, SendBegin(t) PROVE OutputOf(k)
  BY <1>1, SendOutput
<1>2. CASE ~\E t \in Threads : SendBegin(t)
  <2>0. sent' = sent
    BY <1>2, SentFrame DEF ClientRead
  <2>1. CASE UNCHANGED conn
    BY <2>0, <2>1 DEF OutputOf, SameOutput
  <2>2. ASSUME NEW c \in Clients, Timeout(c) PROVE OutputOf(k)
    <3>1. SameOutput(conn'[k], conn[k])
      BY <2>2, <1>a DEF Timeout, Connections, SameOutput
    <3> QED
      BY <2>0, <3>1 DEF OutputOf
  <2>3. CASE AcceptInsert
    <3>1. ~conn'[k].has_pending_write \/ conn'[k] = conn[k]
      BY <1>0, <2>3, NewHasNoPending
    <3> QED
      BY <2>0, <3>1 DEF OutputOf, SameOutput
  <2>4. CASE DataCheck
    <3>1. conn'[k] = conn[k] \/ SameOutput(conn'[k], conn[k])
      BY <1>0, <2>4, CheckOutcomes DEF CheckOutcome, SameOutput
    <3> QED
      BY <2>0, <3>1 DEF OutputOf, SameOutput
  <2>5. ASSUME NEW w \in Workers,
               RequestPublish(w) \/ RequestKeepAlive(w) \/ RequestAbandon(w) \/ RequestFinish(w)
        PROVE  OutputOf(k)
    <3>1. \/ conn'[k] = conn[k] \/ SameOutput(conn'[k], conn[k])
          \/ (RequestPublish(w) /\ cur[w] = k /\ conn'[k].has_pending_write /\ conn'[k].offset = 0)
      BY <1>0, <2>5, RequestOutcomes
    <3> QED
      BY <2>0, <3>1 DEF OutputOf, SameOutput
  <2>6. \/ UNCHANGED conn \/ AcceptInsert \/ DataCheck
        \/ \E c \in Clients : Timeout(c)
        \/ \E t \in Threads : SendBegin(t)
        \/ \E w \in Workers : \/ RequestKeepAlive(w) \/ RequestAbandon(w)
                              \/ RequestPublish(w) \/ RequestFinish(w)
    BY ConnFrame, Zenon
  <2> QED
    BY <1>2, <2>1, <2>2, <2>3, <2>4, <2>5, <2>6
<1> QED
  BY <1>1, <1>2

\* The whole responses a client was sent, and those it has read.
LEMMA CompleteFacts ==
  ASSUME SentTypes, NEW k \in Clients
  PROVE  /\ IsFiniteSet(Wholes(k)) /\ Complete(k) \in Nat
         /\ Answers(k) \in Nat /\ Answers(k) <= Complete(k)
<1>1. sent[k] \in Seq(ResponseUnits) /\ Len(sent[k]) \in Nat /\ unread[k] \in Nat
  BY ServerAssumption DEF SentTypes
<1>2. IsFiniteSet(1..Len(sent[k]))
  BY <1>1, FS_Interval
<1>3. IsFiniteSet(Wholes(k)) /\ Complete(k) \in Nat
  BY <1>2, FS_Subset, FS_CardinalityType DEF Wholes, Complete
<1>4. 1..ReadSoFar(k) \subseteq 1..Len(sent[k])
  BY <1>1 DEF ReadSoFar
<1>5. {i \in 1..ReadSoFar(k) : sent[k][i].off = RespLen} \subseteq Wholes(k)
  BY <1>4 DEF Wholes
<1> QED
  BY <1>3, <1>5, FS_Subset, FS_CardinalityType DEF Answers, Complete

\* What is written ends where the response goes on, and makes one more whole
\* response when it ends one.
LEMMA WriteFacts ==
  ASSUME IInv, NEW k \in Clients, NEW n \in 1..(RespLen - conn[k].offset), Writes(k, n)
  PROVE  /\ sent'[k] # <<>> /\ Len(sent'[k]) = Len(sent[k]) + n
         /\ sent[k] \in Seq(ResponseUnits)
         /\ \A i \in 1..Len(sent[k]) : sent'[k][i] = sent[k][i]
         /\ \A j \in 1..n : /\ sent'[k][Len(sent[k]) + j].off = conn[k].offset + j
                            /\ sent'[k][Len(sent[k]) + j].req = conn[k].pending.req
         /\ conn[k].offset + n < RespLen => Complete(k)' = Complete(k)
         /\ ~(conn[k].offset + n < RespLen) => Complete(k)' = Complete(k) + 1
<1>0. CoreTypes /\ SentTypes
  BY TypeGroups DEF IInv
<1> DEFINE q == sent[k]
           r == SubSeq(Remaining(k), 1, n)
           o == conn[k].offset
<1>1. /\ r \in Seq(ResponseUnits) /\ Len(r) = n
      /\ \A i \in 1..n : r[i] = [to |-> k, req |-> conn[k].pending.req, off |-> o + i]
  BY <1>0, RemainingUnits
<1>2. q \in Seq(ResponseUnits) /\ o \in Nat /\ n \in Nat /\ n >= 1 /\ o + n <= RespLen
      /\ RespLen \in Nat
  BY <1>0, ServerAssumption DEF SentTypes, CoreTypes, ConnType, Connections
<1>3. sent'[k] = q \o r
  BY DEF Writes
<1> HIDE DEF q, r, o
<1>4. /\ Len(q \o r) = Len(q) + n /\ Len(q) \in Nat
      /\ \A i \in 1..Len(q) : (q \o r)[i] = q[i]
      /\ \A j \in 1..n : (q \o r)[Len(q) + j] = r[j]
  <2>0. q \in Seq(ResponseUnits) /\ r \in Seq(ResponseUnits)
    BY <1>1, <1>2
  <2>1. /\ Len(q \o r) = Len(q) + Len(r)
        /\ \A i \in 1..Len(q) : (q \o r)[i] = q[i]
        /\ \A j \in 1..Len(r) : (q \o r)[Len(q) + j] = r[j]
    BY <2>0
  <2>2. Len(q) \in Nat
    BY <1>2
  <2> QED
    BY <1>1, <2>1, <2>2, Zenon
<1>5. \A j \in 1..n : (q \o r)[Len(q) + j].off = o + j /\ (q \o r)[Len(q) + j].req = conn[k].pending.req
  BY <1>1, <1>4
<1>6. q \o r # <<>>
  BY <1>1, <1>2, <1>4
<1>7. IsFiniteSet(Wholes(k)) /\ Complete(k) \in Nat
  BY <1>0, CompleteFacts
<1>8. Wholes(k) = {i \in 1..Len(q) : q[i].off = RespLen}
  BY DEF Wholes, q
<1>9. Wholes(k)' = {i \in 1..(Len(q) + n) : (q \o r)[i].off = RespLen}
  BY <1>3, <1>4 DEF Wholes
<1>10. ASSUME NEW i \in 1..(Len(q) + n)
       PROVE  i \in 1..Len(q) \/ (i - Len(q) \in 1..n /\ i = Len(q) + (i - Len(q)))
  BY <1>2, <1>4
<1>11. ASSUME o + n < RespLen PROVE Complete(k)' = Complete(k)
  <2>1. \A j \in 1..n : (q \o r)[Len(q) + j].off # RespLen
    <3>1. \A j \in 1..n : o + j # RespLen
      BY <1>2, <1>11
    <3> QED
      BY <1>5, <3>1, Zenon
  <2>2. 1..Len(q) \subseteq 1..(Len(q) + n)
    BY <1>2, <1>4
  <2>3. Wholes(k)' = Wholes(k)
    BY <1>4, <1>8, <1>9, <1>10, <2>1, <2>2
  <2> QED
    BY <2>3 DEF Complete
<1>12. ASSUME ~(o + n < RespLen) PROVE Complete(k)' = Complete(k) + 1
  <2>1. \A j \in 1..n : (q \o r)[Len(q) + j].off = RespLen <=> j = n
    <3>1. \A j \in 1..n : o + j = RespLen <=> j = n
      BY <1>2, <1>12
    <3> QED
      BY <1>5, <3>1
  <2>2. 1..Len(q) \subseteq 1..(Len(q) + n) /\ Len(q) + n \in 1..(Len(q) + n) /\ n \in 1..n
        /\ Len(q) + n \notin 1..Len(q)
    BY <1>2, <1>4
  <2>3. Wholes(k)' = Wholes(k) \cup {Len(q) + n}
    <3>1. ASSUME NEW i \in Wholes(k)' PROVE i \in Wholes(k) \cup {Len(q) + n}
      BY <1>4, <1>8, <1>9, <1>10, <2>1, <3>1
    <3>2. Wholes(k) \cup {Len(q) + n} \subseteq Wholes(k)'
      BY <1>4, <1>8, <1>9, <2>1, <2>2
    <3> QED
      BY <3>1, <3>2
  <2>4. Len(q) + n \notin Wholes(k)
    BY <1>8, <2>2
  <2>5. Cardinality(Wholes(k) \cup {Len(q) + n}) = Cardinality(Wholes(k)) + 1
    BY <1>7, <2>4, FS_AddElement
  <2> QED
    BY <2>3, <2>5 DEF Complete
<1> QED
  BY <1>2, <1>3, <1>4, <1>5, <1>6, <1>11, <1>12 DEF q, o

-------------------------------------------------------------------------------
(* The invariant of the stream *)

\* What the server works on are units of the script, and a response makes only
\* later ones wait.
LEMMA AheadUnits ==
  ASSUME ClientTypes, OrderInv, RequestScripts, NEW k \in Clients
  PROVE  /\ Heard(k) \subseteq Units /\ Unsaid(k) \subseteq Units /\ Ahead(k) \subseteq Units
         /\ Before(Heard(k), Unsaid(k))
<1>1. /\ pos[k] \in Nat /\ pos[k] <= Len(Script[k]) /\ Script[k] \in Seq(Units)
  BY ServerAssumption DEF ClientTypes, OrderInv
<1>2. \A i \in 1..pos[k] : i \in DOMAIN Script[k]
  BY <1>1
<1>3. \A i \in (pos[k] + 1)..Len(Script[k]) : i \in DOMAIN Script[k]
  BY <1>1
<1>4. \A i \in DOMAIN Script[k] : Script[k][i] \in Units
  BY <1>1
<1>5. Heard(k) \subseteq Units /\ Unsaid(k) \subseteq Units
  BY <1>2, <1>3, <1>4 DEF Heard, Unsaid
<1>6. \A i \in 1..pos[k], j \in (pos[k] + 1)..Len(Script[k]) : Follows(Script[k][i], Script[k][j])
  <2>1. ASSUME NEW i \in 1..pos[k], NEW j \in (pos[k] + 1)..Len(Script[k])
        PROVE  Follows(Script[k][i], Script[k][j])
    <3>1. i \in DOMAIN Script[k] /\ j \in DOMAIN Script[k] /\ i < j
      BY <1>1
    <3> QED
      BY <3>1 DEF RequestScripts, Follows
  <2> QED
    BY <2>1
<1>7. UnitsOf(conn[k].buffer) \cup InHandData(k) \cup UnitsOf(inbox[k]) \subseteq Heard(k)
  BY DEF OrderInv
<1> QED
  BY <1>5, <1>6, <1>7 DEF Before, Heard, Unsaid, Ahead, Later

\* The count of whole responses only grows.
LEMMA CompleteGrows ==
  ASSUME IInv, NumberKept, EventNumber, [Next]_vars, NEW k \in Clients
  PROVE  Complete(k) \in Nat /\ Complete(k)' \in Nat /\ Complete(k) <= Complete(k)'
<1>0. SentTypes
  BY TypeGroups DEF IInv
<1>1. Complete(k) \in Nat
  BY <1>0, CompleteFacts
<1>2. sent'[k] = sent[k] => Complete(k)' = Complete(k)
  BY DEF Complete, Wholes
<1>3. ASSUME NEW n \in 1..(RespLen - conn[k].offset), Writes(k, n)
      PROVE  Complete(k)' \in {Complete(k), Complete(k) + 1}
  BY <1>3, WriteFacts
<1> QED
  BY <1>1, <1>2, <1>3, OutputCases DEF OutputOf

\* A client starts a request when it has read the responses to all before it.
LEMMA TurnStep ==
  ASSUME IInv, NumberKept, EventNumber, OrderInv, TurnInv, RequestScripts, ~Pipelining,
         [Next]_vars
  PROVE  TurnInv'
<1>0. ClientTypes /\ SentTypes
  BY TypeGroups DEF IInv
<1> SUFFICES ASSUME NEW k \in Clients, NEW v \in Heard(k)' PROVE v.req <= Complete(k)' + 1
  BY DEF TurnInv
<1>1. /\ Complete(k) \in Nat /\ Complete(k)' \in Nat /\ Complete(k) <= Complete(k)'
      /\ Answers(k) \in Nat /\ Answers(k) <= Complete(k)
      /\ Heard(k) \subseteq Units
  BY <1>0, CompleteGrows, CompleteFacts, AheadUnits
<1>2. ASSUME v \in Heard(k) PROVE v.req <= Complete(k)' + 1
  <2>1. v.req <= Complete(k) + 1 /\ v.req \in Nat
    BY <1>1, <1>2 DEF TurnInv, Units
  <2> QED
    BY <1>1, <2>1
<1>3. CASE ClientSend(k)
  <2> DEFINE u == Script[k][pos[k] + 1]
  <2>1. /\ u \in Units /\ Heard(k)' = Heard(k) \cup {u}
        /\ ~u.first => \E w \in Heard(k) : w.req = u.req
        /\ u.first => Answers(k) >= u.req - 1
    BY <1>0, <1>3, SendUnit
  <2> HIDE DEF u
  <2>2. u.req \in Nat
    BY <2>1 DEF Units
  <2>3. ~u.first => u.req <= Complete(k) + 1
    BY <2>1 DEF TurnInv
  <2>4. u.req <= Complete(k)' + 1
    BY <1>1, <2>1, <2>2, <2>3
  <2> QED
    BY <1>2, <2>1, <2>4
<1>4. CASE ~ClientSend(k)
  <2>1. pos'[k] = pos[k]
    BY <1>4, FlowCases DEF FlowOf
  <2> QED
    BY <1>2, <2>1 DEF Heard
<1> QED
  BY <1>3, <1>4

\* A Connection is handed to the pool with a whole request, and nobody empties
\* its buffer but its handler.
LEMMA RequestStep ==
  ASSUME IInv, RequestInv, [Next]_vars
  PROVE  RequestInv'
<1>0. /\ CoreTypes /\ ListTypes /\ ClientTypes /\ SentTypes /\ ControlInv /\ BirthInv /\ HandlerInv
      /\ PendingResponseHasBytes
  BY TypeGroups DEF IInv
<1> SUFFICES ASSUME NEW k \in Clients, Queued(k)' \/ Handled(k)' \/ AtEnqueue(k)'
             PROVE  is_http_request_complete(conn'[k].buffer)
  BY DEF RequestInv, is_http_request_complete
<1>1. CASE AtEnqueue(k)' /\ DataCheck
  <2>1. pc'[Event] = "enqueue" /\ cur'[Event] = k
    BY <1>1 DEF AtEnqueue
  <2> QED
    BY <1>0, <1>1, <2>1, CheckOutcomes DEF CheckOutcome
<1>2. CASE ~(AtEnqueue(k)' /\ DataCheck)
  <2>1. Queued(k) \/ Handled(k) \/ AtEnqueue(k)
    <3>1. ASSUME NEW w \in Workers, TaskBegin(w), k = Head(tasks) PROVE Queued(k)
      <4>1. tasks \in Seq(Clients) /\ tasks # <<>>
        BY <1>0, <3>1 DEF TaskBegin, CoreTypes, MapTypes
      <4> QED
        BY <3>1, <4>1, TailFacts DEF Queued
    <3>2. /\ Queued(k)' => Queued(k) \/ (DataEnqueue /\ AtEnqueue(k))
          /\ Handled(k)' => Handled(k) \/ \E w \in Workers : TaskBegin(w) /\ k = Head(tasks)
          /\ AtEnqueue(k)' => AtEnqueue(k) \/ (DataCheck /\ cur[Event] = k)
      BY <1>0, PlaceCases
    <3> QED
      BY <1>2, <3>1, <3>2
  <2>2. is_http_request_complete(conn[k].buffer)
    BY <2>1 DEF RequestInv
  <2>3. CASE conn'[k].buffer = conn[k].buffer
    BY <2>2, <2>3
  <2>4. CASE conn'[k].buffer = conn[k].buffer \o data
    <3>1. conn[k].buffer \in Seq(Units) /\ data \in Seq(Units)
      BY <1>0 DEF CoreTypes, ConnType, Connections, ClientTypes
    <3>2. \A i \in DOMAIN conn[k].buffer :
            /\ i \in DOMAIN (conn[k].buffer \o data)
            /\ (conn[k].buffer \o data)[i] = conn[k].buffer[i]
      BY <3>1
    <3> QED
      BY <2>2, <2>4, <3>2 DEF is_http_request_complete
  <2>5. CASE AcceptInsert /\ k = cur[Event]
    <3>1. Unborn(k)
      BY <2>5 DEF AcceptInsert, Unborn, Accepting
    <3>2. ~AtEnqueue(k)
      BY <2>5 DEF AcceptInsert, AtEnqueue
    <3> QED
      BY <1>0, <2>1, <3>1, <3>2 DEF BirthInv, Known
  <2>6. ASSUME NEW w \in Workers, RequestFinish(w), cur[w] = k PROVE FALSE
    <3>1. /\ pc[w] = "finish" /\ pc' = [pc EXCEPT ![w] = "idle"]
          /\ UNCHANGED <<tasks, cur>>
      BY <2>6 DEF RequestFinish, Goto
    <3>2. ~Queued(k) /\ ~AtEnqueue(k) /\ \A v \in Workers : pc[v] # "idle" /\ cur[v] = k => v = w
      <4>1. Handled(k)
        BY <2>6, <3>1 DEF Handled
      <4> QED
        BY <1>0, <2>6, <3>1, <4>1 DEF HandlerInv, AtEnqueue
    <3>3. pc'[w] = "idle" /\ \A t \in Threads \ {w} : pc'[t] = pc[t]
      BY <1>0, <3>1 DEF CoreTypes, ControlTypes, Threads
    <3>4. Event \in Threads \ {w} /\ Workers \subseteq Threads
      BY <2>6, ServerAssumption DEF Threads
    <3>5. ~Queued(k)' /\ ~AtEnqueue(k)'
      BY <3>1, <3>2, <3>3, <3>4 DEF Queued, AtEnqueue
    <3>6. ~Handled(k)'
      BY <3>1, <3>2, <3>3, <3>4 DEF Handled
    <3> QED
      BY <3>5, <3>6
  <2> QED
    BY <2>3, <2>4, <2>5, <2>6, BufferCases
<1> QED
  BY <1>1, <1>2

\* What a worker has parsed stays in the buffer until it empties it.
LEMMA ReplyStep ==
  ASSUME IInv, ReplyInv, [Next]_vars
  PROVE  ReplyInv'
<1>0. /\ CoreTypes /\ ListTypes /\ ClientTypes /\ SentTypes /\ ReplyTypes /\ ControlInv /\ BirthInv
      /\ HandlerInv /\ PendingResponseHasBytes
  BY TypeGroups DEF IInv
<1> SUFFICES ASSUME NEW w \in Workers, pc'[w] \in ReplyPC
             PROVE  reply'[w] = BadRequest \/ reply'[w] \in UnitsOf(conn'[cur'[w]].buffer)
  BY DEF ReplyInv, UnitsOf
<1>1. CASE RequestParse(w)
  <2> DEFINE b == conn[cur[w]].buffer
  <2>1. cur[w] \in Clients /\ UNCHANGED <<conn, cur>> /\ reply' = [reply EXCEPT ![w] = Parse(b)]
    BY <1>0, <1>1 DEF RequestParse, ControlInv, serverVars
  <2>2. b \in Seq(Units)
    BY <1>0, <2>1 DEF CoreTypes, ConnType, Connections
  <2>3. reply'[w] = Parse(b)
    <3> HIDE DEF b
    <3> QED
      BY <1>0, <2>1 DEF ReplyTypes
  <2> HIDE DEF b
  <2>4. Parse(b) = BadRequest \/ Parse(b) \in UnitsOf(b)
    BY <2>2 DEF Parse, UnitsOf
  <2> QED
    BY <2>1, <2>3, <2>4 DEF b
<1>2. CASE ~RequestParse(w)
  <2> DEFINE k == cur[w]
  <2>1. pc[w] \in ReplyPC /\ cur'[w] = k
    BY <1>0, <1>2, FlowMovesCases DEF FlowMoves
  <2>2. reply'[w] = reply[w]
    <3>1. ASSUME NEW v \in Workers, RequestParse(v) PROVE reply'[w] = reply[w]
      BY <1>0, <1>2, <3>1 DEF RequestParse, ReplyTypes
    <3> QED
      BY <3>1, ReplyFrame
  <2>3. k \in Clients /\ pc[w] \notin {"idle", "finish"}
    BY <1>0, <2>1 DEF ControlInv, ReplyPC, SharedPC
  <2>4. reply[w] = BadRequest \/ reply[w] \in UnitsOf(conn[k].buffer)
    BY <2>1 DEF ReplyInv
  <2> HIDE DEF k
  <2>5. CASE conn'[k].buffer = conn[k].buffer
    BY <2>1, <2>2, <2>4, <2>5
  <2>6. CASE conn'[k].buffer = conn[k].buffer \o data
    <3>1. conn[k].buffer \in Seq(Units) /\ data \in Seq(Units)
      BY <1>0, <2>3 DEF CoreTypes, ConnType, Connections, ClientTypes
    <3>2. \A i \in DOMAIN conn[k].buffer :
            /\ i \in DOMAIN (conn[k].buffer \o data)
            /\ (conn[k].buffer \o data)[i] = conn[k].buffer[i]
      BY <3>1
    <3>3. UnitsOf(conn[k].buffer) \subseteq UnitsOf(conn[k].buffer \o data)
      BY <3>2 DEF UnitsOf
    <3> QED
      BY <2>1, <2>2, <2>4, <2>6, <3>3
  <2>7. CASE AcceptInsert /\ k = cur[Event]
    <3>1. Unborn(k)
      BY <2>7 DEF AcceptInsert, Unborn, Accepting
    <3>2. Handled(k)
      BY <2>3 DEF Handled, k
    <3> QED
      BY <1>0, <2>3, <3>1, <3>2 DEF BirthInv, Known
  <2>8. ASSUME NEW v \in Workers, RequestFinish(v), cur[v] = k PROVE FALSE
    <3>1. pc[v] = "finish"
      BY <2>8 DEF RequestFinish
    <3>2. v = w
      BY <1>0, <2>3, <2>8, <3>1 DEF HandlerInv, k
    <3> QED
      BY <2>3, <3>1, <3>2
  <2> QED
    BY <2>3, <2>5, <2>6, <2>7, <2>8, BufferCases
<1> QED
  BY <1>1, <1>2

\* A worker that publishes has emptied the buffer of every request answered
\* before, so the client has read all those responses: none is pending, and what
\* the buffer holds is of the request after those.
LEMMA PublishReady ==
  ASSUME IInv, StreamInv, RequestScripts, NEW w \in Workers, RequestPublish(w)
  PROVE  /\ ~Owed(cur[w]) /\ ~Answering(cur[w])
         /\ \A v \in Buffered(cur[w]) : v.req = Complete(cur[w]) + 1
<1>0. CoreTypes /\ ClientTypes /\ SentTypes /\ ControlInv /\ HandlerInv
  BY TypeGroups DEF IInv
<1> DEFINE k == cur[w]
<1>1. pc[w] = "publish" /\ k \in Clients
  BY <1>0 DEF RequestPublish, ControlInv
<1>2. ~Answering(k)
  BY <1>0, <1>1 DEF Answering, AnsweringPC, SharedPC, HandlerInv
<1>3. is_http_request_complete(conn[k].buffer)
  BY <1>1 DEF StreamInv, RequestInv, Handled
<1>4. PICK i \in DOMAIN conn[k].buffer : TRUE
  BY <1>3 DEF is_http_request_complete
<1>5. conn[k].buffer[i] \in Buffered(k)
  BY <1>4 DEF Buffered, UnitsOf
<1>6. Complete(k) \in Nat
  BY <1>0, <1>1, CompleteFacts
<1>7. ASSUME NEW u \in Buffered(k)
      PROVE  u.req \in Nat /\ u.req > Published(k) /\ u.req <= Complete(k) + 1
  <2>1. u \in Ahead(k) /\ u \in Heard(k)
    BY <1>1, <1>7 DEF Buffered, Ahead, StreamInv, OrderInv
  <2>2. u.req > Published(k)
    BY <1>1, <1>2, <2>1 DEF StreamInv, AnswerInv
  <2>3. u.req <= Complete(k) + 1
    BY <1>1, <2>1 DEF StreamInv, TurnInv
  <2>4. u \in Units
    BY <1>0, <1>1, <2>1, AheadUnits DEF StreamInv
  <2> QED
    BY <2>2, <2>3, <2>4 DEF Units
<1>8. Published(k) # Complete(k) + 1
  BY <1>5, <1>6, <1>7
<1>9. ~Owed(k) /\ Published(k) = Complete(k)
  BY <1>8 DEF Published
<1>10. ASSUME NEW u \in Buffered(k) PROVE u.req = Complete(k) + 1
  BY <1>6, <1>7, <1>9, <1>10
<1> QED
  BY <1>2, <1>9, <1>10

\* A response starts where the one before it ended and goes on where it stopped.
LEMMA PositionStep ==
  ASSUME IInv, NumberKept, EventNumber, StreamInv, RequestScripts, [Next]_vars
  PROVE  PositionInv'
<1>0. CoreTypes /\ SentTypes
  BY TypeGroups DEF IInv
<1> SUFFICES ASSUME NEW k \in Clients, conn'[k].has_pending_write
             PROVE  IF conn'[k].offset = 0 THEN AtBoundary(k)'
                    ELSE /\ sent'[k] # <<>>
                         /\ sent'[k][Len(sent'[k])].off = conn'[k].offset
                         /\ sent'[k][Len(sent'[k])].req = conn'[k].pending.req
  BY DEF PositionInv
<1>1. conn[k].has_pending_write =>
        IF conn[k].offset = 0 THEN AtBoundary(k)
        ELSE /\ sent[k] # <<>>
             /\ sent[k][Len(sent[k])].off = conn[k].offset
             /\ sent[k][Len(sent[k])].req = conn[k].pending.req
  BY DEF StreamInv, PositionInv
<1>2. sent'[k] = sent[k] => (AtBoundary(k)' <=> AtBoundary(k))
  BY DEF AtBoundary
<1>3. CASE sent'[k] = sent[k] /\ SameOutput(conn'[k], conn[k])
  BY <1>1, <1>2, <1>3 DEF SameOutput
<1>4. ASSUME sent'[k] = sent[k], conn'[k].offset = 0,
             NEW w \in Workers, RequestPublish(w), cur[w] = k
      PROVE  AtBoundary(k)'
  BY <1>2, <1>4, PublishReady DEF Owed
<1>5. ASSUME NEW n \in 1..(RespLen - conn[k].offset), Writes(k, n)
      PROVE  /\ conn'[k].offset # 0 /\ sent'[k] # <<>>
             /\ sent'[k][Len(sent'[k])].off = conn'[k].offset
             /\ sent'[k][Len(sent'[k])].req = conn'[k].pending.req
  <2>1. conn[k] \in Connections /\ conn[k].offset \in Nat /\ n \in Nat /\ n \in 1..n /\ n >= 1
    BY <1>0, <1>5, ServerAssumption DEF CoreTypes, ConnType, Connections
  <2>2. conn'[k] = AfterSend(conn[k], n)
    BY <1>5 DEF Writes
  <2>3. conn[k].offset + n < RespLen
    BY <2>1, <2>2, AfterSendFields
  <2>4. conn'[k].offset = conn[k].offset + n /\ conn'[k].pending = conn[k].pending
    BY <2>1, <2>2, <2>3, AfterSendFields
  <2>5. /\ sent'[k] # <<>> /\ Len(sent'[k]) = Len(sent[k]) + n
        /\ sent'[k][Len(sent[k]) + n].off = conn[k].offset + n
        /\ sent'[k][Len(sent[k]) + n].req = conn[k].pending.req
    BY <1>5, <2>1, WriteFacts
  <2>6. conn'[k].offset # 0
    BY <2>1, <2>4
  <2> QED
    BY <2>4, <2>5, <2>6
<1> QED
  BY <1>3, <1>4, <1>5, OutputCases DEF OutputOf

\* A worker publishes the response to the request after those that are answered.
LEMMA TagStep ==
  ASSUME IInv, NumberKept, EventNumber, StreamInv, RequestScripts, [Next]_vars
  PROVE  TagInv'
<1>0. CoreTypes /\ SentTypes /\ ControlInv
  BY TypeGroups DEF IInv
<1> SUFFICES ASSUME NEW k \in Clients, conn'[k].has_pending_write
             PROVE  conn'[k].pending.req \in {BadRequest.req, Complete(k)' + 1}
  BY DEF TagInv
<1>1. conn[k].has_pending_write => conn[k].pending.req \in {BadRequest.req, Complete(k) + 1}
  BY DEF StreamInv, TagInv
<1>2. sent'[k] = sent[k] => Complete(k)' = Complete(k)
  BY DEF Complete, Wholes
<1>3. CASE sent'[k] = sent[k] /\ SameOutput(conn'[k], conn[k])
  BY <1>1, <1>2, <1>3 DEF SameOutput
<1>4. ASSUME sent'[k] = sent[k], NEW w \in Workers, RequestPublish(w), cur[w] = k
      PROVE  conn'[k].pending.req \in {BadRequest.req, Complete(k)' + 1}
  <2>1. conn'[k].pending = reply[w]
    BY <1>0, <1>4, RequestOutcomes
  <2>2. reply[w] = BadRequest \/ reply[w] \in Buffered(k)
    BY <1>4 DEF StreamInv, ReplyInv, ReplyPC, RequestPublish, Buffered
  <2>3. \A v \in Buffered(k) : v.req = Complete(k) + 1
    BY <1>4, PublishReady
  <2>4. reply[w].req \in {BadRequest.req, Complete(k) + 1}
    BY <2>2, <2>3, Zenon
  <2> QED
    BY <1>2, <1>4, <2>1, <2>4
<1>5. ASSUME NEW n \in 1..(RespLen - conn[k].offset), Writes(k, n)
      PROVE  conn'[k].pending.req \in {BadRequest.req, Complete(k)' + 1}
  <2>1. conn[k] \in Connections /\ conn[k].offset \in Nat /\ n \in Nat
    BY <1>0, <1>5, ServerAssumption DEF CoreTypes, ConnType, Connections
  <2>2. conn'[k] = AfterSend(conn[k], n) /\ conn[k].has_pending_write
    BY <1>5 DEF Writes
  <2>3. conn[k].offset + n < RespLen
    BY <2>1, <2>2, AfterSendFields
  <2>4. conn'[k].pending = conn[k].pending
    BY <2>1, <2>2, <2>3, AfterSendFields
  <2>5. Complete(k)' = Complete(k)
    BY <1>5, <2>3, WriteFacts
  <2> QED
    BY <1>1, <2>2, <2>4, <2>5
<1> QED
  BY <1>3, <1>4, <1>5, OutputCases DEF OutputOf

\* Where units are written, the responses before them are those that were whole.
LEMMA AnsweredStep ==
  ASSUME IInv, NEW k \in Clients, NEW n \in 1..(RespLen - conn[k].offset), Writes(k, n),
         NEW i \in 1..(Len(sent[k]) + n)
  PROVE  Answered(k, i)' = IF i \in 1..Len(sent[k]) THEN Answered(k, i) ELSE Wholes(k)
<1>0. CoreTypes /\ SentTypes
  BY TypeGroups DEF IInv
<1> DEFINE q == sent[k]
           v == sent'[k]
           o == conn[k].offset
           l == Len(sent[k])
<1>1. /\ o \in Nat /\ n \in Nat /\ n >= 1 /\ o + n <= RespLen /\ RespLen \in Nat /\ l \in Nat
      /\ i \in 1..(l + n)
  BY <1>0, ServerAssumption DEF CoreTypes, ConnType, Connections, SentTypes
<1>2. /\ \A m \in 1..l : v[m] = q[m]
      /\ \A j \in 1..n : v[l + j].off = o + j
  BY WriteFacts
<1>3. Answered(k, i)' = {m \in 1..(i - 1) : v[m].off = RespLen}
  BY DEF Answered
<1>4. Answered(k, i) = {m \in 1..(i - 1) : q[m].off = RespLen}
  BY DEF Answered
<1>5. Wholes(k) = {m \in 1..l : q[m].off = RespLen}
  BY DEF Wholes
<1> HIDE DEF q, v, o, l
<1>6. CASE i \in 1..l
  <2>1. \A m \in 1..(i - 1) : m \in 1..l
    BY <1>1, <1>6
  <2>2. Answered(k, i)' = Answered(k, i)
    BY <1>2, <1>3, <1>4, <2>1
  <2> QED
    BY <1>6, <2>2 DEF l
<1>7. CASE i \notin 1..l
  <2>1. 1..l \subseteq 1..(i - 1)
    BY <1>1, <1>7
  <2>2. ASSUME NEW m \in 1..(i - 1), m \notin 1..l PROVE v[m].off # RespLen
    <3> DEFINE j == m - l
    <3>1. j \in 1..n /\ m = l + j /\ o + j # RespLen
      BY <1>1, <1>7, <2>2
    <3> HIDE DEF j
    <3> QED
      BY <1>2, <3>1
  <2>3. Answered(k, i)' = Wholes(k)
    BY <1>2, <1>3, <1>5, <2>1, <2>2
  <2> QED
    BY <1>7, <2>3 DEF l
<1> QED
  BY <1>6, <1>7

\* So what is written goes on with the stream, each response with the tag of the
\* request that is due.
LEMMA WholeStep ==
  ASSUME IInv, NumberKept, EventNumber, StreamInv, [Next]_vars
  PROVE  StreamIsWhole'
<1>0. CoreTypes /\ SentTypes
  BY TypeGroups DEF IInv
<1> SUFFICES ASSUME NEW k \in Clients, NEW i \in DOMAIN sent'[k]
             PROVE  /\ i = 1 => sent'[k][i].off = 1
                    /\ i > 1 => \/ sent'[k][i - 1].off = RespLen /\ sent'[k][i].off = 1
                                \/ /\ sent'[k][i - 1].off + 1 = sent'[k][i].off
                                   /\ sent'[k][i - 1].req = sent'[k][i].req
                    /\ sent'[k][i].req \in {BadRequest.req, Cardinality(Answered(k, i)') + 1}
  BY DEF StreamIsWhole, Answered
<1>1. CASE sent'[k] = sent[k]
  <2>1. Answered(k, i)' = Answered(k, i)
    BY <1>1 DEF Answered
  <2>2. /\ i = 1 => sent[k][i].off = 1
        /\ i > 1 => \/ sent[k][i - 1].off = RespLen /\ sent[k][i].off = 1
                    \/ /\ sent[k][i - 1].off + 1 = sent[k][i].off
                       /\ sent[k][i - 1].req = sent[k][i].req
        /\ sent[k][i].req \in {BadRequest.req, Cardinality(Answered(k, i)) + 1}
    BY <1>1 DEF StreamInv, StreamIsWhole
  <2> QED
    BY <1>1, <2>1, <2>2
<1>2. ASSUME NEW n \in 1..(RespLen - conn[k].offset), Writes(k, n)
      PROVE  /\ i = 1 => sent'[k][i].off = 1
             /\ i > 1 => \/ sent'[k][i - 1].off = RespLen /\ sent'[k][i].off = 1
                         \/ /\ sent'[k][i - 1].off + 1 = sent'[k][i].off
                            /\ sent'[k][i - 1].req = sent'[k][i].req
             /\ sent'[k][i].req \in {BadRequest.req, Cardinality(Answered(k, i)') + 1}
  <2> DEFINE q == sent[k]
             v == sent'[k]
             o == conn[k].offset
             r == conn[k].pending.req
             l == Len(sent[k])
  <2>1. /\ v # <<>> /\ Len(v) = l + n /\ q \in Seq(ResponseUnits)
        /\ \A m \in 1..l : v[m] = q[m]
        /\ \A j \in 1..n : v[l + j].off = o + j /\ v[l + j].req = r
    BY <1>2, WriteFacts
  <2>2. /\ o \in Nat /\ n \in Nat /\ n >= 1 /\ o + n <= RespLen /\ RespLen \in Nat /\ l \in Nat
        /\ DOMAIN q = 1..l
    BY <1>0, <1>2, <2>1, ServerAssumption DEF CoreTypes, ConnType, Connections
  <2>3. v \in Seq(ResponseUnits)
    <3>1. v = q \o SubSeq(Remaining(k), 1, n)
      BY <1>2 DEF Writes
    <3> QED
      BY <1>0, <2>1, <3>1, RemainingUnits, ConcatFacts
  <2>4. IF o = 0 THEN q = <<>> \/ q[l].off = RespLen
        ELSE q # <<>> /\ q[l].off = o /\ q[l].req = r
    BY <1>2 DEF StreamInv, PositionInv, AtBoundary, Writes
  <2>5. \A m \in DOMAIN q :
          /\ m = 1 => q[m].off = 1
          /\ m > 1 => \/ q[m - 1].off = RespLen /\ q[m].off = 1
                      \/ q[m - 1].off + 1 = q[m].off /\ q[m - 1].req = q[m].req
          /\ q[m].req \in {BadRequest.req, Cardinality(Answered(k, m)) + 1}
    BY DEF StreamInv, StreamIsWhole
  <2>6. i \in 1..(l + n) /\ (q = <<>> <=> l = 0)
    BY <2>1, <2>3
  <2>a. /\ r \in {BadRequest.req, Cardinality(Wholes(k)) + 1}
        /\ Answered(k, i)' = IF i \in 1..l THEN Answered(k, i) ELSE Wholes(k)
    <3>1. r \in {BadRequest.req, Cardinality(Wholes(k)) + 1}
      BY <1>2 DEF StreamInv, TagInv, Complete, Writes
    <3> QED
      BY <1>2, <2>6, <3>1, AnsweredStep
  <2> HIDE DEF q, v, o, r, l
  <2>7. CASE i \in 1..l
    <3>1. v[i] = q[i] /\ (i > 1 => i - 1 \in 1..l /\ v[i - 1] = q[i - 1])
      BY <2>1, <2>2, <2>7
    <3> QED
      BY <2>2, <2>5, <2>7, <2>a, <3>1 DEF v
  <2>8. CASE i = l + 1
    <3>1. v[i].off = o + 1 /\ v[i].req = r /\ 1 \in 1..n
      BY <2>1, <2>2, <2>8
    <3>2. i = 1 => q = <<>>
      BY <2>2, <2>6, <2>8
    <3>3. i > 1 => i - 1 = l /\ q # <<>> /\ v[i - 1] = q[l]
      BY <2>1, <2>2, <2>6, <2>8
    <3>4. i = 1 => v[i].off = 1
      BY <2>2, <2>4, <3>1, <3>2
    <3>5. i > 1 => \/ v[i - 1].off = RespLen /\ v[i].off = 1
                   \/ v[i - 1].off + 1 = v[i].off /\ v[i - 1].req = v[i].req
      BY <2>2, <2>4, <3>1, <3>3
    <3> QED
      BY <2>2, <2>8, <2>a, <3>1, <3>4, <3>5 DEF v
  <2>9. CASE i \notin 1..l /\ i # l + 1
    <3> DEFINE j == i - l
    <3>1. j \in 1..n /\ j - 1 \in 1..n /\ i = l + j /\ i - 1 = l + (j - 1) /\ i # 1
      BY <2>2, <2>6, <2>9
    <3>2. v[i].off = o + j /\ v[i - 1].off = o + (j - 1) /\ v[i].req = r /\ v[i - 1].req = r
      <4> HIDE DEF j
      <4> QED
        BY <2>1, <3>1
    <3>3. v[i - 1].off + 1 = v[i].off
      BY <2>2, <3>1, <3>2
    <3> QED
      BY <2>9, <2>a, <3>1, <3>2, <3>3 DEF v
  <2> QED
    BY <2>7, <2>8, <2>9
<1> QED
  BY <1>1, <1>2, OutputCases DEF OutputOf

\* No more responses are published to a client, except where a worker publishes.
LEMMA PublishedCases ==
  ASSUME IInv, NumberKept, EventNumber, [Next]_vars, NEW k \in Clients,
         ~\E w \in Workers : RequestPublish(w) /\ cur[w] = k
  PROVE  Published(k)' <= Published(k) /\ Published(k) \in Nat /\ Published(k)' \in Nat
<1>0. CoreTypes /\ SentTypes
  BY TypeGroups DEF IInv
<1>1. Complete(k) \in Nat /\ Complete(k)' \in Nat
  BY CompleteGrows
<1>2. Published(k) \in Nat /\ Published(k)' \in Nat
  BY <1>1 DEF Published
<1>3. CASE sent'[k] = sent[k] /\ (conn'[k].has_pending_write => conn[k].has_pending_write)
  <2>1. Complete(k)' = Complete(k) /\ (AtBoundary(k)' <=> AtBoundary(k))
    BY <1>3 DEF Complete, Wholes, AtBoundary
  <2>2. Owed(k)' => Owed(k)
    BY <1>3, <2>1 DEF Owed
  <2> QED
    BY <1>1, <1>2, <2>1, <2>2 DEF Published
<1>4. ASSUME NEW n \in 1..(RespLen - conn[k].offset), Writes(k, n)
      PROVE  Published(k)' <= Published(k)
  <2>1. Published(k) = Complete(k) + 1
    BY <1>4 DEF Published, Owed, Writes
  <2>2. /\ conn[k] \in Connections /\ n \in Nat /\ n \in 1..n /\ conn[k].offset \in Nat
        /\ RespLen \in Nat /\ conn[k].offset + n <= RespLen
    BY <1>0, <1>4, ServerAssumption DEF CoreTypes, ConnType, Connections
  <2>3. CASE conn[k].offset + n < RespLen
    <3>1. Complete(k)' = Complete(k)
      BY <1>4, <2>3, WriteFacts
    <3> QED
      BY <1>1, <2>1, <3>1 DEF Published
  <2>4. CASE ~(conn[k].offset + n < RespLen)
    <3>1. Complete(k)' = Complete(k) + 1 /\ sent'[k] # <<>> /\ Len(sent'[k]) = Len(sent[k]) + n
          /\ sent'[k][Len(sent[k]) + n].off = conn[k].offset + n
      BY <1>4, <2>2, <2>4, WriteFacts
    <3>2. AtBoundary(k)'
      <4>1. conn[k].offset + n = RespLen
        BY <2>2, <2>4
      <4>2. sent'[k][Len(sent'[k])].off = RespLen
        BY <3>1, <4>1, Zenon
      <4> QED
        BY <4>2, Zenon DEF AtBoundary
    <3>3. ~conn'[k].has_pending_write
      BY <1>4, <2>2, <2>4, AfterSendFields DEF Writes
    <3>4. Published(k)' = Complete(k)'
      BY <3>2, <3>3 DEF Published, Owed
    <3> QED
      BY <1>1, <2>1, <3>1, <3>4
  <2> QED
    BY <2>3, <2>4
<1> QED
  BY <1>2, <1>3, <1>4, OutputCases DEF OutputOf, SameOutput

\* Units only go from what is still to come to the buffer and out of it.
LEMMA AheadShrinks ==
  ASSUME IInv, EventNumber, RequestScripts, [Next]_vars, NEW k \in Clients
  PROVE  Ahead(k)' \subseteq Ahead(k) /\ Later(k)' \subseteq Later(k)
<1>0. ClientTypes
  BY TypeGroups DEF IInv
<1>1. /\ Later(k)' = InHandData(k)' \cup UnitsOf(inbox'[k]) \cup Unsaid(k)'
      /\ Ahead(k)' = Buffered(k)' \cup Later(k)'
  BY DEF Ahead, Later, Buffered, UnitsOf
<1>2. /\ Later(k) = InHandData(k) \cup UnitsOf(inbox[k]) \cup Unsaid(k)
      /\ Ahead(k) = Buffered(k) \cup Later(k)
  BY DEF Ahead, Later, Buffered
<1>3. pos'[k] = pos[k] => Unsaid(k)' = Unsaid(k)
  BY DEF Unsaid
<1>4. inbox'[k] = inbox[k] => UnitsOf(inbox'[k]) = UnitsOf(inbox[k])
  OBVIOUS
<1>5. CASE ClientSend(k) /\ Buffered(k)' = Buffered(k) /\ InHandData(k)' = InHandData(k)
  <2> DEFINE u == Script[k][pos[k] + 1]
  <2>1. u \in Unsaid(k) /\ Unsaid(k)' \subseteq Unsaid(k)
        /\ UnitsOf(inbox'[k]) = UnitsOf(inbox[k]) \cup {u}
    BY <1>0, <1>5, SendUnit
  <2> HIDE DEF u
  <2> QED
    BY <1>1, <1>2, <1>5, <2>1
<1>6. ASSUME \E n \in 0..Len(inbox[k]) :
               /\ InHandData(k)' = UnitsOf(SubSeq(inbox[k], 1, n))
               /\ inbox'[k] = SubSeq(inbox[k], n + 1, Len(inbox[k]))
      PROVE  InHandData(k)' \cup UnitsOf(inbox'[k]) \subseteq UnitsOf(inbox[k])
  <2>1. PICK n \in 0..Len(inbox[k]) :
             /\ InHandData(k)' = UnitsOf(SubSeq(inbox[k], 1, n))
             /\ inbox'[k] = SubSeq(inbox[k], n + 1, Len(inbox[k]))
    BY <1>6
  <2> DEFINE p == SubSeq(inbox[k], 1, n)
             r == SubSeq(inbox[k], n + 1, Len(inbox[k]))
  <2>2. inbox[k] \in Seq(Units)
    BY <1>0 DEF ClientTypes
  <2>3. /\ \A i \in DOMAIN p : i \in DOMAIN inbox[k] /\ p[i] = inbox[k][i]
        /\ \A i \in DOMAIN r : i + n \in DOMAIN inbox[k] /\ r[i] = inbox[k][i + n]
    BY <2>2, SplitFacts
  <2> HIDE DEF p, r
  <2>4. UnitsOf(p) \subseteq UnitsOf(inbox[k]) /\ UnitsOf(r) \subseteq UnitsOf(inbox[k])
    BY <2>3 DEF UnitsOf
  <2> QED
    BY <2>1, <2>4 DEF p, r
<1>7. FlowOf(k)
  BY FlowCases
<1>8. CASE /\ Buffered(k)' \subseteq Buffered(k) \cup InHandData(k)
           /\ InHandData(k)' \subseteq InHandData(k)
           /\ inbox'[k] = inbox[k] /\ pos'[k] = pos[k]
  BY <1>1, <1>2, <1>3, <1>4, <1>8
<1>9. CASE /\ Buffered(k)' = Buffered(k) /\ InHandData(k) = {} /\ pos'[k] = pos[k]
           /\ InHandData(k)' \cup UnitsOf(inbox'[k]) \subseteq UnitsOf(inbox[k])
  BY <1>1, <1>2, <1>3, <1>9
<1> QED
  BY <1>5, <1>6, <1>7, <1>8, <1>9 DEF FlowOf

\* What is still to come is about requests later than any that a response was
\* published to: the buffer is emptied of a request before the next response.
LEMMA AnswerStep ==
  ASSUME IInv, NumberKept, EventNumber, StreamInv, RequestScripts, [Next]_vars
  PROVE  AnswerInv'
<1>0. /\ CoreTypes /\ ListTypes /\ ClientTypes /\ SentTypes /\ ControlInv /\ BirthInv /\ HandlerInv
      /\ PendingResponseHasBytes
  BY TypeGroups DEF IInv
<1> SUFFICES ASSUME NEW k \in Clients, NEW u \in Ahead(k)'
             PROVE  IF Answering(k)' THEN u.req >= Published(k)' ELSE u.req > Published(k)'
  BY DEF AnswerInv
<1>1. u \in Ahead(k) /\ u.req \in Nat
  <2>1. u \in Ahead(k)
    BY AheadShrinks
  <2>2. u \in Units
    BY <1>0, <2>1, AheadUnits DEF StreamInv
  <2> QED
    BY <2>1, <2>2 DEF Units
<1>2. IF Answering(k) THEN u.req >= Published(k) ELSE u.req > Published(k)
  BY <1>1 DEF StreamInv, AnswerInv
<1>3. FlowMoves
  BY <1>0, FlowMovesCases
<1>4. ASSUME NEW w \in Workers, RequestPublish(w), cur[w] = k
      PROVE  Answering(k)' /\ u.req >= Published(k)'
  <2>1. ~Owed(k) /\ ~Answering(k)
    BY <1>4, PublishReady
  <2>2. Answering(k)'
    <3>1. pc'[w] = "send" /\ cur'[w] = k
      BY <1>0, <1>4 DEF RequestPublish, Goto, CoreTypes, ControlTypes, Threads
    <3> QED
      BY <3>1 DEF Answering, AnsweringPC, SharedPC
  <2>3. Complete(k)' = Complete(k)
    BY <1>4 DEF RequestPublish, kernelVars, Complete, Wholes
  <2>4. Complete(k) \in Nat
    BY <1>0, CompleteFacts
  <2> QED
    BY <1>1, <1>2, <2>1, <2>2, <2>3, <2>4 DEF Published
<1>5. ASSUME NEW w \in Workers, RequestFinish(w), cur[w] = k
      PROVE  u.req > Published(k)'
  <2>1. /\ pc[w] = "finish" /\ Answering(k) /\ Handled(k)
        /\ UNCHANGED <<inbox, pos, data, cur, sent>> /\ pc'[Event] = pc[Event]
    BY <1>0, <1>5, ServerAssumption DEF RequestFinish, Goto, CoreTypes, ControlTypes, Threads,
       Answering, AnsweringPC, Handled, kernelVars, clientVars
  <2>2. conn'[k].buffer = <<>> /\ SameOutput(conn'[k], conn[k])
    BY <1>0, <1>5, RequestOutcomes
  <2>3. Published(k)' = Published(k)
    BY <2>1, <2>2 DEF Published, Owed, Complete, Wholes, AtBoundary, SameOutput
  <2>4. u \in Later(k)
    <3>1. UnitsOf(conn'[k].buffer) = {}
      BY <2>2 DEF UnitsOf
    <3>2. u \in Later(k)'
      BY <3>1 DEF Ahead, UnitsOf
    <3> QED
      BY <2>1, <3>2 DEF Later, InHandData, Received, UnitsOf, Unsaid
  <2>5. PICK i \in DOMAIN conn[k].buffer : conn[k].buffer[i].last
    BY <2>1 DEF StreamInv, RequestInv, is_http_request_complete
  <2> DEFINE v == conn[k].buffer[i]
  <2>6. v \in Buffered(k) /\ v \in Ahead(k) /\ v \in Heard(k)
    BY <2>5 DEF Buffered, UnitsOf, Ahead, StreamInv, OrderInv
  <2>7. v.last
    BY <2>5
  <2> HIDE DEF v
  <2>8. v.req >= Published(k)
    BY <2>1, <2>6 DEF StreamInv, AnswerInv
  <2>9. v.req < u.req
    <3>1. CASE u \in Unsaid(k)
      BY <1>0, <2>6, <2>7, <3>1, AheadUnits DEF Before, Follows, StreamInv
    <3>2. CASE u \in InHandData(k) \cup UnitsOf(inbox[k])
      BY <2>6, <2>7, <3>2 DEF Before, Follows, StreamInv, OrderInv, Buffered
    <3> QED
      BY <2>4, <3>1, <3>2 DEF Later
  <2>10. v.req \in Nat /\ Published(k) \in Nat
    <3>1. v \in Units /\ Complete(k) \in Nat
      BY <1>0, <2>6, AheadUnits, CompleteFacts DEF StreamInv
    <3> QED
      BY <3>1 DEF Units, Published
  <2> QED
    BY <1>1, <2>3, <2>8, <2>9, <2>10
<1>6. CASE ~\E w \in Workers : (RequestPublish(w) \/ RequestFinish(w)) /\ cur[w] = k
  <2>1. Published(k)' <= Published(k) /\ Published(k) \in Nat /\ Published(k)' \in Nat
    BY <1>6, PublishedCases
  <2>2. Answering(k)' <=> Answering(k)
    <3>1. ASSUME NEW w \in Workers, pc[w] \in AnsweringPC, cur[w] = k PROVE Answering(k)'
      BY <1>3, <1>6, <3>1 DEF FlowMoves, Answering
    <3>2. ASSUME NEW w \in Workers, pc'[w] \in AnsweringPC, cur'[w] = k PROVE Answering(k)
      <4>1. CASE RequestPublish(w)
        BY <1>6, <3>2, <4>1 DEF RequestPublish
      <4> QED
        BY <1>3, <3>2, <4>1 DEF FlowMoves, Answering
    <3> QED
      BY <3>1, <3>2 DEF Answering
  <2> QED
    BY <1>1, <1>2, <2>1, <2>2
<1>7. ASSUME NEW w \in Workers, RequestFinish(w), cur[w] = k
      PROVE  IF Answering(k)' THEN u.req >= Published(k)' ELSE u.req > Published(k)'
  <2>1. u.req > Published(k)'
    BY <1>5, <1>7
  <2>2. Published(k)' \in Nat
    BY CompleteGrows DEF Published
  <2> QED
    BY <1>1, <2>1, <2>2
<1> QED
  BY <1>4, <1>6, <1>7

\* At the start nothing is sent.
LEMMA StreamInit == Init => StreamInv
<1> SUFFICES ASSUME Init PROVE StreamInv
  OBVIOUS
<1>1. \A k \in Clients : /\ conn[k].buffer = <<>> /\ ~conn[k].has_pending_write
                         /\ inbox[k] = <<>> /\ sent[k] = <<>> /\ pos[k] = 0
  BY DEF Init, NewConnection
<1>2. ~Received /\ pc[Event] # "enqueue" /\ tasks = <<>> /\ \A w \in Workers : pc[w] = "idle"
  BY ServerAssumption DEF Init, Received, Threads
<1>3. ASSUME NEW k \in Clients
      PROVE  /\ Buffered(k) = {} /\ InHandData(k) = {} /\ UnitsOf(inbox[k]) = {} /\ Heard(k) = {}
             /\ Wholes(k) = {} /\ Complete(k) = 0 /\ Published(k) = 0
             /\ ~Answering(k) /\ ~Queued(k) /\ ~Handled(k) /\ ~AtEnqueue(k)
  <2>1. Buffered(k) = {} /\ InHandData(k) = {} /\ UnitsOf(inbox[k]) = {}
    BY <1>1, <1>2 DEF Buffered, InHandData, UnitsOf
  <2>2. Heard(k) = {} /\ Wholes(k) = {}
    BY <1>1 DEF Heard, Wholes
  <2>3. Complete(k) = 0
    BY <2>2, FS_EmptySet DEF Complete
  <2>4. Published(k) = 0
    BY <1>1, <2>3 DEF Published, Owed, AtBoundary
  <2>5. ~Answering(k) /\ ~Queued(k) /\ ~Handled(k) /\ ~AtEnqueue(k)
    BY <1>2 DEF Answering, AnsweringPC, SharedPC, Queued, Handled, AtEnqueue
  <2> QED
    BY <2>1, <2>2, <2>3, <2>4, <2>5
<1>4. OrderInv
  <2>1. ASSUME NEW k \in Clients
        PROVE  /\ pos[k] <= Len(Script[k])
               /\ \A i, j \in DOMAIN inbox[k] : i < j => Follows(inbox[k][i], inbox[k][j])
    <3>1. Script[k] \in Seq(Units) /\ pos[k] = 0 /\ inbox[k] = <<>>
      BY <1>1, ServerAssumption
    <3> QED
      BY <3>1
  <2>2. ASSUME NEW k \in Clients
        PROVE  /\ UnitsOf(conn[k].buffer) = {} /\ InHandData(k) = {} /\ UnitsOf(inbox[k]) = {}
    BY <1>3 DEF Buffered
  <2> QED
    BY <2>1, <2>2 DEF OrderInv, Before
<1>5. TurnInv /\ RequestInv
  BY <1>3 DEF TurnInv, RequestInv
<1>6. AnswerInv
  <2>1. ASSUME NEW k \in Clients, NEW u \in Ahead(k) PROVE u.req > 0
    <3>1. u \in Unsaid(k)
      BY <1>3 DEF Ahead, Later, Buffered
    <3>2. u \in Units
      BY <1>1, <3>1, ServerAssumption DEF Unsaid
    <3> QED
      BY <3>2 DEF Units
  <2> QED
    BY <1>3, <2>1 DEF AnswerInv
<1>7. ReplyInv /\ TagInv /\ PositionInv /\ StreamIsWhole
  BY <1>1, <1>2 DEF ReplyInv, ReplyPC, TagInv, PositionInv, StreamIsWhole
<1> QED
  BY <1>4, <1>5, <1>6, <1>7 DEF StreamInv

\* No step breaks the invariant of the stream.
LEMMA StreamNext ==
  ASSUME ~Pipelining, RequestScripts
  PROVE  IInv /\ NumberKept /\ EventNumber /\ StreamInv /\ [Next]_vars => StreamInv'
<1> SUFFICES ASSUME IInv, NumberKept, EventNumber, StreamInv, [Next]_vars PROVE StreamInv'
  OBVIOUS
<1>1. OrderInv' /\ TurnInv' /\ RequestInv' /\ ReplyInv'
  BY OrderStep, TurnStep, RequestStep, ReplyStep DEF StreamInv
<1>2. AnswerInv' /\ TagInv' /\ PositionInv' /\ StreamIsWhole'
  BY AnswerStep, TagStep, PositionStep, WholeStep
<1> QED
  BY <1>1, <1>2 DEF StreamInv

\* Clients that wait for a response before they send the next request are sent
\* whole responses, one after the other, the n-th to their n-th request, however
\* the event thread and the workers share the writing.
THEOREM StreamWhole ==
  ASSUME ~Pipelining, RequestScripts
  PROVE  Spec /\ []NumberKept => []StreamIsWhole
<1>1. EventNumber /\ StreamInv /\ IInv /\ NumberKept /\ [Next]_vars => (EventNumber /\ StreamInv)'
  BY EventNumberStep, StreamNext
<1>2. Init => EventNumber /\ StreamInv
  BY SendInit, StreamInit
<1>3. StreamInv => StreamIsWhole
  BY DEF StreamInv
<1> QED
  BY <1>1, <1>2, <1>3, ServerInvariance, PTL DEF Spec

-------------------------------------------------------------------------------
(* The order in which mutexes are taken *)

\* The first unit that has not got to the buffer of client k.
NextUnits(k) ==
  IF InHandData(k) # {} THEN {data[1]}
  ELSE IF inbox[k] # <<>> THEN {inbox[k][1]}
  ELSE IF pos[k] < Len(Script[k]) THEN {Script[k][pos[k] + 1]} ELSE {}

\* What client k sends may still get to its buffer.
Reachable(k) == (InMap(k) \/ Unborn(k)) /\ ~(pc[Event] = "oversize" /\ cur[Event] = k)

\* What is in the buffer, or will be first in it, starts a request.
Virgin(k) ==
  IF conn[k].buffer # <<>> THEN conn[k].buffer[1].first
  ELSE Reachable(k) => \A u \in NextUnits(k) : u.first

\* Client k will send nothing more, or only after a response that it will not
\* get; and nobody will handle what it sent.
Silent(k) ==
  /\ \/ Later(k) = {}
     \/ ~conn[k].has_pending_write /\ \A u \in Later(k) : u.req > Complete(k) + 1
  /\ Answering(k) \/ Buffered(k) = {}

\* A Connection that is not kept alive is new and has not been answered, or its
\* client has fallen silent.
KeepInv ==
  /\ \A k \in Clients : Unborn(k) => Buffered(k) = {} /\ ~conn[k].keep_alive
  /\ \A k \in Clients : ~conn[k].keep_alive => Silent(k) \/ (~Answering(k) /\ Virgin(k))
  /\ \A w \in Workers :
       /\ pc[w] = "keep" => /\ conn[cur[w]].buffer[1].first
                            /\ ~reply[w].keep => Later(cur[w]) = {}
       /\ pc[w] \in {"answer", "publish"} /\ ~conn[cur[w]].keep_alive => Later(cur[w]) = {}
       /\ pc[w] \in ClosePC => ~conn[cur[w]].keep_alive

\* The mutex of a Connection is held by a thread that is at work on it; a worker
\* closes the descriptor of the Connection it sent to, and the event thread
\* receives from that of the Connection it found.
HoldPC == {"arm", "disarm", "datacheck", "oversize", "oversizeclose"}
MutexInv ==
  /\ \A k \in Clients :
       conn_mutex[k] # None => pc[conn_mutex[k]] \in HoldPC /\ cur[conn_mutex[k]] = k
  /\ \A w \in Workers : pc[w] \in ClosePC \cup {"arm", "disarm"} => cfd[w] = conn[cur[w]].fd
  /\ pc[Event] \in {"recv", "datalock", "datacheck"} => cfd[Event] = conn[cur[Event]].fd

\* A Connection that is out of the map while the event thread receives from it
\* was closed by the worker that answers it; and who abandons a request found
\* its Connection out of the map.
GoneInv ==
  /\ Received => data # <<>>
  /\ \A w \in Workers : pc[w] = "abandon" => connections[conn[cur[w]].fd] = None
  /\ pc[Event] \in {"recv", "datalock", "datacheck"} /\ connections[cfd[Event]] = None =>
       /\ ~Queued(cur[Event])
       /\ \A w \in Workers : cur[w] = cur[Event] => pc[w] \in AnsweringPC \cup {"idle"}
  /\ pc[Event] = "oversize" =>
       \A w \in Workers : cur[w] = cur[Event] => pc[w] \notin {"close", "erase"}
  /\ pc[Event] = "scan" => scan \subseteq Mapped

CycleInv == KeepInv /\ MutexInv /\ GoneInv

\* How a thread comes to where the invariant says something about it.
PlaceMoves ==
  /\ \A w \in Workers :
       /\ pc'[w] = "keep" =>
            (pc[w] = "keep" /\ cur'[w] = cur[w] /\ reply'[w] = reply[w]) \/ RequestParse(w)
       /\ pc'[w] \in {"answer", "publish"} =>
            \/ pc[w] \in {"answer", "publish"} /\ cur'[w] = cur[w]
            \/ RequestParse(w) \/ RequestKeepAlive(w)
       /\ pc'[w] = "abandon" => (pc[w] = "abandon" /\ cur'[w] = cur[w]) \/ RequestPresent(w)
       /\ pc'[w] \in ClosePC =>
            (pc[w] \in ClosePC /\ cur'[w] = cur[w]) \/ SendBegin(w) \/ SendDisarm(w)
       /\ pc'[w] \in ClosePC \cup {"arm", "disarm"} =>
            \/ /\ pc[w] \in ClosePC \cup {"arm", "disarm"}
               /\ cur'[w] = cur[w] /\ cfd'[w] = cfd[w]
            \/ SendBegin(w)
       /\ pc'[w] \in {"close", "erase"} =>
            \/ pc[w] \in {"close", "erase"} /\ cur'[w] = cur[w]
            \/ SendBegin(w) \/ SendDisarm(w)
       /\ pc'[w] # "idle" => (pc[w] # "idle" /\ cur'[w] = cur[w]) \/ TaskBegin(w)
       /\ cur'[w] = cur[w] \/ TaskBegin(w)
  /\ pc'[Event] \in {"recv", "datalock", "datacheck"} =>
       \/ /\ pc[Event] \in {"recv", "datalock", "datacheck"}
          /\ cur'[Event] = cur[Event] /\ cfd'[Event] = cfd[Event]
       \/ DataLookup
  /\ pc'[Event] = "oversize" => (pc[Event] = "oversize" /\ cur'[Event] = cur[Event]) \/ DataCheck
  /\ pc[Event] = "oversize" => (pc'[Event] = "oversize" /\ cur'[Event] = cur[Event]) \/ DataOversize
  /\ pc'[Event] = "scan" => (pc[Event] = "scan" /\ scan' \subseteq scan) \/ CleanupBegin
  /\ \A t \in Threads : pc[t] \in HoldPC =>
       \/ pc'[t] \in HoldPC /\ cur'[t] = cur[t]
       \/ SendArm(t) \/ SendDisarm(t)
       \/ t = Event /\ (DataCheck \/ DataOversizeClose)

\* Every step moves the threads only in those ways.
LEMMA PlaceMovesCases == CoreTypes /\ ListTypes /\ SentTypes /\ ControlInv /\ BirthInv /\
  PendingResponseHasBytes /\ [Next]_vars => PlaceMoves
<1> SUFFICES ASSUME CoreTypes, ListTypes, SentTypes, ControlInv, BirthInv,
  PendingResponseHasBytes, [Next]_vars PROVE PlaceMoves
  OBVIOUS
<1> USE ServerAssumption DEF Threads, Goto, serverVars, kernelVars, clientVars, localVars,
     EventPC, WorkerPC, SharedPC, DataPC, AcceptPC, SendPC, ClosePC, CoreTypes, ControlTypes,
     MapTypes, ControlInv, HoldPC
<1>1. ASSUME NEW k \in Clients, Connect(k) \/ ClientSend(k) \/ ClientRead(k) \/ ClientClose(k)
      \/ Timeout(k)
      PROVE  PlaceMoves
  BY <1>1 DEF PlaceMoves, Connect, ClientSend, ClientRead, ClientClose, Timeout
<1>2. CASE EpollWait \/ EventDispatch
  BY <1>2 DEF PlaceMoves, EpollWait, EventDispatch
<1>3. CASE Accept
  <2>1. pc'[Event] \in {"dispatch", "limit"} /\ pc[Event] = "accept"
    BY <1>3 DEF PlaceMoves, Accept
  <2>2. \A w \in Workers : pc'[w] = pc[w] /\ cur'[w] = cur[w] /\ cfd'[w] = cfd[w] /\ reply'[w]
     = reply[w]
    BY <1>3 DEF PlaceMoves, Accept
  <2> QED
    BY <2>1, <2>2 DEF PlaceMoves
<1>4. CASE AcceptLimit
  BY <1>4 DEF PlaceMoves, AcceptLimit
<1>5. CASE AcceptRegister
  BY <1>5 DEF PlaceMoves, AcceptRegister, add_fd
<1>6. CASE AcceptInsert
  BY <1>6 DEF PlaceMoves, AcceptInsert
<1>7. CASE DataLookup
  BY <1>7 DEF PlaceMoves, DataLookup
<1>8. CASE DataRecv
  BY <1>8 DEF PlaceMoves, DataRecv
<1>9. CASE DataLock
  BY <1>9 DEF PlaceMoves, DataLock
<1>10. CASE DataCheck
  <2>1. /\ pc[Event] = "datacheck"
        /\ pc'[Event] \in {"oversize", "enqueue", "dispatch", "write"}
        /\ \A t \in Threads \ {Event} : pc'[t] = pc[t]
        /\ UNCHANGED <<cur, cfd, reply>>
    BY <1>10, CheckOutcomes DEF CheckOutcome
  <2> QED
    BY <1>10, <2>1 DEF PlaceMoves
<1>11. CASE DataOversize
  BY <1>11 DEF PlaceMoves, DataOversize
<1>12. CASE DataOversizeClose
  BY <1>12 DEF PlaceMoves, DataOversizeClose, remove_fd
<1>13. CASE DataEnqueue
  BY <1>13 DEF PlaceMoves, DataEnqueue
<1>14. CASE WriteLookup
  BY <1>14 DEF PlaceMoves, WriteLookup
<1>15. CASE CleanupBegin \/ CleanupVisit \/ CleanupEnd \/ CleanupNext
  BY <1>15 DEF PlaceMoves, CleanupBegin, CleanupVisit, CleanupEnd, CleanupNext
<1>16. ASSUME NEW t \in Threads, SendBegin(t)
      PROVE  PlaceMoves
  <2>1. SendMoves(t)
    BY <1>16, SendControl, Zenon
  <2>2. /\ pc[t] = "send" /\ \A u \in Threads \ {t} : pc'[u] = pc[u] /\ cfd'[u] = cfd[u]
        /\ UNCHANGED <<cur, reply, scan>>
    BY <2>1 DEF SendMoves
  <2>3. pc'[t] \in {ret[t], "close", "arm", "disarm"}
    BY <2>1 DEF SendMoves
  <2>4. t = Event => ret[t] = "dispatch"
    BY <2>2
  <2>5. t # Event => ret[t] = "finish"
    BY <2>2
  <2> QED
    BY <1>16, <2>2, <2>3, <2>4, <2>5 DEF PlaceMoves
<1>17. ASSUME NEW t \in Threads, SendArm(t)
      PROVE  PlaceMoves
  BY <1>17 DEF PlaceMoves, SendArm, modify_fd
<1>18. ASSUME NEW t \in Threads, SendDisarm(t)
      PROVE  PlaceMoves
  BY <1>18 DEF PlaceMoves, SendDisarm, modify_fd
<1>19. ASSUME NEW t \in Threads, CloseFind(t)
      PROVE  PlaceMoves
  BY <1>19 DEF PlaceMoves, CloseFind
<1>20. ASSUME NEW t \in Threads, CloseErase(t)
      PROVE  PlaceMoves
  BY <1>20 DEF PlaceMoves, CloseErase
<1>21. ASSUME NEW t \in Threads, CloseFd(t)
      PROVE  PlaceMoves
  BY <1>21 DEF PlaceMoves, CloseFd, remove_fd
<1>22. ASSUME NEW w \in Workers, TaskBegin(w)
      PROVE  PlaceMoves
  BY <1>22 DEF PlaceMoves, TaskBegin
<1>23. ASSUME NEW w \in Workers, RequestParse(w)
      PROVE  PlaceMoves
  <2>1. /\ pc[w] = "parse" /\ pc'[w] \in {"answer", "keep"}
        /\ \A t \in Threads \ {w} : pc'[t] = pc[t]
        /\ UNCHANGED <<cur, cfd, scan>>
    BY <1>23 DEF PlaceMoves, RequestParse
  <2>2. \A v \in Workers \ {w} : reply'[v] = reply[v]
    BY <1>23 DEF PlaceMoves, RequestParse
  <2> QED
    BY <1>23, <2>1, <2>2 DEF PlaceMoves
<1>24. ASSUME NEW w \in Workers, RequestKeepAlive(w)
      PROVE  PlaceMoves
  BY <1>24 DEF PlaceMoves, RequestKeepAlive
<1>25. ASSUME NEW w \in Workers, RequestThrow(w)
      PROVE  PlaceMoves
  BY <1>25 DEF PlaceMoves, RequestThrow
<1>26. ASSUME NEW w \in Workers, RequestPresent(w)
      PROVE  PlaceMoves
  BY <1>26 DEF PlaceMoves, RequestPresent
<1>27. ASSUME NEW w \in Workers, RequestAbandon(w)
      PROVE  PlaceMoves
  BY <1>27 DEF PlaceMoves, RequestAbandon
<1>28. ASSUME NEW w \in Workers, RequestPublish(w)
      PROVE  PlaceMoves
  BY <1>28 DEF PlaceMoves, RequestPublish
<1>29. ASSUME NEW w \in Workers, RequestFinish(w)
      PROVE  PlaceMoves
  BY <1>29 DEF PlaceMoves, RequestFinish
<1>30. CASE UNCHANGED vars
  BY <1>30 DEF PlaceMoves, vars
<1> QED
  BY <1>1, <1>2, <1>3, <1>4, <1>5, <1>6, <1>7, <1>8, <1>9, <1>10, <1>11, <1>12, <1>13, <1>14,
     <1>15, <1>16, <1>17, <1>18, <1>19, <1>20, <1>21, <1>22, <1>23, <1>24, <1>25, <1>26, <1>27,
     <1>28, <1>29, <1>30
     DEF Next, EventThread, WorkerThread, Environment, send_response_async, close_connection

\* The steps that take or give back the mutex of a Connection.
LEMMA MutexFrame ==
  ASSUME [Next]_vars
  PROVE  \/ UNCHANGED conn_mutex
         \/ DataLock \/ DataCheck \/ DataOversizeClose
         \/ \E t \in Threads : SendBegin(t) \/ SendArm(t) \/ SendDisarm(t)
  BY ZenonT(30) DEF Threads, Goto, serverVars, kernelVars, clientVars, localVars, vars, Next,
     EventThread, WorkerThread, Environment, send_response_async, close_connection, Connect,
     ClientSend, ClientRead, ClientClose, Timeout, EpollWait, EventDispatch, Accept,
     AcceptLimit, AcceptRegister, AcceptInsert, DataLookup, DataRecv, DataOversize,
     DataEnqueue, WriteLookup, CleanupBegin, CleanupVisit, CleanupEnd, CleanupNext, CloseFind,
     CloseErase, CloseFd, TaskBegin, RequestParse, RequestKeepAlive, RequestThrow,
     RequestPresent, RequestAbandon, RequestPublish, RequestFinish

\* A mutex is held by a thread that is at work on its Connection.
LEMMA HoldStep ==
  ASSUME IInv, [Next]_vars, NEW k \in Clients,
         \A c \in Clients : conn_mutex[c] # None =>
           pc[conn_mutex[c]] \in HoldPC /\ cur[conn_mutex[c]] = c
  PROVE  conn_mutex'[k] # None => pc'[conn_mutex'[k]] \in HoldPC /\ cur'[conn_mutex'[k]] = k
<1>0. /\ CoreTypes /\ ListTypes /\ SentTypes /\ ControlInv /\ BirthInv /\ PendingResponseHasBytes
  BY TypeGroups DEF IInv
<1>1. PlaceMoves
  BY <1>0, PlaceMovesCases
<1>2. /\ conn_mutex \in [Clients -> Threads \cup {None}]
      /\ pc \in [Threads -> EventPC \cup WorkerPC \cup SharedPC]
      /\ cur \in [Threads -> Clients \cup {None}] /\ Event \in Threads
  BY <1>0 DEF CoreTypes, ControlTypes, MapTypes, Threads
<1>3. ASSUME conn_mutex'[k] = conn_mutex[k], conn_mutex[k] # None,
             ~(SendArm(conn_mutex[k]) \/ SendDisarm(conn_mutex[k])),
             ~(conn_mutex[k] = Event /\ (DataCheck \/ DataOversizeClose))
      PROVE  pc'[conn_mutex'[k]] \in HoldPC /\ cur'[conn_mutex'[k]] = k
  <2> DEFINE u == conn_mutex[k]
  <2>1. u \in Threads /\ pc[u] \in HoldPC /\ cur[u] = k
    BY <1>2, <1>3
  <2>2. conn_mutex'[k] = u
    BY <1>3
  <2>3. ~(SendArm(u) \/ SendDisarm(u)) /\ ~(u = Event /\ (DataCheck \/ DataOversizeClose))
    BY <1>3
  <2> HIDE DEF u
  <2> QED
    BY <1>1, <2>1, <2>2, <2>3 DEF PlaceMoves
<1>4. ASSUME NEW t \in Threads, SendArm(t) \/ SendDisarm(t)
      PROVE  conn_mutex'[k] # None => pc'[conn_mutex'[k]] \in HoldPC /\ cur'[conn_mutex'[k]] = k
  <2>1. conn_mutex' = [conn_mutex EXCEPT ![cur[t]] = None] /\ UNCHANGED cur /\ cur[t] \in Clients
    BY <1>0, <1>4, InUse DEF SendArm, SendDisarm, SendPC
  <2>2. \A u \in Threads \ {t} : pc'[u] = pc[u]
    BY <1>2, <1>4 DEF SendArm, SendDisarm, Goto
  <2> QED
    BY <1>2, <2>1, <2>2
<1>5. CASE DataOversizeClose
  <2>1. conn_mutex' = [conn_mutex EXCEPT ![cur[Event]] = None] /\ UNCHANGED cur
        /\ cur[Event] \in Clients
    BY <1>0, <1>5 DEF DataOversizeClose, ControlInv, DataPC
  <2>2. \A u \in Threads \ {Event} : pc'[u] = pc[u]
    BY <1>2, <1>5 DEF DataOversizeClose, Goto
  <2> QED
    BY <1>2, <2>1, <2>2
<1>6. CASE DataCheck
  <2>1. /\ cur[Event] \in Clients /\ UNCHANGED cur
        /\ \A u \in Threads \ {Event} : pc'[u] = pc[u]
    BY <1>0, <1>6, CheckOutcomes DEF CheckOutcome
  <2>2. \/ conn_mutex' = [conn_mutex EXCEPT ![cur[Event]] = None]
        \/ UNCHANGED conn_mutex /\ pc'[Event] = "oversize"
    <3>1. \/ conn_mutex' = [conn_mutex EXCEPT ![cur[Event]] = None]
          \/ UNCHANGED conn_mutex /\ Goto(Event, "oversize")
      BY <1>6, Zenon DEF DataCheck
    <3> QED
      BY <1>2, <3>1 DEF Goto
  <2> QED
    BY <1>2, <2>1, <2>2 DEF HoldPC
<1>7. CASE DataLock
  <2>1. /\ conn_mutex' = [conn_mutex EXCEPT ![cur[Event]] = Event] /\ UNCHANGED cur
        /\ pc'[Event] = "datacheck" /\ \A u \in Threads \ {Event} : pc'[u] = pc[u]
        /\ pc[Event] = "datalock" /\ cur[Event] \in Clients
    BY <1>0, <1>2, <1>7 DEF DataLock, Goto, ControlInv, DataPC
  <2> QED
    BY <1>2, <2>1 DEF HoldPC
<1>8. ASSUME NEW t \in Threads, SendBegin(t)
      PROVE  conn_mutex'[k] # None => pc'[conn_mutex'[k]] \in HoldPC /\ cur'[conn_mutex'[k]] = k
  <2>1. SendMoves(t)
    BY <1>0, <1>8, SendControl
  <2>2. /\ pc[t] = "send" /\ \A u \in Threads \ {t} : pc'[u] = pc[u]
        /\ UNCHANGED cur /\ cur[t] \in Clients
    BY <1>2, <2>1 DEF SendMoves
  <2>3. \/ UNCHANGED conn_mutex
        \/ pc'[t] \in {"arm", "disarm"} /\ conn_mutex' = [conn_mutex EXCEPT ![cur[t]] = t]
    BY <1>2, <2>1 DEF SendMoves
  <2> QED
    BY <1>2, <2>2, <2>3 DEF HoldPC
<1>9. CASE UNCHANGED conn_mutex /\ ~DataCheck /\ ~DataOversizeClose
           /\ ~\E t \in Threads : SendArm(t) \/ SendDisarm(t)
  BY <1>2, <1>3, <1>9
<1> QED
  BY <1>4, <1>5, <1>6, <1>7, <1>8, <1>9, MutexFrame

\* A Connection that a worker handles is nowhere else, and is not being made.
LEMMA HandledFacts ==
  ASSUME IInv, NEW w \in Workers, pc[w] # "idle"
  PROVE  /\ cur[w] \in Clients /\ ~Unborn(cur[w]) /\ ~Queued(cur[w]) /\ ~AtEnqueue(cur[w])
         /\ Handled(cur[w]) /\ conn[cur[w]].fd \in Fds
         /\ \A v \in Workers : pc[v] # "idle" /\ cur[v] = cur[w] => v = w
         /\ ~(AcceptInsert /\ cur[Event] = cur[w])
<1>0. CoreTypes /\ ControlInv /\ BirthInv /\ HandlerInv
  BY TypeGroups DEF IInv
<1>1. cur[w] \in Clients /\ Handled(cur[w])
  BY <1>0 DEF ControlInv, Handled
<1>2. ~Unborn(cur[w]) /\ conn[cur[w]].fd \in Fds
  BY <1>0, <1>1 DEF BirthInv, Known
<1>3. ~(AcceptInsert /\ cur[Event] = cur[w])
  BY <1>2 DEF AcceptInsert, Unborn, Accepting
<1>4. ~Queued(cur[w]) /\ ~AtEnqueue(cur[w])
  BY <1>0, <1>1 DEF HandlerInv, AtEnqueue
<1> QED
  BY <1>0, <1>1, <1>2, <1>3, <1>4 DEF HandlerInv

\* No step gives a mutex away, and a Connection keeps its descriptor while it is
\* worked on.
LEMMA MutexStep == IInv /\ MutexInv /\ [Next]_vars => MutexInv'
<1> SUFFICES ASSUME IInv, MutexInv, [Next]_vars PROVE MutexInv'
  OBVIOUS
<1>0. /\ CoreTypes /\ ListTypes /\ ClientTypes /\ SentTypes /\ ReplyTypes
      /\ ControlInv /\ BirthInv /\ PendingResponseHasBytes
  BY TypeGroups DEF IInv
<1>1. ASSUME NEW k \in Clients, conn_mutex'[k] # None
      PROVE  pc'[conn_mutex'[k]] \in HoldPC /\ cur'[conn_mutex'[k]] = k
  BY <1>1, HoldStep DEF MutexInv
<1>2. ASSUME NEW w \in Workers, pc'[w] \in ClosePC \cup {"arm", "disarm"}
      PROVE  cfd'[w] = conn'[cur'[w]].fd
  <2>1. PlaceMoves
    BY <1>0, PlaceMovesCases
  <2>2. CASE /\ pc[w] \in ClosePC \cup {"arm", "disarm"}
             /\ cur'[w] = cur[w] /\ cfd'[w] = cfd[w]
    <3>1. cur[w] \in Clients /\ ~(AcceptInsert /\ cur[Event] = cur[w])
      BY <2>2, HandledFacts DEF ClosePC
    <3>2. conn'[cur[w]].fd = conn[cur[w]].fd
      BY <1>0, <3>1, FdKept
    <3> QED
      BY <2>2, <3>2 DEF MutexInv
  <2>3. CASE SendBegin(w)
    <3>1. /\ pc[w] = "send" /\ cur[w] \in Clients /\ UNCHANGED cur
          /\ cfd' = [cfd EXCEPT ![w] = conn[cur[w]].fd]
      BY <1>0, <2>3, SendControl DEF SendMoves, Threads
    <3>2. ~(AcceptInsert /\ cur[Event] = cur[w])
      BY <3>1, HandledFacts
    <3>3. conn'[cur[w]].fd = conn[cur[w]].fd
      BY <1>0, <3>1, <3>2, FdKept
    <3> QED
      BY <1>0, <3>1, <3>3 DEF CoreTypes, ControlTypes, Threads
  <2> QED
    BY <1>2, <2>1, <2>2, <2>3 DEF PlaceMoves
<1>3. ASSUME pc'[Event] \in {"recv", "datalock", "datacheck"}
      PROVE  cfd'[Event] = conn'[cur'[Event]].fd
  <2>1. PlaceMoves /\ MapMatchesDescriptors
    BY <1>0, PlaceMovesCases DEF IInv
  <2>2. CASE /\ pc[Event] \in {"recv", "datalock", "datacheck"}
             /\ cur'[Event] = cur[Event] /\ cfd'[Event] = cfd[Event]
    <3>1. cur[Event] \in Clients /\ ~AcceptInsert
      BY <1>0, <2>2 DEF ControlInv, DataPC, AcceptInsert
    <3>2. conn'[cur[Event]].fd = conn[cur[Event]].fd
      BY <1>0, <3>1, FdKept
    <3> QED
      BY <2>2, <3>2 DEF MutexInv
  <2>3. CASE DataLookup
    <3>1. /\ pc[Event] = "lookup" /\ UNCHANGED <<conn, connections, cfd>>
          /\ cur' = [cur EXCEPT ![Event] = connections[cfd[Event]]]
          /\ Goto(Event, IF connections[cfd[Event]] = None THEN ret[Event] ELSE "recv")
      BY <2>3 DEF DataLookup, serverVars
    <3>2. cfd[Event] \in Fds /\ connections[cfd[Event]] # None
          /\ cur'[Event] = connections[cfd[Event]]
      BY <1>0, <1>3, <3>1 DEF Goto, CoreTypes, ControlTypes, Threads, ControlInv, DataPC
    <3> QED
      BY <2>1, <3>1, <3>2 DEF MapMatchesDescriptors, Mapped
  <2> QED
    BY <1>3, <2>1, <2>2, <2>3 DEF PlaceMoves
<1> QED
  BY <1>1, <1>2, <1>3 DEF MutexInv

\* Nothing is received from a client whose Connection a worker is closing: it
\* has asked for that, or it could not be sent its response and waits for it.
LEMMA NothingAfterClose ==
  ASSUME IInv, StreamInv, KeepInv, RequestScripts, Received, data # <<>>,
         NEW w \in Workers, pc[w] \in ClosePC, cur[w] = cur[Event]
  PROVE  FALSE
<1>0. CoreTypes /\ ClientTypes /\ SentTypes /\ ControlInv
  BY TypeGroups DEF IInv
<1> DEFINE k == cur[w]
<1>1. k \in Clients /\ Answering(k) /\ ~conn[k].keep_alive
  BY HandledFacts DEF ClosePC, Answering, AnsweringPC, SharedPC, KeepInv
<1>2. Silent(k)
  BY <1>1 DEF KeepInv
<1>3. data[1] \in InHandData(k)
  <2>1. 1 \in DOMAIN data
    BY <1>0 DEF ClientTypes
  <2> QED
    BY <2>1 DEF InHandData, UnitsOf
<1>4. data[1] \in Later(k) /\ data[1] \in Heard(k)
  BY <1>1, <1>3 DEF Later, StreamInv, OrderInv
<1>5. data[1].req \in Nat /\ Complete(k) \in Nat /\ data[1].req <= Complete(k) + 1
  <2>1. data[1] \in Units
    BY <1>0, <1>1, <1>4, AheadUnits DEF StreamInv, Ahead
  <2> QED
    BY <1>0, <1>1, <1>4, <2>1, CompleteFacts DEF StreamInv, TurnInv, Units
<1>6. data[1].req > Complete(k) + 1
  BY <1>2, <1>4 DEF Silent
<1> QED
  BY <1>5, <1>6

\* What recv returns is not empty.
LEMMA DataKept ==
  ASSUME IInv, EventNumber, Received => data # <<>>, [Next]_vars, Received'
  PROVE  data' # <<>>
<1>0. /\ CoreTypes /\ ListTypes /\ ClientTypes /\ SentTypes /\ ControlInv /\ BirthInv
      /\ PendingResponseHasBytes
  BY TypeGroups DEF IInv
<1>1. CASE DataRecv
  <2> DEFINE k == sock[cfd[Event]]
             n == Smaller(RecvMax, Len(inbox[k]))
             got == SubSeq(inbox[k], 1, n)
  <2>1. ~Goto(Event, "close")
    BY <1>0 DEF Goto, Received, CoreTypes, ControlTypes, Threads
  <2>2. k # None /\ inbox[k] # <<>> /\ data' = got
    BY <1>1, <2>1, Zenon DEF DataRecv
  <2>3. k \in Clients
    <3>1. cfd[Event] \in Fds
      BY <1>0, <1>1 DEF DataRecv, ControlInv, DataPC
    <3> QED
      BY <1>0, <2>2, <3>1 DEF CoreTypes, MapTypes
  <2> DEFINE q == inbox[k]
  <2>4. q \in Seq(Units) /\ q # <<>>
    BY <1>0, <2>2, <2>3 DEF ClientTypes
  <2> HIDE DEF q
  <2>5. n \in 1..Len(q)
    BY <2>4, ServerAssumption DEF Smaller, q
  <2> HIDE DEF n
  <2>6. SubSeq(q, 1, n) # <<>>
    BY <2>4, <2>5
  <2> QED
    BY <2>2, <2>6 DEF q
<1>2. CASE ~DataRecv
  <2>1. Received /\ ~DataCheck
    <3>1. DataCheck => ~Received'
      BY <1>0, CheckOutcomes DEF CheckOutcome, Received
    <3> QED
      BY <1>0, <1>2, <3>1, FlowMovesCases DEF FlowMoves
  <2>2. (\E c \in Clients : ClientSend(c)) => UNCHANGED data
    BY DEF ClientSend, localVars
  <2> QED
    BY <1>2, <2>1, <2>2, FlowFrame
<1> QED
  BY <1>1, <1>2

\* Whoever abandons a request keeps the map locked, so that no entry appears.
LEMMA AbandonStep ==
  ASSUME IInv, [Next]_vars, NEW w \in Workers, pc'[w] = "abandon",
         pc[w] = "abandon" => connections[conn[cur[w]].fd] = None
  PROVE  connections'[conn'[cur'[w]].fd] = None
<1>0. /\ CoreTypes /\ ListTypes /\ ClientTypes /\ SentTypes /\ ReplyTypes
      /\ ControlInv /\ BirthInv /\ PendingResponseHasBytes /\ LockInv
  BY TypeGroups DEF IInv
<1>1. CASE pc[w] = "abandon" /\ cur'[w] = cur[w]
  <2> DEFINE f == conn[cur[w]].fd
  <2>1. cur[w] \in Clients /\ f \in Fds /\ conn'[cur[w]].fd = f
    BY <1>0, <1>1, HandledFacts, FdKept
  <2>2. map_mutex = w /\ connections[f] = None
    BY <1>0, <1>1 DEF LockInv, Threads
  <2>3. ~AcceptInsert
    BY <2>2, ServerAssumption DEF AcceptInsert, Threads
  <2>4. DataOversize => connections' = [connections EXCEPT ![cfd[Event]] = None]
    BY DEF DataOversize
  <2>5. \A t \in Threads : CloseErase(t) => connections' = [connections EXCEPT ![cfd[t]] = None]
    BY DEF CloseErase
  <2> HIDE DEF f
  <2>6. connections'[f] = None
    BY <1>0, <2>1, <2>2, <2>3, <2>4, <2>5, MapFrame DEF CoreTypes, MapTypes
  <2> QED
    BY <1>1, <2>1, <2>6
<1>2. CASE RequestPresent(w)
  <2>1. UNCHANGED <<connections, conn, cur>>
    BY <1>2 DEF RequestPresent
  <2>2. ~Goto(w, "publish")
    BY <1>0 DEF Goto, CoreTypes, ControlTypes, Threads
  <2>3. connections[conn[cur[w]].fd] = None
    BY <1>2, <2>2, Zenon DEF RequestPresent
  <2> QED
    BY <2>1, <2>3
<1> QED
  BY <1>0, <1>1, <1>2, PlaceMovesCases DEF PlaceMoves

\* The event thread keeps the map locked while it looks at what is in it.
LEMMA ScanStep ==
  ASSUME IInv, [Next]_vars, pc'[Event] = "scan", pc[Event] = "scan" => scan \subseteq Mapped
  PROVE  scan' \subseteq Mapped'
<1>0. /\ CoreTypes /\ ListTypes /\ SentTypes /\ ControlInv /\ BirthInv
      /\ PendingResponseHasBytes /\ LockInv
  BY TypeGroups DEF IInv
<1>1. CASE CleanupBegin
  BY <1>1 DEF CleanupBegin, Mapped
<1>2. CASE pc[Event] = "scan" /\ scan' \subseteq scan
  <2>1. map_mutex = Event
    BY <1>0, <1>2 DEF LockInv, Threads
  <2>2. ~AcceptInsert /\ ~DataOversize
    BY <1>2 DEF AcceptInsert, DataOversize
  <2>3. ASSUME NEW t \in Threads PROVE ~CloseErase(t)
    BY <1>0, <1>2, <2>1 DEF CloseErase, LockInv
  <2>4. UNCHANGED connections
    BY <2>2, <2>3, MapFrame
  <2> QED
    BY <1>2, <2>4 DEF Mapped
<1> QED
  BY <1>0, <1>1, <1>2, PlaceMovesCases DEF PlaceMoves

\* While the event thread receives from a Connection, only the worker that
\* answers it can close it.
LEMMA GoneStep ==
  ASSUME IInv, EventNumber, NumberKept, MutexInv, GoneInv, [Next]_vars,
         pc'[Event] \in {"recv", "datalock", "datacheck"}, connections'[cfd'[Event]] = None
  PROVE  /\ ~Queued(cur[Event])'
         /\ \A w \in Workers : cur'[w] = cur'[Event] => pc'[w] \in AnsweringPC \cup {"idle"}
<1>0. /\ CoreTypes /\ ListTypes /\ ClientTypes /\ SentTypes /\ ReplyTypes /\ HandlerInv /\ DataInv
      /\ ControlInv /\ BirthInv /\ PendingResponseHasBytes /\ LockInv /\ MapMatchesDescriptors
  BY TypeGroups DEF IInv
<1>1. FlowMoves /\ PlaceMoves
  BY <1>0, FlowMovesCases, PlaceMovesCases
<1>2. ~DataLookup
  <2>1. DataLookup => /\ UNCHANGED <<connections, cfd>>
                      /\ Goto(Event, IF connections[cfd[Event]] = None THEN ret[Event] ELSE "recv")
                      /\ pc[Event] = "lookup"
    BY DEF DataLookup, serverVars
  <2>2. DataLookup => connections[cfd[Event]] # None
    BY <1>0, <2>1 DEF Goto, CoreTypes, ControlTypes, Threads, ControlInv, DataPC
  <2> QED
    BY <2>1, <2>2
<1>3. /\ pc[Event] \in {"recv", "datalock", "datacheck"}
      /\ cur'[Event] = cur[Event] /\ cfd'[Event] = cfd[Event]
  BY <1>1, <1>2 DEF PlaceMoves
<1> DEFINE f == cfd[Event]
<1>a. cur[Event] \in Clients
  BY <1>0, <1>3 DEF ControlInv, DataPC
<1>b. PICK k \in Clients : k = cur[Event]
  BY <1>a
<1>4. f \in Fds /\ connections[f] \in {None, k} /\ ~AtEnqueue(k)
  BY <1>0, <1>3, <1>b DEF ControlInv, DataPC, DataInv, AtEnqueue
<1>5. CASE connections[f] = None
  <2>1. /\ ~Queued(k)
        /\ \A w \in Workers : cur[w] = k => pc[w] \in AnsweringPC \cup {"idle"}
    BY <1>3, <1>5, <1>b DEF GoneInv
  <2>2. ~Queued(k)'
    BY <1>0, <1>4, <2>1, PlaceCases
  <2>3. ASSUME NEW w \in Workers, cur'[w] = k PROVE pc'[w] \in AnsweringPC \cup {"idle"}
    <3>1. ~TaskBegin(w)
      <4>1. TaskBegin(w) => k = Head(tasks) /\ tasks # <<>> /\ tasks \in Seq(Clients)
        BY <1>0, <2>3 DEF TaskBegin, CoreTypes, ControlTypes, MapTypes, Threads
      <4> QED
        BY <2>1, <4>1, TailFacts DEF Queued
    <3>2. cur[w] = k
      BY <1>1, <2>3, <3>1 DEF PlaceMoves
    <3>3. CASE pc[w] = "idle"
      BY <1>1, <3>1, <3>3 DEF PlaceMoves
    <3>4. CASE pc[w] \in AnsweringPC
      <4>1. RequestFinish(w) => pc'[w] = "idle"
        BY <1>0 DEF RequestFinish, Goto, CoreTypes, ControlTypes, Threads
      <4> QED
        BY <1>1, <3>4, <4>1 DEF FlowMoves
    <3> QED
      BY <2>1, <3>2, <3>3, <3>4
  <2> QED
    BY <1>3, <1>b, <2>2, <2>3 DEF Queued
<1>6. CASE connections[f] = k
  <2>1. k # None /\ connections'[f] # connections[f]
    BY <1>3, <1>4, <1>6, ServerAssumption
  <2>2. ~AcceptInsert /\ ~DataOversize
    BY <1>3 DEF AcceptInsert, DataOversize
  <2>3. PICK t \in Threads : CloseErase(t)
    BY <2>1, <2>2, MapFrame
  <2>4. /\ pc[t] = "erase" /\ connections' = [connections EXCEPT ![cfd[t]] = None]
        /\ UNCHANGED <<tasks, cur>> /\ pc' = [pc EXCEPT ![t] = "closefd"]
    BY <2>3 DEF CloseErase, Goto
  <2>5. t # Event /\ t \in Workers /\ cfd[t] = f
    BY <1>0, <1>3, <1>4, <2>1, <2>4 DEF Threads, CoreTypes, MapTypes
  <2>6. sock[f] = k
    BY <1>4, <1>6, <2>1, <1>0 DEF MapMatchesDescriptors, Mapped
  <2>7. cur[t] = k
    <3>1. conn[cur[t]].fd = f
      BY <2>4, <2>5 DEF MutexInv, ClosePC
    <3>2. sock[f] \in {None, cur[t]}
      BY <2>4, <2>5, <3>1 DEF NumberKept
    <3> QED
      BY <2>1, <2>6, <3>2
  <2>8. ~Queued(k) /\ \A v \in Workers : pc[v] # "idle" /\ cur[v] = k => v = t
    BY <2>4, <2>5, <2>7, HandledFacts
  <2>9. pc'[t] = "closefd" /\ \A v \in Workers \ {t} : pc'[v] = pc[v]
    BY <1>0, <2>4, <2>5 DEF CoreTypes, ControlTypes, Threads
  <2>10. ~Queued(cur[Event])'
    BY <1>b, <2>4, <2>8 DEF Queued
  <2>11. ASSUME NEW v \in Workers, cur'[v] = cur'[Event] PROVE pc'[v] \in AnsweringPC \cup {"idle"}
    <3>1. CASE v = t
      BY <2>9, <3>1 DEF AnsweringPC, SharedPC
    <3>2. CASE v # t
      BY <1>b, <2>4, <2>8, <2>9, <2>11, <3>2
    <3> QED
      BY <3>1, <3>2
  <2> QED
    BY <2>10, <2>11
<1> QED
  BY <1>4, <1>5, <1>6

\* A request that is too large is not one that a worker has answered.
LEMMA OversizeStep ==
  ASSUME IInv, RequestScripts, StreamInv, KeepInv, GoneInv, [Next]_vars, pc'[Event] = "oversize",
         NEW w \in Workers, cur'[w] = cur'[Event], pc'[w] \in {"close", "erase"}
  PROVE  FALSE
<1>0. /\ CoreTypes /\ ListTypes /\ SentTypes /\ ControlInv /\ BirthInv /\ PendingResponseHasBytes
      /\ LockInv
  BY TypeGroups DEF IInv
<1>1. PlaceMoves
  BY <1>0, PlaceMovesCases
<1>2. CASE DataCheck
  <2>1. /\ pc[Event] = "datacheck" /\ UNCHANGED cur /\ \A t \in Threads \ {Event} : pc'[t] = pc[t]
    BY <1>0, <1>2, CheckOutcomes DEF CheckOutcome
  <2>2. pc[w] \in ClosePC /\ cur[w] = cur[Event] /\ Received
    BY <2>1, ServerAssumption DEF Threads, ClosePC, Received
  <2>3. data # <<>>
    BY <2>2 DEF GoneInv
  <2> QED
    BY <2>2, <2>3, NothingAfterClose
<1>3. CASE pc[Event] = "oversize" /\ cur'[Event] = cur[Event]
  <2>1. conn_mutex[cur[Event]] = Event
    BY <1>0, <1>3 DEF LockInv
  <2>2. CASE pc[w] \in {"close", "erase"} /\ cur'[w] = cur[w]
    BY <1>3, <2>2 DEF GoneInv
  <2>3. CASE SendBegin(w)
    <3>1. cur'[w] = cur[w] /\ conn_mutex[cur[w]] = None
      BY <1>0, <2>3, SendControl DEF SendMoves, Threads
    <3> QED
      BY <1>3, <2>1, <3>1, ServerAssumption DEF Threads
  <2>4. CASE SendDisarm(w)
    <3>1. cur'[w] = cur[w] /\ pc[w] = "disarm"
      BY <2>4 DEF SendDisarm
    <3>2. conn_mutex[cur[w]] = w
      BY <1>0, <3>1 DEF LockInv, Threads
    <3> QED
      BY <1>3, <2>1, <3>1, <3>2, ServerAssumption
  <2> QED
    BY <1>1, <2>2, <2>3, <2>4 DEF PlaceMoves
<1> QED
  BY <1>1, <1>2, <1>3 DEF PlaceMoves

\* What is known of Connections that go away while somebody works on them holds
\* after every step.
LEMMA GoneInvStep ==
  ASSUME IInv, RequestScripts, EventNumber, NumberKept, StreamInv, CycleInv, [Next]_vars
  PROVE  GoneInv'
<1>1. (Received => data # <<>>)'
  BY DataKept DEF CycleInv, GoneInv
<1>2. (\A w \in Workers : pc[w] = "abandon" => connections[conn[cur[w]].fd] = None)'
  BY AbandonStep DEF CycleInv, GoneInv
<1>3. (pc[Event] \in {"recv", "datalock", "datacheck"} /\ connections[cfd[Event]] = None =>
         /\ ~Queued(cur[Event])
         /\ \A w \in Workers : cur[w] = cur[Event] => pc[w] \in AnsweringPC \cup {"idle"})'
  BY GoneStep DEF CycleInv
<1>4. (pc[Event] = "oversize" =>
         \A w \in Workers : cur[w] = cur[Event] => pc[w] \notin {"close", "erase"})'
  BY OversizeStep DEF CycleInv
<1>5. (pc[Event] = "scan" => scan \subseteq Mapped)'
  BY ScanStep DEF CycleInv, GoneInv
<1> QED
  BY <1>1, <1>2, <1>3, <1>4, <1>5, Zenon DEF GoneInv

\* Whoever has the map waits for nobody who waits for the map.
LEMMA CycleExcluded ==
  ASSUME IInv, RequestScripts, NumberKept, StreamInv, CycleInv
  PROVE  NoLockCycle
<1>0. /\ CoreTypes /\ ControlInv /\ LockInv /\ DataInv /\ MapMatchesDescriptors /\ ListTypes
  BY TypeGroups DEF IInv
<1> SUFFICES ASSUME NEW t \in Threads, NEW u \in Threads, map_mutex = t,
                    NEW k \in WaitsForConn(t), conn_mutex[k] = u, u = t \/ WaitsForMap(u)
             PROVE  FALSE
  BY DEF NoLockCycle
<1>1. pc[t] \in {"erase", "abandon", "scan"}
  BY DEF WaitsForConn
<1>2. k \in Clients
  <2>1. CASE pc[t] = "erase"
    <3>1. k = connections[cfd[t]] /\ connections[cfd[t]] # None
      BY <1>0, <2>1 DEF WaitsForConn, LockInv
    <3>2. cfd[t] \in Fds
      BY <1>0, <2>1 DEF ControlInv, ClosePC, Threads
    <3> QED
      BY <1>0, <3>1, <3>2 DEF CoreTypes, MapTypes
  <2>2. CASE pc[t] = "abandon"
    <3>1. t # Event
      BY <1>0, <2>2 DEF ControlInv, EventPC, SharedPC
    <3>2. t \in Workers /\ k = cur[t]
      BY <2>2, <3>1 DEF WaitsForConn, Threads
    <3> QED
      BY <2>2, <3>2, HandledFacts
  <2>3. CASE pc[t] = "scan"
    <3>1. t = Event
      BY <1>0, <2>3 DEF ControlInv, WorkerPC, SharedPC, Threads
    <3>2. PICK f \in scan : k = connections[f]
      BY <2>3 DEF WaitsForConn
    <3>3. f \in Mapped
      BY <2>3, <3>1 DEF CycleInv, GoneInv
    <3> QED
      BY <1>0, <3>2, <3>3 DEF Mapped, CoreTypes, MapTypes
  <2> QED
    BY <1>1, <2>1, <2>2, <2>3
<1>3. pc[u] \in HoldPC /\ cur[u] = k
  BY <1>2, ServerAssumption DEF CycleInv, MutexInv
<1>4. u # t /\ pc[u] \in {"datacheck", "oversize"}
  BY <1>1, <1>3 DEF HoldPC, WaitsForMap
<1>5. u = Event /\ t \in Workers /\ cur[Event] = k /\ pc[t] # "scan"
  BY <1>0, <1>1, <1>3, <1>4 DEF ControlInv, WorkerPC, SharedPC, Threads
<1>6. pc[Event] = "datacheck" => Received /\ data # <<>>
  BY DEF Received, CycleInv, GoneInv
<1>7. connections[cfd[Event]] \in {None, k} /\ cfd[Event] \in Fds
      /\ (pc[Event] = "oversize" => connections[cfd[Event]] = k)
  BY <1>0, <1>4, <1>5 DEF DataInv, ControlInv, DataPC
<1>8. CASE pc[t] = "erase"
  <2>1. k = connections[cfd[t]] /\ cfd[t] \in Fds /\ cfd[t] = conn[cur[t]].fd
    BY <1>0, <1>5, <1>8 DEF WaitsForConn, ControlInv, ClosePC, CycleInv, MutexInv
  <2>2. sock[cfd[t]] = k /\ sock[cfd[t]] \in {None, cur[t]}
    BY <1>0, <1>2, <1>5, <1>8, <2>1, ServerAssumption DEF MapMatchesDescriptors, Mapped, NumberKept
  <2>3. cur[t] = k
    BY <1>2, <2>2, ServerAssumption
  <2>4. pc[Event] # "oversize"
    BY <1>5, <1>8, <2>3 DEF CycleInv, GoneInv
  <2> QED
    BY <1>4, <1>5, <1>6, <1>8, <2>3, <2>4, NothingAfterClose DEF CycleInv, ClosePC
<1>9. CASE pc[t] = "abandon"
  <2>1. cur[t] = k /\ connections[conn[k].fd] = None
    BY <1>5, <1>9 DEF WaitsForConn, CycleInv, GoneInv
  <2>2. connections[cfd[Event]] = k
    <3>1. pc[Event] = "datacheck" => connections[cfd[Event]] # None
      BY <1>5, <1>9, <2>1 DEF CycleInv, GoneInv, AnsweringPC, SharedPC
    <3> QED
      BY <1>4, <1>5, <1>7, <3>1
  <2>3. conn[k].fd = cfd[Event]
    BY <1>0, <1>2, <1>7, <2>2, ServerAssumption DEF MapMatchesDescriptors, Mapped
  <2> QED
    BY <1>2, <2>1, <2>2, <2>3, ServerAssumption
<1> QED
  BY <1>1, <1>5, <1>8, <1>9

\* The steps that say whether a Connection is kept: its insertion, its handler,
\* and a send that fails, after which nothing is pending.
LEMMA KeepCases ==
  ASSUME IInv, [Next]_vars, NEW k \in Clients
  PROVE  \/ conn'[k].keep_alive = conn[k].keep_alive
         \/ AcceptInsert /\ k = cur[Event] /\ ~conn'[k].keep_alive
         \/ \E w \in Workers :
              RequestKeepAlive(w) /\ cur[w] = k /\ conn'[k].keep_alive = reply[w].keep
         \/ \E t \in Threads :
              /\ SendBegin(t) /\ cur[t] = k /\ conn[k].has_pending_write /\ UNCHANGED sent
              /\ ~conn'[k].keep_alive /\ ~conn'[k].has_pending_write
<1>0. CoreTypes /\ SentTypes /\ ControlInv /\ BirthInv /\ PendingResponseHasBytes
  BY TypeGroups DEF IInv
<1>a. conn \in [Clients -> Connections]
  BY <1>0 DEF CoreTypes, ConnType
<1>1. CASE UNCHANGED conn
  BY <1>1
<1>2. ASSUME NEW c \in Clients, Timeout(c) PROVE conn'[k].keep_alive = conn[k].keep_alive
  BY <1>2, <1>a DEF Timeout, Connections
<1>3. CASE AcceptInsert
  <2>1. /\ conn' = [conn EXCEPT ![cur[Event]] = NewConnection(cfd[Event])]
        /\ NewConnection(cfd[Event]).keep_alive = FALSE
    BY <1>3 DEF AcceptInsert, NewConnection
  <2> QED
    BY <1>a, <1>3, <2>1
<1>4. ASSUME DataCheck PROVE conn'[k].keep_alive = conn[k].keep_alive
  BY <1>0, <1>4, CheckOutcomes DEF CheckOutcome
<1>5. ASSUME NEW t \in Threads, SendBegin(t)
      PROVE  \/ conn'[k].keep_alive = conn[k].keep_alive
             \/ /\ SendBegin(t) /\ cur[t] = k /\ conn[k].has_pending_write /\ UNCHANGED sent
                /\ ~conn'[k].keep_alive /\ ~conn'[k].has_pending_write
  <2> DEFINE n == SendCount(conn[cur[t]], sock[conn[cur[t]].fd])
             d == AfterSend(conn[cur[t]], n)
             e == [conn[cur[t]] EXCEPT !.keep_alive = FALSE, !.has_pending_write = FALSE]
  <2>1. cur[t] \in Clients /\ conn[cur[t]] \in Connections /\ conn[cur[t]].offset \in Nat
    BY <1>0, <1>a, <1>5, SendControl, ServerAssumption DEF SendMoves, Connections
  <2>2. ~e.keep_alive /\ ~e.has_pending_write
    BY <2>1 DEF Connections
  <2> HIDE DEF e
  <2>3. \/ UNCHANGED conn
        \/ n \in 1..(RespLen - conn[cur[t]].offset) /\ conn' = [conn EXCEPT ![cur[t]] = d]
        \/ conn' = [conn EXCEPT ![cur[t]] = e] /\ conn[cur[t]].has_pending_write /\ UNCHANGED sent
    <3> HIDE DEF n, d
    <3> QED
      BY <1>0, <1>5, SendOutcomes, Zenon DEF SendOutcome, n, d, e
  <2>4. n \in 1..(RespLen - conn[cur[t]].offset) => d.keep_alive = conn[cur[t]].keep_alive
    <3> HIDE DEF n
    <3> QED
      BY <2>1, AfterSendFields
  <2> HIDE DEF n, d
  <2>5. CASE UNCHANGED conn \/ k # cur[t]
    BY <1>a, <2>1, <2>3, <2>5
  <2>6. CASE k = cur[t] /\ conn'[k] = d /\ d.keep_alive = conn[k].keep_alive
    BY <2>6
  <2>7. CASE k = cur[t] /\ conn'[k] = e /\ conn[cur[t]].has_pending_write /\ UNCHANGED sent
    BY <1>5, <2>2, <2>7
  <2> QED
    BY <1>a, <2>1, <2>3, <2>4, <2>5, <2>6, <2>7
<1>6. ASSUME NEW w \in Workers,
             RequestPublish(w) \/ RequestKeepAlive(w) \/ RequestAbandon(w) \/ RequestFinish(w)
      PROVE  \/ conn'[k].keep_alive = conn[k].keep_alive
             \/ RequestKeepAlive(w) /\ cur[w] = k /\ conn'[k].keep_alive = reply[w].keep
  BY <1>0, <1>6, RequestOutcomes
<1>7. \/ UNCHANGED conn \/ AcceptInsert \/ DataCheck
      \/ \E c \in Clients : Timeout(c)
      \/ \E t \in Threads : SendBegin(t)
      \/ \E w \in Workers : \/ RequestKeepAlive(w) \/ RequestAbandon(w)
                            \/ RequestPublish(w) \/ RequestFinish(w)
  BY ConnFrame, Zenon
<1> QED
  BY <1>1, <1>2, <1>3, <1>4, <1>5, <1>6, <1>7

\* Where a request is handled and no response to it is published yet, it is the
\* one whose turn it is.
LEMMA TurnOfRequest ==
  ASSUME IInv, StreamInv, RequestScripts, NEW k \in Clients, NEW u \in Buffered(k)
  PROVE  /\ u \in Units /\ u \in Heard(k) /\ Complete(k) \in Nat /\ u.req <= Complete(k) + 1
         /\ ~Answering(k) => u.req = Complete(k) + 1 /\ ~Owed(k)
         /\ Owed(k) => u.req = Complete(k) + 1
         /\ u.last => \A v \in Later(k) : v \in Units /\ v.req > u.req
<1>0. CoreTypes /\ ClientTypes /\ SentTypes /\ ControlInv
  BY TypeGroups DEF IInv
<1>1. u \in Ahead(k) /\ u \in Heard(k) /\ u \in Units
  BY <1>0, AheadUnits DEF Ahead, Buffered, StreamInv, OrderInv
<1>2. u.req \in Nat /\ Complete(k) \in Nat /\ u.req <= Complete(k) + 1
  BY <1>0, <1>1, CompleteFacts DEF Units, StreamInv, TurnInv
<1>3. IF Answering(k) THEN u.req >= Published(k) ELSE u.req > Published(k)
  BY <1>1 DEF StreamInv, AnswerInv
<1>4. /\ ~Answering(k) => u.req = Complete(k) + 1 /\ ~Owed(k)
      /\ Owed(k) => u.req = Complete(k) + 1
  BY <1>2, <1>3 DEF Published
<1>5. ASSUME u.last, NEW v \in Later(k) PROVE v \in Units /\ v.req > u.req
  <2>1. v \in Units
    BY <1>0, AheadUnits DEF Ahead, StreamInv
  <2>2. v.req \in Nat
    BY <2>1 DEF Units
  <2>3. u.req < v.req
    <3>1. CASE v \in Unsaid(k)
      BY <1>0, <1>1, <1>5, <3>1, AheadUnits DEF Before, Follows, StreamInv
    <3>2. CASE v \in InHandData(k) \cup UnitsOf(inbox[k])
      BY <1>5, <3>2 DEF Before, Follows, StreamInv, OrderInv, Buffered
    <3> QED
      BY <3>1, <3>2 DEF Later
  <2> QED
    BY <1>2, <2>1, <2>2, <2>3
<1> QED
  BY <1>1, <1>2, <1>4, <1>5

\* While a response is pending the client waits for it, and nothing of a later
\* request is there.
LEMMA PendingQuiet ==
  ASSUME IInv, StreamInv, RequestScripts, NEW k \in Clients, conn[k].has_pending_write
  PROVE  /\ \A u \in Later(k) : u.req > Complete(k) + 1
         /\ Answering(k) \/ Buffered(k) = {}
<1>0. CoreTypes /\ ClientTypes /\ SentTypes /\ ControlInv
  BY TypeGroups DEF IInv
<1>1. Owed(k) /\ Complete(k) \in Nat
  BY <1>0, CompleteFacts DEF Owed
<1>2. CASE ~Answering(k)
  <2>1. Buffered(k) = {}
    BY <1>1, <1>2, TurnOfRequest
  <2>2. ASSUME NEW u \in Later(k) PROVE u.req > Complete(k) + 1
    BY <1>1, <1>2 DEF Ahead, StreamInv, AnswerInv, Published
  <2> QED
    BY <2>1, <2>2
<1>3. CASE Answering(k)
  <2>1. Handled(k)
    BY <1>3 DEF Answering, Handled, AnsweringPC, SharedPC
  <2>2. PICK i \in DOMAIN conn[k].buffer : conn[k].buffer[i].last
    BY <2>1 DEF StreamInv, RequestInv, is_http_request_complete
  <2> DEFINE b == conn[k].buffer[i]
  <2>3. b \in Buffered(k) /\ b.last
    BY <2>2 DEF Buffered, UnitsOf
  <2> HIDE DEF b
  <2>4. b.req = Complete(k) + 1 /\ \A v \in Later(k) : v.req > b.req
    BY <1>1, <2>3, TurnOfRequest
  <2> QED
    BY <1>3, <2>4
<1> QED
  BY <1>2, <1>3

\* A client whose request asks to have the connection closed sends nothing more.
LEMMA CloseRequested ==
  ASSUME IInv, StreamInv, RequestScripts, CloseIsLast, NEW k \in Clients,
         ~Answering(k), is_http_request_complete(conn[k].buffer),
         NEW u \in Buffered(k), ~u.keep
  PROVE  Later(k) = {}
<1>0. CoreTypes /\ ClientTypes /\ SentTypes /\ ControlInv
  BY TypeGroups DEF IInv
<1>1. PICK m \in DOMAIN conn[k].buffer : conn[k].buffer[m].last
  BY DEF is_http_request_complete
<1> DEFINE b == conn[k].buffer[m]
<1>2. b \in Buffered(k) /\ b.last
  BY <1>1 DEF Buffered, UnitsOf
<1> HIDE DEF b
<1>3. b.req = u.req /\ b \in Heard(k) /\ u \in Heard(k) /\ b \in Units
  BY <1>2, TurnOfRequest
<1>4. PICK i \in 1..pos[k], j \in 1..pos[k] : u = Script[k][i] /\ b = Script[k][j]
  BY <1>3 DEF Heard
<1>5. /\ pos[k] \in Nat /\ pos[k] <= Len(Script[k]) /\ Script[k] \in Seq(Units)
      /\ DOMAIN Script[k] = 1..Len(Script[k]) /\ Len(Script[k]) \in Nat
  <2>1. Script[k] \in Seq(Units)
    BY ServerAssumption
  <2>2. pos[k] \in Nat /\ pos[k] <= Len(Script[k])
    BY <1>0 DEF ClientTypes, StreamInv, OrderInv
  <2> QED
    BY <2>1, <2>2
<1>6. i \in DOMAIN Script[k] /\ j \in DOMAIN Script[k]
  BY <1>5
<1>7. ~Script[k][j].keep /\ Script[k][j].last
  BY <1>2, <1>3, <1>4, <1>6 DEF CloseIsLast
<1>8. \A n \in DOMAIN Script[k] : n <= j
  BY <1>6, <1>7, Zenon DEF CloseIsLast
<1>9. ASSUME NEW v \in Later(k) PROVE FALSE
  <2>1. v \in Units /\ v.req > b.req
    BY <1>2, <1>9, TurnOfRequest
  <2>2. PICK n \in DOMAIN Script[k] : v = Script[k][n]
    <3>1. v \in Heard(k) \cup Unsaid(k)
      BY <1>9 DEF Later, StreamInv, OrderInv
    <3> QED
      BY <1>5, <3>1 DEF Heard, Unsaid
  <2>3. n = j \/ n < j
    BY <1>4, <1>5, <1>8, <2>2
  <2>4. n < j => Script[k][n].req <= Script[k][j].req
    BY <1>6, <2>2, Zenon DEF RequestScripts
  <2>5. b.req \in Nat /\ v.req \in Nat
    BY <1>3, <2>1 DEF Units
  <2> QED
    BY <1>4, <2>1, <2>2, <2>3, <2>4, <2>5
<1> QED
  BY <1>9

\* What client k sends next is the same after a step, as long as it can still
\* get to the buffer and has not.
LEMMA NextKept ==
  ASSUME IInv, EventNumber, MutexInv, [Next]_vars, NEW k \in Clients, ~DataCheck
  PROVE  NextUnits(k)' = NextUnits(k)
<1>0. /\ CoreTypes /\ ListTypes /\ ClientTypes /\ SentTypes /\ ControlInv /\ BirthInv
      /\ PendingResponseHasBytes
  BY TypeGroups DEF IInv
<1>1. FlowMoves
  BY <1>0, FlowMovesCases
<1>2. inbox[k] \in Seq(Units) /\ data \in Seq(Units)
  BY <1>0 DEF ClientTypes
<1>3. ~DataRecv => /\ Received' <=> Received
                   /\ Received => cur'[Event] = cur[Event]
  BY <1>1 DEF FlowMoves
<1>4. CASE UNCHANGED <<inbox, data, pos>> /\ ~DataRecv
  <2>1. InHandData(k)' = InHandData(k)
    BY <1>3, <1>4 DEF InHandData, UnitsOf
  <2> QED
    BY <1>4, <2>1 DEF NextUnits
<1>5. ASSUME NEW c \in Clients, ClientSend(c) PROVE NextUnits(k)' = NextUnits(k)
  <2>1. UNCHANGED <<data, pc, cur>>
    BY <1>5 DEF ClientSend, localVars
  <2>2. InHandData(k)' = InHandData(k)
    BY <2>1 DEF InHandData, UnitsOf, Received
  <2>3. CASE c # k
    <3>1. inbox'[k] = inbox[k] /\ pos'[k] = pos[k]
      BY <1>0, <1>5, <2>3 DEF ClientSend, ClientTypes
    <3> QED
      BY <2>1, <2>2, <3>1 DEF NextUnits
  <2>4. CASE c = k
    <3> DEFINE u == Script[k][pos[k] + 1]
    <3>1. inbox'[k] = Append(inbox[k], u) /\ pos[k] < Len(Script[k])
      BY <1>0, <1>5, <2>4 DEF ClientSend, ClientTypes
    <3> HIDE DEF u
    <3>2. inbox'[k] # <<>> /\ inbox'[k][1] = IF inbox[k] # <<>> THEN inbox[k][1] ELSE u
      BY <1>2, <3>1
    <3> QED
      BY <2>1, <2>2, <3>1, <3>2 DEF NextUnits, u
  <2> QED
    BY <2>3, <2>4
<1>6. CASE DataRecv
  <2>1. /\ pc[Event] = "recv" /\ UNCHANGED <<pos, cur>> /\ Event \in Threads
        /\ cur[Event] \in Clients /\ sock[cfd[Event]] \in {None, cur[Event]}
        /\ pc \in [Threads -> EventPC \cup WorkerPC \cup SharedPC]
    BY <1>0, <1>6 DEF DataRecv, EventNumber, ControlInv, DataPC, clientVars, CoreTypes,
       ControlTypes, Threads
  <2>2. InHandData(k) = {}
    BY <2>1 DEF InHandData, Received
  <2>3. CASE Goto(Event, "close") /\ UNCHANGED <<inbox, data>>
    <3>1. InHandData(k)' = {}
      BY <2>1, <2>3 DEF Goto, Received, InHandData
    <3> QED
      BY <2>1, <2>2, <2>3, <3>1 DEF NextUnits
  <2> DEFINE c == cur[Event]
             n == Smaller(RecvMax, Len(inbox[c]))
             got == SubSeq(inbox[c], 1, n)
  <2>4. CASE /\ inbox[c] # <<>> /\ data' = got /\ Goto(Event, "datalock")
             /\ inbox' = [inbox EXCEPT ![c] = SubSeq(inbox[c], Len(got) + 1, Len(inbox[c]))]
    <3>1. Received'
      BY <2>1, <2>4 DEF Goto, Received
    <3>2. CASE k # c
      <4>1. InHandData(k)' = {} /\ inbox'[k] = inbox[k]
        BY <2>1, <2>4, <3>2 DEF InHandData
      <4> QED
        BY <2>1, <2>2, <4>1 DEF NextUnits
    <3>3. CASE k = c
      <4>1. n \in 1..Len(inbox[k])
        BY <1>2, <2>4, <3>3, ServerAssumption DEF Smaller
      <4> HIDE DEF n
      <4>2. data' = SubSeq(inbox[k], 1, n)
        BY <2>4, <3>3
      <4>3. data'[1] = inbox[k][1] /\ 1 \in DOMAIN data'
        BY <1>2, <4>1, <4>2
      <4>4. InHandData(k)' # {}
        BY <2>1, <3>1, <3>3, <4>3 DEF InHandData, UnitsOf
      <4> QED
        BY <2>2, <2>4, <3>3, <4>3, <4>4 DEF NextUnits
    <3> QED
      BY <3>2, <3>3
  <2>5. \/ Goto(Event, "close") /\ UNCHANGED <<inbox, data>>
        \/ /\ sock[cfd[Event]] # None /\ inbox[sock[cfd[Event]]] # <<>>
           /\ data' = SubSeq(inbox[sock[cfd[Event]]], 1,
                             Smaller(RecvMax, Len(inbox[sock[cfd[Event]]])))
           /\ Goto(Event, "datalock")
           /\ inbox' = [inbox EXCEPT ![sock[cfd[Event]]] =
                SubSeq(inbox[sock[cfd[Event]]], Len(data') + 1, Len(inbox[sock[cfd[Event]]]))]
    BY <1>6 DEF DataRecv
  <2> QED
    BY <2>1, <2>3, <2>4, <2>5
<1> QED
  BY <1>4, <1>5, <1>6, FlowFrame

\* What cannot get to the buffer any more never will: no Connection is made twice.
LEMMA ReachableKept ==
  ASSUME IInv, [Next]_vars, NEW k \in Clients, ~(AcceptInsert /\ k = cur[Event]), Reachable(k)'
  PROVE  Reachable(k)
<1>0. /\ CoreTypes /\ ListTypes /\ ClientTypes /\ SentTypes /\ ControlInv /\ BirthInv
      /\ PendingResponseHasBytes /\ DataInv /\ MapMatchesDescriptors
  BY TypeGroups DEF IInv
<1>1. ASSUME NEW f \in Fds, connections'[f] = k PROVE connections[f] = k
  BY <1>0, <1>1, MapFrame, ServerAssumption
     DEF AcceptInsert, DataOversize, CloseErase, CoreTypes, MapTypes
<1>2. InMap(k) \/ Unborn(k)
  BY <1>0, <1>1, ArrivalStep DEF Reachable, InMap
<1>3. ASSUME pc[Event] = "oversize", cur[Event] = k PROVE FALSE
  <2>1. ~Unborn(k)' /\ DataOversize
    <3>1. ~Unborn(k)
      BY <1>0, <1>3 DEF BirthInv, Known, InHand, DataPC
    <3>2. ~Unborn(k)'
      BY <1>0, <3>1, ArrivalStep
    <3> QED
      BY <1>0, <1>3, <3>2, PlaceMovesCases DEF PlaceMoves, Reachable
  <2>2. PICK f \in Fds : connections'[f] = k
    BY <2>1 DEF Reachable, InMap
  <2>3. connections[cfd[Event]] = k /\ cfd[Event] \in Fds
    BY <1>0, <1>3 DEF DataInv, ControlInv, DataPC
  <2>4. f = cfd[Event]
    <3>1. connections[f] = k
      BY <1>1, <2>2
    <3> QED
      BY <1>0, <2>3, <3>1, ServerAssumption DEF MapMatchesDescriptors, Mapped
  <2> QED
    BY <1>0, <2>1, <2>2, <2>3, <2>4, ServerAssumption DEF DataOversize, CoreTypes, MapTypes
<1> QED
  BY <1>2, <1>3 DEF Reachable

\* Until its handler publishes a response, a Connection whose buffer starts with
\* the start of a request goes on so: units come in order, and where some are
\* thrown away the rest is too.
LEMMA VirginStep ==
  ASSUME IInv, EventNumber, MutexInv, GoneInv, [Next]_vars, NEW k \in Clients, Virgin(k),
         ~Answering(k), ~(AcceptInsert /\ k = cur[Event])
  PROVE  Virgin(k)'
<1>0. /\ CoreTypes /\ ListTypes /\ ClientTypes /\ SentTypes /\ ControlInv /\ BirthInv
      /\ PendingResponseHasBytes /\ DataInv /\ MapMatchesDescriptors
  BY TypeGroups DEF IInv
<1>1. Reachable(k)' => Reachable(k)
  BY ReachableKept
<1>2. conn[k].buffer \in Seq(Units) /\ data \in Seq(Units)
  BY <1>0 DEF CoreTypes, ConnType, Connections, ClientTypes
<1>3. ~\E w \in Workers : RequestFinish(w) /\ cur[w] = k
  BY DEF RequestFinish, Answering, AnsweringPC
<1>4. CASE ~(DataCheck /\ k = cur[Event])
  <2>1. conn'[k].buffer = conn[k].buffer
    BY <1>3, <1>4, BufferCases
  <2>2. NextUnits(k)' = NextUnits(k)
    <3>1. CASE ~DataCheck
      BY <3>1, NextKept
    <3>2. CASE DataCheck
      <4>1. /\ k # cur[Event] /\ UNCHANGED <<inbox, pos, cur>>
        BY <1>0, <1>4, <3>2, CheckOutcomes DEF CheckOutcome
      <4>2. InHandData(k) = {} /\ InHandData(k)' = {}
        BY <4>1 DEF InHandData
      <4> QED
        BY <4>1, <4>2 DEF NextUnits
    <3> QED
      BY <3>1, <3>2
  <2> QED
    BY <1>1, <2>1, <2>2 DEF Virgin
<1>5. CASE DataCheck /\ k = cur[Event]
  <2>1. /\ pc[Event] = "datacheck" /\ UNCHANGED <<cur, connections>>
        /\ \/ /\ UNCHANGED conn
              /\ connections[cfd[Event]] = None \/ pc'[Event] = "oversize"
           \/ /\ conn'[k].buffer = conn[k].buffer \o data
              /\ connections[cfd[Event]] # None
    BY <1>0, <1>5, CheckOutcomes DEF CheckOutcome
  <2>2. connections[cfd[Event]] \in {None, k} /\ cfd[Event] \in Fds /\ cfd[Event] = conn[k].fd
    BY <1>0, <1>5, <2>1 DEF DataInv, ControlInv, DataPC, MutexInv
  <2>3. Received /\ data # <<>>
    BY <2>1 DEF Received, GoneInv
  <2>4. CASE UNCHANGED conn /\ pc'[Event] = "oversize"
    <3>1. ~Reachable(k)'
      BY <1>5, <2>1, <2>4 DEF Reachable
    <3> QED
      BY <2>4, <3>1 DEF Virgin
  <2>5. CASE UNCHANGED conn /\ connections[cfd[Event]] = None
    <3>1. ~InMap(k)
      BY <1>0, <2>2, <2>5, ServerAssumption DEF InMap, MapMatchesDescriptors, Mapped
    <3>2. ~Unborn(k)
      BY <1>0, <1>5, <2>1 DEF BirthInv, Known, InHand, DataPC
    <3> QED
      BY <1>1, <2>5, <3>1, <3>2 DEF Virgin, Reachable
  <2>6. CASE conn'[k].buffer = conn[k].buffer \o data /\ connections[cfd[Event]] # None
    <3>1. CASE conn[k].buffer # <<>>
      <4>1. conn'[k].buffer # <<>> /\ conn'[k].buffer[1] = conn[k].buffer[1]
        BY <1>2, <2>6, <3>1
      <4> QED
        BY <3>1, <4>1 DEF Virgin
    <3>2. CASE conn[k].buffer = <<>>
      <4>1. conn'[k].buffer # <<>> /\ conn'[k].buffer[1] = data[1]
        BY <1>2, <2>3, <2>6, <3>2
      <4>2. data[1] \in NextUnits(k)
        <5>1. 1 \in DOMAIN data
          BY <1>2, <2>3
        <5>2. InHandData(k) # {}
          BY <1>5, <2>3, <5>1 DEF InHandData, UnitsOf
        <5> QED
          BY <5>2 DEF NextUnits
      <4>3. Reachable(k)
        BY <2>1, <2>2, <2>6 DEF Reachable, InMap
      <4> QED
        BY <3>2, <4>1, <4>2, <4>3 DEF Virgin
    <3> QED
      BY <3>1, <3>2
  <2> QED
    BY <2>1, <2>4, <2>5, <2>6
<1> QED
  BY <1>4, <1>5

\* A sequence without units is empty.
LEMMA NoUnits ==
  /\ UnitsOf(<<>>) = {}
  /\ \A s \in Seq(Units) : (\A i \in DOMAIN s : FALSE) => s = <<>>
  /\ \A s \in Seq(Units) : UnitsOf(s) = {} => s = <<>>
<1>1. UnitsOf(<<>>) = {}
  BY DEF UnitsOf
<1>2. ASSUME NEW s \in Seq(Units), \A i \in DOMAIN s : FALSE PROVE s = <<>>
  <2>1. Len(s) = 0
    <3>1. Len(s) \in Nat /\ DOMAIN s = 1..Len(s)
      OBVIOUS
    <3>2. Len(s) > 0 => 1 \in DOMAIN s
      BY <3>1
    <3> QED
      BY <1>2, <3>1, <3>2
  <2> QED
    BY <2>1
<1>3. ASSUME NEW s \in Seq(Units), UnitsOf(s) = {} PROVE s = <<>>
  <2>1. \A i \in DOMAIN s : FALSE
    BY <1>3 DEF UnitsOf
  <2> QED
    BY <1>2, <2>1
<1> QED
  BY <1>1, <1>2, <1>3

\* A buffer that is the same has the same units, and one that is empty has none.
LEMMA BufferedKept ==
  ASSUME NEW k \in Clients
  PROVE  /\ conn'[k].buffer = conn[k].buffer => Buffered(k)' = Buffered(k)
         /\ conn'[k].buffer = <<>> => Buffered(k)' = {}
<1>1. Buffered(k)' = UnitsOf(conn'[k].buffer) /\ Buffered(k) = UnitsOf(conn[k].buffer)
  BY DEF Buffered, UnitsOf
<1> QED
  BY <1>1, NoUnits

\* A Connection that is still to be made is empty, and is not kept.
LEMMA UnbornStep ==
  ASSUME IInv, KeepInv, [Next]_vars, NEW k \in Clients, Unborn(k)'
  PROVE  Buffered(k)' = {} /\ ~conn'[k].keep_alive
<1>0. /\ CoreTypes /\ ListTypes /\ ClientTypes /\ SentTypes /\ ControlInv /\ BirthInv
      /\ PendingResponseHasBytes
  BY TypeGroups DEF IInv
<1>1. Unborn(k) /\ ~Known(k)
  BY <1>0, ArrivalStep DEF BirthInv
<1>2. Buffered(k) = {} /\ ~conn[k].keep_alive
  BY <1>1 DEF KeepInv
<1>3. ~conn'[k].keep_alive
  <2>1. ASSUME NEW w \in Workers, RequestKeepAlive(w), cur[w] = k PROVE FALSE
    BY <1>1, <2>1 DEF Known, Handled, RequestKeepAlive
  <2> QED
    BY <1>2, <2>1, KeepCases
<1>4. ~(DataCheck /\ k = cur[Event])
  BY <1>1 DEF Known, InHand, DataPC, DataCheck
<1>5. conn'[k].buffer = conn[k].buffer \/ conn'[k].buffer = <<>>
  BY <1>4, BufferCases
<1>6. Buffered(k)' = {}
  BY <1>2, <1>5, BufferedKept
<1> QED
  BY <1>3, <1>6

\* A client that has fallen silent stays so.
LEMMA SilentStep ==
  ASSUME IInv, NumberKept, EventNumber, StreamInv, KeepInv, RequestScripts, [Next]_vars,
         NEW k \in Clients, Silent(k), ~conn[k].keep_alive, ~(AcceptInsert /\ k = cur[Event])
  PROVE  Silent(k)'
<1>0. /\ CoreTypes /\ ListTypes /\ ClientTypes /\ SentTypes /\ ControlInv /\ BirthInv
      /\ PendingResponseHasBytes
  BY TypeGroups DEF IInv
<1>1. Later(k)' \subseteq Later(k)
  BY AheadShrinks
<1>2. \/ Later(k)' = {}
      \/ ~conn'[k].has_pending_write /\ \A u \in Later(k)' : u.req > Complete(k)' + 1
  <2>1. CASE Later(k) = {}
    BY <1>1, <2>1
  <2>2. CASE ~conn[k].has_pending_write /\ \A u \in Later(k) : u.req > Complete(k) + 1
    <3>1. CASE conn'[k].has_pending_write
      <4>1. PICK w \in Workers : RequestPublish(w) /\ cur[w] = k
        BY <2>2, <3>1, PendingIsPublished
      <4>2. Later(k) = {}
        BY <4>1 DEF KeepInv, RequestPublish
      <4> QED
        BY <1>1, <4>2
    <3>2. sent'[k] = sent[k]
      BY <2>2, OutputCases DEF OutputOf, Writes
    <3>3. Complete(k)' = Complete(k)
      BY <3>2 DEF Complete, Wholes
    <3>4. CASE ~conn'[k].has_pending_write
      BY <1>1, <2>2, <3>3, <3>4
    <3> QED
      BY <3>1, <3>4
  <2> QED
    BY <2>1, <2>2 DEF Silent
<1>3. Answering(k)' \/ Buffered(k)' = {}
  <2>1. ASSUME NEW w \in Workers, pc[w] \in AnsweringPC, cur[w] = k
        PROVE  Answering(k)' \/ Buffered(k)' = {}
    <3>1. CASE RequestFinish(w)
      <4>1. conn'[k].buffer = <<>>
        BY <1>0, <2>1, <3>1, RequestOutcomes
      <4> QED
        BY <4>1, BufferedKept
    <3>2. CASE pc'[w] \in AnsweringPC /\ cur'[w] = cur[w]
      BY <2>1, <3>2 DEF Answering
    <3> QED
      BY <1>0, <2>1, <3>1, <3>2, FlowMovesCases DEF FlowMoves
  <2>2. CASE ~Answering(k)
    <3>1. Buffered(k) = {}
      BY <2>2 DEF Silent
    <3>2. CASE conn'[k].buffer = conn[k].buffer \/ conn'[k].buffer = <<>>
      BY <3>1, <3>2, BufferedKept
    <3>3. CASE conn'[k].buffer = conn[k].buffer \o data /\ DataCheck /\ k = cur[Event]
      <4>1. conn[k].buffer \in Seq(Units) /\ data \in Seq(Units)
        BY <1>0 DEF CoreTypes, ConnType, Connections, ClientTypes
      <4>2. ASSUME NEW i \in DOMAIN data PROVE FALSE
        <5> DEFINE u == data[i]
        <5>1. u \in InHandData(k)
          BY <3>3 DEF InHandData, UnitsOf, Received, DataCheck
        <5>2. u \in Later(k) /\ u \in Heard(k) /\ u \in Units
          BY <1>0, <5>1, AheadUnits DEF Later, Ahead, StreamInv, OrderInv
        <5> HIDE DEF u
        <5>3. u.req \in Nat /\ Complete(k) \in Nat /\ u.req <= Complete(k) + 1
          BY <1>0, <5>2, CompleteFacts DEF Units, StreamInv, TurnInv
        <5>4. u.req > Complete(k) + 1
          BY <5>2 DEF Silent
        <5> QED
          BY <5>3, <5>4
      <4>3. data = <<>>
        BY <4>1, <4>2, NoUnits
      <4>4. conn'[k].buffer = conn[k].buffer
        BY <3>3, <4>1, <4>3
      <4> QED
        BY <3>1, <4>4, BufferedKept
    <3> QED
      BY <3>2, <3>3, BufferCases
  <2> QED
    BY <2>1, <2>2 DEF Answering
<1> QED
  BY <1>2, <1>3 DEF Silent

\* A Connection is made for a client whose first unit starts a request.
LEMMA InsertStep ==
  ASSUME IInv, EventNumber, MutexInv, KeepInv, RequestScripts, [Next]_vars, AcceptInsert,
         NEW k \in Clients, k = cur[Event]
  PROVE  Silent(k)' \/ (~Answering(k)' /\ Virgin(k)')
<1>0. /\ CoreTypes /\ ListTypes /\ ClientTypes /\ SentTypes /\ ControlInv /\ BirthInv
      /\ PendingResponseHasBytes
  BY TypeGroups DEF IInv
<1>1. /\ pc[Event] = "insert" /\ UNCHANGED <<cur, sent>>
      /\ pc' = [pc EXCEPT ![Event] = "accept"]
  BY DEF AcceptInsert, Goto, kernelVars
<1>2. Unborn(k) /\ ~Known(k) /\ Reachable(k)
  BY <1>0, <1>1 DEF Unborn, Accepting, BirthInv, Reachable
<1>3. Buffered(k) = {} /\ ~conn[k].keep_alive /\ (Silent(k) \/ Virgin(k))
  BY <1>2 DEF KeepInv
<1>4. ~Answering(k)'
  <2>1. \A w \in Workers : cur[w] = k => pc[w] = "idle"
    BY <1>2 DEF Known, Handled
  <2>2. \A w \in Workers : pc'[w] = pc[w]
    BY <1>0, <1>1, ServerAssumption DEF CoreTypes, ControlTypes, Threads
  <2> QED
    BY <1>1, <2>1, <2>2 DEF Answering, AnsweringPC, SharedPC
<1>5. conn'[k].buffer = <<>> /\ ~conn'[k].has_pending_write
  BY <1>0 DEF AcceptInsert, NewConnection, CoreTypes, ConnType
<1>6. CASE Silent(k)
  <2>1. Later(k)' \subseteq Later(k)
    BY AheadShrinks
  <2>2. Complete(k)' = Complete(k)
    BY <1>1 DEF Complete, Wholes
  <2>3. Buffered(k)' = {}
    BY <1>5, BufferedKept
  <2> QED
    BY <1>5, <1>6, <2>1, <2>2, <2>3 DEF Silent
<1>7. CASE Virgin(k)
  <2>1. conn[k].buffer = <<>>
    <3>1. conn[k].buffer \in Seq(Units)
      BY <1>0 DEF CoreTypes, ConnType, Connections
    <3> QED
      BY <1>3, <3>1, NoUnits DEF Buffered
  <2>2. \A u \in NextUnits(k) : u.first
    BY <1>2, <1>7, <2>1 DEF Virgin
  <2>3. NextUnits(k)' = NextUnits(k)
    <3>1. ~DataCheck
      BY <1>1 DEF DataCheck
    <3> QED
      BY <3>1, NextKept
  <2>4. Virgin(k)'
    BY <1>5, <2>2, <2>3 DEF Virgin
  <2> QED
    BY <1>4, <2>4
<1> QED
  BY <1>3, <1>6, <1>7

\* A Connection that is not kept is new, or its client has fallen silent: its
\* request asked for that or it could not be sent its response.
LEMMA NotKeptStep ==
  ASSUME IInv, NumberKept, EventNumber, StreamInv, CycleInv, RequestScripts, [Next]_vars,
         NEW k \in Clients, ~conn'[k].keep_alive
  PROVE  Silent(k)' \/ (~Answering(k)' /\ Virgin(k)')
<1>0. /\ CoreTypes /\ ListTypes /\ ClientTypes /\ SentTypes /\ ControlInv /\ BirthInv
      /\ PendingResponseHasBytes
  BY TypeGroups DEF IInv
<1>a. KeepInv /\ MutexInv /\ GoneInv
  BY DEF CycleInv
<1>1. CASE AcceptInsert /\ k = cur[Event]
  BY <1>a, <1>1, InsertStep
<1>2. ASSUME NEW w \in Workers, RequestKeepAlive(w), cur[w] = k
      PROVE  ~Answering(k)' /\ Virgin(k)'
  <2>1. /\ pc[w] = "keep" /\ pc'[w] = "answer" /\ UNCHANGED cur
        /\ \A v \in Workers \ {w} : pc'[v] = pc[v]
    BY <1>0, <1>2 DEF RequestKeepAlive, Goto, CoreTypes, ControlTypes, Threads
  <2>2. \A v \in Workers : cur[v] = k => v = w \/ pc[v] = "idle"
    BY <1>2, <2>1, HandledFacts
  <2>3. ~Answering(k)'
    BY <2>1, <2>2 DEF Answering, AnsweringPC, SharedPC
  <2>4. conn'[k].buffer = conn[k].buffer
    BY <1>0, <1>2, RequestOutcomes DEF SameInput
  <2>5. conn[k].buffer[1].first
    BY <1>a, <1>2, <2>1 DEF KeepInv
  <2>6. conn[k].buffer # <<>>
    <3>1. is_http_request_complete(conn[k].buffer)
      BY <1>2, <2>1 DEF StreamInv, RequestInv, Handled
    <3> QED
      BY <3>1 DEF is_http_request_complete
  <2> QED
    BY <2>3, <2>4, <2>5, <2>6 DEF Virgin
<1>3. ASSUME NEW t \in Threads, SendBegin(t), cur[t] = k, conn[k].has_pending_write,
             UNCHANGED sent, ~conn'[k].has_pending_write
      PROVE  Silent(k)'
  <2>1. /\ \A u \in Later(k) : u.req > Complete(k) + 1
        /\ Answering(k) \/ Buffered(k) = {}
    BY <1>3, PendingQuiet
  <2>2. Later(k)' \subseteq Later(k) /\ Complete(k)' = Complete(k)
    BY <1>3, AheadShrinks DEF Complete, Wholes
  <2>3. pc[t] = "send"
    BY <1>3 DEF SendBegin
  <2>4. Answering(k) => Answering(k)'
    <3>1. ASSUME NEW w \in Workers, RequestFinish(w) PROVE w # t /\ FALSE
      <4>1. pc' = [pc EXCEPT ![t] = pc'[t]]
        BY <1>0, <1>3, SendControl DEF SendMoves, CoreTypes, ControlTypes
      <4>2. pc[w] = "finish" /\ pc'[w] = "idle"
        BY <1>0, <3>1 DEF RequestFinish, Goto, CoreTypes, ControlTypes, Threads
      <4> QED
        BY <1>0, <2>3, <4>1, <4>2 DEF CoreTypes, ControlTypes, Threads
    <3> QED
      BY <1>0, <3>1, FlowMovesCases DEF FlowMoves, Answering
  <2>5. Buffered(k)' = Buffered(k) \/ Buffered(k)' = {}
    <3>1. ~DataCheck
      <4>1. DataCheck => UNCHANGED cfd /\ pc[Event] = "datacheck" /\ pc'[Event] # "datacheck"
        BY <1>0, CheckOutcomes DEF CheckOutcome
      <4>2. pc[Event] = "datacheck" => pc'[Event] = "datacheck"
        BY <1>0, <1>3, <2>3, SendControl DEF SendMoves, CoreTypes, ControlTypes, Threads
      <4> QED
        BY <4>1, <4>2
    <3>2. conn'[k].buffer = conn[k].buffer \/ conn'[k].buffer = <<>>
      BY <3>1, BufferCases
    <3> QED
      BY <3>2, BufferedKept
  <2> QED
    BY <1>3, <2>1, <2>2, <2>4, <2>5 DEF Silent
<1>4. CASE conn'[k].keep_alive = conn[k].keep_alive /\ ~(AcceptInsert /\ k = cur[Event])
  <2>1. CASE Silent(k)
    BY <1>a, <1>4, <2>1, SilentStep
  <2>2. CASE ~Answering(k) /\ Virgin(k)
    <3>1. Virgin(k)'
      BY <1>a, <1>4, <2>2, VirginStep
    <3>2. ASSUME NEW w \in Workers, pc'[w] \in AnsweringPC, cur'[w] = k PROVE Silent(k)'
      <4>1. RequestPublish(w)
        BY <1>0, <2>2, <3>2, FlowMovesCases DEF FlowMoves, Answering
      <4>2. pc[w] = "publish" /\ cur[w] = k
        BY <3>2, <4>1 DEF RequestPublish
      <4>3. Later(k) = {}
        BY <1>a, <1>4, <4>2 DEF KeepInv
      <4>4. Later(k)' = {}
        BY <4>3, AheadShrinks
      <4>5. Answering(k)'
        BY <3>2 DEF Answering
      <4> QED
        BY <4>4, <4>5 DEF Silent
    <3> QED
      BY <3>1, <3>2 DEF Answering
  <2> QED
    BY <1>a, <1>4, <2>1, <2>2 DEF KeepInv
<1> QED
  BY <1>1, <1>2, <1>3, <1>4, KeepCases

\* A handler that is about to act on what it parsed has parsed the start of a
\* request.
LEMMA ParsedStep ==
  ASSUME IInv, NumberKept, EventNumber, StreamInv, CycleInv, RequestScripts, CloseIsLast,
         [Next]_vars, NEW w \in Workers, NEW k \in Clients, pc'[w] = "keep", cur'[w] = k
  PROVE  /\ conn'[k].buffer[1].first
         /\ ~reply'[w].keep => Later(k)' = {}
<1>0. /\ CoreTypes /\ ListTypes /\ ClientTypes /\ SentTypes /\ ReplyTypes /\ ControlInv
      /\ BirthInv /\ PendingResponseHasBytes
  BY TypeGroups DEF IInv
<1>a. KeepInv
  BY DEF CycleInv
<1>1. CASE pc[w] = "keep" /\ cur'[w] = cur[w] /\ reply'[w] = reply[w]
  <2>1. /\ cur[w] \in Clients /\ Handled(cur[w]) /\ ~(AcceptInsert /\ cur[Event] = cur[w])
        /\ \A v \in Workers : pc[v] # "idle" /\ cur[v] = cur[w] => v = w
    BY <1>1, HandledFacts
  <2>2. k = cur[w]
    BY <1>1
  <2>3. conn[k].buffer[1].first /\ (~reply[w].keep => Later(k) = {})
    BY <1>a, <1>1, <2>2 DEF KeepInv
  <2>4. Later(k)' \subseteq Later(k)
    BY AheadShrinks
  <2>5. ~\E v \in Workers : RequestFinish(v) /\ cur[v] = k
    BY <1>1, <2>1, <2>2 DEF RequestFinish
  <2>6. conn[k].buffer \in Seq(Units) /\ data \in Seq(Units)
    BY <1>0 DEF CoreTypes, ConnType, Connections, ClientTypes
  <2>7. conn[k].buffer # <<>>
    <3>1. is_http_request_complete(conn[k].buffer)
      BY <2>1, <2>2 DEF StreamInv, RequestInv
    <3> QED
      BY <3>1 DEF is_http_request_complete
  <2>8. conn'[k].buffer = conn[k].buffer \/ conn'[k].buffer = conn[k].buffer \o data
    BY <2>1, <2>2, <2>5, BufferCases
  <2>9. conn'[k].buffer[1] = conn[k].buffer[1]
    <3> DEFINE b == conn[k].buffer
    <3>1. b \in Seq(Units) /\ b # <<>> /\ data \in Seq(Units)
      BY <2>6, <2>7
    <3> HIDE DEF b
    <3>2. (b \o data)[1] = b[1]
      BY <3>1
    <3> QED
      BY <2>8, <3>2 DEF b
  <2> QED
    BY <1>1, <2>2, <2>3, <2>4, <2>9
<1>2. CASE RequestParse(w)
  <2>1. /\ pc[w] = "parse" /\ UNCHANGED <<conn, cur>>
        /\ reply'[w] = Parse(conn[cur[w]].buffer) /\ reply'[w] # BadRequest
    BY <1>0, <1>2 DEF RequestParse, Goto, serverVars, CoreTypes, ControlTypes, Threads, ReplyTypes
  <2>2. k = cur[w]
    BY <2>1
  <2>3. conn[k].buffer # <<>> /\ conn[k].buffer[1].first /\ reply'[w] = conn[k].buffer[1]
    BY <2>1, <2>2 DEF Parse
  <2>4. conn[k].buffer[1] \in Buffered(k)
    <3>1. conn[k].buffer \in Seq(Units)
      BY <1>0 DEF CoreTypes, ConnType, Connections
    <3>2. 1 \in DOMAIN conn[k].buffer
      BY <2>3, <3>1
    <3> QED
      BY <3>2 DEF Buffered, UnitsOf
  <2>5. is_http_request_complete(conn[k].buffer) /\ ~Answering(k)
    <3>1. Handled(k) /\ \A v \in Workers : pc[v] # "idle" /\ cur[v] = k => v = w
      BY <2>1, <2>2, HandledFacts
    <3> QED
      BY <2>1, <3>1 DEF StreamInv, RequestInv, Answering, AnsweringPC, SharedPC
  <2>6. ~reply'[w].keep => Later(k) = {}
    BY <2>3, <2>4, <2>5, CloseRequested
  <2>7. Later(k)' \subseteq Later(k)
    BY AheadShrinks
  <2> QED
    BY <2>1, <2>2, <2>3, <2>6, <2>7
<1> QED
  BY <1>0, <1>1, <1>2, PlaceMovesCases DEF PlaceMoves

\* A client whose Connection is not kept once its response is ready has fallen
\* silent.
LEMMA ReadyStep ==
  ASSUME IInv, NumberKept, EventNumber, StreamInv, CycleInv, RequestScripts, [Next]_vars,
         NEW w \in Workers, NEW k \in Clients, pc'[w] \in {"answer", "publish"}, cur'[w] = k,
         ~conn'[k].keep_alive
  PROVE  Later(k)' = {}
<1>0. /\ CoreTypes /\ ListTypes /\ ClientTypes /\ SentTypes /\ ReplyTypes /\ ControlInv
      /\ BirthInv /\ PendingResponseHasBytes
  BY TypeGroups DEF IInv
<1>a. KeepInv
  BY DEF CycleInv
<1>1. \/ pc[w] \in {"answer", "publish"} /\ cur'[w] = cur[w]
      \/ RequestParse(w) \/ RequestKeepAlive(w)
  BY <1>0, PlaceMovesCases DEF PlaceMoves
<1>2. pc[w] \in {"parse", "keep", "answer", "publish"} /\ cur'[w] = cur[w]
  BY <1>1 DEF RequestParse, RequestKeepAlive
<1>3. k = cur[w]
  BY <1>2
<1>4. /\ Handled(k) /\ ~(AcceptInsert /\ cur[Event] = k)
      /\ \A v \in Workers : pc[v] # "idle" /\ cur[v] = k => v = w
  BY <1>2, <1>3, HandledFacts
<1>5. is_http_request_complete(conn[k].buffer) /\ ~Answering(k)
  BY <1>2, <1>4 DEF StreamInv, RequestInv, Answering, AnsweringPC, SharedPC
<1>6. PICK i \in DOMAIN conn[k].buffer : conn[k].buffer[i].last
  BY <1>5 DEF is_http_request_complete
<1>7. Buffered(k) # {} /\ conn[k].buffer # <<>>
  <2>1. conn[k].buffer[i] \in Buffered(k)
    BY <1>6 DEF Buffered, UnitsOf
  <2>2. conn[k].buffer # <<>>
    BY <1>5 DEF is_http_request_complete
  <2> QED
    BY <2>1, <2>2
<1>8. Later(k)' \subseteq Later(k)
  BY AheadShrinks
<1>9. CASE pc[w] \in {"answer", "publish"}
  <2>1. ASSUME NEW v \in Workers, RequestKeepAlive(v), cur[v] = k PROVE FALSE
    BY <1>4, <1>9, <2>1 DEF RequestKeepAlive
  <2>2. ~conn[k].has_pending_write
    BY <1>5, <1>7, PendingQuiet
  <2>3. conn'[k].keep_alive = conn[k].keep_alive
    BY <1>4, <2>1, <2>2, KeepCases
  <2>4. Later(k) = {}
    BY <1>a, <1>2, <1>3, <1>9, <2>3 DEF KeepInv
  <2> QED
    BY <1>2, <1>3, <1>8, <2>4
<1>10. CASE RequestParse(w)
  <2>1. UNCHANGED conn /\ (pc'[w] = "answer" => Parse(conn[k].buffer) = BadRequest)
        /\ pc'[w] \in {"answer", "keep"}
    BY <1>0, <1>3, <1>10 DEF RequestParse, Goto, serverVars, CoreTypes, ControlTypes, Threads
  <2>2. ~conn[k].keep_alive /\ Parse(conn[k].buffer) = BadRequest
    BY <1>2, <1>3, <2>1
  <2>3. conn[k].buffer[1].first
    BY <1>a, <1>5, <1>7, <2>2 DEF KeepInv, Silent, Virgin
  <2>4. conn[k].buffer[1] = BadRequest
    BY <1>7, <2>2, <2>3 DEF Parse
  <2> QED
    BY <2>3, <2>4 DEF BadRequest
<1>11. CASE RequestKeepAlive(w)
  <2>1. pc[w] = "keep" /\ conn'[k].keep_alive = reply[w].keep
    BY <1>0, <1>3, <1>11, RequestOutcomes DEF RequestKeepAlive
  <2>2. Later(k) = {}
    BY <1>a, <1>2, <1>3, <2>1 DEF KeepInv
  <2> QED
    BY <1>2, <1>3, <1>8, <2>2
<1> QED
  BY <1>1, <1>9, <1>10, <1>11

\* A worker closes a Connection only if it is not kept alive.
LEMMA ClosingStep ==
  ASSUME IInv, KeepInv, [Next]_vars, NEW w \in Workers, pc'[w] \in ClosePC
  PROVE  ~conn'[cur'[w]].keep_alive
<1>0. /\ CoreTypes /\ ListTypes /\ ClientTypes /\ SentTypes /\ ReplyTypes /\ ControlInv
      /\ BirthInv /\ PendingResponseHasBytes
  BY TypeGroups DEF IInv
<1>1. CASE pc[w] \in ClosePC /\ cur'[w] = cur[w]
  <2>1. PICK k \in Clients : k = cur[w]
    BY <1>1, HandledFacts DEF ClosePC
  <2>2. ASSUME NEW v \in Workers, RequestKeepAlive(v), cur[v] = k PROVE FALSE
    BY <1>1, <2>1, <2>2, HandledFacts DEF RequestKeepAlive, ClosePC
  <2>3. ~conn[k].keep_alive
    BY <1>1, <2>1 DEF KeepInv
  <2>4. ~conn'[k].keep_alive
    BY <2>2, <2>3, KeepCases
  <2> QED
    BY <1>1, <2>1, <2>4
<1>2. CASE SendBegin(w)
  <2> DEFINE k == cur[w]
             n == SendCount(conn[k], sock[conn[k].fd])
             e == [conn[k] EXCEPT !.keep_alive = FALSE, !.has_pending_write = FALSE]
  <2>1. pc[w] = "send" /\ UNCHANGED cur /\ k \in Clients /\ ret[w] = "finish"
    BY <1>0, <1>2, SendControl, ServerAssumption
       DEF SendMoves, ControlInv, SharedPC, Threads
  <2>2. ~e.keep_alive
    BY <1>0, <2>1 DEF CoreTypes, ConnType, Connections
  <2> HIDE DEF e, n
  <2>3. \/ pc' = [pc EXCEPT ![w] = ret[w]]
        \/ pc' = [pc EXCEPT ![w] = "arm"]
        \/ pc' = [pc EXCEPT ![w] = IF conn[k].offset + n < RespLen THEN "arm" ELSE "disarm"]
        \/ conn' = [conn EXCEPT ![k] = e]
    BY <1>0, <1>2, SendOutcomes, Zenon DEF SendOutcome, n, e, Threads
  <2>4. conn' = [conn EXCEPT ![k] = e]
    BY <1>0, <2>1, <2>3 DEF CoreTypes, ControlTypes, Threads, ClosePC
  <2> QED
    BY <1>0, <2>1, <2>2, <2>4 DEF CoreTypes, ConnType
<1>3. CASE SendDisarm(w)
  <2>1. /\ pc[w] = "disarm" /\ UNCHANGED <<conn, cur>> /\ ret[w] = "finish"
        /\ pc' = [pc EXCEPT ![w] = IF conn[cur[w]].keep_alive THEN ret[w] ELSE "close"]
    BY <1>0, <1>3 DEF SendDisarm, Goto, ControlInv, SharedPC
  <2> QED
    BY <1>0, <2>1 DEF CoreTypes, ControlTypes, Threads, ClosePC
<1> QED
  BY <1>0, <1>1, <1>2, <1>3, PlaceMovesCases DEF PlaceMoves

\* So what is known of Connections that are not kept alive holds after every step.
LEMMA KeepInvStep ==
  ASSUME IInv, NumberKept, EventNumber, StreamInv, CycleInv, RequestScripts, CloseIsLast,
         [Next]_vars
  PROVE  KeepInv'
<1>1. KeepInv
  BY DEF CycleInv
<1>2. (\A k \in Clients : Unborn(k) => Buffered(k) = {} /\ ~conn[k].keep_alive)'
  BY <1>1, UnbornStep
<1>3. (\A k \in Clients : ~conn[k].keep_alive => Silent(k) \/ (~Answering(k) /\ Virgin(k)))'
  BY NotKeptStep
<1>4. ASSUME NEW w \in Workers
      PROVE  (/\ pc[w] = "keep" => /\ conn[cur[w]].buffer[1].first
                                   /\ ~reply[w].keep => Later(cur[w]) = {}
              /\ pc[w] \in {"answer", "publish"} /\ ~conn[cur[w]].keep_alive =>
                   Later(cur[w]) = {}
              /\ pc[w] \in ClosePC => ~conn[cur[w]].keep_alive)'
  <2>1. CASE pc'[w] \in {"keep", "answer", "publish"}
    <3>1. IInv'
      BY ServerNext
    <3>2. cur'[w] \in Clients
      BY <2>1, <3>1 DEF IInv, ControlInv
    <3>3. PICK k \in Clients : cur'[w] = k
      BY <3>2
    <3>4. pc'[w] = "keep" => conn'[k].buffer[1].first /\ (~reply'[w].keep => Later(k)' = {})
      BY <3>3, ParsedStep
    <3>5. pc'[w] \in {"answer", "publish"} /\ ~conn'[k].keep_alive => Later(k)' = {}
      BY <3>3, ReadyStep
    <3> QED
      BY <2>1, <3>3, <3>4, <3>5 DEF ClosePC
  <2>2. CASE pc'[w] \notin {"keep", "answer", "publish"}
    BY <1>1, <2>2, ClosingStep
  <2> QED
    BY <2>1, <2>2
<1> QED
  BY <1>2, <1>3, <1>4 DEF KeepInv

\* At the start nobody has a mutex and no Connection is kept alive.
LEMMA CycleInit ==
  ASSUME RequestScripts
  PROVE  Init => CycleInv
<1> SUFFICES ASSUME Init PROVE CycleInv
  OBVIOUS
<1>1. \A k \in Clients : /\ conn[k].buffer = <<>> /\ ~conn[k].has_pending_write
                         /\ ~conn[k].keep_alive
                         /\ inbox[k] = <<>> /\ pos[k] = 0 /\ conn_mutex[k] = None
  BY DEF Init, NewConnection
<1>2. pc[Event] = "wait" /\ \A w \in Workers : pc[w] = "idle"
  BY ServerAssumption DEF Init, Threads
<1>3. MutexInv
  BY <1>1, <1>2 DEF MutexInv, ClosePC
<1>4. GoneInv
  BY <1>2 DEF GoneInv, Received
<1>5. ASSUME NEW k \in Clients PROVE Buffered(k) = {} /\ ~Answering(k) /\ Virgin(k)
  <2>1. Buffered(k) = {}
    BY <1>1, NoUnits DEF Buffered
  <2>2. ~Answering(k)
    BY <1>2 DEF Answering, AnsweringPC, SharedPC
  <2>3. ~Received
    BY <1>2 DEF Received
  <2>4. ASSUME NEW u \in NextUnits(k) PROVE u.first
    <3>1. 0 < Len(Script[k]) /\ u = Script[k][0 + 1]
      BY <1>1, <2>3 DEF NextUnits, InHandData
    <3>2. 1 \in DOMAIN Script[k] /\ u = Script[k][1]
      <4>1. Script[k] \in Seq(Units)
        BY ServerAssumption
      <4> QED
        BY <3>1, <4>1
    <3>3. ~Script[k][1].first => 1 > 1
      BY <3>2, Zenon DEF RequestScripts
    <3> QED
      BY <3>2, <3>3
  <2>5. Virgin(k)
    BY <1>1, <2>4 DEF Virgin
  <2> QED
    BY <2>1, <2>2, <2>5
<1>6. KeepInv
  BY <1>1, <1>2, <1>5 DEF KeepInv, ClosePC
<1> QED
  BY <1>3, <1>4, <1>6 DEF CycleInv

\* connections_mutex_ and the mutex_ of a Connection are taken in one order by
\* close_connection, the cleanup and a worker that abandons a request, and in the
\* other by handle_client_data; yet no two threads take them so at a time, and the
\* server does not lock itself up, as long as clients wait for their responses.
THEOREM NoCycle ==
  ASSUME ~Pipelining, RequestScripts, CloseIsLast
  PROVE  Spec /\ []NumberKept => []NoLockCycle
<1> DEFINE Inv == EventNumber /\ StreamInv /\ CycleInv
<1>1. IInv /\ NumberKept /\ Inv /\ [Next]_vars => Inv'
  <2>1. IInv /\ EventNumber /\ [Next]_vars => EventNumber'
    BY EventNumberStep
  <2>2. IInv /\ NumberKept /\ EventNumber /\ StreamInv /\ [Next]_vars => StreamInv'
    BY StreamNext
  <2>3. IInv /\ NumberKept /\ Inv /\ [Next]_vars => KeepInv'
    BY KeepInvStep
  <2>4. IInv /\ CycleInv /\ [Next]_vars => MutexInv'
    BY MutexStep DEF CycleInv
  <2>5. IInv /\ NumberKept /\ Inv /\ [Next]_vars => GoneInv'
    BY GoneInvStep
  <2> QED
    BY <2>1, <2>2, <2>3, <2>4, <2>5 DEF CycleInv
<1>2. Init => Inv
  BY SendInit, StreamInit, CycleInit
<1>3. IInv /\ NumberKept /\ Inv => NoLockCycle
  BY CycleExcluded
<1> HIDE DEF Inv
<1> QED
  BY <1>1, <1>2, <1>3, ServerInvariance, PTL DEF Spec

-------------------------------------------------------------------------------
(* A single client *)

\* Where one client connects, no descriptor number is ever given to another.
LEMMA OneClient ==
  ASSUME NEW c \in Clients, Clients = {c}
  PROVE  Spec => []NumberKept
<1>1. ASSUME IInv PROVE NumberKept
  <2>0. CoreTypes /\ ControlInv /\ BirthInv
    BY <1>1, TypeGroups DEF IInv
  <2>1. sock \in [Fds -> Clients \cup {None}]
    BY <2>0 DEF CoreTypes, MapTypes
  <2>2. ASSUME NEW w \in Workers, pc[w] \in SendPC \cup {"close", "erase"}
        PROVE  sock[conn[cur[w]].fd] \in {None, cur[w]}
    <3>1. pc[w] # "idle"
      BY <2>2 DEF SendPC
    <3>2. cur[w] = c /\ conn[cur[w]].fd \in Fds
      BY <2>0, <3>1, InUse
    <3> QED
      BY <2>1, <3>2
  <2> QED
    BY <2>2 DEF NumberKept
<1> QED
  BY <1>1, ServerInvariance, PTL

\* With a single client, a response that is only partly written always has the
\* event loop, or a thread that is still sending it, to write the rest.
THEOREM PendingIsWatchedAlone ==
  ASSUME NEW c \in Clients, Clients = {c}
  PROVE  Spec => []PendingWriteIsWatched
  BY OneClient, PendingIsWatched, PTL

\* A single client that waits for its responses is sent them whole and in the
\* order of its requests, whatever the workers and the event thread do meanwhile.
THEOREM StreamWholeAlone ==
  ASSUME NEW c \in Clients, Clients = {c}, ~Pipelining, RequestScripts
  PROVE  Spec => []StreamIsWhole
  BY OneClient, StreamWhole, PTL

\* With a single client that waits for its responses, the event thread and the
\* workers never wait for each other's mutexes in a circle.
THEOREM NoCycleAlone ==
  ASSUME NEW c \in Clients, Clients = {c}, ~Pipelining, RequestScripts, CloseIsLast
  PROVE  Spec => []NoLockCycle
  BY OneClient, NoCycle, PTL
===============================================================================
