-------------------------------- MODULE Server --------------------------------
(***************************************************************************)
(* src/server.cpp: one event thread that accepts, receives, writes and     *)
(* cleans up, and pool workers that parse, answer and close, sharing the   *)
(* connection map, the Connection objects and the descriptor table.        *)
(*                                                                         *)
(* Data.  Client k makes one TCP connection; k also names the socket and   *)
(* the Connection object the server makes for it.  A request is a run of   *)
(* units, the last of which completes it; a response is RespLen units,     *)
(* tagged with the connection and the request it answers (request 0 is the *)
(* 400 page).  What a response says is not modelled.                       *)
(*                                                                         *)
(* Granularity.  A step runs up to the next point where another thread     *)
(* could tell the difference: a lock that must be waited for, a system     *)
(* call on a descriptor, or an unlocked read of shared state.  Everything  *)
(* addressed by descriptor number (send, epoll_ctl, the map, close) is     *)
(* addressed by number here too, so a descriptor the kernel hands out      *)
(* again is taken for the old one exactly where the code does so.          *)
(***************************************************************************)
EXTENDS Naturals, Sequences, FiniteSets

CONSTANTS
  Clients,         \* each makes one connection
  Workers,         \* the threads of thread_pool_
  Event,           \* event_thread_
  Fds,             \* descriptor numbers available to client sockets
  Listen,          \* server_fd_
  MaxConnections,  \* max_connections_
  Script,          \* Script[k]: the units client k means to send
  RespLen,         \* units of a response
  SndCap,          \* units a socket's send buffer holds
  RecvMax,         \* units one recv returns at most (BUFFER_SIZE - 1)
  MaxRequestSize,  \* MAX_REQUEST_SIZE, in units
  Pipelining,      \* clients send a request before the last one is answered
  ClientsMayClose, \* clients may close their end at any time
  None

Threads == Workers \cup {Event}

\* The response to a request that parse finds invalid carries this tag.
BadRequest == [req |-> 0, first |-> FALSE, last |-> FALSE, keep |-> FALSE]

Units == [req : Nat \ {0}, first : BOOLEAN, last : BOOLEAN, keep : BOOLEAN]

ASSUME ServerAssumption ==
  /\ Event \notin Workers
  /\ Fds \subseteq Nat
  /\ Listen \notin Fds
  /\ None \notin Clients \cup Threads
  /\ MaxConnections \in Nat \ {0}
  /\ RespLen \in Nat \ {0} /\ SndCap \in Nat \ {0} /\ RecvMax \in Nat \ {0}
  /\ MaxRequestSize \in Nat
  /\ Script \in [Clients -> Seq(Units)]
  /\ Pipelining \in BOOLEAN /\ ClientsMayClose \in BOOLEAN

VARIABLES
  (* the Server object *)
  connections,  \* connections_: descriptor -> Connection
  conn,         \* the Connection objects
  map_mutex,    \* owner of connections_mutex_
  conn_mutex,   \* owner of each Connection's mutex_
  tasks,        \* the connections queued in the thread pool
  (* the kernel *)
  sock,         \* the socket each descriptor denotes
  interest,     \* what epoll watches each descriptor for; {} is unregistered
  backlog,      \* connections waiting for accept
  inbox,        \* units received by the kernel and not by the server
  sent,         \* every unit the server ever wrote to each socket
  unread,       \* how many of those the client has yet to read
  (* the clients *)
  peer,         \* "new", "open" or "closed"
  pos,          \* how much of its script a client has sent
  (* the threads *)
  pc, cur, cfd, ret,
  reply,        \* the request a worker is answering
  batch,        \* events of this epoll_wait still to handle
  data,         \* what recv returned
  scan,         \* map entries the cleanup has yet to look at
  inactive      \* inactive_fds

serverVars == <<connections, conn, map_mutex, conn_mutex, tasks>>
kernelVars == <<sock, interest, backlog, inbox, sent, unread>>
clientVars == <<peer, pos>>
localVars == <<pc, cur, cfd, ret, reply, batch, data, scan, inactive>>
vars == <<serverVars, kernelVars, clientVars, localVars>>

\* Connection(socket_fd): the fields of a new Connection.
NewConnection(f) ==
  [fd |-> f, buffer |-> <<>>, keep_alive |-> FALSE, idle |-> FALSE,
   pending |-> BadRequest, offset |-> 0,
   has_pending_write |-> FALSE, processing_request |-> FALSE]

Mapped == {f \in Fds : connections[f] # None}
InMap(k) == \E f \in Fds : connections[f] = k
ServerOpen(k) == \E f \in Fds : sock[f] = k
InBacklog(k) == \E i \in DOMAIN backlog : backlog[i] = k

Smaller(m, n) == IF m <= n THEN m ELSE n

\* Units client k has read, and how many whole responses they make.
ReadSoFar(k) == Len(sent[k]) - unread[k]
Answers(k) == Cardinality({i \in 1..ReadSoFar(k) : sent[k][i].off = RespLen})

Goto(t, label) == pc' = [pc EXCEPT ![t] = label]

Init ==
  /\ connections = [f \in Fds |-> None]
  /\ conn = [k \in Clients |-> NewConnection(0)]
  /\ map_mutex = None
  /\ conn_mutex = [k \in Clients |-> None]
  /\ tasks = <<>>
  /\ sock = [f \in Fds |-> None]
  /\ interest = [f \in Fds |-> {}]
  /\ backlog = <<>>
  /\ inbox = [k \in Clients |-> <<>>]
  /\ sent = [k \in Clients |-> <<>>]
  /\ unread = [k \in Clients |-> 0]
  /\ peer = [k \in Clients |-> "new"]
  /\ pos = [k \in Clients |-> 0]
  /\ pc = [t \in Threads |-> IF t = Event THEN "wait" ELSE "idle"]
  /\ cur = [t \in Threads |-> None]
  /\ cfd = [t \in Threads |-> 0]
  /\ ret = [t \in Threads |-> "wait"]
  /\ reply = [w \in Workers |-> BadRequest]
  /\ batch = {}
  /\ data = <<>>
  /\ scan = {}
  /\ inactive = {}

-------------------------------------------------------------------------------
(* Clients, the network and the clock *)

Connect(k) ==
  /\ peer[k] = "new"
  /\ peer' = [peer EXCEPT ![k] = "open"]
  /\ backlog' = Append(backlog, k)
  /\ UNCHANGED <<serverVars, sock, interest, inbox, sent, unread, pos, localVars>>

\* The next unit of the script; without pipelining a request starts only
\* after the whole response to the one before it has been read.
ClientSend(k) ==
  /\ peer[k] = "open"
  /\ ServerOpen(k) \/ InBacklog(k)
  /\ pos[k] < Len(Script[k])
  /\ LET u == Script[k][pos[k] + 1]
     IN  /\ (u.first /\ ~Pipelining) => Answers(k) >= u.req - 1
         /\ inbox' = [inbox EXCEPT ![k] = Append(@, u)]
  /\ pos' = [pos EXCEPT ![k] = @ + 1]
  /\ UNCHANGED <<serverVars, sock, interest, backlog, sent, unread, peer, localVars>>

ClientRead(k) ==
  /\ peer[k] = "open"
  /\ unread[k] > 0
  /\ unread' = [unread EXCEPT ![k] = @ - 1]
  /\ UNCHANGED <<serverVars, sock, interest, backlog, inbox, sent, clientVars, localVars>>

ClientClose(k) ==
  /\ ClientsMayClose
  /\ peer[k] = "open"
  /\ peer' = [peer EXCEPT ![k] = "closed"]
  /\ UNCHANGED <<serverVars, kernelVars, pos, localVars>>

\* CONNECTION_TIMEOUT_SECONDS have passed since last_activity was set.
Timeout(k) ==
  /\ InMap(k)
  /\ ~conn[k].idle
  /\ conn' = [conn EXCEPT ![k].idle = TRUE]
  /\ UNCHANGED <<connections, map_mutex, conn_mutex, tasks, kernelVars, clientVars, localVars>>

-------------------------------------------------------------------------------
(* EpollWrapper *)

add_fd(f, events) == interest' = [interest EXCEPT ![f] = events]

\* Fails, without consequence, on a descriptor not registered.
modify_fd(f, events) ==
  interest' = IF interest[f] = {} THEN interest ELSE [interest EXCEPT ![f] = events]

remove_fd(f) == interest' = [interest EXCEPT ![f] = {}]

-------------------------------------------------------------------------------
(* event_loop and handle_accept *)

\* What epoll_wait reports of descriptor f: the registration is level-triggered.
Ready(f) ==
  {e \in interest[f] :
     \/ peer[sock[f]] = "closed"
     \/ e = "IN" /\ inbox[sock[f]] # <<>>
     \/ e = "OUT" /\ unread[sock[f]] < SndCap}

EpollWait ==
  /\ pc[Event] = "wait"
  /\ batch' = {[fd |-> f, events |-> Ready(f)] : f \in {g \in Fds : Ready(g) # {}}}
                \cup (IF backlog = <<>> THEN {} ELSE {[fd |-> Listen, events |-> {"IN"}]})
  /\ Goto(Event, "dispatch")
  /\ UNCHANGED <<serverVars, kernelVars, clientVars, cur, cfd, ret, reply, data, scan, inactive>>

\* The next event, in any order.  ret is where its input half goes on: to the
\* output half when that was reported too.
EventDispatch ==
  /\ pc[Event] = "dispatch"
  /\ \E e \in batch :
       /\ batch' = batch \ {e}
       /\ \/ /\ e.fd = Listen
             /\ Goto(Event, "accept")
             /\ UNCHANGED <<cfd, ret>>
          \/ /\ e.fd # Listen
             /\ cfd' = [cfd EXCEPT ![Event] = e.fd]
             /\ Goto(Event, IF "IN" \in e.events THEN "lookup" ELSE "write")
             /\ ret' = [ret EXCEPT ![Event] = IF "OUT" \in e.events THEN "write" ELSE "dispatch"]
  /\ UNCHANGED <<serverVars, kernelVars, clientVars, cur, reply, data, scan, inactive>>

LowestFree == CHOOSE f \in Fds : sock[f] = None /\ \A g \in Fds : sock[g] = None => f <= g

\* accept until EAGAIN.  It takes a descriptor before it looks whether a client
\* is waiting: with none free it fails with EMFILE, whatever the backlog, and is
\* tried again at once.  The loop spins here until some thread closes one.
Accept ==
  /\ pc[Event] = "accept"
  /\ \E f \in Fds : sock[f] = None
  /\ \/ /\ backlog = <<>>
        /\ Goto(Event, "dispatch")
        /\ UNCHANGED <<sock, backlog, cur, cfd>>
     \/ /\ backlog # <<>>
        /\ backlog' = Tail(backlog)
        /\ sock' = [sock EXCEPT ![LowestFree] = Head(backlog)]
        /\ cur' = [cur EXCEPT ![Event] = Head(backlog)]
        /\ cfd' = [cfd EXCEPT ![Event] = LowestFree]
        /\ Goto(Event, "limit")
  /\ UNCHANGED <<serverVars, interest, inbox, sent, unread, clientVars,
                 ret, reply, batch, data, scan, inactive>>

\* Mutant: the limit is compared with > instead of >=.
AtLimitOffByOne == Cardinality(Mapped) > MaxConnections

AtLimit == Cardinality(Mapped) >= MaxConnections

\* Mutant: a rejected connection is dropped without closing its descriptor.
AcceptLimitLeak ==
  /\ pc[Event] = "limit"
  /\ map_mutex = None
  /\ Goto(Event, IF AtLimit THEN "accept" ELSE "register")
  /\ UNCHANGED <<serverVars, kernelVars, clientVars, cur, cfd, ret, reply, batch, data, scan, inactive>>

AcceptLimit ==
  /\ pc[Event] = "limit"
  /\ map_mutex = None
  /\ \/ /\ AtLimit
        /\ sock' = [sock EXCEPT ![cfd[Event]] = None]
        /\ Goto(Event, "accept")
     \/ /\ ~AtLimit
        /\ Goto(Event, "register")
        /\ UNCHANGED sock
  /\ UNCHANGED <<serverVars, interest, backlog, inbox, sent, unread, clientVars,
                 cur, cfd, ret, reply, batch, data, scan, inactive>>

\* Mutant: the failure closes the descriptor, but the loop goes on with it.
AcceptRegisterGoesOn ==
  /\ pc[Event] = "register"
  /\ \/ add_fd(cfd[Event], {"IN"}) /\ UNCHANGED sock
     \/ sock' = [sock EXCEPT ![cfd[Event]] = None] /\ UNCHANGED interest
  /\ Goto(Event, "insert")
  /\ UNCHANGED <<serverVars, backlog, inbox, sent, unread, clientVars,
                 cur, cfd, ret, reply, batch, data, scan, inactive>>

\* fcntl or epoll_ctl may fail: the descriptor is closed again.
AcceptRegister ==
  /\ pc[Event] = "register"
  /\ \/ /\ add_fd(cfd[Event], {"IN"})
        /\ Goto(Event, "insert")
        /\ UNCHANGED sock
     \/ /\ sock' = [sock EXCEPT ![cfd[Event]] = None]
        /\ Goto(Event, "accept")
        /\ UNCHANGED interest
  /\ UNCHANGED <<serverVars, backlog, inbox, sent, unread, clientVars,
                 cur, cfd, ret, reply, batch, data, scan, inactive>>

AcceptInsert ==
  /\ pc[Event] = "insert"
  /\ map_mutex = None
  /\ conn' = [conn EXCEPT ![cur[Event]] = NewConnection(cfd[Event])]
  /\ connections' = [connections EXCEPT ![cfd[Event]] = cur[Event]]
  /\ Goto(Event, "accept")
  /\ UNCHANGED <<map_mutex, conn_mutex, tasks, kernelVars, clientVars,
                 cur, cfd, ret, reply, batch, data, scan, inactive>>

-------------------------------------------------------------------------------
(* handle_client_data *)

DataLookup ==
  /\ pc[Event] = "lookup"
  /\ map_mutex = None
  /\ cur' = [cur EXCEPT ![Event] = connections[cfd[Event]]]
  /\ Goto(Event, IF connections[cfd[Event]] = None THEN ret[Event] ELSE "recv")
  /\ UNCHANGED <<serverVars, kernelVars, clientVars, cfd, ret, reply, batch, data, scan, inactive>>

\* End of file, EAGAIN and EBADF (another thread closed the descriptor after
\* the lookup) all close the connection.
DataRecv ==
  LET k == sock[cfd[Event]]
      got == SubSeq(inbox[k], 1, Smaller(RecvMax, Len(inbox[k])))
  IN  /\ pc[Event] = "recv"
      /\ \/ /\ k # None => inbox[k] = <<>>
            /\ Goto(Event, "close")
            /\ UNCHANGED <<inbox, data>>
         \/ /\ k # None /\ inbox[k] # <<>>
            /\ data' = got
            /\ inbox' = [inbox EXCEPT ![k] = SubSeq(@, Len(got) + 1, Len(@))]
            /\ Goto(Event, "datalock")
      /\ UNCHANGED <<serverVars, sock, interest, backlog, sent, unread, clientVars,
                     cur, cfd, ret, reply, batch, scan, inactive>>

DataLock ==
  /\ pc[Event] = "datalock"
  /\ conn_mutex[cur[Event]] = None
  /\ conn_mutex' = [conn_mutex EXCEPT ![cur[Event]] = Event]
  /\ Goto(Event, "datacheck")
  /\ UNCHANGED <<connections, conn, map_mutex, tasks, kernelVars, clientVars,
                 cur, cfd, ret, reply, batch, data, scan, inactive>>

\* The end of the headers (and of the body they announce) has arrived.
is_http_request_complete(buffer) == \E i \in DOMAIN buffer : buffer[i].last

\* Mutant: a request already being processed is not taken into account.
ShouldProcessAgain(c, buffer) == is_http_request_complete(buffer)

ShouldProcess(c, buffer) == ~c.processing_request /\ is_http_request_complete(buffer)

\* With the connection locked, the map is locked to see whether the
\* descriptor is still in it, and again to erase it when the request is too
\* large; otherwise the bytes are appended and the connection unlocked.
DataCheck ==
  LET k == cur[Event]
      buffer == conn[k].buffer \o data
      process == ShouldProcess(conn[k], buffer)
  IN  /\ pc[Event] = "datacheck"
      /\ map_mutex = None
      /\ \/ /\ connections[cfd[Event]] = None
            /\ conn_mutex' = [conn_mutex EXCEPT ![k] = None]
            /\ Goto(Event, ret[Event])
            /\ UNCHANGED conn
         \/ /\ connections[cfd[Event]] # None
            /\ Len(buffer) > MaxRequestSize
            /\ Goto(Event, "oversize")
            /\ UNCHANGED <<conn, conn_mutex>>
         \/ /\ connections[cfd[Event]] # None
            /\ Len(buffer) <= MaxRequestSize
            /\ conn' = [conn EXCEPT ![k].buffer = buffer, ![k].idle = FALSE,
                                    ![k].processing_request = @ \/ process]
            /\ conn_mutex' = [conn_mutex EXCEPT ![k] = None]
            /\ Goto(Event, IF process THEN "enqueue" ELSE ret[Event])
      /\ data' = <<>>
      /\ UNCHANGED <<connections, map_mutex, tasks, kernelVars, clientVars,
                     cur, cfd, ret, reply, batch, scan, inactive>>

DataOversize ==
  /\ pc[Event] = "oversize"
  /\ map_mutex = None
  /\ connections' = [connections EXCEPT ![cfd[Event]] = None]
  /\ Goto(Event, "oversizeclose")
  /\ UNCHANGED <<conn, map_mutex, conn_mutex, tasks, kernelVars, clientVars,
                 cur, cfd, ret, reply, batch, data, scan, inactive>>

DataOversizeClose ==
  /\ pc[Event] = "oversizeclose"
  /\ remove_fd(cfd[Event])
  /\ sock' = [sock EXCEPT ![cfd[Event]] = None]
  /\ conn_mutex' = [conn_mutex EXCEPT ![cur[Event]] = None]
  /\ Goto(Event, ret[Event])
  /\ UNCHANGED <<connections, conn, map_mutex, tasks, backlog, inbox, sent, unread,
                 clientVars, cur, cfd, ret, reply, batch, data, scan, inactive>>

DataEnqueue ==
  /\ pc[Event] = "enqueue"
  /\ tasks' = Append(tasks, cur[Event])
  /\ Goto(Event, ret[Event])
  /\ UNCHANGED <<connections, conn, map_mutex, conn_mutex, kernelVars, clientVars,
                 cur, cfd, ret, reply, batch, data, scan, inactive>>

-------------------------------------------------------------------------------
(* handle_client_write *)

WriteLookup ==
  /\ pc[Event] = "write"
  /\ map_mutex = None
  /\ cur' = [cur EXCEPT ![Event] = connections[cfd[Event]]]
  /\ ret' = [ret EXCEPT ![Event] = "dispatch"]
  /\ Goto(Event, IF connections[cfd[Event]] = None THEN "dispatch" ELSE "send")
  /\ UNCHANGED <<serverVars, kernelVars, clientVars, cfd, reply, batch, data, scan, inactive>>

-------------------------------------------------------------------------------
(* send_response_async, run by the event thread and by workers *)

\* Mutant: every call starts again from the first byte.
RemainingFromStart(k) ==
  [i \in 1..RespLen |-> [to |-> k, req |-> conn[k].pending.req, off |-> i]]

\* The units still to be written of the pending response of Connection k.
Remaining(k) ==
  [i \in 1..(RespLen - conn[k].offset) |->
     [to |-> k, req |-> conn[k].pending.req, off |-> conn[k].offset + i]]

\* Mutant: send is taken to write everything, full buffer or not.
SendCountAll(c, s) == RespLen - c.offset

\* How many units send takes on socket s; 0 is EAGAIN.
SendCount(c, s) == Smaller(RespLen - c.offset, SndCap - unread[s])

\* Mutant: the end of the response goes unnoticed.
AfterSendNoEnd(c, n) == [c EXCEPT !.offset = @ + n]

\* The Connection after n units were written.
AfterSend(c, n) ==
  IF c.offset + n < RespLen
  THEN [c EXCEPT !.offset = @ + n]
  ELSE [c EXCEPT !.offset = 0, !.pending = BadRequest, !.has_pending_write = FALSE]

\* Lock the connection and call send on its descriptor number, whatever socket
\* that denotes by now: all or part of the rest is written, or the buffer is
\* full, or the call fails.  The label says which modify_fd or close is next.
\* (remaining == 0 cannot be: see PendingResponseHasBytes.)
SendBegin(t) ==
  LET k == cur[t]
      s == sock[conn[k].fd]
      n == SendCount(conn[k], s)
  IN  /\ pc[t] = "send"
      /\ conn_mutex[k] = None
      /\ \/ /\ ~conn[k].has_pending_write
            /\ Goto(t, ret[t])
            /\ UNCHANGED <<conn, conn_mutex, sent, unread>>
         \/ /\ conn[k].has_pending_write
            /\ s # None
            /\ n = 0
            /\ conn_mutex' = [conn_mutex EXCEPT ![k] = t]
            /\ Goto(t, "arm")
            /\ UNCHANGED <<conn, sent, unread>>
         \/ /\ conn[k].has_pending_write
            /\ s # None
            /\ n > 0
            /\ sent' = [sent EXCEPT ![s] = @ \o SubSeq(Remaining(k), 1, n)]
            /\ unread' = [unread EXCEPT ![s] = @ + n]
            /\ conn' = [conn EXCEPT ![k] = AfterSend(@, n)]
            /\ conn_mutex' = [conn_mutex EXCEPT ![k] = t]
            /\ Goto(t, IF AfterSend(conn[k], n).has_pending_write THEN "arm" ELSE "disarm")
         \/ /\ conn[k].has_pending_write
            /\ s # None => peer[s] = "closed"
            /\ conn' = [conn EXCEPT ![k].keep_alive = FALSE, ![k].has_pending_write = FALSE]
            /\ Goto(t, "close")
            /\ UNCHANGED <<conn_mutex, sent, unread>>
      /\ cfd' = [cfd EXCEPT ![t] = conn[k].fd]
      /\ UNCHANGED <<connections, map_mutex, tasks, sock, interest, backlog, inbox,
                     clientVars, cur, ret, reply, batch, data, scan, inactive>>

\* Mutant: EPOLLOUT is not asked for after a partial write.
SendArmWithoutOut(t) ==
  /\ pc[t] = "arm"
  /\ modify_fd(conn[cur[t]].fd, {"IN"})
  /\ conn_mutex' = [conn_mutex EXCEPT ![cur[t]] = None]
  /\ Goto(t, ret[t])
  /\ UNCHANGED <<connections, conn, map_mutex, tasks, sock, backlog, inbox, sent, unread,
                 clientVars, cur, cfd, ret, reply, batch, data, scan, inactive>>

SendArm(t) ==
  /\ pc[t] = "arm"
  /\ modify_fd(conn[cur[t]].fd, {"IN", "OUT"})
  /\ conn_mutex' = [conn_mutex EXCEPT ![cur[t]] = None]
  /\ Goto(t, ret[t])
  /\ UNCHANGED <<connections, conn, map_mutex, tasks, sock, backlog, inbox, sent, unread,
                 clientVars, cur, cfd, ret, reply, batch, data, scan, inactive>>

\* Mutant: the connection is still locked when close_connection is called.
SendDisarmLocked(t) ==
  /\ pc[t] = "disarm"
  /\ modify_fd(conn[cur[t]].fd, {"IN"})
  /\ conn_mutex' = [conn_mutex EXCEPT ![cur[t]] = IF conn[cur[t]].keep_alive THEN None ELSE t]
  /\ Goto(t, IF conn[cur[t]].keep_alive THEN ret[t] ELSE "close")
  /\ UNCHANGED <<connections, conn, map_mutex, tasks, sock, backlog, inbox, sent, unread,
                 clientVars, cur, cfd, ret, reply, batch, data, scan, inactive>>

\* Everything is written: no more EPOLLOUT, and the connection is closed
\* unless it is to be kept alive.
SendDisarm(t) ==
  /\ pc[t] = "disarm"
  /\ modify_fd(conn[cur[t]].fd, {"IN"})
  /\ conn_mutex' = [conn_mutex EXCEPT ![cur[t]] = None]
  /\ Goto(t, IF conn[cur[t]].keep_alive THEN ret[t] ELSE "close")
  /\ UNCHANGED <<connections, conn, map_mutex, tasks, sock, backlog, inbox, sent, unread,
                 clientVars, cur, cfd, ret, reply, batch, data, scan, inactive>>

-------------------------------------------------------------------------------
(* close_connection, run by the event thread and by workers *)

\* Lock the map and look the descriptor up; the lock is kept when it is there.
CloseFind(t) ==
  /\ pc[t] = "close"
  /\ map_mutex = None
  /\ \/ /\ connections[cfd[t]] = None
        /\ Goto(t, ret[t])
        /\ UNCHANGED map_mutex
     \/ /\ connections[cfd[t]] # None
        /\ map_mutex' = t
        /\ Goto(t, "erase")
  /\ UNCHANGED <<connections, conn, conn_mutex, tasks, kernelVars, clientVars,
                 cur, cfd, ret, reply, batch, data, scan, inactive>>

\* Mutant: the entry stays in the map.
CloseEraseForgotten(t) ==
  /\ pc[t] = "erase"
  /\ conn_mutex[connections[cfd[t]]] = None
  /\ map_mutex' = None
  /\ Goto(t, "closefd")
  /\ UNCHANGED <<connections, conn, conn_mutex, tasks, kernelVars, clientVars,
                 cur, cfd, ret, reply, batch, data, scan, inactive>>

\* The connection's own mutex is taken and released while the map is locked.
CloseErase(t) ==
  /\ pc[t] = "erase"
  /\ conn_mutex[connections[cfd[t]]] = None
  /\ connections' = [connections EXCEPT ![cfd[t]] = None]
  /\ map_mutex' = None
  /\ Goto(t, "closefd")
  /\ UNCHANGED <<conn, conn_mutex, tasks, kernelVars, clientVars,
                 cur, cfd, ret, reply, batch, data, scan, inactive>>

CloseFd(t) ==
  /\ pc[t] = "closefd"
  /\ remove_fd(cfd[t])
  /\ sock' = [sock EXCEPT ![cfd[t]] = None]
  /\ Goto(t, ret[t])
  /\ UNCHANGED <<serverVars, backlog, inbox, sent, unread, clientVars,
                 cur, cfd, ret, reply, batch, data, scan, inactive>>

-------------------------------------------------------------------------------
(* cleanup_inactive_connections *)

CleanupBegin ==
  /\ pc[Event] = "dispatch"
  /\ batch = {}
  /\ map_mutex = None
  /\ map_mutex' = Event
  /\ scan' = Mapped
  /\ Goto(Event, "scan")
  /\ UNCHANGED <<connections, conn, conn_mutex, tasks, kernelVars, clientVars,
                 cur, cfd, ret, reply, batch, data, inactive>>

\* Mutant: a connection whose request is being processed is spared.
ExpiredUnlessBusy(c) == c.idle /\ ~c.has_pending_write /\ ~c.processing_request

Expired(c) == c.idle /\ ~c.has_pending_write

CleanupVisit ==
  /\ pc[Event] = "scan"
  /\ \E f \in scan :
       /\ conn_mutex[connections[f]] = None
       /\ scan' = scan \ {f}
       /\ inactive' = IF Expired(conn[connections[f]]) THEN inactive \cup {f} ELSE inactive
  /\ UNCHANGED <<serverVars, kernelVars, clientVars, pc, cur, cfd, ret, reply, batch, data>>

CleanupEnd ==
  /\ pc[Event] = "scan"
  /\ scan = {}
  /\ map_mutex' = None
  /\ Goto(Event, "cleanup")
  /\ UNCHANGED <<connections, conn, conn_mutex, tasks, kernelVars, clientVars,
                 cur, cfd, ret, reply, batch, data, scan, inactive>>

CleanupNext ==
  /\ pc[Event] = "cleanup"
  /\ \/ /\ inactive = {}
        /\ Goto(Event, "wait")
        /\ UNCHANGED <<cfd, ret, inactive>>
     \/ \E f \in inactive :
          /\ inactive' = inactive \ {f}
          /\ cfd' = [cfd EXCEPT ![Event] = f]
          /\ ret' = [ret EXCEPT ![Event] = "cleanup"]
          /\ Goto(Event, "close")
  /\ UNCHANGED <<serverVars, kernelVars, clientVars, cur, reply, batch, data, scan>>

-------------------------------------------------------------------------------
(* handle_client_request, on a worker *)

TaskBegin(w) ==
  /\ pc[w] = "idle"
  /\ tasks # <<>>
  /\ tasks' = Tail(tasks)
  /\ cur' = [cur EXCEPT ![w] = Head(tasks)]
  /\ Goto(w, "parse")
  /\ UNCHANGED <<connections, conn, map_mutex, conn_mutex, kernelVars, clientVars,
                 cfd, ret, reply, batch, data, scan, inactive>>

\* The whole buffer is parsed as one request: whatever follows the first
\* one's headers becomes its body.  A buffer that does not start with the
\* start of a request is invalid.
Parse(buffer) == IF buffer # <<>> /\ buffer[1].first THEN buffer[1] ELSE BadRequest

RequestParse(w) ==
  /\ pc[w] = "parse"
  /\ conn_mutex[cur[w]] = None
  /\ reply' = [reply EXCEPT ![w] = Parse(conn[cur[w]].buffer)]
  /\ Goto(w, IF Parse(conn[cur[w]].buffer) = BadRequest THEN "answer" ELSE "keep")
  /\ UNCHANGED <<serverVars, kernelVars, clientVars, cur, cfd, ret, batch, data, scan, inactive>>

RequestKeepAlive(w) ==
  /\ pc[w] = "keep"
  /\ conn_mutex[cur[w]] = None
  /\ conn' = [conn EXCEPT ![cur[w]].keep_alive = reply[w].keep]
  /\ Goto(w, "answer")
  /\ UNCHANGED <<connections, map_mutex, conn_mutex, tasks, kernelVars, clientVars,
                 cur, cfd, ret, reply, batch, data, scan, inactive>>

\* Computing the response throws (std::filesystem::exists outside the try of
\* handle_file_request, no memory): the packaged_task swallows the exception
\* and the rest of the handler is skipped, processing_request included.
RequestThrow(w) ==
  /\ pc[w] = "answer"
  /\ reply[w] # BadRequest
  /\ Goto(w, "idle")
  /\ UNCHANGED <<serverVars, kernelVars, clientVars, cur, cfd, ret, reply, batch, data, scan, inactive>>

\* The response is ready: is the descriptor still in the map?  If it is not,
\* the map stays locked until the connection is marked as not in use.
RequestPresent(w) ==
  /\ pc[w] = "answer"
  /\ map_mutex = None
  /\ \/ /\ connections[conn[cur[w]].fd] = None
        /\ map_mutex' = w
        /\ Goto(w, "abandon")
     \/ /\ connections[conn[cur[w]].fd] # None
        /\ Goto(w, "publish")
        /\ UNCHANGED map_mutex
  /\ UNCHANGED <<connections, conn, conn_mutex, tasks, kernelVars, clientVars,
                 cur, cfd, ret, reply, batch, data, scan, inactive>>

RequestAbandon(w) ==
  /\ pc[w] = "abandon"
  /\ conn_mutex[cur[w]] = None
  /\ conn' = [conn EXCEPT ![cur[w]].processing_request = FALSE]
  /\ map_mutex' = None
  /\ Goto(w, "idle")
  /\ UNCHANGED <<connections, conn_mutex, tasks, kernelVars, clientVars,
                 cur, cfd, ret, reply, batch, data, scan, inactive>>

RequestPublish(w) ==
  /\ pc[w] = "publish"
  /\ conn_mutex[cur[w]] = None
  /\ conn' = [conn EXCEPT ![cur[w]].pending = reply[w], ![cur[w]].offset = 0,
                          ![cur[w]].has_pending_write = TRUE]
  /\ ret' = [ret EXCEPT ![w] = "finish"]
  /\ Goto(w, "send")
  /\ UNCHANGED <<connections, map_mutex, conn_mutex, tasks, kernelVars, clientVars,
                 cur, cfd, reply, batch, data, scan, inactive>>

\* Mutant: the buffer is not emptied, so its first request is answered again.
RequestFinishKeepsBuffer(w) ==
  /\ pc[w] = "finish"
  /\ conn_mutex[cur[w]] = None
  /\ conn' = [conn EXCEPT ![cur[w]].processing_request = FALSE, ![cur[w]].idle = FALSE]
  /\ Goto(w, "idle")
  /\ UNCHANGED <<connections, map_mutex, conn_mutex, tasks, kernelVars, clientVars,
                 cur, cfd, ret, reply, batch, data, scan, inactive>>

\* The request buffer is emptied only now, after the response went out.
RequestFinish(w) ==
  /\ pc[w] = "finish"
  /\ conn_mutex[cur[w]] = None
  /\ conn' = [conn EXCEPT ![cur[w]].buffer = <<>>, ![cur[w]].processing_request = FALSE,
                          ![cur[w]].idle = FALSE]
  /\ Goto(w, "idle")
  /\ UNCHANGED <<connections, map_mutex, conn_mutex, tasks, kernelVars, clientVars,
                 cur, cfd, ret, reply, batch, data, scan, inactive>>

-------------------------------------------------------------------------------
send_response_async(t) == SendBegin(t) \/ SendArm(t) \/ SendDisarm(t)

close_connection(t) == CloseFind(t) \/ CloseErase(t) \/ CloseFd(t)

EventThread ==
  \/ EpollWait \/ EventDispatch
  \/ Accept \/ AcceptLimit \/ AcceptRegister \/ AcceptInsert
  \/ DataLookup \/ DataRecv \/ DataLock \/ DataCheck
  \/ DataOversize \/ DataOversizeClose \/ DataEnqueue
  \/ WriteLookup
  \/ send_response_async(Event)
  \/ close_connection(Event)
  \/ CleanupBegin \/ CleanupVisit \/ CleanupEnd \/ CleanupNext

WorkerThread(w) ==
  \/ TaskBegin(w) \/ RequestParse(w) \/ RequestKeepAlive(w) \/ RequestThrow(w)
  \/ RequestPresent(w) \/ RequestAbandon(w) \/ RequestPublish(w) \/ RequestFinish(w)
  \/ send_response_async(w)
  \/ close_connection(w)

Environment(k) == Connect(k) \/ ClientSend(k) \/ ClientRead(k) \/ ClientClose(k) \/ Timeout(k)

Next ==
  \/ EventThread
  \/ \E w \in Workers : WorkerThread(w)
  \/ \E k \in Clients : Environment(k)

Spec == Init /\ [][Next]_vars

\* Threads run, and a mutex does not pass a waiting thread over for ever
\* (strong fairness); time passes; a client that is not gone reads what it
\* is sent.  Clients need not connect, send or close.
Fairness ==
  /\ SF_vars(EventThread)
  /\ \A w \in Workers : SF_vars(WorkerThread(w))
  /\ \A k \in Clients : WF_vars(Timeout(k)) /\ WF_vars(ClientRead(k))

FairSpec == Spec /\ Fairness

-------------------------------------------------------------------------------
(* Properties *)

EventPC ==
  {"wait", "dispatch", "accept", "limit", "register", "insert", "lookup", "recv",
   "datalock", "datacheck", "oversize", "oversizeclose", "enqueue", "write",
   "scan", "cleanup"}
WorkerPC == {"idle", "parse", "keep", "answer", "abandon", "publish", "finish"}
SharedPC == {"send", "arm", "disarm", "close", "erase", "closefd"}

ResponseUnits == [to : Clients, req : Nat, off : 1..RespLen]
Requests == Units \cup {BadRequest}
Events == {"IN", "OUT"}

TypeOK ==
  /\ connections \in [Fds -> Clients \cup {None}]
  /\ conn \in [Clients -> [fd : Fds \cup {0}, buffer : Seq(Units), keep_alive : BOOLEAN,
                           idle : BOOLEAN, pending : Requests, offset : 0..RespLen,
                           has_pending_write : BOOLEAN, processing_request : BOOLEAN]]
  /\ map_mutex \in Threads \cup {None}
  /\ conn_mutex \in [Clients -> Threads \cup {None}]
  /\ tasks \in Seq(Clients)
  /\ sock \in [Fds -> Clients \cup {None}]
  /\ interest \in [Fds -> SUBSET Events]
  /\ backlog \in Seq(Clients)
  /\ inbox \in [Clients -> Seq(Units)]
  /\ sent \in [Clients -> Seq(ResponseUnits)]
  /\ unread \in [Clients -> 0..SndCap]
  /\ peer \in [Clients -> {"new", "open", "closed"}]
  /\ pos \in [Clients -> Nat]
  /\ pc \in [Threads -> EventPC \cup WorkerPC \cup SharedPC]
  /\ cur \in [Threads -> Clients \cup {None}]
  /\ cfd \in [Threads -> Fds \cup {0}]
  /\ ret \in [Threads -> {"wait", "dispatch", "write", "cleanup", "finish"}]
  /\ reply \in [Workers -> Requests]
  /\ batch \subseteq [fd : Fds \cup {Listen}, events : SUBSET Events]
  /\ data \in Seq(Units)
  /\ scan \subseteq Fds
  /\ inactive \subseteq Fds

\* Whom thread t has the descriptor cfd[t] for, on the way to close it.
Closing(t) == pc[t] \in {"closefd", "oversizeclose"}
Accepting == pc[Event] \in {"limit", "register", "insert"}

\* A descriptor in the map denotes the socket of the Connection it is mapped
\* to and is watched by epoll; no other descriptor maps to that Connection.
\* (connections_ is keyed by number, so this is what makes a lookup right.)
MapMatchesDescriptors ==
  \A f \in Mapped :
    /\ sock[f] = connections[f]
    /\ conn[connections[f]].fd = f
    /\ "IN" \in interest[f]

\* Every close() hits a descriptor that is still open, that no map entry uses
\* and that no other thread is about to close: none is closed twice, none is
\* closed under a new connection (server.cpp:226-250, 308, 518).
CloseIsExclusive ==
  \A t \in Threads :
    Closing(t) =>
      /\ sock[cfd[t]] # None
      /\ connections[cfd[t]] = None
      /\ \A u \in Threads \ {t} : Closing(u) => cfd[u] # cfd[t]
      /\ t # Event /\ Accepting => cfd[Event] # cfd[t]

\* No descriptor leaks: an open one is in the map, or being accepted, or
\* about to be closed.
NoDescriptorLeak ==
  \A f \in Fds :
    sock[f] # None =>
      \/ f \in Mapped
      \/ Accepting /\ cfd[Event] = f
      \/ \E t \in Threads : Closing(t) /\ cfd[t] = f

\* max_connections_ bounds the map although the test and the insertion are
\* two critical sections (server.cpp:223, 256).
ConnectionLimit == Cardinality(Mapped) <= MaxConnections

\* Where Connection k is being handled as a request.
Handlers(k) == {w \in Workers : cur[w] = k /\ pc[w] # "idle"}
QueuedAt(k) == {i \in DOMAIN tasks : tasks[i] = k}

\* processing_request keeps a Connection from being handled twice at a time:
\* it is in the queue once, or on one worker, or about to be queued.
OneHandlerPerConnection ==
  \A k \in Clients :
    /\ Cardinality(Handlers(k)) + Cardinality(QueuedAt(k))
         + (IF pc[Event] = "enqueue" /\ cur[Event] = k THEN 1 ELSE 0) <= 1
    /\ Handlers(k) # {} \/ QueuedAt(k) # {} => conn[k].processing_request

\* What send_response_async takes for granted: a pending response has bytes
\* left, so its remaining == 0 branch (server.cpp:414-426) is never taken.
PendingResponseHasBytes ==
  \A k \in Clients : conn[k].has_pending_write => conn[k].offset < RespLen

\* A response that is only partly written makes progress: as long as the
\* connection is mapped and no thread is at work on it, epoll watches for
\* room in the send buffer.
PendingWriteIsWatched ==
  \A f \in Mapped :
    conn[connections[f]].has_pending_write =>
      \/ "OUT" \in interest[f]
      \/ \E t \in Threads : cur[t] = connections[f] /\ pc[t] \in {"send", "arm", "disarm"}

\* What the clients mean to send are requests, numbered in order, each of which
\* begins with its first unit and ends with its last.
RequestScripts ==
  \A k \in Clients : \A i \in DOMAIN Script[k] :
    /\ ~Script[k][i].first => i > 1 /\ Script[k][i - 1].req = Script[k][i].req
    /\ \A j \in DOMAIN Script[k] :
         i < j => /\ Script[k][i].req <= Script[k][j].req
                  /\ Script[k][i].last => Script[k][i].req < Script[k][j].req

\* A request says in each of its units whether the connection is to be kept, and
\* one that asks to have it closed is the client's last.
CloseIsLast ==
  \A k \in Clients : \A i, j \in DOMAIN Script[k] :
    /\ (Script[k][i].req = Script[k][j].req => Script[k][i].keep = Script[k][j].keep)
    /\ (Script[k][i].last /\ ~Script[k][i].keep => j <= i)

\* The responses of which client k has been sent all before its unit i.
Answered(k, i) == {j \in 1..(i - 1) : sent[k][j].off = RespLen}

\* Every client is sent whole responses, one after the other, and the n-th of them
\* answers its n-th request, or is the 400 for a request of which a part was
\* discarded (server.cpp:396).  What is written is a prefix of such a stream
\* (server.cpp:376-396, 526-620).
StreamIsWhole ==
  \A k \in Clients : \A i \in DOMAIN sent[k] :
    /\ i = 1 => sent[k][i].off = 1
    /\ i > 1 => \/ sent[k][i - 1].off = RespLen /\ sent[k][i].off = 1
                \/ /\ sent[k][i - 1].off + 1 = sent[k][i].off
                   /\ sent[k][i - 1].req = sent[k][i].req
    /\ sent[k][i].req \in {BadRequest.req, Cardinality(Answered(k, i)) + 1}

\* A client receives no byte of a response to someone else's request.
NoMisdelivery == \A k \in Clients : \A i \in DOMAIN sent[k] : sent[k][i].to = k

\* The mutexes thread t must take for its next step.
WaitsForMap(t) ==
  pc[t] \in {"limit", "insert", "lookup", "datacheck", "oversize", "write", "close", "answer"}
WaitsForConn(t) ==
  IF pc[t] = "erase" THEN {connections[cfd[t]]}
  ELSE IF pc[t] = "abandon" THEN {cur[t]}
  ELSE IF pc[t] = "scan" THEN {connections[f] : f \in scan}
  ELSE {}

\* No thread that holds the map waits for a connection that it holds itself
\* or whose holder waits for the map: connections_mutex_ and a mutex_ are
\* taken in one order or the other, but not by two threads at a time.
NoLockCycle ==
  \A t, u \in Threads :
    ~ /\ map_mutex = t
      /\ \E k \in WaitsForConn(t) : conn_mutex[k] = u
      /\ u = t \/ WaitsForMap(u)

\* When a worker empties the buffer, all it holds is the request just
\* answered: nothing the client sent later is thrown away unread.
NothingDiscarded ==
  \A w \in Workers :
    pc[w] = "finish" /\ reply[w] # BadRequest =>
      \A i \in DOMAIN conn[cur[w]].buffer : conn[cur[w]].buffer[i].req = reply[w].req

\* A client whose connection was accepted and who has sent a whole request
\* gets a response, or the connection is closed: nobody waits for ever.
RequestPending(k) ==
  /\ InMap(k)
  /\ pos[k] > 0
  /\ Script[k][pos[k]].last
  /\ Answers(k) < Script[k][pos[k]].req
AnsweredOrClosed == \A k \in Clients : RequestPending(k) ~> ~RequestPending(k)
===============================================================================
