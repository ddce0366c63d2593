----------------------------- MODULE HttpExchange -----------------------------
(***************************************************************************)
(* The life of requests on one connection, as the bytes see it: a client   *)
(* sends a request, the network cuts it into pieces, the event thread      *)
(* decides after every piece whether the request is complete               *)
(* (Server::is_http_request_complete), a worker parses and validates the   *)
(* whole buffer (HttpRequest), answers (HttpResponse), empties the buffer, *)
(* and keeps the connection or closes it.  The client waits for each       *)
(* response; how threads interleave is module Server.                      *)
(*                                                                         *)
(* The wire carries tokens of one unit: the request line, header lines,    *)
(* the blank line, bytes of the body (which never look like one of the     *)
(* others).  size_t counts modulo SizeMod.                                 *)
(***************************************************************************)
EXTENDS Url

CONSTANTS
  Requests,     \* what a client may send first on a connection
  Followups,    \* and after a response
  MaxRequests,  \* bound: requests on the connection
  PageSizes,    \* sizes of response bodies
  SizeMod,      \* 2^64, in small
  Api,          \* "/api/"
  Junk,         \* the value of a Content-Length that is no number
  Empty         \* what get_header returns when there is no such header

ASSUME ExchangeAssumption ==
  /\ MaxRequests \in Nat \ {0} /\ SizeMod \in Nat \ {0}
  /\ PageSizes \subseteq Nat
  /\ Followups \subseteq Requests
  /\ \A r \in Requests :
       /\ r.headers \in Seq(Range(r.headers)) /\ r.body \in Seq(Range(r.body))
       /\ \A h \in Range(r.headers) : h.name = "content-length" => h.value \in Nat \cup {Junk}

VARIABLES
  request,     \* what the client sent last
  pending,     \* tokens on their way
  buffer,      \* conn->buffer
  keep_alive,  \* conn->keep_alive
  phase,       \* "receive", "handle", "answered" or "closed"
  response,
  count        \* requests sent

vars == <<request, pending, buffer, keep_alive, phase, response, count>>

Token(kind, val) == [kind |-> kind, val |-> val]

Wire(r) ==
  <<Token("line", r.line)>>
    \o [i \in DOMAIN r.headers |-> Token("header", r.headers[i])]
    \o <<Token("blank", 0)>>
    \o [i \in DOMAIN r.body |-> Token("byte", r.body[i])]

\* set_default_headers
NewResponse(status) == [status |-> status, length |-> 0, bytes |-> 0, connection |-> "close"]

Init ==
  /\ request \in Requests
  /\ pending = Wire(request)
  /\ buffer = <<>>
  /\ keep_alive = FALSE
  /\ phase = "receive"
  /\ response = NewResponse("none")
  /\ count = 1

-------------------------------------------------------------------------------
(* is_http_request_complete *)

IsBlank(t) == t.kind = "blank"
IsContentLength(h) == h.name = "content-length"
AnnouncesLength(t) == t.kind = "header" /\ IsContentLength(t.val)

\* A length that is no number counts as none.
LengthOr0(value) == IF value = Junk THEN 0 ELSE value

\* Mutant: the last Content-Length counts.
BodyLengthOfLast(tokens) ==
  LET i == SelectLastInSeq(tokens, AnnouncesLength)
  IN  IF i = 0 THEN 0 ELSE LengthOr0(tokens[i].val.value)

\* The search stops at the first Content-Length.
BodyLength(tokens) ==
  LET i == SelectInSeq(tokens, AnnouncesLength)
  IN  IF i = 0 THEN 0 ELSE LengthOr0(tokens[i].val.value)

is_http_request_complete(tokens) ==
  LET header_end == SelectInSeq(tokens, IsBlank)
  IN  /\ header_end # 0
      /\ Len(tokens) >= (header_end + BodyLength(tokens)) % SizeMod

-------------------------------------------------------------------------------
(* HttpRequest::parse and is_request_valid *)

\* A header line with this name, in whatever case it was written.
IsHeader(t, name) == t.kind = "header" /\ t.val.name = name

\* Of several headers with one name the last stays.
get_header(tokens, name) ==
  LET i == SelectLastInSeq(tokens, LAMBDA t : IsHeader(t, name))
  IN  IF i = 0 THEN Empty ELSE tokens[i].val.value

\* Everything after the first blank line, read line by line and put together
\* again: a carriage return at the end of a line is lost, and so are line ends
\* at the beginning and the one at the end.
WithoutCR(line) ==
  IF line # <<>> /\ line[Len(line)] = CR THEN SubSeq(line, 1, Len(line) - 1) ELSE line

\* Mutant: lines are joined without the line end between them.
AddLineBare(body, line) == body \o WithoutCR(line)

AddLine(body, line) ==
  IF body = <<>> THEN WithoutCR(line) ELSE body \o <<LF>> \o WithoutCR(line)

ParseBody(tokens) ==
  LET header_end == SelectInSeq(tokens, IsBlank)
      text == [i \in 1..(Len(tokens) - header_end) |-> tokens[header_end + i].val]
  IN  FoldLeft(AddLine, <<>>, getline(text, LF))

\* char is signed: bytes from 128 on are negative.
PathAllowed(path) ==
  path # <<>> /\ path[1] = Slash /\ \A i \in DOMAIN path : path[i] \in 32..126

\* The test is made for POST and PUT only.
BodyAllowed(tokens) ==
  LET length == get_header(tokens, "content-length")
  IN  tokens[1].val.method = "POST" =>
        \/ length = Empty
        \/ length # Junk /\ Len(ParseBody(tokens)) >= length

\* POST stands for PUT and DELETE for OPTIONS as well.  A buffer that begins in
\* the middle of something is taken for one with a malformed request line.
is_request_valid(tokens) ==
  /\ tokens[1].kind = "line"
  /\ tokens[1].val.method \in {"GET", "HEAD", "POST", "DELETE"}
  /\ tokens[1].val.version \in {"HTTP/1.0", "HTTP/1.1"}
  /\ PathAllowed(PathOf(tokens[1].val.target))
  /\ BodyAllowed(tokens)

is_keep_alive(tokens) ==
  IF tokens[1].val.version = "HTTP/1.1"
  THEN get_header(tokens, "connection") # "close"
  ELSE get_header(tokens, "connection") = "keep-alive"

-------------------------------------------------------------------------------
(* HttpResponse *)

\* Mutant: Content-Length counts one byte too many.
set_body_too_long(r, size) == [r EXCEPT !.bytes = size, !.length = size + 1]

\* The body, and with it Content-Length.
set_body(r, size) == [r EXCEPT !.bytes = size, !.length = size]

set_keep_alive(r, keep) == [r EXCEPT !.connection = IF keep THEN "keep-alive" ELSE "close"]

create_error_response(status) == {set_body(NewResponse(status), n) : n \in PageSizes}

create_file_response == {set_body(NewResponse("200"), n) : n \in PageSizes}

\* Status information, or no such endpoint.
handle_api_request == {set_body(NewResponse("200"), n) : n \in PageSizes} \cup create_error_response("404")

\* What FileHandler answers.
handle_file_request ==
  create_file_response \cup UNION {create_error_response(e) : e \in {"403", "404", "500"}}

\* Mutant: only the length is set to zero for HEAD.
WithoutBodyButBytes(r) == [r EXCEPT !.length = 0]

WithoutBody(r) == set_body(r, 0)

-------------------------------------------------------------------------------
\* A piece arrives.  The event thread looks at the buffer after each.
Receive ==
  /\ phase = "receive"
  /\ \E n \in DOMAIN pending :
       /\ buffer' = buffer \o SubSeq(pending, 1, n)
       /\ pending' = SubSeq(pending, n + 1, Len(pending))
  /\ phase' = IF is_http_request_complete(buffer') THEN "handle" ELSE "receive"
  /\ UNCHANGED <<request, keep_alive, response, count>>

Finish(r, keep) ==
  /\ response' = set_keep_alive(r, keep)
  /\ keep_alive' = keep
  /\ buffer' = <<>>
  /\ phase' = IF keep THEN "answered" ELSE "closed"
  /\ UNCHANGED <<request, pending, count>>

\* handle_client_request: the 400 page of an invalid request, sent with the
\* keep_alive of the request before it.
HandleInvalid ==
  /\ phase = "handle"
  /\ ~is_request_valid(buffer)
  /\ \E r \in create_error_response("400") : Finish(r, keep_alive)

HandleGet ==
  /\ phase = "handle"
  /\ is_request_valid(buffer)
  /\ buffer[1].val.method \in {"GET", "HEAD"}
  /\ \E r \in IF IsPrefix(Api, PathOf(buffer[1].val.target))
             THEN handle_api_request ELSE handle_file_request :
       Finish(IF buffer[1].val.method = "HEAD" THEN WithoutBody(r) ELSE r,
              is_keep_alive(buffer))

HandleOther ==
  /\ phase = "handle"
  /\ is_request_valid(buffer)
  /\ buffer[1].val.method \notin {"GET", "HEAD"}
  /\ \E r \in create_error_response("405") : Finish(r, is_keep_alive(buffer))

\* The client has its response and sends another request, behind what is left
\* of the one before.
SendNext ==
  /\ phase = "answered"
  /\ count < MaxRequests
  /\ \E r \in Followups :
       /\ request' = r
       /\ pending' = pending \o Wire(r)
  /\ phase' = "receive"
  /\ response' = NewResponse("none")
  /\ count' = count + 1
  /\ UNCHANGED <<buffer, keep_alive>>

Next == Receive \/ HandleInvalid \/ HandleGet \/ HandleOther \/ SendNext

Spec == Init /\ [][Next]_vars

-------------------------------------------------------------------------------
(* Properties *)

TypeOK ==
  /\ request \in Requests
  /\ \A i \in DOMAIN pending : pending[i].kind \in {"line", "header", "blank", "byte"}
  /\ phase = "handle" => buffer # <<>>
  /\ keep_alive \in BOOLEAN
  /\ phase \in {"receive", "handle", "answered", "closed"}
  /\ response.length \in PageSizes \cup {0} /\ response.bytes \in PageSizes \cup {0}
  /\ count \in 1..MaxRequests

\* The units of the request as its own headers announce them.
HeaderSize(r) == Len(r.headers) + 2
Announced(r) ==
  LET i == SelectInSeq(r.headers, IsContentLength)
  IN  IF i = 0 THEN 0 ELSE LengthOr0(r.headers[i].value)
Wraps(r) == HeaderSize(r) + Announced(r) >= SizeMod

\* The buffer holds the request from its first byte on.
Aligned == buffer # <<>> /\ IsPrefix(buffer, Wire(request))

\* However the network cuts a request, it is handed to a worker with the very
\* piece that completes its headers and announced body, not before and not
\* after, as long as the sum of the sizes does not wrap (server.cpp:633-639).
HandedOverWhenWhole ==
  Aligned /\ ~Wraps(request) =>
    (phase = "handle" <=> Len(buffer) >= HeaderSize(request) + Announced(request))

\* Bodies that come through line-by-line parsing as they are: no carriage
\* return before a line end or at the end, no line end first or last.
PlainBody(b) ==
  b # <<>> =>
    /\ b[1] # LF
    /\ b[Len(b)] \notin {LF, CR}
    /\ \A i \in 1..(Len(b) - 1) : b[i] = CR => b[i+1] # LF

\* What becomes of a POST with one Content-Length, its body being as long as
\* announced: 405 exactly when the body is plain, 400 when parsing has shortened
\* it (http_request.cpp:33-38, 213).  Of other lengths it says only that a POST
\* whose announced size wraps around is never valid (server.cpp:635).
PostVerdict ==
  phase = "handle" /\ IsPrefix(buffer, Wire(request)) /\ request.line.method = "POST"
    /\ Len(request.headers) = 1 =>
      /\ Announced(request) = Len(request.body) /\ request.headers[1].name = "content-length"
           /\ request.headers[1].value # Junk
           => (is_request_valid(buffer) <=> PlainBody(request.body))
      /\ Wraps(request) => ~is_request_valid(buffer)

\* A target comes out as the client meant it, whatever characters its path,
\* keys and values contain: what was escaped is never taken for a separator
\* (http_request.cpp:59-69, 100-108).
TargetSurvives ==
  phase = "handle" /\ buffer[1].kind = "line" =>
    LET l == buffer[1].val
    IN  /\ PathOf(l.target) = l.path
        /\ \A i \in DOMAIN l.params :
             (\A j \in DOMAIN l.params : l.params[j][1] = l.params[i][1] => j <= i) =>
               get_query_param(l.target, l.params[i][1]) = l.params[i][2]

\* The client finds the next response where it looks for it: the bytes after
\* the headers are as many as Content-Length says, and none after HEAD, and
\* the connection is kept open exactly when the response says so.  (A HEAD
\* request that is refused with 400 is answered with a body.)
ClientInSync ==
  phase \in {"answered", "closed"} =>
    /\ response.bytes = IF request.line.method = "HEAD" /\ response.status # "400"
                        THEN 0 ELSE response.length
    /\ (phase = "closed") = (response.connection = "close")
===============================================================================
