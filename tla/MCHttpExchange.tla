---------------------------- MODULE MCHttpExchange ----------------------------
(* HttpExchange for TLC: the requests a client sends, in four families.      *)
EXTENDS HttpExchange

\* How a client writes text into a target: letters, digits and slashes as they
\* are, everything else as an escape with capital digits.
Digit(n) == IF n < 10 THEN 48 + n ELSE 55 + n
Escaped(c) ==
  IF c \in (47..57) \cup (97..122) THEN <<c>>
  ELSE <<Percent, Digit(c \div 16), Digit(c % 16)>>
Encode(text) == FlattenSeq([i \in DOMAIN text |-> Escaped(text[i])])
EncodePairs(params) ==
  FlattenSeq([i \in DOMAIN params |->
    (IF i = 1 THEN <<Question>> ELSE <<Amp>>)
      \o Encode(params[i][1]) \o <<Equal>> \o Encode(params[i][2])])

Line(method, version, path, params) ==
  [method |-> method, version |-> version, path |-> path, params |-> params,
   target |-> Encode(path) \o EncodePairs(params)]
PlainLine(method, version) == Line(method, version, <<Slash>>, <<>>)

Request(line, headers, body) == [line |-> line, headers |-> headers, body |-> body]
ContentLength(v) == [name |-> "content-length", value |-> v]
Connection(v) == [name |-> "connection", value |-> v]

Bodies(n) == UNION {[1..m -> {CR, LF, 120}] : m \in 0..n}

\* Announced lengths that are right, too small, too large, no number, or wrap
\* around (SizeMod is 16), twice in one request too.
Lengths == {0, 1, 2, Junk, 14}
Framing ==
  {Request(PlainLine(m, "HTTP/1.1"), h, b) :
     m \in {"GET", "POST"}, b \in {<<>>, <<120, 120>>},
     h \in {<<ContentLength(v)>> : v \in Lengths}
           \cup {<<ContentLength(v), ContentLength(w)>> : v, w \in Lengths}}

\* Every POST with up to four bytes of carriage returns, line ends and text.
Posts == {Request(PlainLine("POST", "HTTP/1.1"), <<ContentLength(Len(b))>>, b) : b \in Bodies(4)}

\* Paths and parameters with every character that means something.
Chars == {Space, Percent, Amp, Plus, Equal, Question, Slash, 50, 53, 97, 10}
Texts == {<<>>} \cup {<<c>> : c \in Chars} \cup {<<Percent, 50, 53>>}
Targets ==
  {Request(Line("GET", "HTTP/1.1", <<Slash>> \o p \o q, <<>>), <<>>, <<>>) : p, q \in Texts}
  \cup {Request(Line("GET", "HTTP/1.1", <<Slash>>, <<<<k, v>>, <<l, v>>>>), <<>>, <<>>) :
          k, l \in Texts, v \in {<<>>, <<Amp>>, <<Equal, 97>>}}
  \cup {Request(Line("GET", "HTTP/1.1", <<Slash>>, <<<<<<97>>, v>>, <<<<97>>, w>>>>), <<>>, <<>>) :
          v, w \in Texts}

\* Requests for the status page have a path that begins with this.
ApiPrefix == <<Slash, 97, 112, 105, Slash>>

\* What decides about the connection.
Persistence ==
  {Request(Line("GET", "HTTP/1.1", ApiPrefix \o <<120>>, <<>>), <<>>, <<>>)}
  \cup {Request(PlainLine(m, v), h, <<>>) :
     m \in {"GET", "HEAD", "DELETE", "BREW"}, v \in {"HTTP/1.0", "HTTP/1.1", "HTTP/2"},
     h \in {<<>>} \cup {<<Connection(c)>> : c \in {"close", "keep-alive", "upgrade"}}}

AllRequests == Framing \cup Posts \cup Targets \cup Persistence
===============================================================================
