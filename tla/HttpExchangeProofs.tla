-------------------------- MODULE HttpExchangeProofs --------------------------
(***************************************************************************)
(* Proofs about HttpExchange, for any requests, cut into any pieces, any   *)
(* number of them on a connection.                                         *)
(*                                                                         *)
(* A request can leave bytes behind (its body was longer than announced),  *)
(* and they come before the next request.  The invariant says so: what is  *)
(* in the buffer and on its way is some bytes followed by the request the  *)
(* client sent last, whole, and what a worker leaves is nothing but bytes. *)
(***************************************************************************)
EXTENDS HttpExchange, SequenceTheorems, WellFoundedInduction, TLAPS

-------------------------------------------------------------------------------
(* Searching a sequence *)

\* What std::string::find and the header loop find: the first place.
LEMMA MinOf ==
  ASSUME NEW S \in SUBSET Nat, NEW m \in S, \A n \in S : m <= n
  PROVE  Min(S) = m
<1>1. Min(S) \in S /\ \A n \in S : Min(S) <= n
  BY DEF Min
<1>2. Min(S) <= m /\ m <= Min(S) /\ Min(S) \in Nat /\ m \in Nat
  BY <1>1
<1> QED
  BY <1>2

\* A set of numbers that is not empty has a least one.
LEMMA Least ==
  ASSUME NEW S \in SUBSET Nat, S # {}
  PROVE  \E m \in S : \A n \in S : m <= n
<1>1. PICK m \in S : \A n \in S : ~(<<n, m>> \in OpToRel(<, Nat))
  BY NatLessThanWellFounded, WFMin, Zenon
<1>2. ASSUME NEW n \in S PROVE m <= n
  <2>1. <<n, m>> \in Nat \X Nat /\ <<n, m>>[1] = n /\ <<n, m>>[2] = m
    OBVIOUS
  <2>2. ~(n < m)
    BY <1>1, <2>1 DEF OpToRel
  <2> QED
    BY <2>2
<1> QED
  BY <1>2

\* The first blank line is where one is and none is before it.
LEMMA FirstBlank ==
  ASSUME NEW s, Len(s) \in Nat, NEW p \in 1..Len(s), IsBlank(s[p]),
         \A i \in 1..Len(s) : IsBlank(s[i]) => p <= i
  PROVE  SelectInSeq(s, IsBlank) = p
<1> DEFINE I == {i \in 1..Len(s) : IsBlank(s[i])}
<1>1. I \in SUBSET Nat /\ p \in I /\ \A i \in I : p <= i
  OBVIOUS
<1>2. Min(I) = p
  BY <1>1, MinOf
<1> QED
  BY <1>1, <1>2 DEF SelectInSeq

\* Without a blank line the search fails.
LEMMA NoBlank ==
  ASSUME NEW s, \A i \in 1..Len(s) : ~IsBlank(s[i])
  PROVE  SelectInSeq(s, IsBlank) = 0
  BY DEF SelectInSeq

-------------------------------------------------------------------------------
(* Requests on the wire *)

Lines == {Token("line", r.line) : r \in Requests}
Headers == {Token("header", h) : h \in UNION {Range(r.headers) : r \in Requests}}
Blanks == {Token("blank", 0)}
Bytes == {Token("byte", b) : b \in UNION {Range(r.body) : r \in Requests}}
Tokens == Lines \cup Headers \cup Blanks \cup Bytes

\* A request is its line, its headers, a blank line and its body.
Shape(s, r) ==
  /\ s \in Seq(Tokens)
  /\ Len(s) = Len(r.headers) + 2 + Len(r.body)
  /\ s[1] = Token("line", r.line)
  /\ \A i \in 1..Len(r.headers) : s[i+1] = Token("header", r.headers[i])
  /\ s[Len(r.headers) + 2] = Token("blank", 0)
  /\ \A i \in 1..Len(r.body) : s[Len(r.headers) + 2 + i] \in Bytes

\* The numbers of headers and of bytes are numbers.
LEMMA RequestParts ==
  ASSUME NEW r \in Requests
  PROVE  /\ r.headers \in Seq(Range(r.headers)) /\ Len(r.headers) \in Nat
         /\ r.body \in Seq(Range(r.body)) /\ Len(r.body) \in Nat
         /\ \A i \in 1..Len(r.headers) : r.headers[i] \in Range(r.headers)
         /\ \A i \in 1..Len(r.body) : r.body[i] \in Range(r.body)
  BY ExchangeAssumption

\* Where the elements of two sequences are after one is appended to the other.
LEMMA Glued ==
  ASSUME NEW S, NEW s \in Seq(S), NEW t \in Seq(S)
  PROVE  /\ s \o t \in Seq(S) /\ Len(s) \in Nat /\ Len(t) \in Nat
         /\ Len(s \o t) = Len(s) + Len(t)
         /\ \A i \in 1..Len(s) : (s \o t)[i] = s[i]
         /\ \A i \in 1..Len(t) : (s \o t)[Len(s) + i] = t[i]
<1> DEFINE u == s \o t
<1>1. /\ u \in Seq(S) /\ Len(u) = Len(s) + Len(t)
      /\ \A i \in 1..Len(s)+Len(t) : u[i] = IF i <= Len(s) THEN s[i] ELSE t[i - Len(s)]
  BY ConcatProperties
<1>2. Len(s) \in Nat /\ Len(t) \in Nat
  OBVIOUS
<1> HIDE DEF u
<1>3. ASSUME NEW i \in 1..Len(t) PROVE u[Len(s) + i] = t[i]
  <2>1. /\ Len(s) + i \in 1..Len(s)+Len(t) /\ ~(Len(s) + i <= Len(s))
        /\ (Len(s) + i) - Len(s) = i
    BY <1>2
  <2> QED
    BY <1>1, <2>1
<1>4. ASSUME NEW i \in 1..Len(s) PROVE u[i] = s[i]
  <2>1. i \in 1..Len(s)+Len(t) /\ i <= Len(s)
    BY <1>2
  <2> QED
    BY <1>1, <2>1
<1>5. /\ u \in Seq(S) /\ Len(s) \in Nat /\ Len(t) \in Nat /\ Len(u) = Len(s) + Len(t)
      /\ \A i \in 1..Len(s) : u[i] = s[i]
      /\ \A i \in 1..Len(t) : u[Len(s) + i] = t[i]
  BY <1>1, <1>2, <1>3, <1>4
<1> QED
  BY <1>5 DEF u

\* What was appended in two pieces was appended.
LEMMA Regroup ==
  ASSUME NEW S, NEW s \in Seq(S), NEW t \in Seq(S), NEW u \in Seq(S)
  PROVE  (s \o t) \o u = s \o (t \o u)
  BY ConcatAssociative

\* So the wire has that shape.
LEMMA WireShape ==
  ASSUME NEW r \in Requests
  PROVE  Shape(Wire(r), r)
<1> DEFINE a == <<Token("line", r.line)>>
           b == [i \in DOMAIN r.headers |-> Token("header", r.headers[i])]
           c == <<Token("blank", 0)>>
           d == [i \in DOMAIN r.body |-> Token("byte", r.body[i])]
           h == Len(r.headers)
           n == Len(r.body)
<1>1. h \in Nat /\ n \in Nat /\ DOMAIN r.headers = 1..h /\ DOMAIN r.body = 1..n
  BY RequestParts
<1>2. a \in Seq(Tokens) /\ Len(a) = 1 /\ a[1] = Token("line", r.line)
  BY DEF Tokens, Lines
<1>3. c \in Seq(Tokens) /\ Len(c) = 1 /\ c[1] = Token("blank", 0)
  BY DEF Tokens, Blanks
<1>4. /\ b \in Seq(Tokens) /\ Len(b) = h
      /\ \A i \in 1..h : b[i] = Token("header", r.headers[i])
  <2>1. ASSUME NEW i \in 1..h PROVE Token("header", r.headers[i]) \in Tokens
    BY <2>1, RequestParts DEF Tokens, Headers
  <2>2. b \in [1..h -> Tokens]
    BY <1>1, <2>1
  <2> QED
    BY <1>1, <2>2
<1>5. d \in Seq(Tokens) /\ Len(d) = n /\ \A i \in 1..n : d[i] \in Bytes
  <2>1. ASSUME NEW i \in 1..n PROVE Token("byte", r.body[i]) \in Bytes
    BY <2>1, RequestParts DEF Bytes
  <2>2. d \in [1..n -> Tokens] /\ \A i \in 1..n : d[i] \in Bytes
    BY <1>1, <2>1 DEF Tokens
  <2> QED
    BY <1>1, <2>2
<1>6. Wire(r) = ((a \o b) \o c) \o d
  BY DEF Wire
<1> DEFINE e == a \o b
           f == e \o c
<1> HIDE DEF a, b, c, d, h, n
<1> USE <1>1
<1>7. /\ e \in Seq(Tokens) /\ Len(e) = 1 + h
      /\ \A i \in 1..1 : e[i] = a[i]
      /\ \A i \in 1..h : e[1+i] = b[i]
  <2>0. a \in Seq(Tokens) /\ b \in Seq(Tokens)
    BY <1>2, <1>4
  <2>1. /\ a \o b \in Seq(Tokens) /\ Len(a \o b) = Len(a) + Len(b)
        /\ \A i \in 1..Len(a) : (a \o b)[i] = a[i]
        /\ \A i \in 1..Len(b) : (a \o b)[Len(a) + i] = b[i]
    BY <2>0, Glued
  <2> QED
    BY <1>2, <1>4, <2>1
<1> HIDE DEF e
<1>8. /\ f \in Seq(Tokens) /\ Len(f) = 1 + h + 1
      /\ \A i \in 1..(1+h) : f[i] = e[i]
      /\ \A i \in 1..1 : f[1+h+i] = c[i]
  <2>0. e \in Seq(Tokens) /\ c \in Seq(Tokens)
    BY <1>3, <1>7
  <2>1. /\ e \o c \in Seq(Tokens) /\ Len(e \o c) = Len(e) + Len(c)
        /\ \A i \in 1..Len(e) : (e \o c)[i] = e[i]
        /\ \A i \in 1..Len(c) : (e \o c)[Len(e) + i] = c[i]
    BY <2>0, Glued
  <2> QED
    BY <1>3, <1>7, <2>1
<1> HIDE DEF f
<1> DEFINE s == f \o d
<1>9. /\ s \in Seq(Tokens) /\ Len(s) = 1 + h + 1 + n
      /\ \A i \in 1..(1+h+1) : s[i] = f[i]
      /\ \A i \in 1..n : s[1+h+1+i] = d[i]
  <2>0. f \in Seq(Tokens) /\ d \in Seq(Tokens)
    BY <1>5, <1>8
  <2>1. /\ f \o d \in Seq(Tokens) /\ Len(f \o d) = Len(f) + Len(d)
        /\ \A i \in 1..Len(f) : (f \o d)[i] = f[i]
        /\ \A i \in 1..Len(d) : (f \o d)[Len(f) + i] = d[i]
    BY <2>0, Glued
  <2> QED
    BY <1>5, <1>8, <2>1
<1>10. Wire(r) = s
  BY <1>6 DEF e, f
<1> HIDE DEF s
<1>11. Len(s) = h + 2 + n
  BY <1>1, <1>9
<1>12. s[1] = Token("line", r.line)
  BY <1>1, <1>2, <1>7, <1>8, <1>9
<1>13. ASSUME NEW i \in 1..h PROVE s[i+1] = Token("header", r.headers[i])
  <2>1. i + 1 = 1 + i /\ 1 + i \in 1..(1+h) /\ 1 + i \in 1..(1+h+1)
    BY <1>1
  <2> QED
    BY <1>4, <1>7, <1>8, <1>9, <2>1
<1>14. s[h+2] = Token("blank", 0)
  <2>1. h + 2 = 1 + h + 1 /\ 1 + h + 1 \in 1..(1+h+1)
    BY <1>1
  <2> QED
    BY <1>3, <1>8, <1>9, <2>1
<1>15. ASSUME NEW i \in 1..n PROVE s[h+2+i] \in Bytes
  <2>1. h + 2 + i = 1 + h + 1 + i
    BY <1>1
  <2> QED
    BY <1>5, <1>9, <2>1
<1> QED
  BY <1>9, <1>10, <1>11, <1>12, <1>13, <1>14, <1>15 DEF Shape, h, n

\* What kinds of tokens there are where.
LEMMA WireKinds ==
  ASSUME NEW r \in Requests, NEW s, Shape(s, r)
  PROVE  /\ Len(s) \in Nat /\ Len(r.headers) \in Nat /\ Len(s) >= Len(r.headers) + 2
         /\ s[1].kind = "line" /\ s[1].val = r.line
         /\ \A i \in 2..(Len(r.headers)+1) : s[i].kind = "header" /\ s[i].val = r.headers[i-1]
         /\ s[Len(r.headers)+2].kind = "blank"
         /\ \A i \in (Len(r.headers)+3)..Len(s) : s[i].kind = "byte"
<1> DEFINE h == Len(r.headers)
           n == Len(r.body)
<1>1. h \in Nat /\ n \in Nat /\ Len(s) = h + 2 + n
  BY RequestParts DEF Shape
<1> HIDE DEF h, n
<1>2. ASSUME NEW i \in 2..(h+1) PROVE s[i].kind = "header" /\ s[i].val = r.headers[i-1]
  <2>1. i - 1 \in 1..h /\ (i - 1) + 1 = i
    BY <1>1
  <2>2. s[i] = Token("header", r.headers[i-1])
    BY <2>1 DEF Shape, h, n
  <2> QED
    BY <2>2 DEF Token
<1>3. ASSUME NEW i \in (h+3)..Len(s) PROVE s[i].kind = "byte"
  <2>1. i - (h + 2) \in 1..n /\ h + 2 + (i - (h + 2)) = i
    BY <1>1
  <2>2. s[i] \in Bytes
    BY <2>1 DEF Shape, h, n
  <2> QED
    BY <2>2 DEF Bytes, Token
<1>4. s[1] = Token("line", r.line) /\ s[h+2] = Token("blank", 0)
  BY DEF Shape, h
<1> QED
  BY <1>1, <1>2, <1>3, <1>4 DEF Token, h

-------------------------------------------------------------------------------
(* When a request is complete *)

\* A sum below 2^64 does not wrap.
LEMMA ModBelow ==
  ASSUME NEW x \in Nat, NEW m \in Nat, x < m
  PROVE  x % m = x
<1>1. x = m * (x \div m) + (x % m) /\ x % m \in 0..(m-1) /\ x \div m \in Int
  OBVIOUS
<1>2. x \div m = 0
  BY <1>1
<1> QED
  BY <1>1, <1>2

\* A piece of the wire that ends behind the blank line announces what the
\* request announces.
LEMMA SameLength ==
  ASSUME NEW r \in Requests, NEW b, Len(b) \in Nat, Len(b) >= Len(r.headers) + 2,
         Len(b) <= Len(Wire(r)), \A i \in 1..Len(b) : b[i] = Wire(r)[i]
  PROVE  BodyLength(b) = Announced(r) /\ Announced(r) \in Nat
<1> DEFINE h == Len(r.headers)
           I == {i \in 1..Len(b) : AnnouncesLength(b[i])}
           J == {j \in 1..Len(r.headers) : IsContentLength(r.headers[j])}
<1>1. /\ Len(Wire(r)) \in Nat /\ h \in Nat
      /\ Wire(r)[1].kind = "line"
      /\ \A i \in 2..(h+1) : Wire(r)[i].kind = "header" /\ Wire(r)[i].val = r.headers[i-1]
      /\ Wire(r)[h+2].kind = "blank"
      /\ \A i \in (h+3)..Len(Wire(r)) : Wire(r)[i].kind = "byte"
  BY WireShape, WireKinds
<1>2. ASSUME NEW i \in 1..Len(b)
      PROVE  AnnouncesLength(b[i]) <=> i - 1 \in J
  <2>1. b[i] = Wire(r)[i] /\ Len(b) <= Len(Wire(r))
    OBVIOUS
  <2>2. CASE i \in 2..(h+1)
    <3>1. i - 1 \in 1..h
      BY <1>1, <2>2
    <3> QED
      BY <1>1, <2>1, <2>2, <3>1 DEF AnnouncesLength
  <2>3. CASE i \notin 2..(h+1)
    <3>1. i - 1 \notin 1..h
      BY <1>1, <2>3
    <3>2. i = 1 \/ i = h + 2 \/ i \in (h+3)..Len(Wire(r))
      BY <1>1, <2>1, <2>3
    <3>3. b[i].kind # "header"
      BY <1>1, <2>1, <3>2
    <3> QED
      BY <3>1, <3>3 DEF AnnouncesLength
  <2> QED
    BY <2>2, <2>3
<1>3. I \in SUBSET Nat /\ J \in SUBSET Nat
  OBVIOUS
<1>4. CASE J = {}
  <2>1. I = {}
    BY <1>2, <1>4
  <2>2. BodyLength(b) = 0
    BY <2>1 DEF BodyLength, SelectInSeq
  <2>3. Announced(r) = 0
    BY <1>4 DEF Announced, SelectInSeq
  <2> QED
    BY <2>2, <2>3
<1>5. CASE J # {}
  <2>1. PICK m \in J : \A j \in J : m <= j
    BY <1>3, <1>5, Least
  <2>2. m \in 1..h /\ m + 1 \in 1..Len(b) /\ (m + 1) - 1 = m /\ m + 1 \in 2..(h+1)
    BY <1>1
  <2>3. m + 1 \in I
    BY <1>2, <2>2
  <2>4. ASSUME NEW i \in I PROVE m + 1 <= i
    <3>1. i - 1 \in J /\ i \in Nat /\ m \in Nat
      BY <1>2, <1>3
    <3>2. m <= i - 1
      BY <2>1, <3>1
    <3> QED
      BY <3>1, <3>2
  <2>5. Min(I) = m + 1
    BY <1>3, <2>3, <2>4, MinOf
  <2>6. Min(J) = m
    BY <1>3, <2>1, MinOf
  <2>7. SelectInSeq(b, AnnouncesLength) = m + 1
    BY <2>3, <2>5 DEF SelectInSeq
  <2>8. SelectInSeq(r.headers, IsContentLength) = m
    BY <2>1, <2>6 DEF SelectInSeq
  <2>9. b[m+1].val = r.headers[m]
    BY <1>1, <2>2
  <2>10. m + 1 # 0 /\ m # 0
    BY <2>2, <1>1
  <2>11. BodyLength(b) = LengthOr0(r.headers[m].value)
    BY <2>7, <2>9, <2>10 DEF BodyLength
  <2>12. Announced(r) = LengthOr0(r.headers[m].value)
    BY <2>8, <2>10 DEF Announced
  <2>13. r.headers[m] \in Range(r.headers) /\ r.headers[m].name = "content-length"
    BY <2>1, <2>2, RequestParts DEF IsContentLength
  <2>14. r.headers[m].value \in Nat \cup {Junk}
    BY <2>13, ExchangeAssumption
  <2>15. LengthOr0(r.headers[m].value) \in Nat
    BY <2>14 DEF LengthOr0
  <2> QED
    BY <2>11, <2>12, <2>15
<1> QED
  BY <1>4, <1>5

\* Announced sizes are sizes.
LEMMA AnnouncedSize ==
  ASSUME NEW r \in Requests
  PROVE  Announced(r) \in Nat
<1>1. Len(Wire(r)) \in Nat /\ Len(Wire(r)) >= Len(r.headers) + 2
  BY WireShape, WireKinds
<1> QED
  BY <1>1, SameLength

\* A piece of the wire, from its first token on, passes for complete when it
\* holds the headers and as many bytes as they announce.
LEMMA CompleteWhenWhole ==
  ASSUME NEW r \in Requests, ~Wraps(r), NEW b \in Seq(Tokens), IsPrefix(b, Wire(r))
  PROVE  is_http_request_complete(b) <=> Len(b) >= HeaderSize(r) + Announced(r)
<1> DEFINE h == Len(r.headers)
           n == Len(b)
<1>1. /\ Len(Wire(r)) \in Nat /\ h \in Nat /\ Len(Wire(r)) >= h + 2
      /\ Wire(r)[1].kind = "line"
      /\ \A i \in 2..(h+1) : Wire(r)[i].kind = "header"
      /\ Wire(r)[h+2].kind = "blank"
  BY WireShape, WireKinds
<1>2. n \in Nat /\ n <= Len(Wire(r)) /\ \A i \in 1..n : b[i] = Wire(r)[i]
  <2>1. n \in Nat /\ n <= Len(Wire(r)) /\ SubSeq(b, 1, n) = SubSeq(Wire(r), 1, n)
    BY DEF IsPrefix
  <2>2. \A i \in 1..n : SubSeq(b, 1, n)[i] = b[i] /\ SubSeq(Wire(r), 1, n)[i] = Wire(r)[i]
    BY <1>1, <2>1
  <2> QED
    BY <2>1, <2>2
<1>3. Announced(r) \in Nat
  BY AnnouncedSize
<1> HIDE DEF h, n
<1>4. CASE n < h + 2
  <2>1. ASSUME NEW i \in 1..n PROVE ~IsBlank(b[i])
    <3>1. i = 1 \/ i \in 2..(h+1)
      BY <1>1, <1>2, <1>4
    <3> QED
      BY <1>1, <1>2, <3>1 DEF IsBlank
  <2>2. SelectInSeq(b, IsBlank) = 0
    BY <2>1, NoBlank DEF n
  <2>3. ~is_http_request_complete(b)
    BY <2>2 DEF is_http_request_complete
  <2>4. ~(n >= h + 2 + Announced(r))
    BY <1>1, <1>2, <1>3, <1>4
  <2> QED
    BY <2>3, <2>4 DEF HeaderSize, h, n
<1>5. CASE n >= h + 2
  <2>1. h + 2 \in 1..n /\ IsBlank(b[h+2])
    BY <1>1, <1>2, <1>5 DEF IsBlank
  <2>2. ASSUME NEW i \in 1..n, IsBlank(b[i]) PROVE h + 2 <= i
    <3>1. i \notin 2..(h+1) /\ i # 1
      BY <1>1, <1>2, <2>2 DEF IsBlank
    <3> QED
      BY <1>1, <1>2, <3>1
  <2>3. SelectInSeq(b, IsBlank) = h + 2
    BY <1>2, <2>1, <2>2, FirstBlank DEF n
  <2>4. BodyLength(b) = Announced(r)
    BY <1>2, <1>5, SameLength DEF n, h
  <2>5. h + 2 + Announced(r) < SizeMod /\ SizeMod \in Nat
    <3>1. SizeMod \in Nat /\ ~(h + 2 + Announced(r) >= SizeMod)
      BY ExchangeAssumption DEF Wraps, HeaderSize, h
    <3> QED
      BY <1>1, <1>3, <3>1
  <2>6. (h + 2 + Announced(r)) % SizeMod = h + 2 + Announced(r)
    <3>1. h + 2 + Announced(r) \in Nat
      BY <1>1, <1>3
    <3> QED
      BY <2>5, <3>1, ModBelow
  <2>7. is_http_request_complete(b) <=> n >= h + 2 + Announced(r)
    BY <1>1, <2>3, <2>4, <2>6 DEF is_http_request_complete, n
  <2> QED
    BY <2>7 DEF HeaderSize, h, n
<1> QED
  BY <1>1, <1>2, <1>4, <1>5

-------------------------------------------------------------------------------
(* The invariant *)

\* n bytes that a request before this one left behind, and then this one.
Stream(s, r, n) ==
  /\ Len(s) = n + Len(Wire(r))
  /\ \A i \in 1..n : s[i].kind = "byte"
  /\ \A i \in 1..Len(Wire(r)) : s[n+i] = Wire(r)[i]

StateTypes ==
  /\ request \in Requests
  /\ keep_alive \in BOOLEAN
  /\ phase \in {"receive", "handle", "answered", "closed"}
  /\ response.length \in PageSizes \cup {0} /\ response.bytes \in PageSizes \cup {0}
  /\ count \in 1..MaxRequests

\* What is in the buffer and on its way.
StreamInv ==
  /\ buffer \in Seq(Tokens) /\ pending \in Seq(Tokens)
  /\ phase \in {"receive", "handle"} => \E n \in Nat : Stream(buffer \o pending, request, n)
  /\ phase \in {"answered", "closed"} =>
       buffer = <<>> /\ \A i \in 1..Len(pending) : pending[i].kind = "byte"

\* A worker has the buffer as soon as it passes for complete.
CompleteInv ==
  /\ phase = "receive" => ~is_http_request_complete(buffer)
  /\ phase = "handle" => is_http_request_complete(buffer)

IInv == StateTypes /\ StreamInv /\ CompleteInv /\ ClientInSync

-------------------------------------------------------------------------------
(* What the invariant says of the buffer *)

\* Every token has a kind.
LEMMA KindsOfTokens ==
  ASSUME NEW t \in Tokens
  PROVE  t.kind \in {"line", "header", "blank", "byte"}
  BY DEF Tokens, Lines, Headers, Blanks, Bytes, Token

\* Nothing that is complete is without a blank line.
LEMMA CompleteHasBlank ==
  ASSUME NEW s, is_http_request_complete(s)
  PROVE  \E i \in 1..Len(s) : IsBlank(s[i])
<1>1. SelectInSeq(s, IsBlank) # 0
  BY DEF is_http_request_complete
<1> QED
  BY <1>1, NoBlank

\* Whatever the buffer begins with, a line at its beginning is the line of the
\* request that is being answered.
LEMMA FirstToken ==
  ASSUME IInv, phase = "handle"
  PROVE  /\ buffer # <<>>
         /\ buffer[1].kind = "line" => buffer[1].val = request.line
<1>1. /\ buffer \in Seq(Tokens) /\ pending \in Seq(Tokens) /\ request \in Requests
      /\ is_http_request_complete(buffer)
  BY DEF IInv, StateTypes, StreamInv, CompleteInv
<1>2. PICK n \in Nat : Stream(buffer \o pending, request, n)
  BY DEF IInv, StreamInv
<1> DEFINE s == buffer \o pending
<1>3. Len(buffer) \in Nat /\ \A i \in 1..Len(buffer) : s[i] = buffer[i]
  BY <1>1, Glued
<1>4. 1 \in 1..Len(buffer)
  BY <1>1, <1>3, CompleteHasBlank
<1>5. s[1] = buffer[1]
  BY <1>3, <1>4
<1> HIDE DEF s
<1>6. Len(Wire(request)) \in Nat /\ Len(Wire(request)) >= 2 /\ Wire(request)[1].val = request.line
  BY <1>1, WireShape, WireKinds
<1>7. CASE n = 0
  <2>1. 1 \in 1..Len(Wire(request)) /\ n + 1 = 1
    BY <1>6, <1>7
  <2>2. s[1] = Wire(request)[1]
    BY <1>2, <2>1 DEF Stream, s
  <2> QED
    BY <1>4, <1>5, <1>6, <2>2
<1>8. CASE n # 0
  <2>1. 1 \in 1..n
    BY <1>8
  <2>2. s[1].kind = "byte"
    BY <1>2, <2>1 DEF Stream, s
  <2> QED
    BY <1>4, <1>5, <2>2
<1> QED
  BY <1>7, <1>8

\* What is still on its way when a request is complete are bytes of its body.
LEMMA OnlyBytesFollow ==
  ASSUME IInv, phase = "handle"
  PROVE  \A i \in 1..Len(pending) : pending[i].kind = "byte"
<1>1. /\ buffer \in Seq(Tokens) /\ pending \in Seq(Tokens) /\ request \in Requests
      /\ is_http_request_complete(buffer)
  BY DEF IInv, StateTypes, StreamInv, CompleteInv
<1>2. PICK n \in Nat : Stream(buffer \o pending, request, n)
  BY DEF IInv, StreamInv
<1> DEFINE s == buffer \o pending
           w == Wire(request)
           h == Len(request.headers)
<1>3. /\ Len(buffer) \in Nat /\ Len(pending) \in Nat /\ Len(s) = Len(buffer) + Len(pending)
      /\ \A i \in 1..Len(buffer) : s[i] = buffer[i]
      /\ \A i \in 1..Len(pending) : s[Len(buffer) + i] = pending[i]
  BY <1>1, Glued
<1>4. /\ Len(w) \in Nat /\ h \in Nat
      /\ w[1].kind = "line"
      /\ \A i \in 2..(h+1) : w[i].kind = "header"
      /\ \A i \in (h+3)..Len(w) : w[i].kind = "byte"
  BY <1>1, WireShape, WireKinds
<1>5. PICK b \in 1..Len(buffer) : IsBlank(buffer[b])
  BY <1>1, CompleteHasBlank
<1>6. /\ Len(s) = n + Len(w)
      /\ \A i \in 1..n : s[i].kind = "byte"
      /\ \A i \in 1..Len(w) : s[n+i] = w[i]
  BY <1>2 DEF Stream
<1> HIDE DEF s, w, h
<1>7. s[b].kind = "blank" /\ b \in 1..Len(s)
  BY <1>3, <1>5 DEF IsBlank
<1>8. b - n \in 1..Len(w) /\ w[b-n].kind = "blank"
  <2>1. b \notin 1..n
    BY <1>6, <1>7
  <2>2. b - n \in 1..Len(w) /\ n + (b - n) = b
    BY <1>3, <1>4, <1>6, <1>7, <2>1
  <2> QED
    BY <1>6, <1>7, <2>2
<1>9. b - n >= h + 2
  <2>1. b - n # 1 /\ b - n \notin 2..(h+1)
    BY <1>4, <1>8
  <2> QED
    BY <1>4, <1>8, <2>1
<1>10. ASSUME NEW i \in 1..Len(pending) PROVE pending[i].kind = "byte"
  <2>1. Len(buffer) + i - n \in (h+3)..Len(w) /\ n + (Len(buffer) + i - n) = Len(buffer) + i
    BY <1>3, <1>4, <1>6, <1>9
  <2>2. Len(buffer) + i - n \in 1..Len(w)
    BY <1>4, <2>1
  <2>3. s[Len(buffer) + i] = w[Len(buffer) + i - n]
    BY <1>6, <2>1, <2>2
  <2> QED
    BY <1>3, <1>4, <2>1, <2>3
<1> QED
  BY <1>10

-------------------------------------------------------------------------------
(* What the handlers answer *)

\* Responses that say how long they are.
Fields == {"status", "length", "bytes", "connection"}

IsPage(r) ==
  /\ DOMAIN r = Fields
  /\ r.length \in PageSizes \cup {0} /\ r.bytes = r.length

\* set_body keeps the announced length true.
LEMMA SetBody ==
  ASSUME NEW status, NEW n \in PageSizes \cup {0}
  PROVE  /\ IsPage(set_body(NewResponse(status), n))
         /\ set_body(NewResponse(status), n).status = status
<1> DEFINE b == set_body(NewResponse(status), n)
<1>1. DOMAIN b = Fields
  BY DEF set_body, NewResponse, Fields
<1>2. b.length = n /\ b.bytes = n /\ b.status = status
  BY DEF set_body, NewResponse
<1> HIDE DEF b
<1>3. IsPage(b) /\ b.status = status
  BY <1>1, <1>2 DEF IsPage
<1> QED
  BY <1>3 DEF b

\* Error pages say how long they are.
LEMMA ErrorPages ==
  ASSUME NEW status, NEW r \in create_error_response(status)
  PROVE  IsPage(r) /\ r.status = status
  BY SetBody DEF create_error_response

\* So does what answers a GET, and it is never a 400.
LEMMA GetPages ==
  ASSUME NEW r \in handle_api_request \cup handle_file_request
  PROVE  IsPage(r) /\ r.status # "400"
<1>1. CASE \E n \in PageSizes : r = set_body(NewResponse("200"), n)
  BY <1>1, SetBody
<1>2. ASSUME NEW e \in {"403", "404", "500"}, r \in create_error_response(e)
      PROVE  IsPage(r) /\ r.status # "400"
  BY <1>2, ErrorPages
<1>3. \/ \E n \in PageSizes : r = set_body(NewResponse("200"), n)
      \/ \E e \in {"403", "404", "500"} : r \in create_error_response(e)
  BY DEF handle_api_request, handle_file_request, create_file_response
<1> QED
  BY <1>1, <1>2, <1>3

\* Without its body a response is still one that says how long it is.
LEMMA HeadPages ==
  ASSUME NEW r, IsPage(r)
  PROVE  IsPage(WithoutBody(r)) /\ WithoutBody(r).bytes = 0 /\ WithoutBody(r).status = r.status
<1> DEFINE b == WithoutBody(r)
<1>1. DOMAIN b = Fields
  BY DEF WithoutBody, set_body, IsPage
<1>2. b.length = 0 /\ b.bytes = 0 /\ b.status = r.status
  BY DEF WithoutBody, set_body, IsPage, Fields
<1> HIDE DEF b
<1>3. IsPage(b) /\ b.bytes = 0 /\ b.status = r.status
  BY <1>1, <1>2 DEF IsPage
<1> QED
  BY <1>3 DEF b

-------------------------------------------------------------------------------
(* Steps *)

\* A connection begins in the invariant.
LEMMA InitInv == Init => IInv
<1> SUFFICES ASSUME Init PROVE IInv
  OBVIOUS
<1>1. request \in Requests /\ Shape(Wire(request), request)
  BY WireShape DEF Init
<1>2. StateTypes
  <2>1. 1 \in 1..MaxRequests
    BY ExchangeAssumption
  <2>2. response.length = 0 /\ response.bytes = 0
    BY DEF Init, NewResponse
  <2> QED
    BY <1>1, <2>1, <2>2 DEF Init, StateTypes
<1>3. StreamInv
  <2>1. Wire(request) \in Seq(Tokens) /\ <<>> \in Seq(Tokens)
    BY <1>1 DEF Shape
  <2>2. <<>> \o Wire(request) = Wire(request)
    BY <2>1, ConcatEmptySeq
  <2>3. Len(Wire(request)) \in Nat
    BY <2>1
  <2>4. Stream(Wire(request), request, 0)
    BY <2>3 DEF Stream
  <2> QED
    BY <2>1, <2>2, <2>4 DEF Init, StreamInv
<1>4. CompleteInv
  <2>1. ~is_http_request_complete(<<>>)
    BY CompleteHasBlank
  <2> QED
    BY <2>1 DEF Init, CompleteInv
<1>5. ClientInSync
  BY DEF Init, ClientInSync
<1> QED
  BY <1>2, <1>3, <1>4, <1>5 DEF IInv

\* A piece moves from the network to the buffer.
LEMMA ReceiveStep == IInv /\ Receive => IInv'
<1> SUFFICES ASSUME IInv, Receive PROVE IInv'
  OBVIOUS
<1>1. PICK n \in DOMAIN pending :
        /\ buffer' = buffer \o SubSeq(pending, 1, n)
        /\ pending' = SubSeq(pending, n + 1, Len(pending))
  BY DEF Receive
<1>2. /\ phase = "receive" /\ phase' = IF is_http_request_complete(buffer') THEN "handle" ELSE "receive"
      /\ UNCHANGED <<request, keep_alive, response, count>>
  BY DEF Receive
<1>3. StateTypes'
  BY <1>2 DEF IInv, StateTypes
<1>4. CompleteInv'
  <2>1. \/ phase' = "handle" /\ is_http_request_complete(buffer')
        \/ phase' = "receive" /\ ~is_http_request_complete(buffer')
    BY <1>2
  <2> QED
    BY <2>1 DEF CompleteInv, is_http_request_complete, BodyLength, SelectInSeq
<1>5. StreamInv'
  <2>1. buffer \in Seq(Tokens) /\ pending \in Seq(Tokens) /\ n \in 1..Len(pending) /\ Len(pending) \in Nat
    BY DEF IInv, StreamInv
  <2>2. PICK k \in Nat : Stream(buffer \o pending, request, k)
    BY <1>2 DEF IInv, StreamInv
  <2> DEFINE p == SubSeq(pending, 1, n)
             q == SubSeq(pending, n + 1, Len(pending))
  <2>3. p \in Seq(Tokens) /\ q \in Seq(Tokens)
    <3>1. ASSUME NEW i \in 1..Len(pending) PROVE pending[i] \in Tokens
      BY <2>1, ElementOfSeq
    <3>2. n \in Int /\ n + 1 \in Int /\ Len(pending) \in Int /\ 1 \in Int
      BY <2>1
    <3>3. /\ \A i \in 1..n : pending[i] \in Tokens
          /\ \A i \in (n+1)..Len(pending) : pending[i] \in Tokens
      BY <2>1, <3>1
    <3>4. p \in Seq(Tokens)
      BY <3>2, <3>3, SubSeqProperties
    <3>5. q \in Seq(Tokens)
      BY <3>2, <3>3, SubSeqProperties
    <3> QED
      BY <3>4, <3>5
  <2>4. p \o q = pending
    <3>1. 1 \in 1..Len(pending)+1 /\ n \in (1-1)..Len(pending) /\ Len(pending) \in n..Len(pending)
      BY <2>1
    <3>2. p \o q = SubSeq(pending, 1, Len(pending))
      BY <2>1, <3>1, ConcatAdjacentSubSeq
    <3> QED
      BY <2>1, <3>2, SubSeqFull
  <2> HIDE DEF p, q
  <2>5. buffer' = buffer \o p /\ pending' = q
    BY <1>1 DEF p, q
  <2>6. buffer' \in Seq(Tokens)
    <3>1. buffer \o p \in Seq(Tokens)
      BY <2>1, <2>3, ConcatProperties
    <3> QED
      BY <2>5, <3>1
  <2>7. buffer' \o pending' = buffer \o pending
    <3>1. (buffer \o p) \o q = buffer \o (p \o q)
      <4>1. buffer \in Seq(Tokens) /\ p \in Seq(Tokens) /\ q \in Seq(Tokens)
        BY <2>1, <2>3
      <4> QED
        BY <4>1, Regroup
    <3> QED
      BY <2>4, <2>5, <3>1
  <2>8. Stream(buffer' \o pending', request', k)
    BY <1>2, <2>2, <2>7
  <2>9. phase' \in {"receive", "handle"}
    BY <1>2
  <2> QED
    BY <2>3, <2>5, <2>6, <2>8, <2>9 DEF StreamInv, Stream, Wire, Token
<1>6. ClientInSync'
  BY <1>2 DEF ClientInSync
<1> QED
  BY <1>3, <1>4, <1>5, <1>6 DEF IInv

\* An answer that says how long it is, with no body after HEAD.
LEMMA FinishStep ==
  ASSUME IInv, phase = "handle", NEW r, IsPage(r), NEW keep \in BOOLEAN, Finish(r, keep),
         request.line.method = "HEAD" /\ r.status # "400" => r.bytes = 0
  PROVE  IInv'
<1>1. /\ response' = set_keep_alive(r, keep) /\ keep_alive' = keep /\ buffer' = <<>>
      /\ phase' = IF keep THEN "answered" ELSE "closed"
      /\ UNCHANGED <<request, pending, count>>
  BY DEF Finish
<1>2. /\ response'.length = r.length /\ response'.bytes = r.bytes /\ response'.status = r.status
      /\ response'.connection = IF keep THEN "keep-alive" ELSE "close"
      /\ r.bytes = r.length /\ r.length \in PageSizes \cup {0}
  BY <1>1 DEF set_keep_alive, IsPage
<1>3. phase' \in {"answered", "closed"} /\ phase' \notin {"receive", "handle"}
  BY <1>1
<1>4. StateTypes'
  BY <1>1, <1>2, <1>3 DEF IInv, StateTypes
<1>5. StreamInv'
  <2>1. \A i \in 1..Len(pending) : pending[i].kind = "byte"
    BY OnlyBytesFollow
  <2>2. buffer' \in Seq(Tokens) /\ pending' \in Seq(Tokens)
    BY <1>1 DEF IInv, StreamInv
  <2> QED
    BY <1>1, <1>3, <2>1, <2>2 DEF StreamInv
<1>6. CompleteInv'
  BY <1>3 DEF CompleteInv
<1>7. ClientInSync'
  <2>1. (phase' = "closed") = (response'.connection = "close")
    BY <1>1, <1>2
  <2>2. response'.bytes = IF request.line.method = "HEAD" /\ response'.status # "400"
                          THEN 0 ELSE response'.length
    BY <1>2
  <2> QED
    BY <1>1, <2>1, <2>2 DEF ClientInSync
<1> QED
  BY <1>4, <1>5, <1>6, <1>7 DEF IInv

\* The 400 page has its body, whatever was asked.
LEMMA HandleInvalidStep == IInv /\ HandleInvalid => IInv'
<1> SUFFICES ASSUME IInv, HandleInvalid PROVE IInv'
  OBVIOUS
<1>1. PICK r \in create_error_response("400") : Finish(r, keep_alive)
  BY DEF HandleInvalid
<1>2. IsPage(r) /\ r.status = "400" /\ keep_alive \in BOOLEAN /\ phase = "handle"
  BY ErrorPages DEF HandleInvalid, IInv, StateTypes
<1> QED
  BY <1>1, <1>2, FinishStep

\* A valid buffer begins with the line of the request that is being answered.
LEMMA ValidLine ==
  ASSUME IInv, phase = "handle", is_request_valid(buffer)
  PROVE  buffer[1].val = request.line
  BY FirstToken DEF is_request_valid

\* is_keep_alive says yes or no.
LEMMA KeepAliveSays ==
  ASSUME NEW s
  PROVE  is_keep_alive(s) \in BOOLEAN
  BY DEF is_keep_alive

\* GET has its body, HEAD has none.
LEMMA HandleGetStep == IInv /\ HandleGet => IInv'
<1> SUFFICES ASSUME IInv, HandleGet PROVE IInv'
  OBVIOUS
<1>1. phase = "handle" /\ is_request_valid(buffer)
  BY DEF HandleGet
<1>2. PICK r \in handle_api_request \cup handle_file_request :
        Finish(IF buffer[1].val.method = "HEAD" THEN WithoutBody(r) ELSE r, is_keep_alive(buffer))
  BY DEF HandleGet
<1>3. buffer[1].val = request.line
  BY <1>1, ValidLine
<1>4. IsPage(r) /\ r.status # "400"
  BY GetPages
<1> DEFINE a == IF buffer[1].val.method = "HEAD" THEN WithoutBody(r) ELSE r
<1>5. IsPage(a)
  BY <1>4, HeadPages
<1>6. request.line.method = "HEAD" /\ a.status # "400" => a.bytes = 0
  BY <1>3, <1>4, HeadPages
<1> HIDE DEF a
<1>7. Finish(a, is_keep_alive(buffer))
  BY <1>2 DEF a
<1> QED
  BY <1>1, <1>5, <1>6, <1>7, FinishStep, KeepAliveSays

\* No other method is HEAD.
LEMMA HandleOtherStep == IInv /\ HandleOther => IInv'
<1> SUFFICES ASSUME IInv, HandleOther PROVE IInv'
  OBVIOUS
<1>1. phase = "handle" /\ is_request_valid(buffer) /\ buffer[1].val.method # "HEAD"
  BY DEF HandleOther
<1>2. PICK r \in create_error_response("405") : Finish(r, is_keep_alive(buffer))
  BY DEF HandleOther
<1>3. IsPage(r)
  BY ErrorPages
<1>4. request.line.method # "HEAD"
  BY <1>1, ValidLine
<1> QED
  BY <1>1, <1>2, <1>3, <1>4, FinishStep, KeepAliveSays

\* The next request comes behind the bytes of the one before.
LEMMA SendNextStep == IInv /\ SendNext => IInv'
<1> SUFFICES ASSUME IInv, SendNext PROVE IInv'
  OBVIOUS
<1>1. PICK r \in Followups : request' = r /\ pending' = pending \o Wire(r)
  BY DEF SendNext
<1>2. /\ phase = "answered" /\ count < MaxRequests
      /\ phase' = "receive" /\ response' = NewResponse("none") /\ count' = count + 1
      /\ UNCHANGED <<buffer, keep_alive>>
  BY DEF SendNext
<1>3. r \in Requests
  BY ExchangeAssumption
<1>4. /\ buffer = <<>> /\ pending \in Seq(Tokens)
      /\ \A i \in 1..Len(pending) : pending[i].kind = "byte"
  BY <1>2 DEF IInv, StreamInv
<1>5. StateTypes'
  <2>1. count' \in 1..MaxRequests
    BY <1>2, ExchangeAssumption DEF IInv, StateTypes
  <2>2. response'.length = 0 /\ response'.bytes = 0
    BY <1>2 DEF NewResponse
  <2>3. request' \in Requests /\ keep_alive' \in BOOLEAN /\ phase' = "receive"
    BY <1>1, <1>2, <1>3 DEF IInv, StateTypes
  <2> QED
    BY <2>1, <2>2, <2>3 DEF StateTypes
<1>6. StreamInv'
  <2>1. Wire(r) \in Seq(Tokens)
    BY <1>3, WireShape DEF Shape
  <2>2. /\ pending \o Wire(r) \in Seq(Tokens) /\ Len(pending) \in Nat /\ Len(Wire(r)) \in Nat
        /\ Len(pending \o Wire(r)) = Len(pending) + Len(Wire(r))
        /\ \A i \in 1..Len(pending) : (pending \o Wire(r))[i] = pending[i]
        /\ \A i \in 1..Len(Wire(r)) : (pending \o Wire(r))[Len(pending) + i] = Wire(r)[i]
    BY <1>4, <2>1, Glued
  <2>3. Stream(pending \o Wire(r), r, Len(pending))
    BY <1>4, <2>2 DEF Stream
  <2>4. <<>> \o (pending \o Wire(r)) = pending \o Wire(r)
    BY <2>2, ConcatEmptySeq
  <2>5. Stream(buffer' \o pending', request', Len(pending))
    BY <1>1, <1>2, <1>4, <2>3, <2>4
  <2>6. buffer' \in Seq(Tokens) /\ pending' \in Seq(Tokens)
    BY <1>1, <1>2, <1>4, <2>2
  <2> QED
    BY <1>2, <2>2, <2>5, <2>6 DEF StreamInv, Stream, Wire, Token
<1>7. CompleteInv'
  <2>1. ~is_http_request_complete(<<>>)
    BY CompleteHasBlank
  <2> QED
    BY <1>2, <1>4, <2>1 DEF CompleteInv, is_http_request_complete, BodyLength, SelectInSeq
<1>8. ClientInSync'
  BY <1>2 DEF ClientInSync
<1> QED
  BY <1>5, <1>6, <1>7, <1>8 DEF IInv

\* The invariant holds throughout.
THEOREM ExchangeInvariance == Spec => []IInv
<1>1. IInv /\ [Next]_vars => IInv'
  <2> SUFFICES ASSUME IInv, [Next]_vars PROVE IInv'
    OBVIOUS
  <2>1. CASE UNCHANGED vars
    <3>1. StateTypes'
      BY <2>1 DEF vars, IInv, StateTypes
    <3>2. StreamInv'
      <4>1. /\ phase' = phase /\ buffer' = buffer /\ pending' = pending
            /\ buffer' \o pending' = buffer \o pending /\ request' = request
        BY <2>1 DEF vars
      <4>2. (\E n \in Nat : Stream(buffer \o pending, request, n))
              => \E n \in Nat : Stream(buffer' \o pending', request', n)
        BY <4>1
      <4> QED
        BY <4>1, <4>2 DEF IInv, StreamInv, Stream, Wire, Token
    <3>3. CompleteInv'
      BY <2>1 DEF vars, IInv, CompleteInv, is_http_request_complete, BodyLength, SelectInSeq
    <3>4. ClientInSync'
      BY <2>1 DEF vars, IInv, ClientInSync
    <3> QED
      BY <3>1, <3>2, <3>3, <3>4 DEF IInv
  <2> QED
    BY <2>1, ReceiveStep, HandleInvalidStep, HandleGetStep, HandleOtherStep, SendNextStep DEF Next
<1> QED
  BY <1>1, InitInv, PTL DEF Spec

\* Every state is one the program can be in: a worker never gets an empty
\* buffer, and lengths are those of pages.
THEOREM ExchangeTypes == Spec => []TypeOK
<1>1. IInv => TypeOK
  <2> SUFFICES ASSUME IInv PROVE TypeOK
    OBVIOUS
  <2>1. StateTypes /\ pending \in Seq(Tokens)
    BY DEF IInv, StreamInv
  <2>2. ASSUME NEW i \in DOMAIN pending
        PROVE  pending[i].kind \in {"line", "header", "blank", "byte"}
    BY <2>1, ElementOfSeq, LenProperties, KindsOfTokens
  <2>3. phase = "handle" => buffer # <<>>
    BY FirstToken
  <2> QED
    BY <2>1, <2>2, <2>3 DEF TypeOK, StateTypes
<1> QED
  BY <1>1, ExchangeInvariance, PTL

\* A request is handed to a worker with the piece that completes it, however
\* the network cuts it and whatever came before it on the connection.
THEOREM HandedOverInTime == Spec => []HandedOverWhenWhole
<1>1. IInv => HandedOverWhenWhole
  <2> SUFFICES ASSUME IInv, Aligned, ~Wraps(request)
               PROVE  phase = "handle" <=> Len(buffer) >= HeaderSize(request) + Announced(request)
    BY DEF HandedOverWhenWhole
  <2>1. request \in Requests /\ buffer \in Seq(Tokens) /\ IsPrefix(buffer, Wire(request)) /\ buffer # <<>>
    BY DEF IInv, StateTypes, StreamInv, Aligned
  <2>2. is_http_request_complete(buffer) <=> Len(buffer) >= HeaderSize(request) + Announced(request)
    BY <2>1, CompleteWhenWhole
  <2>3. phase \in {"receive", "handle"}
    BY <2>1 DEF IInv, StateTypes, StreamInv
  <2> QED
    BY <2>2, <2>3 DEF IInv, CompleteInv
<1> QED
  BY <1>1, ExchangeInvariance, PTL

\* After every response the client knows how many bytes to read and whether
\* the connection stays, also when bytes of an earlier request came first.
THEOREM ClientStaysInSync == Spec => []ClientInSync
<1>1. IInv => ClientInSync
  BY DEF IInv
<1> QED
  BY <1>1, ExchangeInvariance, PTL
===============================================================================
