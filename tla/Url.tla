---------------------------------- MODULE Url ----------------------------------
(***************************************************************************)
(* src/http_request.cpp: how lines, targets and query strings are taken    *)
(* apart and decoded.  Text is a sequence of character codes.              *)
(***************************************************************************)
EXTENDS Naturals, Sequences, SequencesExt

LF == 10
CR == 13
Space == 32
Percent == 37
Amp == 38
Plus == 43
Minus == 45
Slash == 47
Equal == 61
Question == 63

\* What repeated std::getline with this separator reads: the pieces between
\* separators, without an empty one at the very end.
getline(text, sep) ==
  LET seps == {i \in DOMAIN text : text[i] = sep}
      ends == IF text = <<>> \/ Len(text) \in seps THEN seps ELSE seps \cup {Len(text) + 1}
      e == SetToSortSeq(ends, <)
  IN  [i \in DOMAIN e |-> SubSeq(text, (IF i = 1 THEN 0 ELSE e[i-1]) + 1, e[i] - 1)]

\* The text before and after the first c; all of it is before when there is none.
Find(text, c) == SelectInSeq(text, LAMBDA x : x = c)
Before(text, c) == IF Find(text, c) = 0 THEN text ELSE SubSeq(text, 1, Find(text, c) - 1)
After(text, c) == IF Find(text, c) = 0 THEN <<>> ELSE SubSeq(text, Find(text, c) + 1, Len(text))

-------------------------------------------------------------------------------
(* url_decode *)

IsHex(c) == c \in (48..57) \cup (65..70) \cup (97..102)

HexValue(c) == IF c <= 57 THEN c - 48 ELSE IF c <= 70 THEN c - 55 ELSE c - 87

\* sscanf("%x") on two characters: it reads a sign and is content with a
\* single digit.  (Two characters "0x" are not considered.)
ScanMatches(a, b) == IsHex(a) \/ (a \in {Plus, Minus} /\ IsHex(b))

\* The value, cut to a char.
ScanValue(a, b) ==
  IF a = Plus THEN HexValue(b)
  ELSE IF a = Minus THEN (256 - HexValue(b)) % 256
  ELSE IF IsHex(b) THEN 16 * HexValue(a) + HexValue(b) ELSE HexValue(a)

\* A percent sign, followed by two characters that scan.
IsEscape(text, i) ==
  text[i] = Percent /\ i + 2 <= Len(text) /\ ScanMatches(text[i+1], text[i+2])

url_decode(text) ==
  LET from[i \in 1..(Len(text) + 1)] ==
        IF i > Len(text) THEN <<>>
        ELSE IF IsEscape(text, i) THEN <<ScanValue(text[i+1], text[i+2])>> \o from[i + 3]
        ELSE <<IF text[i] = Plus THEN Space ELSE text[i]>> \o from[i + 1]
  IN  from[1]

-------------------------------------------------------------------------------
(* parse_request_line and parse_query_string *)

PathOf(target) == url_decode(Before(target, Question))

\* Mutant: a pair is decoded before it is split into key and value.
KeyOfDecodedFirst(pair) == Before(url_decode(pair), Equal)

KeyOf(pair) == url_decode(Before(pair, Equal))

ValueOf(pair) == url_decode(After(pair, Equal))

\* query_params_[name]: of several values the last one stays; "" if there is none.
get_query_param(target, name) ==
  LET pairs == getline(After(target, Question), Amp)
      last == SelectLastInSeq(pairs, LAMBDA p : KeyOf(p) = name)
  IN  IF last = 0 THEN <<>> ELSE ValueOf(pairs[last])
===============================================================================
