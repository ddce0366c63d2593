------------------------------- MODULE MCServer -------------------------------
(* Server for TLC: scripts of requests as sequences of units.                *)
EXTENDS Server, TLC

CONSTANT k1

\* Request n in p pieces.
Request(n, p, keep) ==
  [i \in 1..p |-> [req |-> n, first |-> i = 1, last |-> i = p, keep |-> keep]]

\* A keep-alive request in two pieces, then one that closes the connection.
KeepThenClose == [k \in Clients |-> Request(1, 2, TRUE) \o Request(2, 1, FALSE)]

\* One request in one piece, on a connection that is kept alive.
KeepOnce == [k \in Clients |-> Request(1, 1, TRUE)]

\* A request that closes the connection, and one more sent behind it.
CloseThenMore == [k \in Clients |-> Request(1, 1, FALSE) \o Request(2, 1, FALSE)]

\* k1 sends a second request without waiting for its first response, the last
\* one on its connection; any other client sends one request in three pieces.
PipelineOrPieces ==
  [k \in Clients |-> IF k = k1 THEN Request(1, 1, TRUE) \o Request(2, 1, FALSE)
                     ELSE Request(1, 3, TRUE)]

Symmetry == Permutations(Workers)

\* What the theorems of ServerStreamProofs assume of the clients is so in every run,
\* but for the client that sends more behind a request to close.
ASSUME ScriptAssumption == RequestScripts /\ (Script = CloseThenMore \/ CloseIsLast)
===============================================================================
