--------------------------- MODULE HttpConnection ---------------------------
(***************************************************************************)
(* The connections between HTTP clients and a server, as httplib uses      *)
(* them: bytes arrive in order or, when a side closes before it has read   *)
(* everything, not at all.  A message is cut into the cells that either    *)
(* side reads as a unit; a request is a request line, the headers and a    *)
(* body, a response its head and its content.                              *)
(***************************************************************************)
EXTENDS Naturals, Sequences

CONSTANT Conns   \* the connections that can be made

VARIABLES
  conn,      \* connection -> what is under way on it, and its two ends
  svr_sock   \* the server's socket: "listening", "invalid", or "stale":
             \* closed by listen itself, which keeps its number

\* The kinds of requests, and those that have a content.  What the server
\* makes of each is in HttpServer.
Kinds == {"get", "post", "late", "bad", "big", "boom", "moved"}

HasContent(kind) == kind \in {"post", "late", "bad", "big"}

NoConn == [up |-> <<>>, down |-> <<>>, client |-> "none", server |-> "none"]

ConnInit == conn = [c \in Conns |-> NoConn] /\ svr_sock = "listening"

\* What a read that finds q waiting leaves behind: a stream takes what has
\* arrived, all or the beginning of it, and hands out one cell at a time.
Reads(q, buf) ==
  IF buf # <<>>
  THEN {[cell |-> Head(buf), buf |-> Tail(buf), left |-> q]}
  ELSE {[cell |-> Head(q), buf |-> SubSeq(q, 2, n),
         left |-> SubSeq(q, n + 1, Len(q))] : n \in 1 .. Len(q)}

Beginnings(q) == {SubSeq(q, 1, n) : n \in 0 .. Len(q)}

\* Closing with something unread resets the connection, and the other side
\* may not see the end of what was sent to it.
ServerCloses(c) ==
  \E q \in IF conn[c].up = <<>> THEN {conn[c].down} ELSE Beginnings(conn[c].down) :
     conn' = [conn EXCEPT ![c].server = "closed", ![c].up = <<>>, ![c].down = q]

ClientCloses(c) ==
  \E q \in IF conn[c].down = <<>> THEN {conn[c].up} ELSE Beginnings(conn[c].up) :
     conn' = [conn EXCEPT ![c].client = "closed", ![c].up = q, ![c].down = <<>>]

ClientShutsDown(c) == conn' = [conn EXCEPT ![c].client = "shut"]

ServerSends(c, cells) ==
  conn' = [conn EXCEPT ![c].down =
             IF conn[c].client = "open" THEN @ \o cells ELSE @]

ClientSends(c, cells) ==
  \E q \in IF conn[c].server = "closed" THEN Beginnings(conn[c].down)
           ELSE {conn[c].down} :
     conn' = [conn EXCEPT ![c].down = q,
                          ![c].up = IF conn[c].server = "closed" THEN @
                                    ELSE @ \o cells]

\* is_socket_alive, asked by the client: nothing to read yet, or a byte to
\* read.  That the server has closed may not have arrived yet.
SeemsAlive(c) == conn[c].down # <<>> \/ conn[c].client = "open"

SeemsDead(c) ==
  /\ conn[c].down = <<>>
  /\ conn[c].client # "open" \/ conn[c].server = "closed"

=============================================================================
