----------------------------- MODULE HttpServer -----------------------------
(***************************************************************************)
(* The server of httplib (class Server of httplib.h): the thread in listen *)
(* accepts connections and adds them to the pool; a worker serves one      *)
(* connection, request after request, until it is to be closed.            *)
(*                                                                         *)
(* What the handlers do is a status per kind of request.  No handler reads *)
(* the content itself, and the server is the only thing that writes.       *)
(***************************************************************************)
EXTENDS ThreadPool, HttpConnection

CONSTANTS
  keep_alive_max_count,  \* requests served on one connection
  AcceptFails            \* whether accept may fail for good

ASSUME ServerAssumption ==
  /\ keep_alive_max_count \in Nat \ {0} /\ AcceptFails \in BOOLEAN
  /\ Jobs = Conns

VARIABLES
  serve,     \* worker -> the progress of the request it serves
  handled    \* the requests that were given to a handler

serverVars == <<poolVars, serve, handled>>

\* What becomes of a request that was read.
Outcome(kind) ==
  CASE kind = "big" -> 413 [] kind = "boom" -> 500 [] kind = "moved" -> 303
    [] OTHER -> 200

Fresh == [at |-> "alive", count |-> keep_alive_max_count, buf |-> <<>>,
          req |-> <<>>, status |-> 0, last |-> FALSE]

ServerInit ==
  /\ PoolInit
  /\ handled = {}
  /\ serve = [w \in Workers |-> Fresh]

-----------------------------------------------------------------------------
(***************************************************************************)
(* The thread in listen, and Server::stop.                                 *)
(***************************************************************************)

\* accept, then enqueue; when the queue is full the connection is closed.
\* Interrupted calls and the limit of descriptors are tried again and change
\* nothing.
Accept(c) ==
  /\ owner = "idle" /\ svr_sock = "listening" /\ conn[c].server = "backlog"
  /\ \/ Full /\ ServerCloses(c) /\ UNCHANGED poolVars
     \/ Enqueue(c) /\ conn' = [conn EXCEPT ![c].server = "open"]
  /\ UNCHANGED <<svr_sock, serve, handled>>

\* Nobody accepts what is in the backlog of a socket that is closed.
BacklogGone ==
  conn' = [c \in Conns |->
             IF conn[c].server = "backlog"
             THEN [conn[c] EXCEPT !.server = "closed", !.up = <<>>] ELSE conn[c]]

AcceptError ==
  /\ AcceptFails /\ owner = "idle" /\ svr_sock = "listening"
  /\ svr_sock' = "stale" /\ BacklogGone
  /\ UNCHANGED <<poolVars, serve, handled>>

\* The loop of listen ends: the pool is shut down and joined.
ListenEnds ==
  /\ svr_sock # "listening" /\ BeginShutdown
  /\ UNCHANGED <<svr_sock, serve, handled, conn>>

ListenGoesOn == PoolOwner /\ UNCHANGED <<svr_sock, serve, handled, conn>>

Listener == (\E c \in Conns : Accept(c)) \/ ListenEnds \/ ListenGoesOn

\* stop, by any other thread; it does nothing once listen has returned.
StopServer ==
  /\ owner # "joined" /\ svr_sock # "invalid"
  /\ svr_sock' = "invalid" /\ BacklogGone
  /\ UNCHANGED <<poolVars, serve, handled>>

-----------------------------------------------------------------------------
(***************************************************************************)
(* A worker and its connection c = worker[w].                              *)
(***************************************************************************)
At(w, at) == worker[w] \in Conns /\ serve[w].at = at

Proceed(w, at) == serve' = [serve EXCEPT ![w].at = at]

\* The response is decided: its status.
Answer(w, s, status) ==
  serve' = [serve EXCEPT ![w] = [s EXCEPT !.status = status, !.at = "head"]]

Received(w, r) == conn' = [conn EXCEPT ![worker[w]].up = r.left]

Arrived(w) == Reads(conn[worker[w]].up, serve[w].buf)

\* keep_alive: something to read, the end of the other side included.
KeepAlive(w) ==
  /\ At(w, "alive")
  /\ conn[worker[w]].up # <<>> \/ conn[worker[w]].client # "open"
  /\ serve' = [serve EXCEPT ![w].at = "line", ![w].buf = <<>>]
  /\ UNCHANGED <<conn, handled>>

\* Mutant of KeepAliveEnds: an idle connection is waited for without end.
Mut_WaitsForever(w) ==
  /\ At(w, "alive") /\ conn[worker[w]].client = "closed" /\ Proceed(w, "close")
  /\ UNCHANGED <<conn, handled>>

\* Nothing came before the timeout or the server was stopped.
KeepAliveEnds(w) ==
  /\ At(w, "alive") /\ Proceed(w, "close")
  /\ UNCHANGED <<conn, handled>>

\* The request line.  Anything else in its place is a bad request.
ReadLine(w) ==
  /\ At(w, "line")
  /\ \E r \in Arrived(w) :
        LET s == [serve[w] EXCEPT !.buf = r.buf, !.req = r.cell.req]
        IN /\ Received(w, r)
           /\ IF r.cell.k = "line"
              THEN serve' = [serve EXCEPT ![w] = [s EXCEPT !.at = "headers"]]
              ELSE Answer(w, s, 400)
  /\ UNCHANGED handled

\* The other side has closed, or sends nothing in time.
NoLine(w) ==
  /\ At(w, "line") /\ serve[w].buf = <<>> /\ Proceed(w, "close")
  /\ UNCHANGED <<conn, handled>>

\* The headers, refused or not; "100 Continue" is sent to one that waits for
\* it, and the connection is the last one's if its client says so.
ReadHeaders(w) ==
  /\ At(w, "headers")
  /\ \E r \in Arrived(w) :
        LET req == r.cell.req
            s == [serve[w] EXCEPT !.buf = r.buf, !.last = req.close]
            more == IF req.kind = "late" /\ conn[worker[w]].client = "open"
                    THEN <<[k |-> "head", id |-> req.id, status |-> 100,
                            close |-> FALSE, more |-> FALSE]>>
                    ELSE <<>>
        IN /\ conn' = [conn EXCEPT ![worker[w]].up = r.left,
                                   ![worker[w]].down = @ \o more]
           /\ IF req.kind = "bad"
              THEN Answer(w, [s EXCEPT !.last = serve[w].last], 400)
              ELSE serve' = [serve EXCEPT ![w] = [s EXCEPT !.at =
                        IF HasContent(req.kind) THEN "content" ELSE "handle"]]
  /\ UNCHANGED handled

\* No headers, or no content, in time: 400, and on with the next request.
ReadFails(w) ==
  /\ At(w, "headers") \/ At(w, "content")
  /\ serve[w].buf = <<>>
  /\ Answer(w, serve[w],
            IF At(w, "content") /\ serve[w].req.kind = "big" THEN 413 ELSE 400)
  /\ UNCHANGED <<conn, handled>>

\* The content, which is skipped when it is too big.
ReadContent(w) ==
  /\ At(w, "content")
  /\ \E r \in Arrived(w) :
        LET s == [serve[w] EXCEPT !.buf = r.buf]
        IN /\ Received(w, r)
           /\ IF s.req.kind = "big"
              THEN Answer(w, s, Outcome("big"))
              ELSE serve' = [serve EXCEPT ![w] = [s EXCEPT !.at = "handle"]]
  /\ UNCHANGED handled

\* The handler of the route, which may throw.
Handle(w) ==
  /\ At(w, "handle")
  /\ handled' = handled \cup {serve[w].req.id}
  /\ Answer(w, serve[w], Outcome(serve[w].req.kind))
  /\ UNCHANGED conn

\* process_server_socket_core after a request.
NextRequest(s) ==
  IF s.last \/ s.count = 1 THEN [s EXCEPT !.at = "close"]
  ELSE [s EXCEPT !.at = "alive", !.count = @ - 1, !.buf = <<>>, !.req = <<>>,
                 !.status = 0, !.last = FALSE]

\* The head says whether the connection is to be closed: on the last request,
\* on an error, or when the client said so.  Whether it arrives is not asked.
WriteHead(w) ==
  /\ At(w, "head")
  /\ LET s == serve[w]
     IN /\ ServerSends(worker[w],
             <<[k |-> "head", id |-> s.req.id, status |-> s.status,
                close |-> s.count = 1 \/ s.last \/ s.status >= 400,
                more |-> s.status = 200]>>)
        /\ IF s.status = 200 THEN Proceed(w, "body")
           ELSE serve' = [serve EXCEPT ![w] = NextRequest(s)]
  /\ UNCHANGED handled

\* The content of the response; a write that fails ends the connection.
WriteBody(w) ==
  /\ At(w, "body")
  /\ \/ /\ ServerSends(worker[w], <<[k |-> "content", id |-> serve[w].req.id]>>)
        /\ serve' = [serve EXCEPT ![w] = NextRequest(serve[w])]
     \/ /\ conn[worker[w]].client # "open"
        /\ Proceed(w, "close") /\ UNCHANGED conn
  /\ UNCHANGED handled

\* process_and_close_socket at its end.
CloseConnection(w) ==
  /\ At(w, "close") /\ FinishJob(w)
  /\ ServerCloses(worker[w])
  /\ serve' = [serve EXCEPT ![w] = Fresh]
  /\ UNCHANGED <<svr_sock, handled>>

ServeRequest(w) ==
  /\ \/ KeepAlive(w) \/ KeepAliveEnds(w) \/ ReadLine(w) \/ NoLine(w)
     \/ ReadHeaders(w) \/ ReadContent(w) \/ ReadFails(w) \/ Handle(w)
     \/ WriteHead(w) \/ WriteBody(w)
  /\ UNCHANGED <<poolVars, svr_sock>>

ServerWorker(w) ==
  \/ PoolWorker(w) /\ UNCHANGED <<svr_sock, serve, handled, conn>>
  \/ ServeRequest(w)
  \/ CloseConnection(w)

\* A worker that wakes up for nothing.
WakesUp(w) == Spurious(w) /\ UNCHANGED <<svr_sock, serve, handled, conn>>

=============================================================================
