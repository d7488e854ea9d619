----------------------------- MODULE HttpClient -----------------------------
(***************************************************************************)
(* The client of httplib (class ClientImpl of httplib.h): an object that   *)
(* keeps one socket_ and is used by any number of threads.  send holds     *)
(* request_mutex_ from beginning to end, nested sends of a redirect        *)
(* included; what is done under socket_mutex_ is one step, and stop takes  *)
(* only that one.  open_stream takes the socket out of the client; threads *)
(* are assumed not to do that while a request of another one is in flight. *)
(***************************************************************************)
EXTENDS HttpConnection

CONSTANTS
  Threads,       \* the threads that send requests
  Clients,       \* the client objects
  ClientOf,      \* thread -> the client it uses
  Plans,         \* thread -> the operations it calls, one after the other
  keep_alive,    \* client -> set_keep_alive
  MaxRedirects,  \* redirect_count_ of a request
  MaxStops,      \* how often a client or the server is stopped
  None

ASSUME ClientAssumption ==
  /\ ClientOf \in [Threads -> Clients] /\ keep_alive \in [Clients -> BOOLEAN]
  /\ Plans \subseteq [Threads -> Seq(Kinds \cup {"stream"})]
  /\ MaxRedirects \in Nat /\ MaxStops \in Nat
  /\ None \notin Conns \cup Threads

VARIABLES
  socket,       \* client -> socket_.sock
  in_flight,    \* client -> socket_requests_in_flight_
  should_close, \* client -> socket_should_be_closed_when_request_is_done_
  locked_by,    \* client -> the thread that holds request_mutex_
  plan,         \* thread -> the operations it has still to do
  call,         \* thread -> the progress of its operation
  results,      \* thread -> what its operations returned
  stopped,      \* client -> stop was called since its request began
  stops         \* the calls of stop

clientObjects == <<socket, in_flight, should_close, locked_by, plan, call,
                   results, stopped>>

clientVars == <<clientObjects, stops>>

\* got: the requests that were answered by what was read, empty when the
\* operation fails.  left: the redirects that are left.
Idle == [at |-> "idle", sock |-> None, req |-> <<>>, buf |-> <<>>, status |-> 0,
         close |-> FALSE, frames |-> 0, left |-> 0, got |-> {}]

ClientInit ==
  /\ socket = [k \in Clients |-> None]
  /\ in_flight = [k \in Clients |-> 0]
  /\ should_close = [k \in Clients |-> FALSE]
  /\ locked_by = [k \in Clients |-> None]
  /\ plan \in Plans
  /\ call = [t \in Threads |-> Idle]
  /\ results = [t \in Threads |-> <<>>]
  /\ stopped = [k \in Clients |-> FALSE]
  /\ stops = 0

-----------------------------------------------------------------------------
Step(t, at) == call[t].at = at

To(t, at) == call' = [call EXCEPT ![t].at = at]

OnlyCall == UNCHANGED <<socket, in_flight, should_close, locked_by, plan,
                        results, stopped, stops>>

\* A request of its own for each operation and each redirect of it.
Request(t, kind, hop) ==
  [id |-> <<t, Len(results[t]) + 1, hop>>, kind |-> kind,
   close |-> ~ keep_alive[ClientOf[t]]]

Hop(t) == call[t].req.id[3]

Streams(t) == plan[t] # <<>> /\ Head(plan[t]) = "stream"

\* shutdown_socket and close_socket on socket_ of k.
CloseSocket(k) ==
  /\ socket' = [socket EXCEPT ![k] = None]
  /\ IF socket[k] = None THEN UNCHANGED conn ELSE ClientCloses(socket[k])

\* send locks request_mutex_.
Send(t) ==
  LET k == ClientOf[t] IN
  /\ Step(t, "idle") /\ plan[t] # <<>> /\ ~ Streams(t)
  /\ locked_by[k] = None
  /\ locked_by' = [locked_by EXCEPT ![k] = t]
  /\ stopped' = [stopped EXCEPT ![k] = FALSE]
  /\ call' = [call EXCEPT ![t].at = "open", ![t].left = MaxRedirects,
                          ![t].req = Request(t, Head(plan[t]), 0)]
  /\ UNCHANGED <<conn, socket, in_flight, should_close, plan, results, stops>>

\* The socket of the client is kept when it seems alive.
Kept(k) == socket[k] # None /\ SeemsAlive(socket[k])

\* Which of the connections that are not made yet is of no matter.
NewConn == CHOOSE c \in Conns : conn[c].client = "none"

\* Otherwise it is closed and a new one connected: c, or None if that fails.
Connect(k, c) ==
  /\ socket[k] # None => SeemsDead(socket[k])
  /\ c # None => /\ svr_sock = "listening" /\ conn[c].client = "none"
                 /\ c = NewConn
  /\ conn' = [d \in Conns |->
       IF d = c THEN [conn[d] EXCEPT !.client = "open", !.server = "backlog"]
       ELSE IF d = socket[k] THEN [conn[d] EXCEPT !.client = "closed"]
       ELSE conn[d]]

\* The first block of send_, under socket_mutex_.
OpenSocket(t) ==
  LET k == ClientOf[t]
      Opened(c) ==
        /\ socket' = [socket EXCEPT ![k] = c]
        /\ in_flight' = [in_flight EXCEPT ![k] = @ + 1]
        /\ call' = [call EXCEPT ![t].at = "write", ![t].sock = c,
                                ![t].frames = @ + 1, ![t].buf = <<>>]
  IN
  /\ Step(t, "open")
  /\ should_close' = [should_close EXCEPT ![k] = FALSE]
  /\ \/ Kept(k) /\ Opened(socket[k]) /\ UNCHANGED conn
     \/ \E c \in Conns : Connect(k, c) /\ Opened(c)
     \/ /\ Connect(k, None) /\ socket' = [socket EXCEPT ![k] = None]
        /\ call' = [call EXCEPT ![t].at = "leave", ![t].got = {}]
        /\ UNCHANGED in_flight
  /\ UNCHANGED <<locked_by, plan, results, stopped, stops>>

\* open_stream waits for nobody; it hands the socket over to the stream.
OpenStream(t) ==
  LET k == ClientOf[t]
      Taken(c) == call' = [call EXCEPT ![t].at = "write", ![t].sock = c,
                     ![t].req = [Request(t, "get", 0) EXCEPT !.close = FALSE]]
  IN
  /\ Step(t, "idle") /\ Streams(t) /\ in_flight[k] = 0
  /\ socket' = [socket EXCEPT ![k] = None]
  /\ \/ Kept(k) /\ Taken(socket[k]) /\ UNCHANGED conn
     \/ \E c \in Conns : Connect(k, c) /\ Taken(c)
     \/ Connect(k, None) /\ To(t, "leave")
  /\ UNCHANGED <<in_flight, should_close, locked_by, plan, results, stopped,
                 stops>>

\* A read or a write fails: the frames are left with false.
Fails(t) ==
  /\ call' = [call EXCEPT ![t].at = "leave", ![t].got = {}]
  /\ UNCHANGED conn

\* write_request: request line and headers in one write, then the content.
Write(t) ==
  LET c == call[t].sock
      req == call[t].req
  IN
  /\ \/ /\ Step(t, "write") /\ conn[c].client = "open"
        /\ ClientSends(c, <<[k |-> "line", req |-> req],
                            [k |-> "headers", req |-> req]>>)
        /\ To(t, IF HasContent(req.kind) THEN "write_body" ELSE "status")
     \/ /\ Step(t, "write_body") /\ conn[c].client = "open"
        /\ ClientSends(c, <<[k |-> "body", req |-> req]>>)
        /\ To(t, "status")
     \/ /\ Step(t, "write") \/ Step(t, "write_body")
        /\ SeemsDead(c) \/ conn[c].client # "open"
        /\ Fails(t)
  /\ OnlyCall

\* read_response_line and read_headers; "100 Continue" is skipped.
ReadStatus(t) ==
  LET c == call[t].sock IN
  /\ Step(t, "status")
  /\ \E r \in Reads(conn[c].down, call[t].buf) :
        LET now == [call[t] EXCEPT !.buf = r.buf]
            next == CASE r.cell.k # "head" -> [now EXCEPT !.at = "leave"]
                      [] r.cell.k = "head" /\ r.cell.status = 100 -> now
                      [] OTHER -> [now EXCEPT !.status = r.cell.status,
                            !.close = r.cell.close, !.got = {r.cell.id},
                            !.at = IF r.cell.more THEN "body" ELSE "received"]
        IN /\ conn' = [conn EXCEPT ![c].down = r.left]
           /\ call' = [call EXCEPT ![t] = next]
  /\ OnlyCall

\* The content: read_content, or the reads of a stream.
ReadBody(t) ==
  LET c == call[t].sock IN
  /\ Step(t, "body")
  /\ \E r \in Reads(conn[c].down, call[t].buf) :
        /\ conn' = [conn EXCEPT ![c].down = r.left]
        /\ call' = [call EXCEPT ![t].buf = r.buf, ![t].at = "received",
                                ![t].got = @ \cup {r.cell.id}]
  /\ OnlyCall

\* Nothing comes in time, or nothing will come any more.
ReadTimesOut(t) ==
  /\ Step(t, "status") \/ Step(t, "body")
  /\ call[t].buf = <<>> /\ Fails(t)
  /\ OnlyCall

\* handle_request after the response: the socket is closed if the server
\* said so, and a redirect is followed by a nested send, to wherever it
\* leads, while there are some left.
HandleResponse(t) ==
  LET k == ClientOf[t]
      redirect == call[t].status = 303 /\ ~ Streams(t)
  IN
  /\ Step(t, "received")
  /\ IF call[t].close /\ ~ Streams(t) THEN CloseSocket(k)
     ELSE UNCHANGED <<socket, conn>>
  /\ CASE redirect /\ call[t].left > 0 ->
            \E kind \in {"get", "moved"} :
               call' = [call EXCEPT ![t].at = "open", ![t].left = @ - 1,
                          ![t].req = Request(t, kind, Hop(t) + 1), ![t].got = {}]
       [] redirect /\ call[t].left = 0 ->
            call' = [call EXCEPT ![t].at = "leave", ![t].got = {}]
       [] OTHER -> To(t, "leave")
  /\ UNCHANGED <<in_flight, should_close, locked_by, plan, results, stopped,
                 stops>>

\* Mutant of LeaveFrame: the socket is kept although the request failed.
Mut_KeptAfterError(t) ==
  LET k == ClientOf[t] IN
  /\ Step(t, "leave") /\ call[t].frames > 0
  /\ in_flight' = [in_flight EXCEPT ![k] = @ - 1]
  /\ call' = [call EXCEPT ![t].frames = @ - 1]
  /\ IF should_close[k] \/ ~ keep_alive[k]
     THEN CloseSocket(k) ELSE UNCHANGED <<socket, conn>>
  /\ UNCHANGED <<should_close, locked_by, plan, results, stopped, stops>>

\* Mutant of LeaveFrame: a request without an answer is sent once more.
Mut_SentAgain(t) ==
  LET k == ClientOf[t] IN
  /\ Step(t, "leave") /\ call[t].frames > 0
  /\ in_flight' = [in_flight EXCEPT ![k] = @ - 1]
  /\ call' = [call EXCEPT ![t].frames = @ - 1, ![t].left = 0,
                 ![t].at = IF call[t].got = {} /\ call[t].left > 0
                           THEN "open" ELSE @]
  /\ IF should_close[k] \/ ~ keep_alive[k] \/ call[t].got = {}
     THEN CloseSocket(k) ELSE UNCHANGED <<socket, conn>>
  /\ UNCHANGED <<should_close, locked_by, plan, results, stopped, stops>>

\* The scope_exit of send_, once for each nested send.
LeaveFrame(t) ==
  LET k == ClientOf[t] IN
  /\ Step(t, "leave") /\ call[t].frames > 0
  /\ in_flight' = [in_flight EXCEPT ![k] = @ - 1]
  /\ call' = [call EXCEPT ![t].frames = @ - 1]
  /\ IF should_close[k] \/ ~ keep_alive[k] \/ call[t].got = {}
     THEN CloseSocket(k) ELSE UNCHANGED <<socket, conn>>
  /\ UNCHANGED <<should_close, locked_by, plan, results, stopped, stops>>

\* Mutant of Return: the mutex is not released after a failure.
Mut_StaysLocked(t) ==
  /\ Step(t, "leave") /\ call[t].frames = 0
  /\ results' = [results EXCEPT ![t] = Append(@, call[t].got)]
  /\ plan' = [plan EXCEPT ![t] = Tail(@)]
  /\ call' = [call EXCEPT ![t] = Idle]
  /\ locked_by' = [locked_by EXCEPT ![ClientOf[t]] =
                     IF call[t].got = {} THEN @ ELSE None]
  /\ UNCHANGED <<conn, socket, in_flight, should_close, stopped, stops>>

\* send returns and unlocks; a stream is destroyed with its connection.
Return(t) ==
  /\ Step(t, "leave") /\ call[t].frames = 0
  /\ results' = [results EXCEPT ![t] = Append(@, call[t].got)]
  /\ plan' = [plan EXCEPT ![t] = Tail(@)]
  /\ call' = [call EXCEPT ![t] = Idle]
  /\ IF Streams(t)
     THEN /\ IF call[t].sock = None THEN UNCHANGED conn
             ELSE ClientCloses(call[t].sock)
          /\ UNCHANGED locked_by
     ELSE /\ locked_by' = [locked_by EXCEPT ![ClientOf[t]] = None]
          /\ UNCHANGED conn
  /\ UNCHANGED <<socket, in_flight, should_close, stopped, stops>>

CountStop == stops < MaxStops /\ stops' = stops + 1

\* Mutant of Stop: the socket is closed at once, in use or not.
Mut_ClosedAtOnce(k) ==
  /\ CountStop /\ CloseSocket(k)
  /\ UNCHANGED <<in_flight, should_close, locked_by, plan, call, results,
                 stopped>>

\* Mutant of Stop: the socket is shut down and kept.
Mut_OnlyShutDown(k) ==
  /\ CountStop
  /\ IF in_flight[k] > 0
     THEN /\ stopped' = [stopped EXCEPT ![k] = TRUE]
          /\ IF socket[k] = None THEN UNCHANGED conn
             ELSE ClientShutsDown(socket[k])
          /\ UNCHANGED socket
     ELSE CloseSocket(k) /\ UNCHANGED stopped
  /\ UNCHANGED <<should_close, in_flight, locked_by, plan, call, results>>

\* stop, from any other thread: with requests in flight the socket is only
\* shut down, and closed by the thread that uses it.
Stop(k) ==
  /\ CountStop
  /\ IF in_flight[k] > 0
     THEN /\ should_close' = [should_close EXCEPT ![k] = TRUE]
          /\ stopped' = [stopped EXCEPT ![k] = TRUE]
          /\ IF socket[k] = None THEN UNCHANGED conn
             ELSE ClientShutsDown(socket[k])
          /\ UNCHANGED socket
     ELSE CloseSocket(k) /\ UNCHANGED <<should_close, stopped>>
  /\ UNCHANGED <<in_flight, locked_by, plan, call, results>>

\* The client object is destroyed when its threads are through.
Destroy(k) ==
  /\ \A t \in Threads : ClientOf[t] = k => plan[t] = <<>>
  /\ socket[k] # None /\ CloseSocket(k)
  /\ UNCHANGED <<in_flight, should_close, locked_by, plan, call, results,
                 stopped, stops>>

ClientThread(t) ==
  \/ Send(t) \/ OpenStream(t) \/ OpenSocket(t) \/ Write(t) \/ ReadStatus(t)
  \/ ReadBody(t) \/ ReadTimesOut(t) \/ HandleResponse(t) \/ LeaveFrame(t)
  \/ Return(t)

=============================================================================
