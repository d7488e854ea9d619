---------------------------- MODULE HttpExchange ----------------------------
(***************************************************************************)
(* Clients and server of httplib on their connections: every order of      *)
(* their steps, connections that are closed or reset at any moment, reads  *)
(* that time out, and both sides stopped while they work.                  *)
(***************************************************************************)
EXTENDS HttpServer, HttpClient

exchangeVars == <<conn, svr_sock, serverVars, clientVars>>

ExchangeInit == ConnInit /\ ServerInit /\ ClientInit

ExchangeNext ==
  \/ Listener /\ UNCHANGED clientVars
  \/ (StopServer \/ AcceptError) /\ CountStop /\ UNCHANGED clientObjects
  \/ \E w \in Workers : (ServerWorker(w) \/ WakesUp(w)) /\ UNCHANGED clientVars
  \/ \E t \in Threads : ClientThread(t) /\ UNCHANGED <<svr_sock, serverVars>>
  \/ \E k \in Clients :
        (Stop(k) \/ Destroy(k)) /\ UNCHANGED <<svr_sock, serverVars>>

\* Threads go on, reads and writes end by their timeouts at the latest, and
\* handlers return.
ExchangeFairness ==
  /\ WF_exchangeVars(Listener /\ UNCHANGED clientVars)
  /\ \A w \in Workers : WF_exchangeVars(ServerWorker(w) /\ UNCHANGED clientVars)
  /\ \A t \in Threads :
        WF_exchangeVars(ClientThread(t) /\ UNCHANGED <<svr_sock, serverVars>>)

ExchangeSpec ==
  ExchangeInit /\ [][ExchangeNext]_exchangeVars /\ ExchangeFairness

-----------------------------------------------------------------------------
(***************************************************************************)
(* Properties.                                                             *)
(***************************************************************************)

\* What send or a stream returns with success answers that very request or
\* the redirects it led to, never an earlier one or another thread's.
PairedAnswers ==
  \A t \in Threads : \A n \in DOMAIN results[t] :
     \A id \in results[t][n] : id[1] = t /\ id[2] = n

\* A request reaches a handler once at the most, whatever fails.
HandledOnce ==
  [][\A w \in Workers : Handle(w) => serve[w].req.id \notin handled]_exchangeVars

\* The socket of a request is not closed by another thread as long as the
\* request reads from it or writes to it.
NotClosedInUse ==
  [][\A c \in Conns :
        conn[c].client # "closed" /\ conn'[c].client = "closed" =>
           \A t \in Threads :
              /\ call[t].sock = c
              /\ call[t].at \in {"write", "write_body", "status", "body"}
              => call'[t] # call[t]]_exchangeVars

\* The socket is closed when a request of send returns during which stop was
\* called.  A stream is left out, which has a connection of its own, and so is
\* a request that was redirected: the nested send_ forgets the call of stop and
\* may go on with another connection.
StopCloses ==
  [][\A t \in Threads : Return(t) /\ ~ Streams(t) /\ Hop(t) = 0 =>
        (stopped[ClientOf[t]] => socket[ClientOf[t]] = None)]_exchangeVars

\* Once the server is told to stop, listen returns.
StopEnds == svr_sock # "listening" ~> owner = "joined"

\* Every operation of every thread returns.
CallsEnd == <>(\A t \in Threads : plan[t] = <<>>)

=============================================================================
