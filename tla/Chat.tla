-------------------------------- MODULE Chat --------------------------------
(***************************************************************************)
(* One client of the UDP broadcast chat (chat.cpp): the main thread, which *)
(* reads lines and sends them, the receiver thread, which prints what      *)
(* arrives, and the SIGINT handler, which may run on either of them.  How  *)
(* they bring each other to an end is the subject; of a message it is kept *)
(* only whether it is empty.                                               *)
(*                                                                         *)
(* A blocking call is two steps: a thread enters the call, and later the   *)
(* call returns.  A signal that is delivered to a thread inside getline or *)
(* recvfrom makes the call fail, since SA_RESTART is not set; one that is  *)
(* delivered a moment earlier does not.                                    *)
(***************************************************************************)
EXTENDS Naturals, Sequences

CONSTANTS
  MaxLines,      \* lines the user types
  MaxDatagrams,  \* datagrams that arrive
  MaxSignals     \* how often the user presses Ctrl+C

ASSUME ChatAssumption ==
  /\ MaxLines \in Nat /\ MaxDatagrams \in Nat /\ MaxSignals \in Nat

VARIABLES
  running,     \* the flag of the program
  g_sock,      \* the handler can see the socket
  fd,          \* the socket: "none", "open" or "closed"
  shut,        \* shutdown(SHUT_RDWR) has been called on it
  pc,          \* thread -> its next step
  handler,     \* thread -> the next step of the handler that interrupts it
  stdin,       \* what the user has typed and getline has not read
  inbox,       \* the datagrams in the socket's buffer
  lines, datagrams, signals,   \* how much of each there was so far
  late         \* history: lines taken from stdin after running was cleared

envVars == <<lines, datagrams, signals>>
sockVars == <<g_sock, fd, shut>>
vars == <<running, sockVars, pc, handler, stdin, inbox, envVars, late>>

Threads == {"main", "receiver"}
Message == {"text", "empty"}

Init ==
  /\ running = TRUE /\ g_sock = FALSE /\ fd = "none" /\ shut = FALSE
  /\ pc = [t \in Threads |-> IF t = "main" THEN "socket" ELSE "off"]
  /\ handler = [t \in Threads |-> "off"]
  /\ stdin = "none" /\ inbox = <<>>
  /\ lines = 0 /\ datagrams = 0 /\ signals = 0 /\ late = 0

-----------------------------------------------------------------------------
(***************************************************************************)
(* The user and the network.                                               *)
(***************************************************************************)
Alive == pc["main"] # "exited"

TypeLine ==
  /\ Alive /\ stdin = "none" /\ lines < MaxLines
  /\ stdin' \in Message
  /\ lines' = lines + 1
  /\ UNCHANGED <<running, sockVars, pc, handler, inbox, datagrams, signals,
                 late>>

\* The end of the input, Ctrl+D on a terminal, stays.
CloseInput ==
  /\ Alive /\ stdin = "none"
  /\ stdin' = "eof"
  /\ UNCHANGED <<running, sockVars, pc, handler, inbox, envVars, late>>

\* A datagram may have no bytes.
Arrive ==
  /\ fd = "open" /\ datagrams < MaxDatagrams
  /\ \E m \in Message : inbox' = Append(inbox, m)
  /\ datagrams' = datagrams + 1
  /\ UNCHANGED <<running, sockVars, pc, handler, stdin, lines, signals, late>>

-----------------------------------------------------------------------------
(***************************************************************************)
(* SIGINT.  The kernel picks a thread; a blocking call of that thread      *)
(* fails with EINTR, which getline reports like the end of the input.      *)
(***************************************************************************)
AfterEINTR(t) == CASE pc[t] = "getline"  -> "stop"
                   [] pc[t] = "recvfrom" -> "failed"
                   [] OTHER              -> pc[t]

Deliver(t) ==
  /\ signals < MaxSignals
  /\ handler[t] = "off" /\ pc[t] \notin {"off", "done", "exited"} /\ Alive
  /\ signals' = signals + 1
  /\ handler' = [handler EXCEPT ![t] = "clear"]
  /\ pc' = [pc EXCEPT ![t] = AfterEINTR(t)]
  /\ UNCHANGED <<running, sockVars, stdin, inbox, lines, datagrams, late>>

\* on_sigint: running = false, then shutdown of the socket if there is one.
ClearRunning(t) ==
  /\ handler[t] = "clear"
  /\ running' = FALSE
  /\ handler' = [handler EXCEPT ![t] = "wake"]
  /\ UNCHANGED <<sockVars, pc, stdin, inbox, envVars, late>>

WakeReceiver(t) ==
  /\ handler[t] = "wake"
  /\ shut' = (shut \/ (g_sock /\ fd = "open"))
  /\ handler' = [handler EXCEPT ![t] = "off"]
  /\ UNCHANGED <<running, g_sock, fd, pc, stdin, inbox, envVars, late>>

Handle(t) == ClearRunning(t) \/ WakeReceiver(t)

-----------------------------------------------------------------------------
\* A thread goes on when no handler interrupts it.
Go(t, from, to) ==
  /\ handler[t] = "off" /\ pc[t] = from
  /\ pc' = [pc EXCEPT ![t] = to]
  /\ UNCHANGED <<handler, envVars>>

(***************************************************************************)
(* The main thread.                                                        *)
(***************************************************************************)
CreateSocket ==
  /\ Go("main", "socket", "publish")
  /\ fd' = "open"
  /\ UNCHANGED <<running, g_sock, shut, stdin, inbox, late>>

PublishSocket ==
  /\ Go("main", "publish", "bind")
  /\ g_sock' = TRUE
  /\ UNCHANGED <<running, fd, shut, stdin, inbox, late>>

\* setsockopt, bind, and the receiver thread; or die.
BindAndSpawn ==
  /\ handler["main"] = "off" /\ pc["main"] = "bind"
  /\ \/ pc' = [t \in Threads |-> "check"]
     \/ pc' = [pc EXCEPT !["main"] = "exited"]
  /\ UNCHANGED <<running, sockVars, handler, stdin, inbox, envVars, late>>

CheckRunning ==
  /\ Go("main", "check", IF running THEN "enter" ELSE "stop")
  /\ UNCHANGED <<running, sockVars, stdin, inbox, late>>

EnterGetline ==
  /\ Go("main", "enter", "getline")
  /\ UNCHANGED <<running, sockVars, stdin, inbox, late>>

\* An empty line is not sent.
GetLine ==
  /\ stdin \in Message
  /\ Go("main", "getline", IF stdin = "text" THEN "send" ELSE "check")
  /\ stdin' = "none"
  /\ late' = IF running THEN late ELSE late + 1
  /\ UNCHANGED <<running, sockVars, inbox>>

GetEof ==
  /\ stdin = "eof"
  /\ Go("main", "getline", "stop")
  /\ UNCHANGED <<running, sockVars, stdin, inbox, late>>

\* A broadcast, which may come back as a datagram that arrives; on a socket
\* that is shut down it fails, which is only reported.
SendLine ==
  /\ Go("main", "send", "check")
  /\ UNCHANGED <<running, sockVars, stdin, inbox, late>>

Stop ==
  /\ Go("main", "stop", "shutdown")
  /\ running' = FALSE
  /\ UNCHANGED <<sockVars, stdin, inbox, late>>

\* Mutant of ShutDown: the socket is only closed.
Mut_CloseOnly ==
  /\ Go("main", "shutdown", "close")
  /\ UNCHANGED <<running, sockVars, stdin, inbox, late>>

ShutDown ==
  /\ Go("main", "shutdown", "close")
  /\ shut' = TRUE
  /\ UNCHANGED <<running, g_sock, fd, stdin, inbox, late>>

Close ==
  /\ Go("main", "close", "join")
  /\ fd' = "closed"
  /\ UNCHANGED <<running, g_sock, shut, stdin, inbox, late>>

Join ==
  /\ pc["receiver"] = "done"
  /\ Go("main", "join", "exited")
  /\ UNCHANGED <<running, sockVars, stdin, inbox, late>>

Main == \/ CreateSocket \/ PublishSocket \/ BindAndSpawn
        \/ CheckRunning \/ EnterGetline \/ GetLine \/ GetEof \/ SendLine
        \/ Stop \/ ShutDown \/ Close \/ Join

(***************************************************************************)
(* The receiver thread.                                                    *)
(***************************************************************************)
CheckReceiver ==
  /\ Go("receiver", "check", IF running THEN "enter" ELSE "done")
  /\ UNCHANGED <<running, sockVars, stdin, inbox, late>>

\* A descriptor that is closed before the call is an error (EBADF).
EnterRecvfrom ==
  /\ Go("receiver", "enter", IF fd = "open" THEN "recvfrom" ELSE "failed")
  /\ UNCHANGED <<running, sockVars, stdin, inbox, late>>

TakeDatagram ==
  /\ inbox # <<>>
  /\ Go("receiver", "recvfrom",
        IF Head(inbox) = "text" THEN "print" ELSE "nothing")
  /\ inbox' = Tail(inbox)
  /\ UNCHANGED <<running, sockVars, stdin, late>>

\* After a shutdown recvfrom returns 0 when the buffer is empty, although
\* the descriptor may be closed by then; close alone does not wake it.
WokenByShutdown ==
  /\ inbox = <<>> /\ shut
  /\ Go("receiver", "recvfrom", "nothing")
  /\ UNCHANGED <<running, sockVars, stdin, inbox, late>>

\* Mutant of NothingReceived: n = 0 is taken for the end of the connection.
Mut_ZeroEnds ==
  /\ \/ Go("receiver", "failed", IF running THEN "check" ELSE "done")
     \/ Go("receiver", "nothing", "done")
  /\ UNCHANGED <<running, sockVars, stdin, inbox, late>>

\* n <= 0: the end if the program stops, otherwise once more.
NothingReceived ==
  /\ \E from \in {"failed", "nothing"} :
        Go("receiver", from, IF running THEN "check" ELSE "done")
  /\ UNCHANGED <<running, sockVars, stdin, inbox, late>>

PrintMessage ==
  /\ Go("receiver", "print", "check")
  /\ UNCHANGED <<running, sockVars, stdin, inbox, late>>

Receiver == \/ CheckReceiver \/ EnterRecvfrom \/ TakeDatagram
            \/ WokenByShutdown \/ NothingReceived \/ PrintMessage

-----------------------------------------------------------------------------
Next == \/ TypeLine \/ CloseInput \/ Arrive
        \/ \E t \in Threads : Deliver(t) \/ Handle(t)
        \/ Main \/ Receiver

\* The kernel runs each thread, and the handler on it; nobody has to type,
\* send or press a key.
Fairness == /\ WF_vars(Main) /\ WF_vars(Receiver)
            /\ \A t \in Threads : WF_vars(Handle(t))

Spec == Init /\ [][Next]_vars /\ Fairness

-----------------------------------------------------------------------------
(***************************************************************************)
(* Properties.                                                             *)
(***************************************************************************)
MainSteps == {"socket", "publish", "bind", "check", "enter", "getline",
              "send", "stop", "shutdown", "close", "join", "exited"}
ReceiverSteps == {"off", "check", "enter", "recvfrom", "print", "failed",
                  "nothing", "done"}

\* Every variable stays in its type.
TypeOK ==
  /\ running \in BOOLEAN /\ g_sock \in BOOLEAN /\ shut \in BOOLEAN
  /\ fd \in {"none", "open", "closed"}
  /\ pc \in [Threads -> MainSteps \cup ReceiverSteps]
  /\ pc["main"] \in MainSteps /\ pc["receiver"] \in ReceiverSteps
  /\ handler \in [Threads -> {"off", "clear", "wake"}]
  /\ stdin \in Message \cup {"none", "eof"} /\ inbox \in Seq(Message)
  /\ lines \in 0 .. MaxLines /\ datagrams \in 0 .. MaxDatagrams
  /\ signals \in 0 .. MaxSignals /\ late \in Nat

\* The client never goes deaf while it still takes lines: whatever datagrams
\* arrive, the receiver ends only after the program was told to stop, and so
\* does the socket, which once shut down would have it spin on a recvfrom that
\* returns 0 for ever.
NeverDeaf == pc["receiver"] = "done" \/ shut => ~ running

\* After Ctrl+C at most one line is still read.
AtMostOneLate == late <= 1

\* The end of the input ends the program, and after Ctrl+C the next line does.
StopEnds ==
  (stdin = "eof" \/ (~ running /\ stdin # "none")) ~> pc["main"] = "exited"

\* chat.cpp:134 tells the user: "Ctrl+C to exit".
CtrlCEnds == signals > 0 ~> pc["main"] = "exited"

=============================================================================
