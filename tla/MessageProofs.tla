---------------------------- MODULE MessageProofs ----------------------------
(***************************************************************************)
(* What comes in messages, for instances of any size: the datagrams of the *)
(* chat client, the events of a stream of httplib and the ranges of a      *)
(* content that a server of httplib sends.                                 *)
(***************************************************************************)
EXTENDS Chat, HttpMessage, FiniteSetTheorems, TLAPS

-----------------------------------------------------------------------------
(***************************************************************************)
(* Chat: what the two threads of the client and its handler do to the flag *)
(* and the socket, for any number of lines, datagrams and signals.         *)
(***************************************************************************)

\* The flag, once cleared, stays cleared; and everything that shuts the
\* socket down, ends the receiver or leaves the loop comes after it.
StopInv ==
  /\ NeverDeaf
  /\ \A t \in Threads : handler[t] = "wake" => ~ running
  /\ pc["main"] \in {"shutdown", "close", "join"} => ~ running

\* The line that was read after the flag was cleared was the last one: the
\* main thread has left getline with it and finds the flag when it is back.
LateInv ==
  /\ late \in {0, 1}
  /\ late = 1 => /\ ~ running
                 /\ pc["main"] \in {"send", "check", "stop", "shutdown",
                                    "close", "join", "exited"}

ChatInv == TypeOK /\ StopInv /\ LateInv

LEMMA ChatInit == Init => ChatInv
  <1> SUFFICES ASSUME Init PROVE ChatInv
    OBVIOUS
  <1>1. /\ pc \in [Threads -> MainSteps \cup ReceiverSteps]
        /\ pc["main"] = "socket" /\ pc["receiver"] = "off"
    BY DEF Init, Threads, MainSteps, ReceiverSteps
  <1>2. /\ handler \in [Threads -> {"off", "clear", "wake"}]
        /\ \A t \in Threads : handler[t] = "off"
    BY DEF Init
  <1>3. inbox \in Seq(Message)
    BY DEF Init
  <1>4. TypeOK
    <2>1. /\ running \in BOOLEAN /\ g_sock \in BOOLEAN /\ shut \in BOOLEAN
          /\ lines = 0 /\ datagrams = 0 /\ signals = 0 /\ late = 0
      BY Zenon DEF Init
    <2> QED
      BY <1>1, <1>2, <1>3, <2>1, ChatAssumption
       DEF Init, TypeOK, MainSteps, ReceiverSteps
  <1> QED
    BY <1>1, <1>2, <1>4
       DEF Init, ChatInv, StopInv, LateInv, NeverDeaf

LEMMA EnvironmentStep ==
  ASSUME ChatInv, TypeLine \/ CloseInput \/ Arrive
  PROVE  ChatInv'
  <1> USE ChatAssumption
      DEF ChatInv, TypeOK, StopInv, LateInv, NeverDeaf,
          sockVars, envVars
  <1>1. CASE TypeLine
    BY <1>1 DEF TypeLine
  <1>2. CASE CloseInput
    BY <1>2 DEF CloseInput
  <1>3. CASE Arrive
    <2>1. inbox' \in Seq(Message)
      BY <1>3 DEF Arrive
    <2> QED
      BY <1>3, <2>1 DEF Arrive
  <1> QED
    BY <1>1, <1>2, <1>3

LEMMA SignalStep ==
  ASSUME ChatInv, NEW t \in Threads, Deliver(t) \/ Handle(t)
  PROVE  ChatInv'
  <1> USE ChatAssumption
      DEF ChatInv, TypeOK, StopInv, LateInv, NeverDeaf,
          Threads, sockVars, envVars
  <1>1. CASE Deliver(t)
    BY <1>1 DEF Deliver, AfterEINTR, MainSteps, ReceiverSteps
  <1>2. CASE ClearRunning(t)
    BY <1>2 DEF ClearRunning
  <1>3. CASE WakeReceiver(t)
    BY <1>3 DEF WakeReceiver
  <1> QED
    BY <1>1, <1>2, <1>3 DEF Handle

LEMMA MainStep == ChatInv /\ Main => ChatInv'
  <1> SUFFICES ASSUME ChatInv, Main PROVE ChatInv'
    OBVIOUS
  <1> USE DEF ChatInv, TypeOK, StopInv, LateInv, NeverDeaf,
          Threads, sockVars, envVars, Go, MainSteps, ReceiverSteps
  <1>1. CASE CreateSocket
    BY <1>1 DEF CreateSocket
  <1>9. CASE PublishSocket
    <2>1. g_sock' \in BOOLEAN
      BY <1>9, Zenon DEF PublishSocket
    <2> QED
      BY <1>9, <2>1 DEF PublishSocket
  <1>6. CASE BindAndSpawn
    <2>1. /\ pc' \in [Threads -> MainSteps \cup ReceiverSteps]
          /\ pc'["main"] \in {"check", "exited"}
          /\ pc'["receiver"] \in {"check", pc["receiver"]}
      BY <1>6 DEF BindAndSpawn
    <2>2. late' = 0
      BY <1>6 DEF BindAndSpawn
    <2> QED
      BY <1>6, <2>1, <2>2 DEF BindAndSpawn
  <1>2. CASE CheckRunning \/ EnterGetline \/ SendLine
    BY <1>2 DEF CheckRunning, EnterGetline, SendLine
  <1>3. CASE GetLine
    BY <1>3 DEF GetLine, Message
  <1>4. CASE GetEof
    BY <1>4 DEF GetEof
  <1>5. CASE Stop
    BY <1>5 DEF Stop
  <1>7. CASE ShutDown
    BY <1>7 DEF ShutDown
  <1>8. CASE Close \/ Join
    BY <1>8 DEF Close, Join
  <1> QED
    BY <1>1, <1>2, <1>3, <1>4, <1>5, <1>6, <1>7, <1>8, <1>9 DEF Main

LEMMA ReceiverStep == ChatInv /\ Receiver => ChatInv'
  <1> SUFFICES ASSUME ChatInv, Receiver PROVE ChatInv'
    OBVIOUS
  <1> USE DEF ChatInv, TypeOK, StopInv, LateInv, NeverDeaf,
          Threads, sockVars, envVars, Go, MainSteps, ReceiverSteps
  <1>1. CASE CheckReceiver \/ EnterRecvfrom
    BY <1>1 DEF CheckReceiver, EnterRecvfrom
  <1>2. CASE TakeDatagram
    BY <1>2 DEF TakeDatagram
  <1>3. CASE WokenByShutdown \/ NothingReceived \/ PrintMessage
    BY <1>3 DEF WokenByShutdown, NothingReceived, PrintMessage
  <1> QED
    BY <1>1, <1>2, <1>3 DEF Receiver

LEMMA ChatCorrect == Spec => []ChatInv
  <1>1. ChatInv /\ UNCHANGED vars => ChatInv'
    BY DEF ChatInv, TypeOK, StopInv, LateInv, NeverDeaf, vars,
           sockVars, envVars
  <1>2. ChatInv /\ [Next]_vars => ChatInv'
    BY <1>1, EnvironmentStep, SignalStep, MainStep, ReceiverStep DEF Next
  <1> QED
    BY <1>2, ChatInit, PTL DEF Spec

\* The receiver never ends, nor is it left to spin on a socket that is shut
\* down, while the client still runs.
THEOREM NeverDeafCorrect == Spec => []NeverDeaf
  BY ChatCorrect, PTL DEF ChatInv, StopInv

\* However often Ctrl+C is pressed, and whichever thread it interrupts, the
\* main thread reads at most one more line.
THEOREM AtMostOneLateCorrect == Spec => []AtMostOneLate
  <1>1. ChatInv => AtMostOneLate
    BY DEF ChatInv, LateInv, AtMostOneLate
  <1> QED
    BY <1>1, ChatCorrect, PTL

-----------------------------------------------------------------------------
\* Induction over the natural numbers, for a set.

\* A set of natural numbers has a least element.
LEMMA NatLeast ==
  ASSUME NEW T, T \subseteq Nat, T # {}
  PROVE  \E n \in T : \A m \in T : n <= m
  <1>1. PICK R : R = OpToRel(<, Nat)
    OBVIOUS
  <1>2. IsWellFoundedOn(R, Nat)
    BY <1>1, NatLessThanWellFounded
  <1>3. PICK n \in T : \A m \in T : ~ (<<m, n>> \in R)
    BY <1>1, <1>2, WFMin
  <1>4. \A m \in T : ~ (m < n)
    BY <1>1, <1>3 DEF OpToRel
  <1> QED
    BY <1>4

LEMMA Induction ==
  ASSUME NEW S, 0 \in S, \A n \in Nat : n \in S => n + 1 \in S
  PROVE  Nat \subseteq S
  <1>1. SUFFICES ASSUME Nat \ S # {} PROVE FALSE
    OBVIOUS
  <1>2. PICK n \in Nat \ S : \A m \in Nat \ S : n <= m
    BY <1>1, NatLeast
  <1>3. n # 0 /\ n - 1 \in Nat
    BY <1>2
  <1>4. n - 1 \in S
    BY <1>2, <1>3
  <1> QED
    BY <1>2, <1>3, <1>4

-----------------------------------------------------------------------------
(***************************************************************************)
(* The events: for any events of a server, however often the stream breaks *)
(* off and the client is stopped.  A place is a line of an event that is   *)
(* to be read next; what was received and what is on the way is a tour     *)
(* from where the client is through the lines of the events.               *)
(***************************************************************************)
SentLines == [field : {"id", "event", "data", "blank"}, value : STRING \cup Nat]
Kinds == STRING \cup {Events!NoMsg.event}
Messages == [event : Kinds, data : Nat, id : Nat]

Places == [n : Nat, f : {"id", "event", "data", "blank", "end"}]

\* The first line of event n.
Begins(n) ==
  IF n > Len(feed) THEN "end"
  ELSE IF feed[n].id THEN "id" ELSE IF feed[n].type # "" THEN "event"
    ELSE "data"

Placed(s) ==
  /\ 1 <= s.n /\ s.n <= Len(feed) + 1
  /\ s.f = "end" <=> s.n = Len(feed) + 1
  /\ s.f = "id" => feed[s.n].id

\* The line at a place, and the place after it.
LineAt(s) ==
  CASE s.f = "id" -> Events!Line("id", s.n)
    [] s.f = "event" -> Events!Line("event", feed[s.n].type)
    [] s.f = "data" -> Events!Line("data", s.n)
    [] OTHER -> Events!Line("blank", 0)

NextPlace(s) ==
  CASE s.f = "id" -> [n |-> s.n,
                      f |-> IF feed[s.n].type # "" THEN "event" ELSE "data"]
    [] s.f = "event" -> [n |-> s.n, f |-> "data"]
    [] s.f = "data" -> [n |-> s.n, f |-> "blank"]
    [] OTHER -> [n |-> s.n + 1, f |-> Begins(s.n + 1)]

\* What has been put together before.
MsgAt(s) ==
  [event |-> IF s.f \in {"data", "blank"} THEN feed[s.n].type ELSE "",
   data |-> IF s.f = "blank" THEN s.n ELSE 0,
   id |-> IF s.f \in {"event", "data", "blank"} /\ feed[s.n].id THEN s.n ELSE 0]

\* The places before, between and after the lines of w.
Tour(w, st) ==
  /\ st \in [1 .. Len(w) + 1 -> Places]
  /\ \A i \in 1 .. Len(w) : /\ st[i].f # "end" /\ w[i] = LineAt(st[i])
                            /\ st[i + 1] = NextPlace(st[i])
  /\ \A i \in 1 .. Len(w) + 1 : Placed(st[i])

\* The last event that was delivered.
LastData == IF delivered = <<>> THEN 0 ELSE delivered[Len(delivered)].data

EventsTypes ==
  /\ feed \in Seq([id : BOOLEAN, type : STRING])
  /\ link \in [wire : Seq(SentLines), half : BOOLEAN, up : BOOLEAN]
  /\ loop \in [at : {"open", "next", "lines", "wait", "gone", "denied"},
               lines : Seq(SentLines),
               reconnect_count : Nat, last_event_id : Nat, msg : Messages]
  /\ delivered \in Seq(Messages) /\ refused \in Nat /\ running_ \in BOOLEAN

\* What EventsInOrder says of the i-th event delivered.
DeliveredAt(i) ==
  LET n == delivered[i].data
  IN /\ delivered[i].event = feed[n].type
     /\ delivered[i].id = IF feed[n].id THEN n ELSE 0
     /\ n > Events!Known(i - 1)
     /\ n <= 1 + IF i = 1 THEN 0 ELSE delivered[i - 1].data

\* The largest identifier among the first i delivered, 0 if there is none.
IsKnown(i, m) ==
  /\ m = 0 \/ \E j \in 1 .. i : m = delivered[j].id
  /\ \A j \in 1 .. i : delivered[j].id <= m

\* What was delivered, and that the identifier to connect with is the last one.
DeliveredInv ==
  /\ \A i \in DOMAIN delivered : DeliveredAt(i)
  /\ IsKnown(Len(delivered), loop.last_event_id)
  /\ loop.last_event_id <= LastData /\ LastData <= Len(feed)

\* What is still to be read goes on where the client is, which is an event after
\* the one it would connect with and no more than one after the last delivered.
StreamInv ==
  /\ loop.at # "lines" => loop.lines = <<>>
  /\ loop.at \in {"next", "lines"} =>
       \E st : /\ Tour(loop.lines \o link.wire, st) /\ loop.msg = MsgAt(st[1])
               /\ loop.last_event_id < st[1].n /\ st[1].n <= LastData + 1

\* Attempts are counted right, and a client that gives up has a reason.
FailuresInv ==
  /\ loop.at = "open" => loop.reconnect_count <= refused + 1
  /\ loop.at = "wait" => loop.reconnect_count <= refused
  /\ loop.at \in {"next", "lines"} => loop.reconnect_count = 0
  /\ loop.at = "gone" /\ running_ =>
       \/ LastData = Len(feed)
       \/ 0 < max_reconnect_attempts /\ max_reconnect_attempts <= refused

\* The inductive invariant of the events.
EventsInv == EventsTypes /\ DeliveredInv /\ StreamInv /\ FailuresInv

-----------------------------------------------------------------------------
\* Along the lines of a stream.

FeedTyped == feed \in Seq([id : BOOLEAN, type : STRING])

LEMMA EventTyped ==
  ASSUME FeedTyped, NEW n \in Nat, 1 <= n, n <= Len(feed)
  PROVE  feed[n].id \in BOOLEAN /\ feed[n].type \in STRING /\ Len(feed) \in Nat
  <1>1. PICK F \in Seq([id : BOOLEAN, type : STRING]) : F = feed
    BY DEF FeedTyped
  <1>2. n \in 1 .. Len(F)
    BY <1>1
  <1>3. PICK R : R = [id : BOOLEAN, type : STRING]
    OBVIOUS
  <1>4. F \in Seq(R)
    BY <1>3
  <1>5. F[n] \in R
    BY <1>2, <1>4
  <1>6. F[n].id \in BOOLEAN /\ F[n].type \in STRING
    BY <1>3, <1>5
  <1> QED
    BY <1>1, <1>6

LEMMA BeginsPlaced ==
  ASSUME FeedTyped, NEW n \in Nat, 1 <= n, n <= Len(feed) + 1,
         NEW s, s = [n |-> n, f |-> Begins(n)]
  PROVE  s \in Places /\ Placed(s)
  <1>1. PICK L \in Nat : L = Len(feed)
    BY DEF FeedTyped
  <1>2. PICK b : b = Begins(n)
    OBVIOUS
  <1>3. b \in {"id", "event", "data", "end"} /\ (b = "end" <=> n > L)
        /\ (b = "id" => feed[n].id)
    BY <1>1, <1>2 DEF Begins
  <1>4. n > L <=> n = L + 1
    BY <1>1
  <1>5. s.n = n /\ s.f = b
    BY <1>2
  <1>6. s \in Places
    BY <1>2, <1>3 DEF Places
  <1> QED
    BY <1>1, <1>3, <1>4, <1>5, <1>6 DEF Placed

LEMMA NextPlaced ==
  ASSUME FeedTyped, NEW s \in Places, Placed(s), s.f # "end"
  PROVE  /\ NextPlace(s) \in Places /\ Placed(NextPlace(s))
         /\ LineAt(s) \in SentLines /\ s.n <= Len(feed)
  <1>1. PICK L \in Nat : L = Len(feed)
    BY DEF FeedTyped
  <1>2. PICK n \in Nat : n = s.n
    BY DEF Places
  <1>3. 1 <= n /\ n <= L + 1 /\ n # L + 1
    BY <1>1, <1>2 DEF Placed
  <1>4. n <= L
    BY <1>3
  <1>5. feed[n].type \in STRING
    BY <1>1, <1>3, <1>4, EventTyped
  <1>6. PICK t : t = NextPlace(s)
    OBVIOUS
  <1>7. s.f \in {"id", "event", "data", "blank"}
    BY DEF Places
  <1>8. CASE s.f = "blank"
    <2>1. t = [n |-> n + 1, f |-> Begins(n + 1)]
      BY <1>2, <1>6, <1>8 DEF NextPlace
    <2>2. PICK m \in Nat : m = n + 1
      OBVIOUS
    <2>3. 1 <= m /\ m <= L + 1
      BY <1>4, <2>2
    <2>4. t = [n |-> m, f |-> Begins(m)]
      BY <2>1, <2>2
    <2>5. t \in Places /\ Placed(t)
      BY <1>1, <2>3, <2>4, BeginsPlaced
    <2>6. LineAt(s) \in SentLines
      BY <1>8 DEF LineAt, Events!Line, SentLines
    <2> QED
      BY <1>1, <1>2, <1>4, <1>6, <2>5, <2>6
  <1>9. CASE s.f # "blank"
    <2>1. PICK f \in {"event", "data", "blank"} : t = [n |-> n, f |-> f]
      BY <1>2, <1>6, <1>7, <1>9 DEF NextPlace
    <2>2. t.n = n /\ t.f = f
      BY <2>1
    <2>3. t \in Places
      BY <2>1 DEF Places
    <2>4. Placed(t)
      BY <1>1, <1>3, <2>2 DEF Placed
    <2>5. LineAt(s) \in SentLines
      BY <1>2, <1>5, <1>7, <1>9 DEF LineAt, Events!Line, SentLines
    <2> QED
      BY <1>1, <1>2, <1>4, <1>6, <2>3, <2>4, <2>5
  <1> QED
    BY <1>8, <1>9

\* A part of a tour.
LEMMA TourPart ==
  ASSUME NEW w \in Seq(SentLines), NEW st, Tour(w, st),
         NEW n \in Nat, NEW u \in Seq(SentLines), n + Len(u) <= Len(w),
         \A i \in 1 .. Len(u) : u[i] = w[n + i],
         NEW h, h = [i \in 1 .. Len(u) + 1 |-> st[n + i]]
  PROVE  Tour(u, h) /\ h[1] = st[n + 1]
  <1>1. PICK L \in Nat : L = Len(w)
    OBVIOUS
  <1>2. PICK M \in Nat : M = Len(u)
    OBVIOUS
  <1>3. /\ st \in [1 .. L + 1 -> Places]
        /\ \A i \in 1 .. L : /\ st[i].f # "end" /\ w[i] = LineAt(st[i])
                             /\ st[i + 1] = NextPlace(st[i])
        /\ \A i \in 1 .. L + 1 : Placed(st[i])
    BY <1>1 DEF Tour
  <1>4. n + M <= L
    BY <1>1, <1>2
  <1>5. ASSUME NEW i \in 1 .. M + 1
        PROVE  h[i] = st[n + i] /\ h[i] \in Places /\ Placed(h[i])
    <2>1. n + i \in 1 .. L + 1
      BY <1>4
    <2>2. h[i] = st[n + i]
      BY <1>2
    <2>3. st[n + i] \in Places /\ Placed(st[n + i])
      BY <1>3, <2>1
    <2> QED
      BY <2>2, <2>3
  <1>6. h \in [1 .. M + 1 -> Places]
    BY <1>2, <1>5
  <1>7. ASSUME NEW i \in 1 .. M
        PROVE  h[i].f # "end" /\ u[i] = LineAt(h[i])
                 /\ h[i + 1] = NextPlace(h[i])
    <2>1. PICK k \in 1 .. L : k = n + i
      BY <1>4
    <2>2. i \in 1 .. M + 1 /\ i + 1 \in 1 .. M + 1 /\ n + (i + 1) = k + 1
      BY <2>1
    <2>3. h[i] = st[k] /\ h[i + 1] = st[k + 1]
      BY <1>5, <2>1, <2>2
    <2>4. st[k].f # "end" /\ w[k] = LineAt(st[k])
            /\ st[k + 1] = NextPlace(st[k])
      BY <1>3
    <2>5. u[i] = w[k]
      BY <1>2, <2>1
    <2> QED
      BY <2>3, <2>4, <2>5
  <1>8. Tour(u, h)
    BY <1>2, <1>5, <1>6, <1>7 DEF Tour
  <1>9. 1 \in 1 .. M + 1
    OBVIOUS
  <1> QED
    BY <1>5, <1>8, <1>9

\* The lines w lead from s to t.
Leads(w, s, t) ==
  \E st : Tour(w, st) /\ st[1] = s /\ st[Len(w) + 1] = t

LEMMA LeadsEmpty ==
  ASSUME NEW s \in Places, Placed(s), NEW w, w = <<>>
  PROVE  Leads(w, s, s)
  <1>1. PICK g : g = [i \in 1 .. 1 |-> s]
    OBVIOUS
  <1>2. Len(w) = 0
    OBVIOUS
  <1>3. Tour(w, g)
    BY <1>1, <1>2 DEF Tour
  <1> QED
    BY <1>1, <1>2, <1>3 DEF Leads

LEMMA LeadsOne ==
  ASSUME FeedTyped, NEW s \in Places, Placed(s), s.f # "end",
         NEW x, x = LineAt(s), NEW t, t = NextPlace(s), NEW w, w = <<x>>
  PROVE  Leads(w, s, t)
  <1>1. t \in Places /\ Placed(t)
    BY NextPlaced
  <1>2. PICK g : g = [i \in 1 .. 2 |-> IF i = 1 THEN s ELSE t]
    OBVIOUS
  <1>3. g[1] = s /\ g[2] = t /\ Len(w) = 1 /\ w[1] = x
    BY <1>2
  <1>4. g \in [1 .. 2 -> Places] /\ \A i \in 1 .. 2 : Placed(g[i])
    BY <1>1, <1>2
  <1>5. ASSUME NEW i \in 1 .. 1
        PROVE  g[i].f # "end" /\ w[i] = LineAt(g[i])
                 /\ g[i + 1] = NextPlace(g[i])
    <2>1. i = 1 /\ i + 1 = 2
      OBVIOUS
    <2> QED
      BY <1>3, <2>1
  <1>6. 1 + 1 = 2
    OBVIOUS
  <1>7. Tour(w, g)
    BY <1>3, <1>4, <1>5, <1>6 DEF Tour
  <1> QED
    BY <1>3, <1>6, <1>7 DEF Leads

LEMMA LeadsJoin ==
  ASSUME NEW w \in Seq(SentLines), NEW e \in Seq(SentLines),
         NEW s, NEW t, NEW v, Leads(w, s, t), Leads(e, t, v),
         NEW x, x = w \o e
  PROVE  Leads(x, s, v)
  <1>1. PICK L \in Nat : L = Len(w)
    OBVIOUS
  <1>2. PICK M \in Nat : M = Len(e)
    OBVIOUS
  <1>3. PICK st : Tour(w, st) /\ st[1] = s /\ st[L + 1] = t
    BY <1>1 DEF Leads
  <1>4. x \in Seq(SentLines) /\ Len(x) = L + M
        /\ (\A i \in 1 .. L : x[i] = w[i])
             /\ (\A i \in 1 .. M : x[L + i] = e[i])
    BY <1>1, <1>2
  <1>15. PICK g : Tour(e, g) /\ g[1] = t /\ g[M + 1] = v
    BY <1>2 DEF Leads
  <1>5. /\ st \in [1 .. L + 1 -> Places]
             /\ (\A i \in 1 .. L + 1 : Placed(st[i]))
        /\ \A i \in 1 .. L : /\ st[i].f # "end" /\ w[i] = LineAt(st[i])
                             /\ st[i + 1] = NextPlace(st[i])
    BY <1>1, <1>3 DEF Tour
  <1>6. /\ g \in [1 .. M + 1 -> Places] /\ (\A i \in 1 .. M + 1 : Placed(g[i]))
        /\ \A i \in 1 .. M : /\ g[i].f # "end" /\ e[i] = LineAt(g[i])
                             /\ g[i + 1] = NextPlace(g[i])
    BY <1>2, <1>15 DEF Tour
  <1>7. PICK h : h = [i \in 1 .. L + M + 1 |->
                        IF i <= L + 1 THEN st[i] ELSE g[i - L]]
    OBVIOUS
  <1>8. (\A i \in 1 .. L + 1 : h[i] = st[i])
          /\ \A i \in 1 .. M + 1 : h[L + i] = g[i]
    <2>1. \A i \in 1 .. L + 1 : h[i] = st[i]
      BY <1>7
    <2>2. ASSUME NEW i \in 1 .. M + 1, i # 1 PROVE h[L + i] = g[i]
      BY <1>7, <2>2
    <2>3. h[L + 1] = g[1]
      BY <1>1, <1>3, <1>15, <2>1
    <2> QED
      BY <2>1, <2>2, <2>3
  <1>9. ASSUME NEW i \in 1 .. L + M + 1 PROVE h[i] \in Places /\ Placed(h[i])
    <2>1. CASE i <= L + 1
      <3>1. i \in 1 .. L + 1
        BY <2>1
      <3> QED
        BY <1>5, <1>8, <3>1
    <2>2. CASE i > L + 1
      <3>1. PICK k \in 1 .. M + 1 : i = L + k
        <4>1. i - L \in 1 .. M + 1 /\ i = L + (i - L)
          BY <2>2
        <4> QED
          BY <4>1
      <3> QED
        BY <1>6, <1>8, <3>1
    <2>3. i <= L + 1 \/ i > L + 1
      OBVIOUS
    <2> QED
      BY <2>1, <2>2, <2>3
  <1>10. h \in [1 .. L + M + 1 -> Places]
    BY <1>7, <1>9
  <1>11. ASSUME NEW i \in 1 .. L + M
         PROVE  h[i].f # "end" /\ x[i] = LineAt(h[i])
                  /\ h[i + 1] = NextPlace(h[i])
    <2>1. CASE i <= L
      <3>1. i \in 1 .. L /\ i \in 1 .. L + 1 /\ i + 1 \in 1 .. L + 1
        BY <2>1
      <3> QED
        BY <1>4, <1>5, <1>8, <3>1
    <2>2. CASE i > L
      <3>1. PICK k \in Int : k = i - L
        OBVIOUS
      <3>2. k \in 1 .. M /\ k \in 1 .. M + 1 /\ k + 1 \in 1 .. M + 1
            /\ i = L + k /\ i + 1 = L + (k + 1)
        BY <2>2, <3>1
      <3>3. h[i] = g[k] /\ h[i + 1] = g[k + 1]
        BY <1>8, <3>2
      <3>4. x[i] = e[k]
        BY <1>4, <3>2
      <3>5. g[k].f # "end" /\ e[k] = LineAt(g[k]) /\ g[k + 1] = NextPlace(g[k])
        BY <1>6, <3>2
      <3> QED
        BY <3>3, <3>4, <3>5
    <2>3. i <= L \/ i > L
      OBVIOUS
    <2> QED
      BY <2>1, <2>2, <2>3
  <1>12. Tour(x, h)
    BY <1>4, <1>9, <1>10, <1>11 DEF Tour
  <1>13. h[1] = st[1] /\ h[L + M + 1] = g[M + 1]
    <2>1. L + M + 1 = L + (M + 1) /\ M + 1 \in 1 .. M + 1 /\ 1 \in 1 .. L + 1
      OBVIOUS
    <2> QED
      BY <1>8, <2>1
  <1> QED
    BY <1>3, <1>4, <1>12, <1>13, <1>15 DEF Leads

-----------------------------------------------------------------------------
\* What the server sends: the lines of the events after a given one.

Place(n, f) == [n |-> n, f |-> f]

\* The lines of an event lead from its beginning to that of the next one.
LEMMA EventLinesLead ==
  ASSUME FeedTyped, NEW n \in Nat, 1 <= n, n <= Len(feed),
         NEW w, w = Events!EventLines(n)
  PROVE  /\ w \in Seq(SentLines)
         /\ Leads(w, Place(n, Begins(n)), Place(n + 1, Begins(n + 1)))
  <1>1. PICK L \in Nat : L = Len(feed)
    BY DEF FeedTyped
  <1>2. feed[n].id \in BOOLEAN /\ feed[n].type \in STRING
    BY EventTyped
  <1>3. PICK g : g = (IF feed[n].type # "" THEN "event" ELSE "data")
    OBVIOUS
  <1>4. g \in {"event", "data"}
    BY <1>3
  <1>5. n # L + 1 /\ 1 <= n /\ n <= L + 1 /\ ~ (n > L)
    BY <1>1
  <1>6. ASSUME NEW f \in {"id", "event", "data", "blank"},
               f = "id" => feed[n].id,
               NEW s, s = Place(n, f)
        PROVE  s \in Places /\ Placed(s) /\ s.f # "end" /\ s.n = n /\ s.f = f
    <2>1. s.n = n /\ s.f = f
      BY <1>6 DEF Place
    <2>2. s \in Places
      BY <1>6 DEF Place, Places
    <2> QED
      BY <1>1, <1>5, <1>6, <2>1, <2>2 DEF Placed
  <1>7. PICK a : a = (IF feed[n].id THEN <<Events!Line("id", n)>> ELSE <<>>)
    OBVIOUS
  <1>8. PICK b : b = (IF feed[n].type # ""
                      THEN <<Events!Line("event", feed[n].type)>>
                      ELSE <<>>)
    OBVIOUS
  <1>9. PICK u : u = Events!Line("data", n)
    OBVIOUS
  <1>10. PICK v : v = Events!Line("blank", 0)
    OBVIOUS
  <1>11. w = (a \o b) \o <<u, v>>
    BY <1>7, <1>8, <1>9, <1>10 DEF Events!EventLines
  <1>12. u \in SentLines /\ v \in SentLines
    BY <1>9, <1>10 DEF Events!Line, SentLines
  <1>13. a \in Seq(SentLines) /\ Leads(a, Place(n, Begins(n)), Place(n, g))
    <2>1. CASE feed[n].id
      <3>1. PICK x : x = Events!Line("id", n)
        OBVIOUS
      <3>2. PICK s : s = Place(n, "id")
        OBVIOUS
      <3>3. s \in Places /\ Placed(s) /\ s.f # "end" /\ s.n = n /\ s.f = "id"
        BY <1>6, <2>1, <3>2
      <3>4. x = LineAt(s)
        BY <3>1, <3>3 DEF LineAt
      <3>5. PICK t : t = NextPlace(s)
        OBVIOUS
      <3>6. t = Place(n, g)
        BY <1>3, <3>3, <3>5 DEF NextPlace, Place
      <3>7. a = <<x>>
        BY <1>7, <2>1, <3>1
      <3>8. Leads(a, s, t)
        BY <3>3, <3>4, <3>5, <3>7, LeadsOne
      <3>9. Begins(n) = "id"
        BY <1>1, <1>5, <2>1 DEF Begins
      <3>10. x \in SentLines
        BY <3>1 DEF Events!Line, SentLines
      <3> QED
        BY <3>2, <3>6, <3>7, <3>8, <3>9, <3>10
    <2>2. CASE ~ feed[n].id
      <3>1. a = <<>>
        BY <1>7, <2>2
      <3>2. Begins(n) = g
        BY <1>1, <1>3, <1>5, <2>2 DEF Begins
      <3>3. PICK s : s = Place(n, g)
        OBVIOUS
      <3>4. s \in Places /\ Placed(s)
        BY <1>4, <1>6, <3>3
      <3>5. Leads(a, s, s)
        BY <3>1, <3>4, LeadsEmpty
      <3>6. a \in Seq(SentLines)
        BY <3>1
      <3> QED
        BY <3>2, <3>3, <3>5, <3>6
    <2> QED
      BY <2>1, <2>2
  <1>14. b \in Seq(SentLines) /\ Leads(b, Place(n, g), Place(n, "data"))
    <2>1. CASE feed[n].type # ""
      <3>1. PICK x : x = Events!Line("event", feed[n].type)
        OBVIOUS
      <3>2. PICK s : s = Place(n, "event")
        OBVIOUS
      <3>3. s \in Places /\ Placed(s) /\ s.f # "end" /\ s.n = n /\ s.f = "event"
        BY <1>6, <3>2
      <3>4. x = LineAt(s)
        BY <3>1, <3>3 DEF LineAt
      <3>5. PICK t : t = NextPlace(s)
        OBVIOUS
      <3>6. t = Place(n, "data")
        BY <3>3, <3>5 DEF NextPlace, Place
      <3>7. b = <<x>>
        BY <1>8, <2>1, <3>1
      <3>8. Leads(b, s, t)
        BY <3>3, <3>4, <3>5, <3>7, LeadsOne
      <3>9. g = "event"
        BY <1>3, <2>1
      <3>10. x \in SentLines
        BY <1>2, <3>1 DEF Events!Line, SentLines
      <3> QED
        BY <3>2, <3>6, <3>7, <3>8, <3>9, <3>10
    <2>2. CASE ~ (feed[n].type # "")
      <3>1. b = <<>>
        BY <1>8, <2>2
      <3>2. g = "data"
        BY <1>3, <2>2
      <3>3. PICK s : s = Place(n, "data")
        OBVIOUS
      <3>4. s \in Places /\ Placed(s)
        BY <1>6, <3>3
      <3>5. Leads(b, s, s)
        BY <3>1, <3>4, LeadsEmpty
      <3>6. b \in Seq(SentLines)
        BY <3>1
      <3> QED
        BY <3>2, <3>3, <3>5, <3>6
    <2> QED
      BY <2>1, <2>2
  <1>15. Leads(<<u>>, Place(n, "data"), Place(n, "blank"))
    <2>1. PICK s : s = Place(n, "data")
      OBVIOUS
    <2>2. s \in Places /\ Placed(s) /\ s.f # "end" /\ s.n = n /\ s.f = "data"
      BY <1>6, <2>1
    <2>3. u = LineAt(s)
      BY <1>9, <2>2 DEF LineAt
    <2>4. PICK t : t = NextPlace(s)
      OBVIOUS
    <2>5. t = Place(n, "blank")
      BY <2>2, <2>4 DEF NextPlace, Place
    <2>6. Leads(<<u>>, s, t)
      BY <2>2, <2>3, <2>4, LeadsOne
    <2> QED
      BY <2>1, <2>5, <2>6
  <1>16. Leads(<<v>>, Place(n, "blank"), Place(n + 1, Begins(n + 1)))
    <2>1. PICK s : s = Place(n, "blank")
      OBVIOUS
    <2>2. s \in Places /\ Placed(s) /\ s.f # "end" /\ s.n = n /\ s.f = "blank"
      BY <1>6, <2>1
    <2>3. v = LineAt(s)
      BY <1>10, <2>2 DEF LineAt
    <2>4. PICK t : t = NextPlace(s)
      OBVIOUS
    <2>5. t = Place(n + 1, Begins(n + 1))
      BY <2>2, <2>4 DEF NextPlace, Place
    <2>6. Leads(<<v>>, s, t)
      BY <2>2, <2>3, <2>4, LeadsOne
    <2> QED
      BY <2>1, <2>5, <2>6
  <1>17. <<u, v>> = <<u>> \o <<v>> /\ <<u>> \in Seq(SentLines)
           /\ <<v>> \in Seq(SentLines)
    BY <1>12
  <1>18. PICK c : c = <<u, v>>
    OBVIOUS
  <1>19. Leads(c, Place(n, "data"), Place(n + 1, Begins(n + 1)))
    BY <1>15, <1>16, <1>17, <1>18, LeadsJoin
  <1>20. PICK d : d = a \o b
    OBVIOUS
  <1>21. Leads(d, Place(n, Begins(n)), Place(n, "data"))
    BY <1>13, <1>14, <1>20, LeadsJoin
  <1>22. c \in Seq(SentLines) /\ d \in Seq(SentLines)
    <2>1. c \in Seq(SentLines)
      BY <1>12, <1>18
    <2>2. d \in Seq(SentLines)
      BY <1>13, <1>14, <1>20
    <2> QED
      BY <2>1, <2>2
  <1>23. w = d \o c
    BY <1>11, <1>18, <1>20
  <1>24. Leads(w, Place(n, Begins(n)), Place(n + 1, Begins(n + 1)))
    BY <1>19, <1>21, <1>22, <1>23, LeadsJoin
  <1>25. w \in Seq(SentLines)
    BY <1>22, <1>23
  <1> QED
    BY <1>24, <1>25

\* The function by which FlattenSeq is defined.
Flat(f, F, n) ==
  f = [i \in 1 .. n |-> IF i = 1 THEN F[i] ELSE f[i - 1] \o F[i]]

\* There is one for every sequence.
LEMMA FlatExists ==
  ASSUME NEW F, NEW k \in Nat
  PROVE  \E f : Flat(f, F, k)
  <1>1. PICK S : S = {n \in Nat : \E f : Flat(f, F, n)}
    OBVIOUS
  <1>2. 0 \in S
    <2>1. PICK f : f = [i \in 1 .. 0 |-> 0]
      OBVIOUS
    <2>2. f = [i \in 1 .. 0 |-> IF i = 1 THEN F[i] ELSE f[i - 1] \o F[i]]
      BY <2>1
    <2>3. Flat(f, F, 0)
      BY <2>2 DEF Flat
    <2> QED
      BY <1>1, <2>3
  <1>3. ASSUME NEW n \in Nat, n \in S PROVE n + 1 \in S
    <2>1. PICK f : Flat(f, F, n)
      BY <1>1, <1>3
    <2>2. f = [i \in 1 .. n |-> IF i = 1 THEN F[i] ELSE f[i - 1] \o F[i]]
      BY <2>1 DEF Flat
    <2>3. PICK last : last = (IF n + 1 = 1 THEN F[n + 1] ELSE f[n] \o F[n + 1])
      OBVIOUS
    <2>4. PICK h : h = [i \in 1 .. n + 1 |-> IF i = n + 1 THEN last ELSE f[i]]
      OBVIOUS
    <2>5. ASSUME NEW i \in 1 .. n + 1
          PROVE  h[i] = IF i = 1 THEN F[i] ELSE h[i - 1] \o F[i]
      <3>1. CASE i = n + 1
        <4>1. h[i] = last
          BY <2>4, <3>1
        <4>2. CASE n = 0
          BY <2>3, <3>1, <4>1, <4>2
        <4>3. CASE n # 0
          <5>1. n \in 1 .. n + 1 /\ n # n + 1 /\ i - 1 = n /\ i # 1
            BY <3>1, <4>3
          <5>2. h[n] = f[n]
            BY <2>4, <5>1
          <5>3. last = f[n] \o F[i]
            BY <2>3, <3>1, <5>1
          <5> QED
            BY <4>1, <5>1, <5>2, <5>3
        <4> QED
          BY <4>2, <4>3
      <3>2. CASE i # n + 1
        <4>1. i \in 1 .. n
          BY <3>2
        <4>2. h[i] = f[i]
          BY <2>4, <3>2
        <4>3. f[i] = IF i = 1 THEN F[i] ELSE f[i - 1] \o F[i]
          BY <2>2, <4>1
        <4>4. CASE i # 1
          <5>1. i - 1 \in 1 .. n + 1 /\ i - 1 # n + 1
            BY <4>1, <4>4
          <5>2. h[i - 1] = f[i - 1]
            BY <2>4, <5>1
          <5> QED
            BY <4>2, <4>3, <4>4, <5>2
        <4> QED
          BY <4>2, <4>3, <4>4
      <3> QED
        BY <3>1, <3>2
    <2>6. h = [i \in 1 .. n + 1 |-> IF i = 1 THEN F[i] ELSE h[i - 1] \o F[i]]
      BY <2>4, <2>5
    <2>7. Flat(h, F, n + 1)
      BY <2>6 DEF Flat
    <2> QED
      BY <1>1, <2>7
  <1>4. Nat \subseteq S
    BY <1>2, <1>3, Induction
  <1> QED
    BY <1>1, <1>4

LEMMA Flattened ==
  ASSUME NEW F, NEW k \in Nat, k # 0, Len(F) = k
  PROVE  \E f : Flat(f, F, k) /\ Events!FlattenSeq(F) = f[k]
  <1>1. \E f : Flat(f, F, k)
    BY FlatExists
  <1>2. PICK f : /\ f = CHOOSE g : g = [i \in 1 .. k |->
                                   IF i = 1 THEN F[i] ELSE g[i - 1] \o F[i]]
    BY Zenon
  <1>3. Flat(f, F, k)
    BY <1>1, <1>2, Zenon DEF Flat
  <1>4. Events!FlattenSeq(F) = f[k]
    BY <1>2, Zenon DEF Events!FlattenSeq
  <1> QED
    BY <1>3, <1>4

-----------------------------------------------------------------------------
\* The events that were delivered.

\* What the server sends leads on from the event after the one it is given.
LEMMA AfterLeads ==
  ASSUME FeedTyped, NEW m \in Nat, m < Len(feed), NEW w, w = Events!After(m)
  PROVE  /\ w \in Seq(SentLines)
         /\ \E t : Leads(w, Place(m + 1, Begins(m + 1)), t)
  <1>1. PICK L \in Nat : L = Len(feed)
    BY DEF FeedTyped
  <1>2. PICK k \in Nat : k = L - m
    <2>1. L - m \in Nat
      BY <1>1
    <2> QED
      BY <2>1
  <1>3. k # 0 /\ m + k = L
    BY <1>1, <1>2
  <1>4. PICK F : F = [i \in 1 .. k |-> Events!EventLines(m + i)]
    OBVIOUS
  <1>5. w = Events!FlattenSeq(F)
    BY <1>1, <1>2, <1>4 DEF Events!After
  <1>6. Len(F) = k
    BY <1>4
  <1>7. PICK f : Flat(f, F, k) /\ w = f[k]
    BY <1>3, <1>5, <1>6, Flattened
  <1>8. PICK s : s = Place(m + 1, Begins(m + 1))
    OBVIOUS
  <1> DEFINE Good(i) == i < k => /\ f[i + 1] \in Seq(SentLines)
                                 /\ Leads(f[i + 1], s,
                                          Place(m + (i + 2), Begins(m + (i + 2))))
  <1>9. \A i \in 1 .. k : f[i] = IF i = 1 THEN F[i] ELSE f[i - 1] \o F[i]
    BY <1>7 DEF Flat
  <1>10. ASSUME NEW i \in Nat, i < k
         PROVE  /\ F[i + 1] \in Seq(SentLines)
                /\ Leads(F[i + 1], Place(m + (i + 1), Begins(m + (i + 1))),
                         Place(m + (i + 2), Begins(m + (i + 2))))
    <2>1. PICK n \in Nat : n = m + (i + 1)
      OBVIOUS
    <2>2. 1 <= n /\ n <= L /\ i + 1 \in 1 .. k /\ n + 1 = m + (i + 2)
      BY <1>3, <1>10, <2>1
    <2>3. F[i + 1] = Events!EventLines(n)
      BY <1>4, <2>1, <2>2
    <2>4. PICK x : x = F[i + 1]
      OBVIOUS
    <2>5. x \in Seq(SentLines)
            /\ Leads(x, Place(n, Begins(n)), Place(n + 1, Begins(n + 1)))
      BY <1>1, <2>2, <2>3, <2>4, EventLinesLead
    <2> QED
      BY <2>1, <2>2, <2>4, <2>5
  <1>11. Good(0)
    <2>1. SUFFICES ASSUME 0 < k PROVE Good(0)
      OBVIOUS
    <2>2. 1 \in 1 .. k /\ 0 + 1 = 1
      BY <2>1
    <2>3. f[1] = F[1]
      BY <1>9, <2>2
    <2> QED
      BY <1>8, <1>10, <2>1, <2>2, <2>3
  <1>12. ASSUME NEW i \in Nat, Good(i) PROVE Good(i + 1)
    <2>1. SUFFICES ASSUME i + 1 < k PROVE Good(i + 1)
      OBVIOUS
    <2>2. i < k
      BY <2>1
    <2>3. PICK x : x = f[i + 1]
      OBVIOUS
    <2>4. PICK j \in Nat : j = i + 1
      OBVIOUS
    <2>5. PICK e : e = F[j + 1]
      OBVIOUS
    <2>6. x \in Seq(SentLines)
          /\ Leads(x, s, Place(m + (i + 2), Begins(m + (i + 2))))
      BY <1>12, <2>2, <2>3
    <2>7. i + 2 = j + 1 /\ j < k
      BY <2>1, <2>4
    <2>8. e \in Seq(SentLines)
          /\ Leads(e, Place(m + (j + 1), Begins(m + (j + 1))),
                   Place(m + (j + 2), Begins(m + (j + 2))))
      BY <1>10, <2>5, <2>7
    <2>9. PICK z : z = f[j + 1]
      OBVIOUS
    <2>10. z = x \o e
      <3>1. j + 1 \in 1 .. k /\ j + 1 # 1 /\ (j + 1) - 1 = i + 1
        BY <2>4, <2>7
      <3>2. z = f[(j + 1) - 1] \o F[j + 1]
        BY <1>9, <2>9, <3>1
      <3> QED
        BY <2>3, <2>5, <3>1, <3>2
    <2>11. PICK p : p = Place(m + (j + 1), Begins(m + (j + 1)))
      OBVIOUS
    <2>12. PICK q : q = Place(m + (j + 2), Begins(m + (j + 2)))
      OBVIOUS
    <2>13. Leads(x, s, p)
      BY <2>6, <2>7, <2>11
    <2>14. Leads(e, p, q)
      BY <2>8, <2>11, <2>12
    <2>15. Leads(z, s, q)
      BY <2>6, <2>8, <2>10, <2>13, <2>14, LeadsJoin
    <2>16. z \in Seq(SentLines)
      BY <2>6, <2>8, <2>10
    <2> QED
      BY <2>4, <2>9, <2>12, <2>15, <2>16
  <1>13. PICK S : \A i \in Nat : i \in S <=> Good(i)
    <2>1. \A i \in Nat : i \in {j \in Nat : Good(j)} <=> Good(i)
      OBVIOUS
    <2> QED
      BY <2>1
  <1> HIDE DEF Good
  <1>14. Nat \subseteq S
    <2>1. 0 \in S
      BY <1>11, <1>13
    <2>2. ASSUME NEW i \in Nat, i \in S PROVE i + 1 \in S
      BY <1>12, <1>13, <2>2
    <2> QED
      BY <2>1, <2>2, Induction
  <1>15. PICK j \in Nat : j = k - 1
    BY <1>3
  <1>16. Good(j)
    BY <1>13, <1>14
  <1>17. j < k /\ j + 1 = k
    BY <1>15
  <1>18. f[j + 1] \in Seq(SentLines)
         /\ Leads(f[j + 1], s, Place(m + (j + 2), Begins(m + (j + 2))))
    BY <1>16, <1>17 DEF Good
  <1> QED
    BY <1>7, <1>8, <1>17, <1>18

-----------------------------------------------------------------------------
LEMMA KnownMax ==
  ASSUME NEW i \in Nat, NEW m \in Nat, IsKnown(i, m),
         \A j \in 1 .. i : delivered[j].id \in Nat
  PROVE  Events!Known(i) = m
  <1>1. PICK ids : ids = {0} \cup {delivered[j].id : j \in 1 .. i}
    OBVIOUS
  <1>2. m \in ids /\ \A j \in ids : j <= m /\ j \in Nat
    BY <1>1 DEF IsKnown
  <1>3. \A j \in ids : (\A h \in ids : h <= j) => j = m
    <2>1. SUFFICES ASSUME NEW j \in ids, \A h \in ids : h <= j PROVE j = m
      OBVIOUS
    <2>2. m <= j /\ j <= m /\ j \in Nat
      BY <1>2, <2>1
    <2> QED
      BY <2>2
  <1>4. Events!Known(i) = CHOOSE j \in ids : \A h \in ids : h <= j
    BY <1>1 DEF Events!Known
  <1> QED
    BY <1>2, <1>3, <1>4

LEMMA EventsTyped ==
  ASSUME EventsTypes
  PROVE  /\ loop.at \in {"open", "next", "lines", "wait", "gone", "denied"}
         /\ loop.lines \in Seq(SentLines) /\ loop.reconnect_count \in Nat
         /\ loop.last_event_id \in Nat /\ loop.msg \in Messages
         /\ link.wire \in Seq(SentLines) /\ delivered \in Seq(Messages)
         /\ refused \in Nat /\ FeedTyped /\ Len(feed) \in Nat
  BY DEF EventsTypes, FeedTyped

LEMMA LastTyped ==
  ASSUME EventsTypes
  PROVE  LastData \in Nat
  <1>1. PICK d \in Seq(Messages) : d = delivered
    BY EventsTyped
  <1>2. LastData = IF d = <<>> THEN 0 ELSE d[Len(d)].data
    BY <1>1 DEF LastData
  <1>3. CASE d = <<>>
    BY <1>2, <1>3
  <1>4. CASE d # <<>>
    <2>1. Len(d) \in 1 .. Len(d)
      BY <1>4
    <2>2. d[Len(d)] \in Messages
      BY <2>1
    <2>3. d[Len(d)].data \in Nat
      BY <2>2 DEF Messages
    <2> QED
      BY <1>2, <1>4, <2>3
  <1> QED
    BY <1>3, <1>4

LEMMA DeliveredKept ==
  ASSUME DeliveredInv, feed' = feed, delivered' = delivered,
         loop'.last_event_id = loop.last_event_id
  PROVE  DeliveredInv'
  <1>1. LastData' = LastData
    BY DEF LastData
  <1>2. \A i \in DOMAIN delivered : DeliveredAt(i)
    BY DEF DeliveredInv
  <1>3. ASSUME NEW i \in DOMAIN delivered' PROVE DeliveredAt(i)'
    <2>1. DeliveredAt(i)
      BY <1>2, <1>3
    <2> QED
      BY <2>1 DEF DeliveredAt, Events!Known
  <1>4. IsKnown(Len(delivered), loop.last_event_id)'
    BY DEF DeliveredInv, IsKnown
  <1>5. (loop.last_event_id <= LastData /\ LastData <= Len(feed))'
    BY <1>1 DEF DeliveredInv
  <1> QED
    BY <1>3, <1>4, <1>5 DEF DeliveredInv

-----------------------------------------------------------------------------
\* The client connects.

LEMMA MsgAtBegin ==
  ASSUME FeedTyped, NEW n \in Nat, 1 <= n, n <= Len(feed) + 1,
         NEW s, s = Place(n, Begins(n))
  PROVE  MsgAt(s) = Events!NoMsg
  <1>1. s.n = n /\ s.f = Begins(n)
    BY DEF Place
  <1>2. n > Len(feed) => s.f = "end"
    BY <1>1 DEF Begins
  <1>3. ~ (n > Len(feed)) => s.f = IF feed[n].id THEN "id"
                                  ELSE IF feed[n].type # "" THEN "event"
                                    ELSE "data"
    BY <1>1 DEF Begins
  <1>4. CASE n > Len(feed)
    BY <1>1, <1>2, <1>4 DEF MsgAt, Events!NoMsg
  <1>5. CASE ~ (n > Len(feed))
    <2>1. CASE feed[n].id
      <3>1. s.f = "id"
        BY <1>3, <1>5, <2>1
      <3> QED
        BY <3>1 DEF MsgAt, Events!NoMsg
    <2>2. CASE ~ feed[n].id /\ feed[n].type # ""
      <3>1. s.f = "event"
        BY <1>3, <1>5, <2>2
      <3> QED
        BY <1>1, <2>2, <3>1 DEF MsgAt, Events!NoMsg
    <2>3. CASE ~ feed[n].id /\ feed[n].type = ""
      <3>1. s.f = "data"
        BY <1>3, <1>5, <2>3
      <3> QED
        BY <1>1, <2>3, <3>1 DEF MsgAt, Events!NoMsg
    <2> QED
      BY <2>1, <2>2, <2>3
  <1> QED
    BY <1>4, <1>5

LEMMA StreamOff ==
  ASSUME loop'.at \notin {"next", "lines"}, loop'.lines = <<>>
  PROVE  StreamInv'
  BY DEF StreamInv

LEMMA StreamOn ==
  ASSUME feed' = feed, NEW w, NEW st, Tour(w, st),
         w = (loop.lines \o link.wire)',
         loop'.msg = MsgAt(st[1]), loop'.last_event_id < st[1].n,
         st[1].n <= LastData' + 1,
         loop'.at # "lines" => loop'.lines = <<>>
  PROVE  StreamInv'
  <1>1. Tour(w, st)'
    BY DEF Tour, Placed, LineAt, NextPlace, Begins
  <1>2. MsgAt(st[1])' = MsgAt(st[1])
    BY DEF MsgAt
  <1>3. Tour(loop.lines \o link.wire, st)'
    BY <1>1
  <1> QED
    BY <1>2, <1>3 DEF StreamInv

\* A loop that goes elsewhere and keeps what it knows.
Goes(at) ==
  /\ loop'.at = at /\ loop'.lines = loop.lines /\ loop'.msg = loop.msg
  /\ loop'.reconnect_count = loop.reconnect_count
  /\ loop'.last_event_id = loop.last_event_id

LEMMA GoesTo ==
  ASSUME EventsTypes, NEW at, loop' = [loop EXCEPT !.at = at]
  PROVE  Goes(at)
  BY DEF EventsTypes, Goes

LEMMA GoesTyped ==
  ASSUME EventsTypes, NEW at, Goes(at),
         loop' = [loop EXCEPT !.at = at],
         at \in {"open", "next", "lines", "wait", "gone", "denied"}
  PROVE  loop' \in [at : {"open", "next", "lines", "wait", "gone", "denied"},
                    lines : Seq(SentLines), reconnect_count : Nat,
                    last_event_id : Nat, msg : Messages]
  BY DEF EventsTypes

\* As many attempts were made as may be.
Exhausted ==
  0 < max_reconnect_attempts /\ max_reconnect_attempts <= loop.reconnect_count

\* A connection failed or has ended.
LEMMA TriesAgain ==
  ASSUME EventsTypes, running_, Events!TryAgain
  PROVE  \E at : /\ at \in {"wait", "gone"} /\ loop' = [loop EXCEPT !.at = at]
                 /\ at = "gone" => Exhausted
  <1>1. PICK at : at = IF Events!should_reconnect THEN "wait" ELSE "gone"
    OBVIOUS
  <1>2. loop' = [loop EXCEPT !.at = at]
    BY <1>1 DEF Events!TryAgain, Events!Go
  <1>3. PICK m \in Nat : m = max_reconnect_attempts
    BY MessageAssumption
  <1>4. PICK r \in Nat : r = loop.reconnect_count
    BY EventsTyped
  <1>5. ASSUME at = "gone" PROVE 0 < m /\ m <= r
    <2>1. ~ Events!should_reconnect
      BY <1>1, <1>5
    <2>2. m # 0 /\ ~ (r < m)
      BY <1>3, <1>4, <2>1 DEF Events!should_reconnect
    <2> QED
      BY <2>2
  <1> QED
    BY <1>1, <1>2, <1>3, <1>4, <1>5 DEF Exhausted

-----------------------------------------------------------------------------
LEMMA EventsOpen ==
  ASSUME EventsInv, Events!Open
  PROVE  EventsInv'
  <1>1. EventsTypes /\ DeliveredInv /\ StreamInv /\ FailuresInv
    BY DEF EventsInv
  <1>2. /\ loop.at = "open" /\ feed' = feed /\ delivered' = delivered
        /\ running_' = running_
    BY DEF Events!Open
  <1>3. loop.lines = <<>>
    BY <1>1, <1>2 DEF StreamInv
  <1>4. PICK L \in Nat : L = Len(feed)
    BY <1>1, EventsTyped
  <1>5. PICK m \in Nat : m = loop.last_event_id
    BY <1>1, EventsTyped
  <1>6. PICK D \in Nat : D = LastData
    BY <1>1, LastTyped
  <1>7. m <= D /\ D <= L
    BY <1>1, <1>4, <1>5, <1>6 DEF DeliveredInv
  <1>8. LastData' = LastData
    BY <1>2 DEF LastData
  <1>9. ASSUME NEW at, at \in {"wait", "gone", "denied"},
               loop' = [loop EXCEPT !.at = at],
               link' = link, refused' \in Nat,
               at = "wait" => loop.reconnect_count <= refused',
               at = "gone" /\ running_ =>
                 \/ D = L
                 \/ 0 < max_reconnect_attempts
                      /\ max_reconnect_attempts <= refused'
        PROVE  EventsInv'
    <2>1. Goes(at)
      BY <1>1, <1>9, GoesTo
    <2>2. EventsTypes'
      <3>1. at \in {"open", "next", "lines", "wait", "gone", "denied"}
        BY <1>9
      <3> QED
        BY <1>1, <1>2, <1>9, <2>1, <3>1, GoesTyped DEF EventsTypes
    <2>3. DeliveredInv'
      BY <1>1, <1>2, <2>1, DeliveredKept DEF Goes
    <2>4. StreamInv'
      BY <1>3, <1>9, <2>1, StreamOff DEF Goes
    <2>5. FailuresInv'
      BY <1>2, <1>4, <1>6, <1>8, <1>9, <2>1 DEF FailuresInv, Goes
    <2> QED
      BY <2>2, <2>3, <2>4, <2>5 DEF EventsInv
  <1>10. CASE ~ running_ /\ Events!Go("gone") /\ UNCHANGED <<link, refused>>
    <2>1. loop' = [loop EXCEPT !.at = "gone"]
      BY <1>10 DEF Events!Go
    <2>2. refused' \in Nat
      BY <1>1, <1>10, EventsTyped
    <2> QED
      BY <1>9, <1>10, <2>1, <2>2
  <1>11. CASE loop.last_event_id = Len(feed) /\ Events!Go("gone")
              /\ UNCHANGED <<link, refused>>
    <2>1. loop' = [loop EXCEPT !.at = "gone"]
      BY <1>11 DEF Events!Go
    <2>2. refused' \in Nat
      BY <1>1, <1>11, EventsTyped
    <2>3. D = L
      BY <1>4, <1>5, <1>7, <1>11
    <2> QED
      BY <1>9, <1>11, <2>1, <2>2, <2>3
  <1>12. CASE Events!Go("denied") /\ UNCHANGED <<link, refused>>
    <2>1. loop' = [loop EXCEPT !.at = "denied"]
      BY <1>12 DEF Events!Go
    <2>2. refused' \in Nat
      BY <1>1, <1>12, EventsTyped
    <2> QED
      BY <1>9, <1>12, <2>1, <2>2
  <1>13. CASE running_ /\ refused' = refused + 1 /\ Events!TryAgain
                /\ UNCHANGED link
    <2>1. PICK at : /\ at \in {"wait", "gone"}
                    /\ loop' = [loop EXCEPT !.at = at]
                    /\ at = "gone" => Exhausted
      BY <1>1, <1>13, TriesAgain
    <2>2. PICK r \in Nat : r = refused
      BY <1>1, EventsTyped
    <2>3. PICK c \in Nat : c = loop.reconnect_count
      BY <1>1, EventsTyped
    <2>4. PICK x \in Nat : x = max_reconnect_attempts
      BY MessageAssumption
    <2>5. c <= r + 1
      BY <1>1, <1>2, <2>2, <2>3 DEF FailuresInv
    <2>6. refused' = r + 1 /\ r + 1 \in Nat
      BY <1>13, <2>2
    <2>7. at = "gone" => 0 < x /\ x <= r + 1
      BY <2>1, <2>3, <2>4, <2>5 DEF Exhausted
    <2> QED
      BY <1>9, <1>13, <2>1, <2>3, <2>4, <2>5, <2>6, <2>7
  <1>14. CASE /\ running_ /\ loop.last_event_id < Len(feed)
              /\ link' = [wire |-> Events!After(loop.last_event_id),
                          half |-> FALSE,
                          up |-> TRUE]
              /\ loop' = [loop EXCEPT !.at = "next", !.reconnect_count = 0,
                                      !.msg = Events!NoMsg]
              /\ refused' = 0
    <2>1. PICK w : w = Events!After(m)
      OBVIOUS
    <2>2. m < L
      BY <1>4, <1>5, <1>14
    <2>3. FeedTyped
      BY <1>1, EventsTyped
    <2>4. PICK s : s = Place(m + 1, Begins(m + 1))
      OBVIOUS
    <2>5. PICK t : w \in Seq(SentLines) /\ Leads(w, s, t)
      BY <1>4, <2>1, <2>2, <2>3, <2>4, AfterLeads
    <2>6. PICK st : Tour(w, st) /\ st[1] = s
      BY <2>5 DEF Leads
    <2>7. /\ loop'.at = "next" /\ loop'.lines = <<>>
               /\ loop'.reconnect_count = 0
          /\ loop'.msg = Events!NoMsg /\ loop'.last_event_id = m
      <3>1. /\ loop'.at = "next" /\ loop'.lines = loop.lines
                 /\ loop'.reconnect_count = 0
            /\ loop'.msg = Events!NoMsg
                 /\ loop'.last_event_id = loop.last_event_id
        BY <1>1, <1>14 DEF EventsTypes
      <3> QED
        BY <1>3, <1>5, <3>1
    <2>8. link' = [wire |-> w, half |-> FALSE, up |-> TRUE]
      BY <1>5, <1>14, <2>1
    <2>9. EventsTypes'
      <3>1. Events!NoMsg \in Messages
        <4>1. PICK e : e = Events!NoMsg.event
          OBVIOUS
        <4>2. Events!NoMsg = [event |-> e, data |-> 0, id |-> 0]
          BY <4>1 DEF Events!NoMsg
        <4>3. e \in Kinds
          BY <4>1 DEF Kinds
        <4> QED
          BY <4>2, <4>3 DEF Messages
      <3>2. loop' \in [at : {"open", "next", "lines", "wait", "gone", "denied"},
                       lines : Seq(SentLines), reconnect_count : Nat,
                       last_event_id : Nat, msg : Messages]
        BY <1>1, <1>14, <3>1 DEF EventsTypes
      <3>3. link' \in [wire : Seq(SentLines), half : BOOLEAN, up : BOOLEAN]
        BY <2>5, <2>8
      <3>4. refused' \in Nat
        BY <1>14
      <3> QED
        BY <1>1, <1>2, <3>2, <3>3, <3>4 DEF EventsTypes
    <2>10. DeliveredInv'
      BY <1>1, <1>2, <1>5, <2>7, DeliveredKept
    <2>11. FailuresInv'
      BY <2>7 DEF FailuresInv
    <2>12. StreamInv'
      <3>1. w = (loop.lines \o link.wire)'
        BY <2>5, <2>7, <2>8
      <3>2. m + 1 \in Nat /\ 1 <= m + 1 /\ m + 1 <= L + 1
        BY <2>2
      <3>3. MsgAt(s) = Events!NoMsg
        BY <1>4, <2>3, <2>4, <3>2, MsgAtBegin
      <3>4. s.n = m + 1
        BY <2>4 DEF Place
      <3>5. m < m + 1 /\ m + 1 <= D + 1
        BY <1>7
      <3>6. loop'.last_event_id < st[1].n /\ st[1].n <= LastData' + 1
        BY <1>6, <1>8, <2>6, <2>7, <3>4, <3>5
      <3> QED
        BY <1>2, <2>6, <2>7, <3>1, <3>3, <3>6, StreamOn
    <2> QED
      BY <2>9, <2>10, <2>11, <2>12 DEF EventsInv
  <1> QED
    BY <1>10, <1>11, <1>13, <1>14, <1>12 DEF Events!Open

-----------------------------------------------------------------------------
\* The client reads, waits, is stopped and is started again; the stream breaks
\* off.

LEMMA TourCut ==
  ASSUME NEW w \in Seq(SentLines), NEW st, Tour(w, st),
         NEW u \in Seq(SentLines), Len(u) <= Len(w),
         \A i \in 1 .. Len(u) : u[i] = w[i]
  PROVE  \E h : Tour(u, h) /\ h[1] = st[1]
  <1>1. PICK n \in Nat : n = 0
    OBVIOUS
  <1>2. PICK h : h = [i \in 1 .. Len(u) + 1 |-> st[n + i]]
    OBVIOUS
  <1>3. n + Len(u) <= Len(w)
    BY <1>1
  <1>4. \A i \in 1 .. Len(u) : u[i] = w[n + i]
    BY <1>1
  <1>5. Tour(u, h) /\ h[1] = st[n + 1]
    BY <1>2, <1>3, <1>4, TourPart
  <1> QED
    BY <1>1, <1>5

\* What a tour is of when nothing of it has been read and part of it is lost.
LEMMA StreamCut ==
  ASSUME EventsTypes, StreamInv, loop.at \in {"next", "lines"},
         feed' = feed, delivered' = delivered,
         NEW u \in Seq(SentLines), u = (loop.lines \o link.wire)',
         NEW w \in Seq(SentLines), w = loop.lines \o link.wire,
         Len(u) <= Len(w), \A i \in 1 .. Len(u) : u[i] = w[i],
         loop'.msg = loop.msg, loop'.last_event_id = loop.last_event_id,
         loop'.at # "lines" => loop'.lines = <<>>
  PROVE  StreamInv'
  <1>1. PICK st : /\ Tour(w, st) /\ loop.msg = MsgAt(st[1])
                  /\ loop.last_event_id < st[1].n /\ st[1].n <= LastData + 1
    BY DEF StreamInv
  <1>2. PICK h : Tour(u, h) /\ h[1] = st[1]
    BY ZenonT(60), <1>1, TourCut
  <1>6. LastData' = LastData
    BY DEF LastData
  <1>7. loop'.msg = MsgAt(h[1]) /\ loop'.last_event_id < h[1].n
        /\ h[1].n <= LastData' + 1
    BY <1>1, <1>2, <1>6
  <1> QED
    BY <1>2, <1>7, StreamOn

LEMMA EventsReceive ==
  ASSUME EventsInv, Events!Receive
  PROVE  EventsInv'
  <1>1. EventsTypes /\ DeliveredInv /\ StreamInv /\ FailuresInv
    BY DEF EventsInv
  <1>2. PICK n \in 0 .. Len(link.wire), half \in BOOLEAN :
          /\ loop' = [loop EXCEPT !.at = "lines",
                      !.lines = SubSeq(link.wire, 1, n)]
          /\ link' = [link EXCEPT !.half = half,
                       !.wire = SubSeq(link.wire, n + 1, Len(link.wire))]
    BY DEF Events!Receive
  <1>3. /\ loop.at = "next" /\ feed' = feed /\ delivered' = delivered
        /\ running_' = running_ /\ refused' = refused
    BY DEF Events!Receive
  <1>4. PICK w \in Seq(SentLines) : w = link.wire
    BY <1>1, EventsTyped
  <1>5. PICK L \in Nat : L = Len(w)
    OBVIOUS
  <1>6. n \in Nat /\ n <= L
    BY <1>4, <1>5
  <1>7. PICK a : a = SubSeq(w, 1, n)
    OBVIOUS
  <1>8. PICK b : b = SubSeq(w, n + 1, L)
    OBVIOUS
  <1>9. a \in Seq(SentLines) /\ Len(a) = n /\ \A i \in 1 .. n : a[i] = w[i]
    BY <1>5, <1>6, <1>7
  <1>10. b \in Seq(SentLines) /\ Len(b) = L - n
           /\ \A i \in 1 .. L - n : b[i] = w[n + i]
    BY <1>5, <1>6, <1>8
  <1>11. PICK u : u = a \o b
    OBVIOUS
  <1>12. u \in Seq(SentLines) /\ Len(u) = L
    <2>3. a \in Seq(SentLines) /\ b \in Seq(SentLines)
      BY <1>9, <1>10
    <2>1. u \in Seq(SentLines) /\ Len(u) = Len(a) + Len(b)
      BY <1>11, <2>3
    <2>2. n + (L - n) = L
      BY <1>6
    <2> QED
      BY <1>9, <1>10, <2>1, <2>2
  <1>13. ASSUME NEW i \in 1 .. L PROVE u[i] = w[i]
    <2>1. CASE i <= n
      BY <1>9, <1>10, <1>11, <2>1
    <2>2. CASE i > n
      <3>1. PICK k \in 1 .. L - n : i = n + k
        <4>1. i - n \in 1 .. L - n /\ i = n + (i - n)
          BY <1>6, <2>2
        <4> QED
          BY <4>1
      <3>2. u[n + k] = b[k]
        BY <1>6, <1>9, <1>10, <1>11
      <3> QED
        BY <1>10, <3>1, <3>2
    <2>3. i <= n \/ i > n
      BY <1>6
    <2> QED
      BY <2>1, <2>2, <2>3
  <1>14. /\ loop'.at = "lines" /\ loop'.lines = a /\ loop'.msg = loop.msg
         /\ loop'.reconnect_count = loop.reconnect_count
         /\ loop'.last_event_id = loop.last_event_id
    BY <1>1, <1>2, <1>4, <1>7 DEF EventsTypes
  <1>15. link'.wire = b
    BY <1>1, <1>2, <1>4, <1>5, <1>8 DEF EventsTypes
  <1>16. EventsTypes'
    <2>1. loop' \in [at : {"open", "next", "lines", "wait", "gone", "denied"},
                     lines : Seq(SentLines), reconnect_count : Nat,
                     last_event_id : Nat, msg : Messages]
      BY <1>1, <1>2, <1>4, <1>7, <1>9 DEF EventsTypes
    <2>2. link' \in [wire : Seq(SentLines), half : BOOLEAN, up : BOOLEAN]
      BY <1>1, <1>2, <1>4, <1>5, <1>8, <1>10 DEF EventsTypes
    <2> QED
      BY <1>1, <1>3, <2>1, <2>2 DEF EventsTypes
  <1>17. DeliveredInv'
    BY <1>1, <1>3, <1>14, DeliveredKept
  <1>18. StreamInv'
    <2>1. u = (loop.lines \o link.wire)'
      BY <1>11, <1>14, <1>15
    <2>2. loop.lines = <<>>
      BY <1>1, <1>3 DEF StreamInv
    <2>3. w = loop.lines \o link.wire
      BY <1>4, <2>2
    <2>4. Len(u) <= Len(w) /\ \A i \in 1 .. Len(u) : u[i] = w[i]
      BY <1>5, <1>12, <1>13
    <2> QED
      BY <1>1, <1>3, <1>12, <1>14, <2>1, <2>3, <2>4, StreamCut
  <1>19. FailuresInv'
    BY <1>1, <1>3, <1>14 DEF FailuresInv
  <1> QED
    BY <1>16, <1>17, <1>18, <1>19 DEF EventsInv

LEMMA EventsNoMore ==
  ASSUME EventsInv, Events!NoMore
  PROVE  EventsInv'
  <1>1. EventsTypes /\ DeliveredInv /\ StreamInv /\ FailuresInv
    BY DEF EventsInv
  <1>2. /\ loop.at = "next" /\ feed' = feed /\ delivered' = delivered
        /\ running_' = running_ /\ refused' = refused /\ link' = Events!NoLink
    BY DEF Events!NoMore
  <1>3. loop.lines = <<>>
    BY <1>1, <1>2 DEF StreamInv
  <1>4. loop.reconnect_count = 0
    BY <1>1, <1>2 DEF FailuresInv
  <1>5. PICK at : /\ at \in {"wait", "gone"} /\ loop' = [loop EXCEPT !.at = at]
                  /\ at = "gone" => ~ running_
    <2>1. CASE running_
      <3>1. PICK at : /\ at \in {"wait", "gone"}
                      /\ loop' = [loop EXCEPT !.at = at]
                      /\ at = "gone" => Exhausted
        BY <1>1, <2>1, TriesAgain DEF Events!NoMore
      <3>2. PICK x \in Nat : x = max_reconnect_attempts
        BY MessageAssumption
      <3>3. at # "gone"
        BY <1>4, <3>1, <3>2 DEF Exhausted
      <3> QED
        BY <3>1, <3>3
    <2>2. CASE ~ running_
      <3>1. loop' = [loop EXCEPT !.at = "gone"]
        BY <2>2 DEF Events!NoMore, Events!Go
      <3> QED
        BY <2>2, <3>1
    <2> QED
      BY <2>1, <2>2
  <1>6. Goes(at)
    BY <1>1, <1>5, GoesTo
  <1>7. EventsTypes'
    <2>1. link' \in [wire : Seq(SentLines), half : BOOLEAN, up : BOOLEAN]
      <3>1. <<>> \in Seq(SentLines)
        OBVIOUS
      <3> QED
        BY <1>2, <3>1 DEF Events!NoLink
    <2>2. at \in {"open", "next", "lines", "wait", "gone", "denied"}
      BY <1>5
    <2> QED
      BY <1>1, <1>2, <1>5, <1>6, <2>1, <2>2, GoesTyped DEF EventsTypes
  <1>8. DeliveredInv'
    BY <1>1, <1>2, <1>6, DeliveredKept DEF Goes
  <1>9. StreamInv'
    BY <1>3, <1>5, <1>6, StreamOff DEF Goes
  <1>10. FailuresInv'
    <2>1. 0 <= refused
      BY <1>1, EventsTyped
    <2> QED
      BY <1>2, <1>4, <1>5, <1>6, <2>1 DEF FailuresInv, Goes
  <1> QED
    BY <1>7, <1>8, <1>9, <1>10 DEF EventsInv

LEMMA EventsReconnect ==
  ASSUME EventsInv, Events!Reconnect
  PROVE  EventsInv'
  <1>1. EventsTypes /\ DeliveredInv /\ StreamInv /\ FailuresInv
    BY DEF EventsInv
  <1>2. /\ loop.at = "wait" /\ feed' = feed /\ delivered' = delivered
        /\ running_' = running_ /\ refused' = refused /\ link' = link
        /\ loop' = [loop EXCEPT !.at = "open", !.reconnect_count = @ + 1]
    BY DEF Events!Reconnect
  <1>3. loop.lines = <<>>
    BY <1>1, <1>2 DEF StreamInv
  <1>4. PICK c \in Nat : c = loop.reconnect_count
    BY <1>1, EventsTyped
  <1>5. PICK r \in Nat : r = refused
    BY <1>1, EventsTyped
  <1>6. c <= r
    BY <1>1, <1>2, <1>4, <1>5 DEF FailuresInv
  <1>7. /\ loop'.at = "open" /\ loop'.lines = <<>>
             /\ loop'.reconnect_count = c + 1
        /\ loop'.last_event_id = loop.last_event_id
    BY <1>1, <1>2, <1>3, <1>4 DEF EventsTypes
  <1>8. EventsTypes'
    <2>1. c + 1 \in Nat
      OBVIOUS
    <2>2. loop' = [loop EXCEPT !.at = "open", !.reconnect_count = c + 1]
      BY <1>2, <1>4
    <2>3. loop' \in [at : {"open", "next", "lines", "wait", "gone", "denied"},
                     lines : Seq(SentLines), reconnect_count : Nat,
                     last_event_id : Nat, msg : Messages]
      BY <1>1, <2>1, <2>2 DEF EventsTypes
    <2> QED
      BY <1>1, <1>2, <2>3 DEF EventsTypes
  <1>9. DeliveredInv'
    BY <1>1, <1>2, <1>7, DeliveredKept
  <1>10. StreamInv'
    BY <1>7, StreamOff
  <1>11. FailuresInv'
    <2>1. c + 1 <= r + 1
      BY <1>6
    <2> QED
      BY <1>2, <1>5, <1>7, <2>1 DEF FailuresInv
  <1> QED
    BY <1>8, <1>9, <1>10, <1>11 DEF EventsInv

LEMMA EventsBreakOff ==
  ASSUME EventsInv, Events!BreakOff
  PROVE  EventsInv'
  <1>1. EventsTypes /\ DeliveredInv /\ StreamInv /\ FailuresInv
    BY DEF EventsInv
  <1>2. /\ loop' = loop /\ feed' = feed /\ delivered' = delivered
        /\ running_' = running_ /\ refused' = refused
        /\ link' = [link EXCEPT !.wire = <<>>, !.up = FALSE]
    BY DEF Events!BreakOff
  <1>3. EventsTypes'
    <2>1. <<>> \in Seq(SentLines)
      OBVIOUS
    <2>2. link' \in [wire : Seq(SentLines), half : BOOLEAN, up : BOOLEAN]
      BY <1>1, <1>2, <2>1 DEF EventsTypes
    <2> QED
      BY <1>1, <1>2, <2>2 DEF EventsTypes
  <1>4. DeliveredInv'
    BY <1>1, <1>2, DeliveredKept
  <1>5. FailuresInv'
    <2>1. LastData' = LastData
      BY <1>2 DEF LastData
    <2> QED
      BY <1>1, <1>2, <2>1 DEF FailuresInv
  <1>6. StreamInv'
    <2>1. CASE loop.at \in {"next", "lines"}
      <3>1. PICK a \in Seq(SentLines) : a = loop.lines
        BY <1>1, EventsTyped
      <3>2. PICK b \in Seq(SentLines) : b = link.wire
        BY <1>1, EventsTyped
      <3>3. PICK w : w = a \o b
        OBVIOUS
      <3>4. w \in Seq(SentLines) /\ Len(a) <= Len(w)
              /\ \A i \in 1 .. Len(a) : a[i] = w[i]
        BY <3>3
      <3>5. link'.wire = <<>>
        BY <1>1, <1>2 DEF EventsTypes
      <3>6. a = a \o <<>>
        OBVIOUS
      <3>7. a = (loop.lines \o link.wire)'
        BY <1>2, <3>1, <3>5, <3>6
      <3>8. w = loop.lines \o link.wire
        BY <3>1, <3>2, <3>3
      <3>9. loop'.at # "lines" => loop'.lines = <<>>
        BY <1>1, <1>2 DEF StreamInv
      <3> QED
        BY <1>1, <1>2, <2>1, <3>4, <3>7, <3>8, <3>9, StreamCut
    <2>2. CASE loop.at \notin {"next", "lines"}
      BY <1>1, <1>2, <2>2 DEF StreamInv
    <2> QED
      BY <2>1, <2>2
  <1> QED
    BY <1>3, <1>4, <1>5, <1>6 DEF EventsInv

\* A step that changes nothing but whether the client was stopped.
LEMMA EventsStop ==
  ASSUME EventsInv, loop' = loop, feed' = feed, delivered' = delivered,
         refused' = refused, link' = link,
         running_' = running_ \/ running_' = FALSE
  PROVE  EventsInv'
  <1>1. EventsTypes /\ DeliveredInv /\ StreamInv /\ FailuresInv
    BY DEF EventsInv
  <1>2. EventsTypes'
    BY <1>1 DEF EventsTypes
  <1>3. DeliveredInv'
    BY <1>1, DeliveredKept
  <1>4. LastData' = LastData
    BY DEF LastData
  <1>5. FailuresInv'
    <2>1. CASE running_' = running_
      BY <1>1, <1>4, <2>1 DEF FailuresInv
    <2>2. CASE running_' = FALSE
      BY <1>1, <1>4, <2>2 DEF FailuresInv
    <2> QED
      BY <2>1, <2>2
  <1>6. StreamInv'
    <2>1. CASE loop.at \in {"next", "lines"}
      <3>1. PICK w : w = loop.lines \o link.wire
        OBVIOUS
      <3>2. PICK st : /\ Tour(w, st) /\ loop.msg = MsgAt(st[1])
                      /\ loop.last_event_id < st[1].n /\ st[1].n <= LastData + 1
        BY <1>1, <2>1, <3>1 DEF StreamInv
      <3>3. w = (loop.lines \o link.wire)'
        BY <3>1
      <3>4. loop'.at # "lines" => loop'.lines = <<>>
        BY <1>1 DEF StreamInv
      <3> QED
        BY <1>4, <3>2, <3>3, <3>4, StreamOn
    <2>2. CASE loop.at \notin {"next", "lines"}
      BY <1>1, <2>2 DEF StreamInv
    <2> QED
      BY <2>1, <2>2
  <1> QED
    BY <1>2, <1>3, <1>5, <1>6 DEF EventsInv

LEMMA EventsStart ==
  ASSUME EventsInv, Events!Start
  PROVE  EventsInv'
  <1>1. EventsTypes /\ DeliveredInv /\ StreamInv /\ FailuresInv
    BY DEF EventsInv
  <1>2. /\ feed' = feed /\ delivered' = delivered /\ running_' = TRUE
        /\ refused' = 0 /\ link' = link
        /\ loop' = [loop EXCEPT !.at = "open", !.lines = <<>>,
                    !.reconnect_count = 0]
    BY DEF Events!Start
  <1>3. /\ loop'.at = "open" /\ loop'.lines = <<>> /\ loop'.reconnect_count = 0
        /\ loop'.last_event_id = loop.last_event_id
    BY <1>1, <1>2 DEF EventsTypes
  <1>4. EventsTypes'
    <2>1. <<>> \in Seq(SentLines)
      OBVIOUS
    <2>2. loop' \in [at : {"open", "next", "lines", "wait", "gone", "denied"},
                     lines : Seq(SentLines), reconnect_count : Nat,
                     last_event_id : Nat, msg : Messages]
      BY <1>1, <1>2, <2>1 DEF EventsTypes
    <2> QED
      BY <1>1, <1>2, <2>2 DEF EventsTypes
  <1>5. DeliveredInv'
    BY <1>1, <1>2, <1>3, DeliveredKept
  <1>6. StreamInv'
    BY <1>3, StreamOff
  <1>7. FailuresInv'
    BY <1>2, <1>3 DEF FailuresInv
  <1> QED
    BY <1>4, <1>5, <1>6, <1>7 DEF EventsInv

-----------------------------------------------------------------------------
\* A line is looked at, and with the blank one an event is delivered.

\* The next event is delivered.
LEMMA DeliveredMore ==
  ASSUME EventsTypes, DeliveredInv, feed' = feed,
         NEW n \in Nat, loop.last_event_id < n, n <= LastData + 1,
         n <= Len(feed),
         NEW e, e = [event |-> feed[n].type, data |-> n,
                     id |-> IF feed[n].id THEN n ELSE 0],
         delivered' = Append(delivered, e),
         loop'.last_event_id = IF e.id # 0 THEN e.id ELSE loop.last_event_id
  PROVE  /\ DeliveredInv' /\ LastData' = n
         /\ loop'.last_event_id \in Nat /\ loop'.last_event_id <= n
  <1>1. PICK d \in Seq(Messages) : d = delivered
    BY EventsTyped
  <1>2. PICK k \in Nat : k = Len(d)
    OBVIOUS
  <1>3. PICK x : x = Append(d, e)
    OBVIOUS
  <1>4. Len(x) = k + 1 /\ x[k + 1] = e /\ (\A i \in 1 .. k : x[i] = d[i])
        /\ DOMAIN x = 1 .. k + 1 /\ x # <<>> /\ DOMAIN d = 1 .. k
    BY <1>2, <1>3
  <1>5. delivered' = x
    BY <1>1, <1>3
  <1>6. LastData' = n
    <2>1. x[Len(x)] = e /\ x # <<>>
      BY <1>4
    <2>2. LastData' = IF x = <<>> THEN 0 ELSE x[Len(x)].data
      BY <1>5 DEF LastData
    <2>3. LastData' = e.data
      BY <2>1, <2>2
    <2> QED
      BY <2>3
  <1>20. ASSUME NEW q \in Seq(Messages), Len(q) = 0 PROVE q = <<>>
    BY <1>20
  <1>7. \A i \in 1 .. k : d[i] \in Messages
    BY <1>2
  <1>8. \A i \in 1 .. k : d[i].id \in Nat /\ d[i].data \in Nat
    BY <1>7 DEF Messages
  <1>9. PICK m \in Nat : m = loop.last_event_id
    BY EventsTyped
  <1>10. IsKnown(k, m)
    BY <1>1, <1>2, <1>9 DEF DeliveredInv
  <1>11. (m = 0 \/ \E j \in 1 .. k : m = d[j].id)
           /\ \A j \in 1 .. k : d[j].id <= m
    BY <1>1, <1>10 DEF IsKnown
  <1>12. Events!Known(k) = m
    <2>1. \A j \in 1 .. k : delivered[j].id \in Nat
      BY <1>1, <1>8
    <2> QED
      BY <1>10, <2>1, KnownMax
  <1>13. PICK b \in Nat : b = e.id /\ (b = 0 \/ b = n)
    <2>1. e.id = 0 \/ e.id = n
      OBVIOUS
    <2> QED
      BY <2>1
  <1>14. PICK p \in Nat : p = loop'.last_event_id /\ p = IF b # 0 THEN b ELSE m
    BY <1>9, <1>13
  <1>15. m <= p /\ p <= n /\ b <= p
    BY <1>9, <1>13, <1>14
  <1>16. IsKnown(Len(delivered), loop.last_event_id)'
    <2>1. p = 0 \/ \E j \in 1 .. k + 1 : p = x[j].id
      <3>1. CASE b # 0
        <4>1. p = x[k + 1].id /\ k + 1 \in 1 .. k + 1
          BY <1>4, <1>13, <1>14, <3>1
        <4> QED
          BY <4>1
      <3>2. CASE b = 0 /\ m # 0
        <4>1. PICK j \in 1 .. k : m = d[j].id
          BY <1>11, <3>2
        <4>2. j \in 1 .. k + 1 /\ p = x[j].id
          BY <1>4, <1>14, <3>2, <4>1
        <4> QED
          BY <4>2
      <3>3. CASE b = 0 /\ m = 0
        BY <1>14, <3>3
      <3> QED
        BY <3>1, <3>2, <3>3
    <2>2. ASSUME NEW j \in 1 .. k + 1 PROVE x[j].id <= p
      <3>1. CASE j = k + 1
        BY <1>4, <1>13, <1>15, <3>1
      <3>2. CASE j # k + 1
        <4>1. j \in 1 .. k
          BY <3>2
        <4>2. PICK y \in Nat : y = d[j].id
          BY <1>8, <4>1
        <4>3. y <= m /\ x[j].id = y
          BY <1>4, <1>11, <4>1, <4>2
        <4> QED
          BY <1>15, <4>2, <4>3
      <3> QED
        BY <3>1, <3>2
    <2>3. (\E j \in 1 .. k + 1 : p = x[j].id)
            => \E j \in 1 .. Len(x) : p = x[j].id
      BY <1>4
    <2> QED
      BY <1>4, <1>5, <1>14, <2>1, <2>2, <2>3 DEF IsKnown
  <1>17. ASSUME NEW i \in 1 .. k + 1 PROVE DeliveredAt(i)'
    <2>1. PICK j \in Nat : j = i - 1
      OBVIOUS
    <2>2. j \in 0 .. k /\ i = j + 1
      BY <2>1
    <2>3. Events!Known(i - 1)' = Events!Known(j)
      <3>1. {x[h].id : h \in 1 .. j} = {d[h].id : h \in 1 .. j}
        <4>1. \A h \in 1 .. j : h \in 1 .. k
          BY <2>2
        <4>2. \A h \in 1 .. j : x[h].id = d[h].id
          BY <1>4, <4>1
        <4> QED
          BY <4>2
      <3>2. PICK ids : ids = {0} \cup {d[h].id : h \in 1 .. j}
        OBVIOUS
      <3>3. ids = {0} \cup {x[h].id : h \in 1 .. j}
        BY <3>1, <3>2
      <3>4. Events!Known(j) = CHOOSE v \in ids : \A h \in ids : h <= v
        BY <1>1, <3>2 DEF Events!Known
      <3>5. Events!Known(i - 1)' = CHOOSE v \in ids : \A h \in ids : h <= v
        BY <1>5, <2>1, <3>3 DEF Events!Known
      <3> QED
        BY <3>4, <3>5
    <2>4. CASE i = k + 1
      <3>1. x[i] = e /\ j = k
        BY <1>4, <2>2, <2>4
      <3>2. e.data = n /\ e.event = feed[n].type /\ e.id = IF feed[n].id
              THEN n ELSE 0
        OBVIOUS
      <3>3. Events!Known(i - 1)' = m
        BY <1>12, <2>3, <3>1
      <3>4. n > m
        BY <1>9
      <3>5. LastData = IF i = 1 THEN 0 ELSE x[i - 1].data
        <4>1. CASE k = 0
          <5>1. d = <<>>
            BY <1>2, <1>20, <4>1
          <5> QED
            BY <1>1, <2>4, <4>1, <5>1 DEF LastData
        <4>2. CASE k # 0
          <5>1. d # <<>> /\ i # 1 /\ i - 1 = k /\ k \in 1 .. k
            BY <1>2, <2>4, <4>2
          <5>2. x[i - 1] = d[k]
            BY <1>4, <5>1
          <5> QED
            BY <1>1, <1>2, <5>1, <5>2 DEF LastData
        <4> QED
          BY <4>1, <4>2
      <3>6. PICK D \in Nat : D = LastData
        BY LastTyped
      <3>7. n <= 1 + D
        BY <3>6
      <3> QED
        BY <1>5, <3>1, <3>2, <3>3, <3>4, <3>5, <3>6, <3>7 DEF DeliveredAt
    <2>5. CASE i # k + 1
      <3>1. i \in 1 .. k /\ i \in DOMAIN delivered
        BY <1>1, <1>4, <2>5
      <3>2. DeliveredAt(i)
        BY <3>1 DEF DeliveredInv
      <3>3. x[i] = d[i]
        BY <1>4, <3>1
      <3>4. i # 1 => x[i - 1] = d[i - 1]
        <4>1. SUFFICES ASSUME i # 1 PROVE x[i - 1] = d[i - 1]
          OBVIOUS
        <4>2. i - 1 \in 1 .. k
          BY <3>1, <4>1
        <4> QED
          BY <1>4, <4>2
      <3> QED
        BY <1>1, <1>5, <2>1, <2>3, <3>2, <3>3, <3>4 DEF DeliveredAt
    <2> QED
      BY <2>4, <2>5
  <1>18. \A i \in DOMAIN delivered' : DeliveredAt(i)'
    BY <1>4, <1>5, <1>17
  <1>19. (loop.last_event_id <= LastData /\ LastData <= Len(feed))'
    BY <1>6, <1>14, <1>15
  <1> QED
    BY <1>6, <1>14, <1>15, <1>16, <1>18, <1>19 DEF DeliveredInv

\* The sequence without its first line.
LEMMA TailJoin ==
  ASSUME NEW a \in Seq(SentLines), a # <<>>, NEW b \in Seq(SentLines),
         NEW w, w = a \o b, NEW u, u = Tail(a) \o b
  PROVE  /\ w \in Seq(SentLines) /\ u \in Seq(SentLines)
         /\ 1 + Len(u) <= Len(w) /\ \A i \in 1 .. Len(u) : u[i] = w[1 + i]
         /\ 1 \in 1 .. Len(w) /\ Head(a) = w[1] /\ Tail(a) \in Seq(SentLines)
  <1>1. PICK L \in Nat : L = Len(a)
    OBVIOUS
  <1>2. PICK M \in Nat : M = Len(b)
    OBVIOUS
  <1>3. L >= 1
    BY <1>1
  <1>4. PICK c : c = Tail(a)
    OBVIOUS
  <1>5. c \in Seq(SentLines) /\ Len(c) = L - 1
          /\ \A i \in 1 .. L - 1 : c[i] = a[i + 1]
    BY <1>1, <1>3, <1>4
  <1>6. w \in Seq(SentLines) /\ Len(w) = L + M
          /\ (\A i \in 1 .. L : w[i] = a[i])
        /\ \A i \in 1 .. M : w[L + i] = b[i]
    BY <1>1, <1>2
  <1>7. u \in Seq(SentLines) /\ Len(u) = (L - 1) + M
        /\ (\A i \in 1 .. L - 1 : u[i] = c[i])
        /\ \A i \in 1 .. M : u[(L - 1) + i] = b[i]
    <2>1. c \in Seq(SentLines)
      BY <1>5
    <2>2. Len(c) = L - 1
      BY <1>5
    <2> QED
      BY <1>2, <1>4, <2>1, <2>2
  <1>8. ASSUME NEW i \in 1 .. L + M - 1 PROVE u[i] = w[1 + i]
    <2>1. CASE i <= L - 1
      <3>1. i \in 1 .. L - 1 /\ i + 1 \in 1 .. L /\ 1 + i = i + 1
        BY <2>1
      <3> QED
        BY <1>5, <1>6, <1>7, <3>1
    <2>2. CASE i > L - 1
      <3>1. PICK k \in Int : k = i - (L - 1)
        OBVIOUS
      <3>2. k \in 1 .. M /\ i = (L - 1) + k /\ 1 + i = L + k
        BY <1>3, <2>2, <3>1
      <3>3. u[i] = b[k]
        BY <1>7, <3>2
      <3>4. w[1 + i] = b[k]
        BY <1>6, <3>2
      <3> QED
        BY <3>3, <3>4
    <2>3. i <= L - 1 \/ i > L - 1
      OBVIOUS
    <2> QED
      BY <2>1, <2>2, <2>3
  <1>9. (L - 1) + M = L + M - 1 /\ 1 + (L + M - 1) <= L + M /\ 1 \in 1 .. L
        /\ 1 \in 1 .. L + M
    BY <1>3
  <1>10. Head(a) = w[1]
    BY <1>6, <1>9
  <1>11. Len(u) = L + M - 1
    BY <1>7, <1>9
  <1>12. \A i \in 1 .. Len(u) : u[i] = w[1 + i]
    BY <1>8, <1>11
  <1>13. 1 + Len(u) <= Len(w) /\ 1 \in 1 .. Len(w)
    BY <1>6, <1>9, <1>11
  <1> QED
    BY <1>4, <1>5, <1>6, <1>7, <1>10, <1>12, <1>13

\* u is a part of w from n + 1 on.
PartOf(u, w, n) ==
  n + Len(u) <= Len(w) /\ \A i \in 1 .. Len(u) : u[i] = w[n + i]

LEMMA TourFrom ==
  ASSUME NEW w \in Seq(SentLines), NEW st, Tour(w, st),
         NEW u \in Seq(SentLines), NEW n \in Nat, PartOf(u, w, n)
  PROVE  \E h : Tour(u, h) /\ h[1] = st[n + 1]
  <1>1. PICK h : h = [i \in 1 .. Len(u) + 1 |-> st[n + i]]
    OBVIOUS
  <1>2. n + Len(u) <= Len(w)
    BY DEF PartOf
  <1>3. \A i \in 1 .. Len(u) : u[i] = w[n + i]
    BY DEF PartOf
  <1>4. Tour(u, h) /\ h[1] = st[n + 1]
    BY <1>1, <1>2, <1>3, TourPart
  <1> QED
    BY <1>4

LEMMA EventsNextLine ==
  ASSUME EventsInv, Events!NextLine
  PROVE  EventsInv'
  <1>1. EventsTypes /\ DeliveredInv /\ StreamInv /\ FailuresInv
    BY DEF EventsInv
  <1>2. /\ loop.at = "lines" /\ feed' = feed /\ link' = link
        /\ running_' = running_ /\ refused' = refused
    BY DEF Events!NextLine
  <1>3. loop.reconnect_count = 0
    BY <1>1, <1>2 DEF FailuresInv
  <1>4. CASE loop.lines = <<>>
    <2>1. loop' = [loop EXCEPT !.at = "next"] /\ delivered' = delivered
      BY <1>4 DEF Events!NextLine, Events!Go
    <2>2. Goes("next")
      BY <1>1, <2>1, GoesTo
    <2>3. EventsTypes'
      <3>1. "next" \in {"open", "next", "lines", "wait", "gone", "denied"}
        OBVIOUS
      <3> QED
        BY <1>1, <1>2, <2>1, <2>2, <3>1, GoesTyped DEF EventsTypes
    <2>4. DeliveredInv'
      BY <1>1, <1>2, <2>1, <2>2, DeliveredKept DEF Goes
    <2>5. FailuresInv'
      BY <1>3, <2>2 DEF FailuresInv, Goes
    <2>6. StreamInv'
      <3>1. PICK w : w = loop.lines \o link.wire
        OBVIOUS
      <3>2. PICK st : /\ Tour(w, st) /\ loop.msg = MsgAt(st[1])
                      /\ loop.last_event_id < st[1].n /\ st[1].n <= LastData + 1
        BY <1>1, <1>2, <3>1 DEF StreamInv
      <3>3. w = (loop.lines \o link.wire)'
        BY <1>2, <2>2, <3>1 DEF Goes
      <3>4. LastData' = LastData
        BY <2>1 DEF LastData
      <3> QED
        BY <1>2, <1>4, <2>2, <3>2, <3>3, <3>4, StreamOn DEF Goes
    <2> QED
      BY <2>3, <2>4, <2>5, <2>6 DEF EventsInv
  <1>5. CASE loop.lines # <<>>
    <2>1. PICK a \in Seq(SentLines) : a = loop.lines
      BY <1>1, EventsTyped
    <2>2. PICK b \in Seq(SentLines) : b = link.wire
      BY <1>1, EventsTyped
    <2>3. PICK w : w = a \o b
      OBVIOUS
    <2>4. PICK u : u = Tail(a) \o b
      OBVIOUS
    <2>5. a # <<>>
      BY <1>5, <2>1
    <2>6. /\ w \in Seq(SentLines) /\ u \in Seq(SentLines)
          /\ 1 + Len(u) <= Len(w) /\ (\A i \in 1 .. Len(u) : u[i] = w[1 + i])
          /\ 1 \in 1 .. Len(w) /\ Head(a) = w[1] /\ Tail(a) \in Seq(SentLines)
      BY <2>3, <2>4, <2>5, TailJoin
    <2>7. PICK st : /\ Tour(w, st) /\ loop.msg = MsgAt(st[1])
                    /\ loop.last_event_id < st[1].n /\ st[1].n <= LastData + 1
      <3>1. w = loop.lines \o link.wire
        BY <2>1, <2>2, <2>3
      <3> QED
        BY <1>1, <1>2, <3>1 DEF StreamInv
    <2>8. PICK s : s = st[1]
      OBVIOUS
    <2>9. PICK t : t = NextPlace(s)
      OBVIOUS
    <2>10. s \in Places /\ Placed(s) /\ s.f # "end" /\ w[1] = LineAt(s)
             /\ st[1 + 1] = t
      <3>1. 1 \in 1 .. Len(w) + 1
        BY <2>6
      <3>2. st \in [1 .. Len(w) + 1 -> Places] /\ Placed(st[1])
        BY <2>7, <3>1 DEF Tour
      <3>3. st[1].f # "end" /\ w[1] = LineAt(st[1])
              /\ st[1 + 1] = NextPlace(st[1])
        BY <2>6, <2>7 DEF Tour
      <3>4. st[1] \in Places
        BY <3>1, <3>2
      <3> QED
        BY <2>8, <2>9, <3>2, <3>3, <3>4
    <2>11. PICK h : Tour(u, h) /\ h[1] = t
      <3>1. w \in Seq(SentLines) /\ u \in Seq(SentLines)
        BY <2>6
      <3>2. PartOf(u, w, 1)
        BY <2>6 DEF PartOf
      <3>3. Tour(w, st)
        BY <2>7
      <3>6. 1 \in Nat
        OBVIOUS
      <3>4. PICK h : Tour(u, h) /\ h[1] = st[1 + 1]
        BY <3>1, <3>2, <3>3, <3>6, TourFrom
      <3>5. st[1 + 1] = t
        BY <2>10
      <3> QED
        BY <3>4, <3>5
    <2>12. PICK n \in Nat : n = s.n /\ 1 <= n /\ n <= Len(feed)
      <3>1. s.n <= Len(feed)
        BY <1>1, <2>10, EventsTyped, NextPlaced
      <3>2. s.n \in Nat /\ 1 <= s.n
        BY <2>10 DEF Places, Placed
      <3> QED
        BY <3>1, <3>2
    <2>13. FeedTyped /\ feed[n].id \in BOOLEAN /\ feed[n].type \in STRING
      BY <1>1, <2>12, EventsTyped, EventTyped
    <2>14. PICK line : line = Head(loop.lines)
      OBVIOUS
    <2>15. line = LineAt(s)
      BY <2>1, <2>6, <2>10, <2>14
    <2>16. loop.msg = MsgAt(s) /\ loop.last_event_id < n /\ n <= LastData + 1
      BY <2>7, <2>8, <2>12
    <2>17. PICK more \in BOOLEAN :
             more <=> line.field = "blank" /\ loop.msg.data # 0
      OBVIOUS
    <2>18. /\ loop' = [loop EXCEPT
                   !.lines = Tail(a),
                   !.last_event_id =
                     IF more /\ loop.msg.id # 0 THEN loop.msg.id
                     ELSE loop.last_event_id,
                   !.msg = IF more THEN Events!NoMsg ELSE Events!Parsed(line)]
           /\ delivered' = IF more THEN Append(delivered, loop.msg)
                ELSE delivered
      BY <1>5, <2>1, <2>14, <2>17 DEF Events!NextLine, Events!Dispatch
    <2>19. ASSUME NEW id \in Nat, NEW msg \in Messages,
                  loop' = [loop EXCEPT !.lines = Tail(a), !.last_event_id = id,
                                       !.msg = msg],
                  delivered' \in Seq(Messages), DeliveredInv',
                  msg = MsgAt(t), id < t.n, t.n <= LastData' + 1
           PROVE  EventsInv'
      <3>1. /\ loop'.at = "lines" /\ loop'.lines = Tail(a) /\ loop'.msg = msg
            /\ loop'.reconnect_count = 0 /\ loop'.last_event_id = id
        BY <1>1, <1>2, <1>3, <2>19 DEF EventsTypes
      <3>2. EventsTypes'
        <4>1. loop' \in [at : {"open", "next", "lines", "wait", "gone", "denied"},
                         lines : Seq(SentLines), reconnect_count : Nat,
                         last_event_id : Nat, msg : Messages]
          BY <1>1, <2>6, <2>19 DEF EventsTypes
        <4> QED
          BY <1>1, <1>2, <2>19, <4>1 DEF EventsTypes
      <3>3. FailuresInv'
        BY <3>1 DEF FailuresInv
      <3>4. StreamInv'
        <4>1. u = (loop.lines \o link.wire)'
          BY <1>2, <2>2, <2>4, <3>1
        <4> QED
          BY <1>2, <2>11, <2>19, <3>1, <4>1, StreamOn
      <3> QED
        BY <2>19, <3>2, <3>3, <3>4 DEF EventsInv
    <2>20. PICK D \in Nat : D = LastData
      BY <1>1, LastTyped
    <2>21. PICK m \in Nat : m = loop.last_event_id
      BY <1>1, EventsTyped
    <2>22. PICK e : e = loop.msg
      OBVIOUS
    <2>23. e \in Messages
      BY <1>1, <2>22, EventsTyped
    <2>24. s.f \in {"id", "event", "data", "blank"}
      BY <2>10 DEF Places
    <2>25. CASE s.f = "blank"
      <3>1. e = [event |-> feed[n].type, data |-> n,
                 id |-> IF feed[n].id THEN n ELSE 0]
        BY <2>12, <2>16, <2>22, <2>25 DEF MsgAt
      <3>2. line.field = "blank"
        BY <2>15, <2>25 DEF LineAt, Events!Line
      <3>3. more
        <4>1. loop.msg.data = n /\ n # 0
          BY <2>12, <2>22, <3>1
        <4> QED
          BY <2>17, <3>2, <4>1
      <3>4. delivered' = Append(delivered, e)
        BY <2>18, <2>22, <3>3
      <3>5. PICK id : id = IF e.id # 0 THEN e.id ELSE loop.last_event_id
        OBVIOUS
      <3>6. PICK msg : msg = Events!NoMsg
        OBVIOUS
      <3>7. loop' = [loop EXCEPT !.lines = Tail(a), !.last_event_id = id,
                     !.msg = msg]
        BY <2>18, <2>22, <3>3, <3>5, <3>6
      <3>8. loop'.last_event_id = id
        BY <1>1, <3>7 DEF EventsTypes
      <3>9. DeliveredInv' /\ LastData' = n /\ loop'.last_event_id \in Nat
            /\ loop'.last_event_id <= n
        BY <1>1, <1>2, <2>12, <2>16, <3>1, <3>4, <3>5, <3>8, DeliveredMore
      <3>10. id \in Nat /\ id <= n
        BY <3>8, <3>9
      <3>11. t = Place(n + 1, Begins(n + 1))
        BY <2>9, <2>12, <2>25 DEF NextPlace, Place
      <3>12. PICK k \in Nat : k = n + 1
        OBVIOUS
      <3>13. 1 <= k /\ k <= Len(feed) + 1
        <4>1. PICK L \in Nat : L = Len(feed)
          BY <1>1, EventsTyped
        <4> QED
          BY <2>12, <3>12, <4>1
      <3>14. t = Place(k, Begins(k))
        BY <3>11, <3>12
      <3>15. msg = MsgAt(t)
        BY <2>13, <3>6, <3>13, <3>14, MsgAtBegin
      <3>16. t.n = k
        BY <3>14 DEF Place
      <3>17. id < t.n /\ t.n <= LastData' + 1
        BY <3>9, <3>10, <3>12, <3>16
      <3>18. msg \in Messages
        <4>1. PICK none : none = Events!NoMsg.event
          OBVIOUS
        <4>2. msg = [event |-> none, data |-> 0, id |-> 0]
          BY <3>6, <4>1 DEF Events!NoMsg
        <4>3. none \in Kinds
          BY <4>1 DEF Kinds
        <4> QED
          BY <4>2, <4>3 DEF Messages
      <3>19. delivered' \in Seq(Messages)
        <4>1. PICK d \in Seq(Messages) : d = delivered
          BY <1>1, EventsTyped
        <4>2. Append(d, e) \in Seq(Messages)
          BY <2>23
        <4> QED
          BY <3>4, <4>1, <4>2
      <3> QED
        BY <2>19, <3>7, <3>9, <3>10, <3>15, <3>17, <3>18, <3>19
    <2>26. CASE s.f # "blank"
      <3>1. line.field = s.f
        BY <2>15, <2>24, <2>26 DEF LineAt, Events!Line
      <3>2. ~ more
        BY <2>17, <2>26, <3>1
      <3>3. delivered' = delivered
        BY <2>18, <3>2
      <3>4. PICK msg : msg = Events!Parsed(line)
        OBVIOUS
      <3>5. loop' = [loop EXCEPT !.lines = Tail(a), !.last_event_id = m,
                     !.msg = msg]
        BY <2>18, <2>21, <3>2, <3>4
      <3>6. loop'.last_event_id = loop.last_event_id
        BY <1>1, <2>21, <3>5 DEF EventsTypes
      <3>7. DeliveredInv'
        BY <1>1, <1>2, <3>3, <3>6, DeliveredKept
      <3>8. LastData' = LastData
        BY <3>3 DEF LastData
      <3>9. t.n = n
        BY <2>9, <2>12, <2>24, <2>26 DEF NextPlace
      <3>10. m < t.n /\ t.n <= LastData' + 1
        BY <2>16, <2>21, <3>8, <3>9
      <3>11. msg = MsgAt(t) /\ msg \in Messages
        <4>1. CASE s.f = "id"
          <5>1. line.value = n /\ line.field = "id"
            BY <2>12, <2>15, <4>1 DEF LineAt, Events!Line
          <5>2. msg = [e EXCEPT !.id = n]
            BY <2>22, <3>4, <5>1 DEF Events!Parsed
          <5>3. msg \in Messages
            BY <2>23, <5>2 DEF Messages
          <5>4. feed[n].id
            BY <2>10, <2>12, <4>1 DEF Placed
          <5>5. PICK none : none = Events!NoMsg.event
            OBVIOUS
          <5>6. e = [event |-> none, data |-> 0, id |-> 0]
            BY <2>16, <2>22, <4>1, <5>5 DEF MsgAt, Events!NoMsg
          <5>7. msg = [event |-> none, data |-> 0, id |-> n]
            BY <5>2, <5>6
          <5>8. t.f = IF feed[n].type # "" THEN "event" ELSE "data"
            BY <2>9, <2>12, <4>1 DEF NextPlace
          <5>9. MsgAt(t) = [event |-> none, data |-> 0, id |-> n]
            <6>1. CASE feed[n].type # ""
              <7>1. t.f = "event"
                BY <5>8, <6>1
              <7> QED
                BY <3>9, <5>4, <5>5, <7>1 DEF MsgAt, Events!NoMsg
            <6>2. CASE feed[n].type = ""
              <7>1. t.f = "data"
                BY <5>8, <6>2
              <7> QED
                BY <3>9, <5>4, <5>5, <6>2, <7>1 DEF MsgAt, Events!NoMsg
            <6> QED
              BY <6>1, <6>2
          <5> QED
            BY <5>3, <5>7, <5>9
        <4>2. CASE s.f = "event"
          <5>1. line.value = feed[n].type /\ line.field = "event"
            BY <2>12, <2>15, <4>2 DEF LineAt, Events!Line
          <5>2. PICK k : k = feed[n].type
            OBVIOUS
          <5>3. k \in Kinds
            BY <2>13, <5>2 DEF Kinds
          <5>4. msg = [e EXCEPT !.event = k]
            BY <2>22, <3>4, <5>1, <5>2 DEF Events!Parsed
          <5>5. msg \in Messages
            BY <2>23, <5>3, <5>4 DEF Messages
          <5>6. t.f = "data"
            BY <2>9, <4>2 DEF NextPlace
          <5>7. e.data = 0 /\ e.id = IF feed[n].id THEN n ELSE 0
            <6>1. e = MsgAt(s) /\ s.n = n
              BY <2>12, <2>16, <2>22
            <6>2. s.f # "blank"
              BY <4>2
            <6>3. e.data = IF s.f = "blank" THEN s.n ELSE 0
              BY <6>1 DEF MsgAt
            <6>4. e.id = IF s.f \in {"event", "data", "blank"} /\ feed[s.n].id
                    THEN s.n
                         ELSE 0
              BY <6>1 DEF MsgAt
            <6> QED
              BY <4>2, <6>1, <6>2, <6>3, <6>4
          <5>8. msg = [event |-> k, data |-> 0,
                       id |-> IF feed[n].id THEN n ELSE 0]
            BY <2>23, <5>4, <5>7 DEF Messages
          <5>9. MsgAt(t) = [event |-> k, data |-> 0,
                            id |-> IF feed[n].id THEN n ELSE 0]
            BY <3>9, <5>2, <5>6 DEF MsgAt
          <5> QED
            BY <5>5, <5>8, <5>9
        <4>3. CASE s.f = "data"
          <5>1. line.value = n /\ line.field = "data"
            BY <2>12, <2>15, <4>3 DEF LineAt, Events!Line
          <5>2. msg = [e EXCEPT !.data = n]
            BY <2>22, <3>4, <5>1 DEF Events!Parsed
          <5>3. msg \in Messages
            BY <2>23, <5>2 DEF Messages
          <5>4. t.f = "blank"
            BY <2>9, <4>3 DEF NextPlace
          <5>5. e.event = feed[n].type /\ e.id = IF feed[n].id THEN n ELSE 0
            BY <2>12, <2>16, <2>22, <4>3 DEF MsgAt
          <5>6. msg = [event |-> feed[n].type, data |-> n,
                       id |-> IF feed[n].id THEN n ELSE 0]
            BY <2>23, <5>2, <5>5 DEF Messages
          <5>7. MsgAt(t) = [event |-> feed[n].type, data |-> n,
                            id |-> IF feed[n].id THEN n ELSE 0]
            BY <3>9, <5>4 DEF MsgAt
          <5> QED
            BY <5>3, <5>6, <5>7
        <4> QED
          BY <2>24, <2>26, <4>1, <4>2, <4>3
      <3>12. delivered' \in Seq(Messages)
        BY <1>1, <3>3, EventsTyped
      <3> QED
        BY <2>19, <3>5, <3>7, <3>10, <3>11, <3>12
    <2> QED
      BY <2>25, <2>26
  <1> QED
    BY <1>4, <1>5

-----------------------------------------------------------------------------
\* Together.

LEMMA EventsInitially ==
  ASSUME Events!EventsInit
  PROVE  EventsInv
  <1>1. /\ feed \in Feeds /\ link = Events!NoLink /\ running_ = TRUE
        /\ loop = [at |-> "open", lines |-> <<>>, reconnect_count |-> 0,
                   last_event_id |-> 0, msg |-> Events!NoMsg]
        /\ delivered = <<>> /\ refused = 0
    BY DEF Events!EventsInit
  <1>2. feed \in Seq([id : BOOLEAN, type : STRING])
    BY <1>1, MessageAssumption
  <1>3. <<>> \in Seq(SentLines)
    OBVIOUS
  <1>4. <<>> \in Seq(Messages)
    OBVIOUS
  <1>5. Len(<<>>) = 0
    OBVIOUS
  <1>6. EventsTypes
    <2>1. PICK none : none = Events!NoMsg.event
      OBVIOUS
    <2>2. Events!NoMsg = [event |-> none, data |-> 0, id |-> 0]
      BY <2>1 DEF Events!NoMsg
    <2>3. none \in Kinds
      BY <2>1 DEF Kinds
    <2>4. Events!NoMsg \in Messages
      BY <2>2, <2>3 DEF Messages
    <2>5. loop \in [at : {"open", "next", "lines", "wait", "gone", "denied"},
                    lines : Seq(SentLines), reconnect_count : Nat,
                    last_event_id : Nat, msg : Messages]
      BY <1>1, <1>3, <2>4
    <2>6. link \in [wire : Seq(SentLines), half : BOOLEAN, up : BOOLEAN]
      BY <1>1, <1>3 DEF Events!NoLink
    <2> QED
      BY <1>1, <1>2, <1>4, <2>5, <2>6 DEF EventsTypes
  <1>7. LastData = 0
    BY <1>1 DEF LastData
  <1>8. DeliveredInv
    <2>1. \A i \in DOMAIN delivered : FALSE
      BY <1>1
    <2>2. loop.last_event_id = 0
      BY <1>1
    <2>3. \A j \in 1 .. 0 : FALSE
      OBVIOUS
    <2>4. IsKnown(Len(delivered), loop.last_event_id)
      BY <1>1, <1>5, <2>2, <2>3 DEF IsKnown
    <2>5. 0 <= Len(feed)
      BY <1>6, EventsTyped
    <2> QED
      BY <1>7, <2>1, <2>2, <2>4, <2>5 DEF DeliveredInv
  <1>9. StreamInv
    BY <1>1 DEF StreamInv
  <1>10. FailuresInv
    BY <1>1 DEF FailuresInv
  <1> QED
    BY <1>6, <1>8, <1>9, <1>10 DEF EventsInv

\* The invariant of the behaviours that are about events.
EventsSubject == subject = "events" => EventsInv

LEMMA EventsStepKept ==
  ASSUME EventsInv, Events!EventsNext
  PROVE  EventsInv'
  <1>1. CASE Events!EventLoop
    BY <1>1, EventsOpen, EventsReceive, EventsNoMore, EventsNextLine,
       EventsReconnect
       DEF Events!EventLoop
  <1>2. CASE Events!Stop
    BY <1>2, EventsStop DEF Events!Stop
  <1> QED
    BY <1>1, <1>2, EventsBreakOff, EventsStart DEF Events!EventsNext

LEMMA MessageEventsInit ==
  ASSUME MessageInit
  PROVE  EventsSubject
  BY EventsInitially DEF MessageInit, EventsSubject

LEMMA MessageEventsStep ==
  ASSUME EventsSubject, [MessageNext]_messageVars
  PROVE  EventsSubject'
  <1>1. CASE EventsStep
    BY <1>1, EventsStepKept DEF EventsStep, EventsSubject
  <1>2. ASSUME subject' = subject, subject # "events" PROVE EventsSubject'
    BY <1>2 DEF EventsSubject
  <1>3. CASE ContentStep \/ FormStep \/ RangesStep \/ TargetStep \/ RoutingStep
    BY <1>2, <1>3 DEF ContentStep, FormStep, RangesStep, TargetStep, RoutingStep
  <1>4. CASE UNCHANGED messageVars
    <2>1. UNCHANGED <<subject, feed, link, loop, running_, delivered, refused>>
      BY <1>4 DEF messageVars, eventVars
    <2> QED
      BY <2>1, EventsStop DEF EventsSubject
  <1> QED
    BY <1>1, <1>3, <1>4 DEF MessageNext

LEMMA EventsInvariant == MessageSpec => []EventsSubject
  <1>1. MessageInit => EventsSubject
    BY MessageEventsInit
  <1>2. EventsSubject /\ [MessageNext]_messageVars => EventsSubject'
    BY MessageEventsStep
  <1> QED
    BY <1>1, <1>2, PTL DEF MessageSpec

\* The invariant implies the property.
LEMMA EventsOrdered ==
  ASSUME EventsInv
  PROVE  Events!EventsInOrder
  <1>1. EventsTypes /\ DeliveredInv /\ FailuresInv
    BY DEF EventsInv
  <1>2. \A i \in DOMAIN delivered : DeliveredAt(i)
    BY <1>1 DEF DeliveredInv
  <1>3. ASSUME loop.at = "gone", running_
        PROVE  \/ LastData = Len(feed)
               \/ 0 < max_reconnect_attempts
                    /\ max_reconnect_attempts <= refused
    BY <1>1, <1>3 DEF FailuresInv
  <1>4. LastData = IF delivered = <<>> THEN 0 ELSE Events!Last(delivered).data
    BY DEF LastData, Events!Last
  <1> QED
    BY <1>2, <1>3, <1>4 DEF Events!EventsInOrder, DeliveredAt

\* For any events, whatever is lost when the stream breaks off and however
\* often the client is stopped and started: events are delivered whole and in
\* their order, none is left out, none is repeated but those after the last one
\* with an identifier; and a client that is not denied the stream gives up only
\* when it has everything or has failed as often as it may.
THEOREM EventsInOrderCorrect == MessageSpec => []EventsInOrder
  <1>1. EventsSubject => EventsInOrder
    BY EventsOrdered DEF EventsSubject, EventsInOrder
  <1> QED
    BY <1>1, EventsInvariant, PTL

-----------------------------------------------------------------------------
(***************************************************************************)
(* The ranges: for a content of any length, any ranges of it that are      *)
(* asked for, and every order in which they may be sorted.  That a byte is *)
(* sent as often as it should be is followed from the ranges of the        *)
(* request through the sorted and the coalesced ones to the answer.        *)
(***************************************************************************)
\* What HttpRanges counts with is the operator the library is about.
SameCount == \A S : Ranges!Cardinality(S) = Cardinality(S)

LEMMA SameCardinality == SameCount
  BY Zenon DEF SameCount, Ranges!Cardinality, Cardinality

\* The ranges that have a byte in them, and the places of a byte in an answer.
Within(r, p) == r[1] <= p /\ p <= r[2]
Holding(rs, n, p) == {k \in 1 .. n : Within(rs[k], p)}
PlacesOf(w, p) == {i \in 1 .. Len(w) : w[i] = p}

Proper(rs) == /\ rs \in Seq(Int \X Int)
              /\ \A k \in 1 .. Len(rs) : rs[k][1] <= rs[k][2]

\* Both sets are finite.
LEMMA HoldingFinite ==
  ASSUME NEW rs, NEW n \in Nat, NEW p
  PROVE  IsFiniteSet(Holding(rs, n, p)) /\ Cardinality(Holding(rs, n, p)) \in Nat
  <1>1. IsFiniteSet(1 .. n)
    BY FS_Interval
  <1>2. Holding(rs, n, p) \in SUBSET (1 .. n)
    BY DEF Holding
  <1>3. IsFiniteSet(Holding(rs, n, p))
    BY <1>1, <1>2, FS_Subset
  <1> QED
    BY <1>3, FS_CardinalityType

LEMMA PlacesFinite ==
  ASSUME NEW w \in Seq(Int), NEW p
  PROVE  IsFiniteSet(PlacesOf(w, p)) /\ Cardinality(PlacesOf(w, p)) \in Nat
  <1>1. Len(w) \in Nat
    OBVIOUS
  <1>2. IsFiniteSet(1 .. Len(w))
    BY <1>1, FS_Interval
  <1>3. PlacesOf(w, p) \in SUBSET (1 .. Len(w))
    BY DEF PlacesOf
  <1>4. IsFiniteSet(PlacesOf(w, p))
    BY <1>2, <1>3, FS_Subset
  <1> QED
    BY <1>4, FS_CardinalityType

\* A range has one more byte in it, or none more.
LEMMA HoldingNext ==
  ASSUME NEW rs, NEW n \in Nat, NEW p
  PROVE  Holding(rs, n + 1, p) =
           IF Within(rs[n + 1], p) THEN Holding(rs, n, p) \cup {n + 1}
           ELSE Holding(rs, n, p)
  <1>1. 1 .. n + 1 = (1 .. n) \cup {n + 1}
    OBVIOUS
  <1> QED
    BY <1>1, Zenon DEF Holding

LEMMA HoldingMore ==
  ASSUME NEW rs, NEW n \in Nat, NEW p
  PROVE  Cardinality(Holding(rs, n + 1, p)) =
           IF Within(rs[n + 1], p) THEN Cardinality(Holding(rs, n, p)) + 1
           ELSE Cardinality(Holding(rs, n, p))
  <1>1. IsFiniteSet(Holding(rs, n, p))
    BY HoldingFinite
  <1>2. n + 1 \notin Holding(rs, n, p)
    BY DEF Holding
  <1>3. Cardinality(Holding(rs, n, p) \cup {n + 1})
          = Cardinality(Holding(rs, n, p)) + 1
    BY <1>1, <1>2, FS_AddElement
  <1> QED
    BY <1>3, HoldingNext

\* The bytes of a range are within it, each once.
LEMMA BytesHeld ==
  ASSUME NEW r \in Int \X Int, r[1] <= r[2], NEW p \in Nat
  PROVE  /\ Ranges!Bytes(r) \in Seq(Int)
         /\ Len(Ranges!Bytes(r)) = r[2] - r[1] + 1
         /\ PlacesOf(Ranges!Bytes(r), p) =
              IF Within(r, p) THEN {p - r[1] + 1} ELSE {}
  <1>1. PICK a \in Int, b \in Int : r = <<a, b>> /\ a <= b
    OBVIOUS
  <1>2. PICK n \in Nat : n = b - a + 1
    BY <1>1
  <1>3. Ranges!Bytes(r) = [i \in 1 .. n |-> a + i - 1]
    BY <1>1, <1>2 DEF Ranges!Bytes
  <1>4. Ranges!Bytes(r) \in Seq(Int) /\ Len(Ranges!Bytes(r)) = n
    BY <1>3
  <1>5. PlacesOf(Ranges!Bytes(r), p) = {i \in 1 .. n : a + i - 1 = p}
    BY <1>3, <1>4 DEF PlacesOf
  <1>6. CASE Within(r, p)
    <2>1. a <= p /\ p <= b
      BY <1>1, <1>6 DEF Within
    <2>2. {i \in 1 .. n : a + i - 1 = p} = {p - a + 1}
      BY <1>2, <2>1
    <2> QED
      BY <1>1, <1>2, <1>4, <1>5, <1>6, <2>2
  <1>7. CASE ~ Within(r, p)
    <2>1. ~ (a <= p /\ p <= b)
      BY <1>1, <1>7 DEF Within
    <2>2. {i \in 1 .. n : a + i - 1 = p} = {}
      BY <1>2, <2>1
    <2> QED
      BY <1>1, <1>2, <1>4, <1>5, <1>7, <2>2
  <1> QED
    BY <1>6, <1>7

\* What is appended adds its places.
LEMMA PlacesJoined ==
  ASSUME NEW u \in Seq(Int), NEW w \in Seq(Int), NEW p
  PROVE  PlacesOf(u \o w, p) = PlacesOf(u, p) \cup {Len(u) + j : j \in PlacesOf(w, p)}
  <1>1. PICK m \in Nat, n \in Nat : m = Len(u) /\ n = Len(w)
    OBVIOUS
  <1>2. Len(u \o w) = m + n
    BY <1>1
  <1>3. \A i \in 1 .. m : (u \o w)[i] = u[i]
    BY <1>1
  <1>4. \A j \in 1 .. n : (u \o w)[m + j] = w[j]
    BY <1>1
  <1>5. ASSUME NEW i
        PROVE  i \in PlacesOf(u \o w, p)
                 <=> i \in PlacesOf(u, p) \cup {Len(u) + j : j \in PlacesOf(w, p)}
    <2>1. CASE i \in 1 .. m
      <3>1. i \notin {Len(u) + j : j \in PlacesOf(w, p)}
        BY <1>1, <2>1 DEF PlacesOf
      <3> QED
        BY <1>1, <1>2, <1>3, <2>1, <3>1 DEF PlacesOf
    <2>2. CASE i \in m + 1 .. m + n
      <3>1. PICK j \in 1 .. n : i = m + j
        <4>1. i - m \in 1 .. n /\ i = m + (i - m)
          BY <2>2
        <4> QED
          BY <4>1
      <3>2. i \in PlacesOf(u \o w, p) <=> w[j] = p
        BY <1>2, <1>4, <3>1 DEF PlacesOf
      <3>3. i \in {Len(u) + k : k \in PlacesOf(w, p)} <=> w[j] = p
        BY <1>1, <3>1 DEF PlacesOf
      <3>4. i \notin PlacesOf(u, p)
        BY <1>1, <2>2 DEF PlacesOf
      <3> QED
        BY <3>2, <3>3, <3>4
    <2>3. CASE i \notin 1 .. m + n
      <3>1. i \notin PlacesOf(u \o w, p)
        BY <1>2, <2>3 DEF PlacesOf
      <3>2. i \notin PlacesOf(u, p)
        BY <1>1, <2>3 DEF PlacesOf
      <3>3. i \notin {Len(u) + j : j \in PlacesOf(w, p)}
        BY <1>1, <2>3 DEF PlacesOf
      <3> QED
        BY <3>1, <3>2, <3>3
    <2> QED
      BY <2>1, <2>2, <2>3
  <1> QED
    BY <1>5

LEMMA PlacesMore ==
  ASSUME NEW u \in Seq(Int), NEW w \in Seq(Int), NEW p
  PROVE  /\ PlacesOf(w, p) = {} => PlacesOf(u \o w, p) = PlacesOf(u, p)
         /\ \A j : PlacesOf(w, p) = {j} =>
              Cardinality(PlacesOf(u \o w, p)) = Cardinality(PlacesOf(u, p)) + 1
  <1>1. ASSUME PlacesOf(w, p) = {} PROVE PlacesOf(u \o w, p) = PlacesOf(u, p)
    <2>1. PlacesOf(u \o w, p)
            = PlacesOf(u, p) \cup {Len(u) + j : j \in PlacesOf(w, p)}
      BY PlacesJoined
    <2>2. {Len(u) + j : j \in PlacesOf(w, p)} = {}
      BY <1>1
    <2> QED
      BY <2>1, <2>2, Zenon
  <1>2. ASSUME NEW j, PlacesOf(w, p) = {j}
        PROVE  Cardinality(PlacesOf(u \o w, p)) = Cardinality(PlacesOf(u, p)) + 1
    <2>1. PlacesOf(u \o w, p) = PlacesOf(u, p) \cup {Len(u) + j}
      BY <1>2, PlacesJoined
    <2>2. j \in 1 .. Len(w)
      BY <1>2 DEF PlacesOf
    <2>3. Len(u) + j \notin PlacesOf(u, p)
      BY <2>2 DEF PlacesOf
    <2> QED
      BY <2>1, <2>3, PlacesFinite, FS_AddElement
  <1> QED
    BY <1>1, <1>2

-----------------------------------------------------------------------------
\* A piece of the multipart format.
Piece(r) == <<-1>> \o Ranges!Bytes(r) \o <<-1>>

LEMMA PieceHeld ==
  ASSUME NEW r \in Int \X Int, r[1] <= r[2], NEW p \in Nat
  PROVE  /\ Piece(r) \in Seq(Int)
         /\ IF Within(r, p) THEN \E j : PlacesOf(Piece(r), p) = {j}
            ELSE PlacesOf(Piece(r), p) = {}
  <1>1. PICK b : b = Ranges!Bytes(r)
    OBVIOUS
  <1>2. b \in Seq(Int)
    BY <1>1, BytesHeld
  <1>3. PICK e : e = <<-1>>
    OBVIOUS
  <1>4. e \in Seq(Int) /\ Len(e) = 1 /\ e[1] = -1
    BY <1>3
  <1>5. PlacesOf(e, p) = {}
    BY <1>4 DEF PlacesOf
  <1>6. PICK w : w = e \o b
    OBVIOUS
  <1>7. w \in Seq(Int)
    BY <1>2, <1>4, <1>6
  <1>8. Piece(r) = w \o e
    BY <1>1, <1>3, <1>6 DEF Piece
  <1>9. PlacesOf(Piece(r), p) = PlacesOf(w, p)
    BY <1>4, <1>5, <1>7, <1>8, PlacesMore
  <1>10. PlacesOf(w, p) = PlacesOf(e, p) \cup {Len(e) + j : j \in PlacesOf(b, p)}
    BY <1>2, <1>4, <1>6, PlacesJoined
  <1>11. PlacesOf(w, p) = {1 + j : j \in PlacesOf(b, p)}
    BY <1>4, <1>5, <1>10
  <1>12. Piece(r) \in Seq(Int)
    BY <1>4, <1>7, <1>8
  <1>13. PlacesOf(b, p) = IF Within(r, p) THEN {p - r[1] + 1} ELSE {}
    BY <1>1, BytesHeld
  <1>14. CASE Within(r, p)
    <2>1. PlacesOf(w, p) = {1 + (p - r[1] + 1)}
      BY <1>11, <1>13, <1>14
    <2> QED
      BY <1>9, <1>12, <1>14, <2>1
  <1>15. CASE ~ Within(r, p)
    BY <1>9, <1>11, <1>12, <1>13, <1>15
  <1> QED
    BY <1>14, <1>15

\* Flattened is also about the operator HttpRanges has.
LEMMA FlattenedPieces ==
  ASSUME NEW F, NEW k \in Nat, k # 0, Len(F) = k
  PROVE  \E f : Flat(f, F, k) /\ Ranges!FlattenSeq(F) = f[k]
  <1>1. Ranges!FlattenSeq(F) = Events!FlattenSeq(F)
    BY Zenon DEF Ranges!FlattenSeq, Events!FlattenSeq
  <1> QED
    BY <1>1, Flattened

\* In the multipart format every byte is as often as there are ranges with it.
LEMMA MultipartHeld ==
  ASSUME NEW rs, Proper(rs), Len(rs) # 0, NEW p \in Nat
  PROVE  /\ Ranges!Multipart(rs) \in Seq(Int)
         /\ Cardinality(PlacesOf(Ranges!Multipart(rs), p))
              = Cardinality(Holding(rs, Len(rs), p))
  <1>1. PICK n \in Nat : n = Len(rs) /\ n # 0
    BY DEF Proper
  <1>2. DOMAIN rs = 1 .. n
    BY <1>1 DEF Proper
  <1>3. PICK F : F = [i \in 1 .. n |-> Piece(rs[i])]
    OBVIOUS
  <1>4. Len(F) = n
    BY <1>3
  <1>5. PICK f : Flat(f, F, n) /\ Ranges!FlattenSeq(F) = f[n]
    BY <1>1, <1>4, FlattenedPieces
  <1>6. \A i \in 1 .. n : f[i] = IF i = 1 THEN F[i] ELSE f[i - 1] \o F[i]
    BY <1>5 DEF Flat
  <1>7. ASSUME NEW i \in 1 .. n
        PROVE  /\ F[i] \in Seq(Int)
               /\ IF Within(rs[i], p) THEN \E j : PlacesOf(F[i], p) = {j}
                  ELSE PlacesOf(F[i], p) = {}
    <2>1. rs[i] \in Int \X Int /\ rs[i][1] <= rs[i][2]
      BY <1>1, <1>7 DEF Proper
    <2>2. F[i] = Piece(rs[i])
      BY <1>3, <1>7
    <2> QED
      BY <2>1, <2>2, PieceHeld
  <1> DEFINE Good(i) ==
        i < n => /\ f[i + 1] \in Seq(Int)
                 /\ Cardinality(PlacesOf(f[i + 1], p))
                      = Cardinality(Holding(rs, i + 1, p))
  <1>8. Good(0)
    <2>1. 1 \in 1 .. n /\ 0 + 1 = 1
      BY <1>1
    <2>2. f[1] = F[1]
      BY <1>6, <2>1
    <2>3. Holding(rs, 0, p) = {}
      BY DEF Holding
    <2>4. Cardinality(Holding(rs, 1, p)) = IF Within(rs[1], p) THEN 1 ELSE 0
      <3>1. Cardinality(Holding(rs, 0, p)) = 0
        BY <2>3, FS_EmptySet
      <3> QED
        BY <2>1, <3>1, HoldingMore
    <2>5. f[1] \in Seq(Int)
      BY <1>7, <2>1, <2>2
    <2>6. CASE Within(rs[1], p)
      <3>1. PICK j : PlacesOf(f[1], p) = {j}
        BY <1>7, <2>1, <2>2, <2>6
      <3>2. Cardinality(PlacesOf(f[1], p)) = 1
        BY <3>1, FS_Singleton
      <3> QED
        BY <2>1, <2>4, <2>5, <2>6, <3>2
    <2>7. CASE ~ Within(rs[1], p)
      <3>1. PlacesOf(f[1], p) = {}
        BY <1>7, <2>1, <2>2, <2>7
      <3>2. Cardinality(PlacesOf(f[1], p)) = 0
        BY <3>1, FS_EmptySet
      <3> QED
        BY <2>1, <2>4, <2>5, <2>7, <3>2
    <2> QED
      BY <2>6, <2>7
  <1>9. ASSUME NEW i \in Nat, Good(i) PROVE Good(i + 1)
    <2>1. SUFFICES ASSUME i + 1 < n PROVE Good(i + 1)
      OBVIOUS
    <2>2. PICK q \in 1 .. n : q = i + 2 /\ q # 1 /\ q - 1 = i + 1
      BY <2>1
    <2>3. f[q] = f[i + 1] \o F[q]
      BY <1>6, <2>2
    <2>4. f[i + 1] \in Seq(Int)
            /\ Cardinality(PlacesOf(f[i + 1], p)) = Cardinality(Holding(rs, i + 1, p))
      BY <1>9, <2>1
    <2>5. F[q] \in Seq(Int)
      BY <1>7
    <2>6. f[q] \in Seq(Int)
      BY <2>3, <2>4, <2>5
    <2>7. Cardinality(Holding(rs, q, p)) =
            IF Within(rs[q], p) THEN Cardinality(Holding(rs, i + 1, p)) + 1
            ELSE Cardinality(Holding(rs, i + 1, p))
      <3>1. i + 1 \in Nat /\ (i + 1) + 1 = q
        BY <2>2
      <3> QED
        BY <3>1, HoldingMore
    <2>8. CASE Within(rs[q], p)
      <3>1. PICK j : PlacesOf(F[q], p) = {j}
        BY <1>7, <2>8
      <3>2. PICK u \in Seq(Int), w \in Seq(Int) : u = f[i + 1] /\ w = F[q]
        BY <2>4, <2>5
      <3>3. f[q] = u \o w /\ PlacesOf(w, p) = {j}
        BY <2>3, <3>1, <3>2, Zenon
      <3>4. Cardinality(PlacesOf(u \o w, p)) = Cardinality(PlacesOf(u, p)) + 1
        BY ZenonT(60), <3>3, PlacesMore
      <3>5. Cardinality(PlacesOf(f[q], p)) = Cardinality(PlacesOf(f[i + 1], p)) + 1
        BY <3>2, <3>3, <3>4, Zenon
      <3> QED
        BY <2>2, <2>4, <2>6, <2>7, <2>8, <3>5
    <2>9. CASE ~ Within(rs[q], p)
      <3>1. PlacesOf(F[q], p) = {}
        BY <1>7, <2>9
      <3>2. PlacesOf(f[q], p) = PlacesOf(f[i + 1], p)
        BY <2>3, <2>4, <2>5, <3>1, PlacesMore
      <3> QED
        BY <2>2, <2>4, <2>6, <2>7, <2>9, <3>2
    <2> QED
      BY <2>8, <2>9
  <1>10. Good(n - 1)
    <2>1. PICK S : S = {i \in Nat : Good(i)}
      OBVIOUS
    <2>2. 0 \in S
      BY <1>8, <2>1
    <2>3. \A i \in Nat : i \in S => i + 1 \in S
      BY <1>9, <2>1
    <2>4. Nat \subseteq S
      BY <2>2, <2>3, Induction
    <2>5. n - 1 \in Nat
      BY <1>1
    <2> QED
      BY <2>1, <2>4, <2>5
  <1>11. f[n] \in Seq(Int)
           /\ Cardinality(PlacesOf(f[n], p)) = Cardinality(Holding(rs, n, p))
    BY <1>1, <1>10
  <1>12. PICK e : e = <<-1>>
    OBVIOUS
  <1>13. e \in Seq(Int) /\ Len(e) = 1 /\ e[1] = -1
    BY <1>12
  <1>14. PlacesOf(e, p) = {}
    BY <1>13 DEF PlacesOf
  <1>15. Ranges!Multipart(rs) = f[n] \o e
    BY <1>2, <1>3, <1>5, <1>12
       DEF Ranges!Multipart, Ranges!None, Piece
  <1>16. PlacesOf(Ranges!Multipart(rs), p) = PlacesOf(f[n], p)
    BY <1>11, <1>13, <1>14, <1>15, PlacesMore
  <1>17. Ranges!Multipart(rs) \in Seq(Int)
    BY <1>11, <1>13, <1>15
  <1> QED
    BY <1>1, <1>11, <1>16, <1>17

\* And so it is in the answer that is made of ranges.
LEMMA SelectedHeld ==
  ASSUME NEW rs, Proper(rs), Len(rs) # 0, NEW p \in Nat
  PROVE  /\ Ranges!Selected(rs) \in Seq(Int)
         /\ Cardinality(PlacesOf(Ranges!Selected(rs), p))
              = Cardinality(Holding(rs, Len(rs), p))
  <1>1. CASE Len(rs) = 1
    <2>1. rs[1] \in Int \X Int /\ rs[1][1] <= rs[1][2]
      BY <1>1 DEF Proper
    <2>2. PICK b : b = Ranges!Bytes(rs[1])
      OBVIOUS
    <2>3. Ranges!Selected(rs) = b
      BY <1>1, <2>2 DEF Ranges!Selected
    <2>4. /\ b \in Seq(Int)
          /\ PlacesOf(b, p) = IF Within(rs[1], p) THEN {p - rs[1][1] + 1} ELSE {}
      BY <2>1, <2>2, BytesHeld
    <2>5. Cardinality(PlacesOf(b, p)) = IF Within(rs[1], p) THEN 1 ELSE 0
      BY <2>4, FS_EmptySet, FS_Singleton
    <2>6. Cardinality(Holding(rs, 0, p)) = 0
      <3>1. Holding(rs, 0, p) = {}
        BY DEF Holding
      <3> QED
        BY <3>1, FS_EmptySet
    <2>7. Cardinality(Holding(rs, 1, p)) = IF Within(rs[1], p) THEN 1 ELSE 0
      <3>1. 0 + 1 = 1
        OBVIOUS
      <3> QED
        BY <2>6, <3>1, HoldingMore
    <2> QED
      BY <1>1, <2>3, <2>4, <2>5, <2>7
  <1>2. CASE Len(rs) # 1
    <2>1. Ranges!Selected(rs) = Ranges!Multipart(rs)
      BY <1>2 DEF Ranges!Selected
    <2> QED
      BY <2>1, MultipartHeld
  <1> QED
    BY <1>1, <1>2

-----------------------------------------------------------------------------
(***************************************************************************)
(* What coalescing leaves of the sorted ranges.                            *)
(***************************************************************************)
\* The function by which Merged is defined.
Upto(m, s, n) ==
  m = [i \in 0 .. n |-> IF i = 0 THEN <<>> ELSE Ranges!Extend(m[i - 1], s[i])]

LEMMA UptoExists ==
  ASSUME NEW s, NEW k \in Nat
  PROVE  \E m : Upto(m, s, k)
  <1>1. PICK S : S = {n \in Nat : \E m : Upto(m, s, n)}
    OBVIOUS
  <1>2. 0 \in S
    <2>1. PICK m : m = [i \in 0 .. 0 |-> <<>>]
      OBVIOUS
    <2>2. m = [i \in 0 .. 0 |->
                 IF i = 0 THEN <<>> ELSE Ranges!Extend(m[i - 1], s[i])]
      BY <2>1
    <2>3. Upto(m, s, 0)
      BY <2>2 DEF Upto
    <2> QED
      BY <1>1, <2>3
  <1>3. ASSUME NEW n \in Nat, n \in S PROVE n + 1 \in S
    <2>1. PICK m : Upto(m, s, n)
      BY <1>1, <1>3
    <2>2. m = [i \in 0 .. n |->
                 IF i = 0 THEN <<>> ELSE Ranges!Extend(m[i - 1], s[i])]
      BY <2>1 DEF Upto
    <2>3. PICK last : last = Ranges!Extend(m[n], s[n + 1])
      OBVIOUS
    <2>4. PICK h : h = [i \in 0 .. n + 1 |-> IF i = n + 1 THEN last ELSE m[i]]
      OBVIOUS
    <2>5. ASSUME NEW i \in 0 .. n + 1
          PROVE  h[i] = IF i = 0 THEN <<>> ELSE Ranges!Extend(h[i - 1], s[i])
      <3>1. CASE i = n + 1
        <4>1. n \in 0 .. n + 1 /\ n # n + 1 /\ i - 1 = n /\ i # 0
          BY <3>1
        <4>2. h[i] = last /\ h[n] = m[n]
          BY <2>4, <3>1, <4>1
        <4> QED
          BY <2>3, <3>1, <4>1, <4>2
      <3>2. CASE i # n + 1 /\ i # 0
        <4>1. /\ i \in 0 .. n
              /\ i - 1 \in 0 .. n + 1 /\ i - 1 # n + 1
          BY <3>2
        <4>2. h[i] = m[i] /\ h[i - 1] = m[i - 1]
          BY <2>4, <3>2, <4>1
        <4>3. m[i] = Ranges!Extend(m[i - 1], s[i])
          BY <2>2, <3>2, <4>1
        <4> QED
          BY <3>2, <4>2, <4>3
      <3>3. CASE i = 0
        <4>1. i \in 0 .. n /\ i # n + 1
          BY <3>3
        <4> QED
          BY <2>2, <2>4, <3>3, <4>1
      <3> QED
        BY <3>1, <3>2, <3>3
    <2>6. h = [i \in 0 .. n + 1 |->
                 IF i = 0 THEN <<>> ELSE Ranges!Extend(h[i - 1], s[i])]
      BY <2>4, <2>5
    <2>7. Upto(h, s, n + 1)
      BY <2>6 DEF Upto
    <2> QED
      BY <1>1, <2>7
  <1>4. Nat \subseteq S
    BY <1>2, <1>3, Induction
  <1> QED
    BY <1>1, <1>4

LEMMA MergedUpto ==
  ASSUME NEW s, NEW k \in Nat, Len(s) = k
  PROVE  \E m : Upto(m, s, k) /\ Ranges!Merged(s) = m[k]
  <1>1. \E m : Upto(m, s, k)
    BY UptoExists
  <1>2. PICK m : m = CHOOSE g : g = [i \in 0 .. k |->
                    IF i = 0 THEN <<>> ELSE Ranges!Extend(g[i - 1], s[i])]
    BY Zenon
  <1>3. Upto(m, s, k)
    BY <1>1, <1>2, Zenon DEF Upto
  <1>4. Ranges!Merged(s) = m[k]
    BY <1>2, Zenon DEF Ranges!Merged
  <1> QED
    BY <1>3, <1>4

\* Two of the first n ranges are the same and have a byte in them.
Twice(s, n, p) == \E i, j \in 1 .. n : i # j /\ s[i] = s[j] /\ Within(s[i], p)

\* What was coalesced of the first ranges: a byte is in as many of the
\* coalesced ranges at most, in one when it is in one of them, and in two only
\* if two of them are the same; the last coalesced range does not begin after
\* the last of them, is one of them if it begins with it, and ends last.
Joined(c, s, n, p) ==
  /\ Proper(c)
  /\ n = 0 => Len(c) = 0
  /\ n # 0 => Len(c) # 0 /\ c[Len(c)][1] <= s[n][1]
  /\ n # 0 /\ c[Len(c)][1] = s[n][1] => \E i \in 1 .. n : s[i] = c[Len(c)]
  /\ \A k \in 1 .. Len(c) : c[k][2] <= c[Len(c)][2]
  /\ Cardinality(Holding(c, Len(c), p)) > 1 => Twice(s, n, p)
  /\ Cardinality(Holding(c, Len(c), p)) <= Cardinality(Holding(s, n, p))
  /\ Holding(c, Len(c), p) = {} <=> Holding(s, n, p) = {}

Ascending(s) ==
  Proper(s) /\ \A k \in 1 .. Len(s) - 1 : s[k][1] <= s[k + 1][1]

LEMMA TwiceMore ==
  ASSUME NEW s, NEW n \in Nat, NEW p, Twice(s, n, p)
  PROVE  Twice(s, n + 1, p)
  <1>1. 1 .. n \subseteq 1 .. n + 1
    OBVIOUS
  <1> QED
    BY <1>1, Zenon DEF Twice

\* A range that is not joined to the last coalesced one lies behind all of
\* them, or is the last one again.
LEMMA LastOrBehind ==
  ASSUME NEW c, NEW s, NEW n \in Nat, NEW p \in Nat, Joined(c, s, n, p),
         NEW r \in Int \X Int, NEW k \in Nat, k = Len(c),
         ~ (Len(c) > 0 /\ Ranges!Joins(c[Len(c)], r))
  PROVE  (\A i \in 1 .. k : c[i][2] < r[1]) \/ (k # 0 /\ r = c[k])
  <1>1. \A i \in 1 .. k : c[i] \in Int \X Int
    BY DEF Joined, Proper
  <1>2. \A i \in 1 .. k : c[i][2] <= c[k][2]
    BY Zenon DEF Joined
  <1>3. CASE k = 0
    <2>1. \A i \in 1 .. k : FALSE
      BY <1>3
    <2> QED
      BY <2>1, Zenon
  <1>4. CASE k # 0 /\ r # c[k]
    <2>1. ~ (r[1] <= c[k][2] + 1)
      BY <1>4 DEF Ranges!Joins
    <2>2. PICK b \in Int : b = c[k][2]
      BY <1>1, <1>4
    <2>3. b < r[1]
      BY <2>1, <2>2
    <2>4. ASSUME NEW i \in 1 .. k PROVE c[i][2] < r[1]
      <3>1. c[i][2] \in Int /\ c[i][2] <= b
        BY <1>1, <1>2, <2>2
      <3> QED
        BY <2>3, <3>1
    <2> QED
      BY <2>4, Zenon
  <1> QED
    BY <1>3, <1>4, Zenon

\* A range that is appended, or that becomes part of the last one.
LEMMA Appended ==
  ASSUME NEW c, NEW s, NEW n \in Nat, NEW p \in Nat, Joined(c, s, n, p),
         s[n + 1] \in Int \X Int, s[n + 1][1] <= s[n + 1][2],
         n # 0 => s[n] \in Int \X Int /\ s[n][1] <= s[n + 1][1],
         ~ (Len(c) > 0 /\ Ranges!Joins(c[Len(c)], s[n + 1]))
  PROVE  Joined(Append(c, s[n + 1]), s, n + 1, p)
  <1>1. PICK r \in Int \X Int : r = s[n + 1] /\ r[1] <= r[2]
    OBVIOUS
  <1>2. PICK k \in Nat : k = Len(c)
    BY DEF Joined, Proper
  <1>3. PICK d : d = Append(c, r)
    OBVIOUS
  <1>4. c \in Seq(Int \X Int)
    BY DEF Joined, Proper
  <1>5. /\ d \in Seq(Int \X Int) /\ Len(d) = k + 1
        /\ \A i \in 1 .. k : d[i] = c[i]
        /\ d[k + 1] = r
    BY <1>2, <1>3, <1>4
  <1>6. Proper(d)
    <2>1. ASSUME NEW i \in 1 .. k + 1 PROVE d[i][1] <= d[i][2]
      <3>1. CASE i = k + 1
        BY <1>1, <1>5, <3>1
      <3>2. CASE i # k + 1
        <4>1. i \in 1 .. k
          BY <3>2
        <4> QED
          BY <1>2, <1>5, <4>1 DEF Joined, Proper
      <3> QED
        BY <3>1, <3>2
    <2> QED
      BY <1>5, <2>1 DEF Proper
  <1>7. Holding(d, k, p) = Holding(c, k, p)
    BY <1>5 DEF Holding, Within
  <1>8. Holding(d, k + 1, p) = IF Within(r, p) THEN Holding(c, k, p) \cup {k + 1}
                               ELSE Holding(c, k, p)
    BY <1>5, <1>7, HoldingNext
  <1>9. Cardinality(Holding(d, k + 1, p)) =
          IF Within(r, p) THEN Cardinality(Holding(c, k, p)) + 1
          ELSE Cardinality(Holding(c, k, p))
    BY ZenonT(60), <1>5, <1>7, HoldingMore
  <1>10. Holding(s, n + 1, p) = IF Within(r, p) THEN Holding(s, n, p) \cup {n + 1}
                                ELSE Holding(s, n, p)
    BY <1>1, HoldingNext
  <1>11. Cardinality(Holding(s, n + 1, p)) =
           IF Within(r, p) THEN Cardinality(Holding(s, n, p)) + 1
           ELSE Cardinality(Holding(s, n, p))
    BY <1>1, HoldingMore
  <1>12. /\ Cardinality(Holding(c, k, p)) <= Cardinality(Holding(s, n, p))
         /\ Holding(c, k, p) = {} <=> Holding(s, n, p) = {}
    BY <1>2 DEF Joined
  <1>13. /\ Cardinality(Holding(c, k, p)) \in Nat
         /\ Cardinality(Holding(s, n, p)) \in Nat
    BY HoldingFinite
  <1>14. Cardinality(Holding(d, k + 1, p)) <= Cardinality(Holding(s, n + 1, p))
    BY <1>9, <1>11, <1>12, <1>13
  <1>15. Holding(d, k + 1, p) = {} <=> Holding(s, n + 1, p) = {}
    BY <1>8, <1>10, <1>12
  <1>16. Len(d) # 0 /\ d[Len(d)][1] <= s[n + 1][1]
    BY <1>1, <1>5
  <1>17. \E i \in 1 .. n + 1 : s[i] = d[Len(d)]
    <2>1. n + 1 \in 1 .. n + 1 /\ s[n + 1] = d[Len(d)]
      BY <1>1, <1>5
    <2> QED
      BY <2>1, Zenon
  <1>18. Twice(s, n, p) => Twice(s, n + 1, p)
    BY TwiceMore
  \* The new range lies behind the others, or is the last one again.
  <1>19. \/ \A i \in 1 .. k : c[i][2] < r[1]
         \/ k # 0 /\ r = c[k]
    BY <1>1, <1>2, LastOrBehind
  <1>20. \A i \in 1 .. k : c[i] \in Int \X Int /\ c[i][2] <= c[k][2]
    <2>1. \A i \in 1 .. k : c[i][2] <= c[k][2]
      BY <1>2, Zenon DEF Joined
    <2> QED
      BY <1>2, <1>4, <2>1
  <1>21. \A i \in 1 .. k + 1 : d[i][2] <= d[k + 1][2]
    <2>1. ASSUME NEW i \in 1 .. k PROVE d[i][2] <= r[2]
      <3>1. d[i] = c[i] /\ c[i][2] \in Int
        BY <1>5, <1>20
      <3>2. c[i][2] <= r[2]
        BY <1>1, <1>19, <1>20, <3>1
      <3> QED
        BY <3>1, <3>2
    <2>2. d[k + 1][2] <= r[2]
      BY <1>1, <1>5
    <2>3. \A i \in 1 .. k + 1 : i \in 1 .. k \/ i = k + 1
      OBVIOUS
    <2> QED
      BY <1>5, <2>1, <2>2, <2>3, Zenon
  <1>22. ASSUME Cardinality(Holding(d, k + 1, p)) > 1 PROVE Twice(s, n + 1, p)
    <2>1. CASE ~ Within(r, p)
      <3>1. Cardinality(Holding(c, k, p)) > 1
        BY <1>9, <1>22, <2>1
      <3> QED
        BY <1>2, <1>18, <3>1 DEF Joined
    <2>2. CASE Within(r, p) /\ \A i \in 1 .. k : c[i][2] < r[1]
      <3>1. \A i \in 1 .. k : ~ Within(c[i], p)
        BY <1>1, <1>20, <2>2 DEF Within
      <3>2. Cardinality(Holding(c, k, p)) = 0
        <4>1. Holding(c, k, p) = {}
          BY <3>1, Zenon DEF Holding
        <4> QED
          BY <4>1, FS_EmptySet
      <3> QED
        BY <1>9, <1>22, <2>2, <3>2
    <2>3. CASE Within(r, p) /\ k # 0 /\ r = c[k]
      <3>1. PICK i \in 1 .. n : s[i] = r
        <4>1. n # 0 /\ c[k][1] <= s[n][1]
          BY <1>2, <2>3, Zenon DEF Joined
        <4>2. PICK x \in Int, y \in Int : x = s[n][1] /\ y = r[1]
          BY <4>1
        <4>3. y <= x /\ x <= y
          BY <1>1, <2>3, <4>1, <4>2
        <4>4. c[k][1] = s[n][1]
          BY <2>3, <4>2, <4>3
        <4> QED
          BY <1>2, <2>3, <4>1, <4>4, Zenon DEF Joined
      <3>2. i \in 1 .. n + 1 /\ n + 1 \in 1 .. n + 1 /\ i # n + 1
        OBVIOUS
      <3> QED
        BY <1>1, <2>3, <3>1, <3>2, Zenon DEF Twice
    <2> QED
      BY <1>19, <2>1, <2>2, <2>3
  <1>23. n + 1 # 0
    OBVIOUS
  <1> QED
    BY <1>1, <1>3, <1>5, <1>6, <1>14, <1>15, <1>16, <1>17, <1>21, <1>22, <1>23
       DEF Joined

LEMMA Widened ==
  ASSUME NEW c, NEW s, NEW n \in Nat, NEW p \in Nat, Joined(c, s, n, p), n # 0,
         s[n] \in Int \X Int, s[n][1] <= s[n + 1][1],
         s[n + 1] \in Int \X Int, s[n + 1][1] <= s[n + 1][2],
         s[n + 1][1] <= c[Len(c)][2] + 1
  PROVE  Joined([c EXCEPT ![Len(c)][2] = Ranges!Larger(@, s[n + 1][2])],
                s, n + 1, p)
  <1>1. PICK r \in Int \X Int : r = s[n + 1] /\ r[1] <= r[2]
    OBVIOUS
  <1>2. PICK k \in Nat : k = Len(c) /\ k # 0
    BY DEF Joined, Proper
  <1>3. c \in Seq(Int \X Int)
    BY DEF Joined, Proper
  <1>4. PICK a \in Int, b \in Int : c[k] = <<a, b>>
    <2>1. PICK x \in Int \X Int : x = c[k]
      BY <1>2, <1>3
    <2>2. x = <<x[1], x[2]>> /\ x[1] \in Int /\ x[2] \in Int
      OBVIOUS
    <2> QED
      BY <2>1, <2>2
  <1>5. a <= b /\ a <= r[1] /\ r[1] <= b + 1
    <2>1. a <= b
      BY <1>2, <1>4 DEF Joined, Proper
    <2>2. a <= s[n][1]
      BY <1>2, <1>4 DEF Joined
    <2>3. s[n][1] \in Int
      OBVIOUS
    <2> QED
      BY <1>1, <1>2, <1>4, <2>1, <2>2, <2>3
  <1>6. PICK e \in Int : e = (IF b > r[2] THEN b ELSE r[2])
    OBVIOUS
  <1>7. PICK d : d = [c EXCEPT ![Len(c)][2] = Ranges!Larger(@, s[n + 1][2])]
    OBVIOUS
  <1>8. /\ d \in Seq(Int \X Int) /\ Len(d) = k
        /\ \A i \in 1 .. k : i # k => d[i] = c[i]
        /\ d[k] = <<a, e>>
    <2>1. d = [c EXCEPT ![k] = [c[k] EXCEPT ![2] = Ranges!Larger(c[k][2], r[2])]]
      BY <1>1, <1>2, <1>7
    <2>2. Ranges!Larger(c[k][2], r[2]) = e
      BY <1>4, <1>6 DEF Ranges!Larger
    <2>3. [c[k] EXCEPT ![2] = e] = <<a, e>>
      BY <1>4
    <2>4. PICK q \in Int \X Int : q = <<a, e>>
      OBVIOUS
    <2>5. d = [c EXCEPT ![k] = q]
      BY <2>1, <2>2, <2>3, <2>4
    <2>6. k \in 1 .. Len(c)
      BY <1>2
    <2>7. d \in Seq(Int \X Int) /\ Len(d) = k
      BY <1>2, <1>3, <2>5
    <2>8. (\A i \in 1 .. k : i # k => d[i] = c[i]) /\ d[k] = q
      BY <1>2, <1>3, <2>5, <2>6
    <2> QED
      BY <2>4, <2>7, <2>8
  <1>9. Proper(d)
    <2>1. ASSUME NEW i \in 1 .. k PROVE d[i][1] <= d[i][2]
      <3>1. CASE i = k
        BY <1>5, <1>6, <1>8, <3>1
      <3>2. CASE i # k
        BY <1>2, <1>8, <3>2 DEF Joined, Proper
      <3> QED
        BY <3>1, <3>2
    <2> QED
      BY <1>8, <2>1 DEF Proper
  <1>10. PICK j \in Nat : k = j + 1
    <2>1. k - 1 \in Nat /\ k = (k - 1) + 1
      BY <1>2
    <2> QED
      BY <2>1
  <1>11. Holding(d, j, p) = Holding(c, j, p)
    <2>1. ASSUME NEW i \in 1 .. j PROVE d[i] = c[i]
      <3>1. i \in 1 .. k /\ i # k
        BY <1>10
      <3> QED
        BY <1>8, <3>1, Zenon
    <2> QED
      BY <2>1, ZenonT(60) DEF Holding
  <1>12. Within(d[k], p) <=> Within(c[k], p) \/ Within(r, p)
    <2>1. d[k][1] = a /\ d[k][2] = e /\ c[k][1] = a /\ c[k][2] = b
      BY <1>4, <1>8
    <2>2. PICK u \in Int, v \in Int : u = r[1] /\ v = r[2]
      BY <1>1
    <2>3. /\ a <= b /\ a <= u /\ u <= b + 1 /\ u <= v
          /\ e = (IF b > v THEN b ELSE v)
      BY <1>1, <1>5, <1>6, <2>2
    <2>4. a <= p /\ p <= e <=> (a <= p /\ p <= b) \/ (u <= p /\ p <= v)
      BY <2>3
    <2> QED
      BY <2>1, <2>2, <2>4 DEF Within
  <1>13. /\ Holding(c, k, p) = IF Within(c[k], p) THEN Holding(c, j, p) \cup {k}
                               ELSE Holding(c, j, p)
         /\ Holding(d, k, p) = IF Within(d[k], p) THEN Holding(c, j, p) \cup {k}
                               ELSE Holding(c, j, p)
    BY <1>10, <1>11, HoldingNext
  <1>14. /\ Cardinality(Holding(c, k, p)) =
              IF Within(c[k], p) THEN Cardinality(Holding(c, j, p)) + 1
              ELSE Cardinality(Holding(c, j, p))
         /\ Cardinality(Holding(d, k, p)) =
              IF Within(d[k], p) THEN Cardinality(Holding(c, j, p)) + 1
              ELSE Cardinality(Holding(c, j, p))
    BY <1>10, <1>11, HoldingMore
  <1>15. Holding(s, n + 1, p) = IF Within(r, p) THEN Holding(s, n, p) \cup {n + 1}
                                ELSE Holding(s, n, p)
    BY <1>1, HoldingNext
  <1>16. Cardinality(Holding(s, n + 1, p)) =
           IF Within(r, p) THEN Cardinality(Holding(s, n, p)) + 1
           ELSE Cardinality(Holding(s, n, p))
    BY <1>1, HoldingMore
  <1>17. /\ Cardinality(Holding(c, k, p)) <= Cardinality(Holding(s, n, p))
         /\ Holding(c, k, p) = {} <=> Holding(s, n, p) = {}
    BY <1>2 DEF Joined
  <1>18. /\ Cardinality(Holding(c, j, p)) \in Nat
         /\ Cardinality(Holding(s, n, p)) \in Nat
    BY HoldingFinite
  <1>19. Cardinality(Holding(d, k, p)) <= Cardinality(Holding(s, n + 1, p))
    <2>1. CASE Within(r, p)
      BY <1>12, <1>14, <1>16, <1>17, <1>18, <2>1
    <2>2. CASE ~ Within(r, p)
      BY <1>12, <1>14, <1>16, <1>17, <1>18, <2>2
    <2> QED
      BY <2>1, <2>2
  <1>20. Holding(d, k, p) = {} <=> Holding(s, n + 1, p) = {}
    BY <1>12, <1>13, <1>15, <1>17
  <1>21. Len(d) # 0 /\ d[Len(d)][1] <= s[n + 1][1]
    BY <1>1, <1>2, <1>5, <1>8
  <1>22. \A i \in 1 .. k : c[i] \in Int \X Int /\ c[i][2] <= b
    <2>1. \A i \in 1 .. k : c[i][2] <= c[k][2]
      BY <1>2, Zenon DEF Joined
    <2>2. \A i \in 1 .. k : c[i] \in Int \X Int
      BY <1>2, <1>3
    <2> QED
      BY <1>4, <2>1, <2>2
  <1>23. \A i \in 1 .. k : d[i][2] <= d[k][2]
    <2>1. b <= e /\ d[k][2] = e
      BY <1>1, <1>6, <1>8
    <2>2. ASSUME NEW i \in 1 .. k, i # k PROVE d[i][2] <= e
      <3>1. d[i] = c[i] /\ c[i][2] \in Int /\ c[i][2] <= b
        BY <1>8, <1>22, <2>2
      <3> QED
        BY <2>1, <3>1
    <2>3. e <= e
      OBVIOUS
    <2> QED
      BY <2>1, <2>2, <2>3, Zenon
  <1>24. ASSUME d[k][1] = s[n + 1][1] PROVE \E i \in 1 .. n + 1 : s[i] = d[k]
    <2>1. a = r[1]
      BY <1>1, <1>8, <1>24
    <2>2. a = s[n][1]
      <3>1. PICK x \in Int : x = s[n][1]
        OBVIOUS
      <3>2. a <= x
        BY <1>2, <1>4, <3>1 DEF Joined
      <3>3. x <= a
        BY <1>1, <2>1, <3>1
      <3> QED
        BY <3>1, <3>2, <3>3
    <2>3. PICK i \in 1 .. n : s[i] = <<a, b>>
      <3>1. c[k][1] = s[n][1]
        BY <1>4, <2>2
      <3> QED
        BY <1>2, <1>4, <3>1, Zenon DEF Joined
    <2>4. i \in 1 .. n + 1 /\ n + 1 \in 1 .. n + 1
      OBVIOUS
    <2>5. CASE e = b
      BY <1>8, <2>3, <2>4, <2>5, Zenon
    <2>6. CASE e = r[2]
      <3>1. r = <<a, e>>
        BY <2>1, <2>6
      <3> QED
        BY <1>1, <1>8, <2>4, <3>1, Zenon
    <2> QED
      BY <1>6, <2>5, <2>6
  <1>25. ASSUME Cardinality(Holding(d, k, p)) > 1 PROVE Twice(s, n + 1, p)
    <2>1. CASE Within(c[k], p) \/ ~ Within(r, p)
      <3>1. Cardinality(Holding(c, k, p)) = Cardinality(Holding(d, k, p))
        <4>1. Within(d[k], p) <=> Within(c[k], p)
          BY <1>12, <2>1
        <4> QED
          BY <1>14, <4>1
      <3>2. Twice(s, n, p)
        BY <1>2, <1>25, <3>1, Zenon DEF Joined
      <3> QED
        BY <3>2, TwiceMore
    <2>2. CASE ~ Within(c[k], p) /\ Within(r, p)
      <3>1. b < p
        <4>1. a <= p
          <5>1. PICK x \in Int : x = r[1]
            OBVIOUS
          <5>2. a <= x /\ x <= p
            BY <1>5, <2>2, <5>1 DEF Within
          <5> QED
            BY <5>2
        <4>2. ~ (a <= p /\ p <= b)
          BY <1>4, <2>2 DEF Within
        <4> QED
          BY <4>1, <4>2
      <3>2. ASSUME NEW i \in 1 .. j PROVE ~ Within(c[i], p)
        <4>1. i \in 1 .. k
          BY <1>10
        <4>2. c[i][2] \in Int /\ c[i][2] <= b
          BY <1>22, <4>1
        <4>3. ~ (p <= c[i][2])
          BY <3>1, <4>2
        <4> QED
          BY <4>3, Zenon DEF Within
      <3>3. Cardinality(Holding(c, j, p)) = 0
        <4>1. Holding(c, j, p) = {}
          BY <3>2, Zenon DEF Holding
        <4> QED
          BY <4>1, FS_EmptySet
      <3> QED
        BY <1>14, <1>25, <3>3
    <2> QED
      BY <2>1, <2>2
  <1>26. n + 1 # 0
    OBVIOUS
  <1> QED
    BY <1>7, <1>8, <1>9, <1>19, <1>20, <1>21, <1>23, <1>24, <1>25, <1>26 DEF Joined

LEMMA MergedHeld ==
  ASSUME NEW s, Ascending(s), NEW p \in Nat
  PROVE  Joined(Ranges!Merged(s), s, Len(s), p)
  <1>1. PICK n \in Nat : n = Len(s)
    BY DEF Ascending, Proper
  <1>2. PICK m : Upto(m, s, n) /\ Ranges!Merged(s) = m[n]
    BY <1>1, MergedUpto
  <1>3. \A i \in 0 .. n : m[i] = IF i = 0 THEN <<>>
                                 ELSE Ranges!Extend(m[i - 1], s[i])
    BY <1>2 DEF Upto
  <1>4. \A i \in 1 .. n : s[i] \in Int \X Int /\ s[i][1] <= s[i][2]
    BY <1>1 DEF Ascending, Proper
  <1> DEFINE Good(i) == i <= n => Joined(m[i], s, i, p)
  <1>5. Good(0)
    <2>1. m[0] = <<>>
      BY <1>3
    <2>2. Holding(<<>>, 0, p) = {} /\ Holding(s, 0, p) = {}
      BY DEF Holding
    <2>3. PICK e : e = <<>>
      OBVIOUS
    <2>4. Proper(e) /\ Len(e) = 0
      BY <2>3 DEF Proper
    <2>5. Holding(e, Len(e), p) = {}
      BY <2>2, <2>3, <2>4
    <2>6. Cardinality(Holding(e, Len(e), p)) = 0
            /\ Cardinality(Holding(s, 0, p)) = 0
      BY <2>2, <2>5, FS_EmptySet
    <2>8. \A k \in 1 .. Len(e) : FALSE
      BY <2>4
    <2>9. ~ (Cardinality(Holding(e, Len(e), p)) > 1)
      BY <2>6
    <2>10. Cardinality(Holding(e, Len(e), p)) <= Cardinality(Holding(s, 0, p))
      BY <2>6
    <2>7. Joined(e, s, 0, p)
      BY <2>2, <2>4, <2>5, <2>8, <2>9, <2>10, Zenon DEF Joined
    <2> QED
      BY <2>1, <2>3, <2>7
  <1>6. ASSUME NEW i \in Nat, Good(i) PROVE Good(i + 1)
    <2>1. SUFFICES ASSUME i + 1 <= n PROVE Joined(m[i + 1], s, i + 1, p)
      OBVIOUS
    <2>2. i <= n /\ i + 1 \in 1 .. n /\ i + 1 \in 0 .. n /\ i + 1 # 0
            /\ (i + 1) - 1 = i
      BY <2>1
    <2>3. PICK c : c = m[i]
      OBVIOUS
    <2>4. Joined(c, s, i, p)
      BY <1>6, <2>2, <2>3
    <2>5. PICK r : r = s[i + 1]
      OBVIOUS
    <2>6. r \in Int \X Int /\ r[1] <= r[2]
      BY <1>4, <2>2, <2>5
    <2>7. m[i + 1] = Ranges!Extend(c, r)
      <3>1. m[i + 1] = Ranges!Extend(m[(i + 1) - 1], s[i + 1])
        BY <1>3, <2>2, Zenon
      <3> QED
        BY <2>2, <2>3, <2>5, <3>1, Zenon
    <2>8. PICK k \in Nat : k = Len(c)
      BY <2>4 DEF Joined, Proper
    <2>11. ASSUME i # 0 PROVE s[i] \in Int \X Int /\ s[i][1] <= s[i + 1][1]
      <3>1. i \in 1 .. n
        BY <2>2, <2>11
      <3>2. i \in 1 .. Len(s) - 1
        BY <1>1, <2>1, <2>11
      <3> QED
        BY <1>4, <3>1, <3>2 DEF Ascending
    <2>9. CASE k > 0 /\ Ranges!Joins(c[k], r)
      <3>1. m[i + 1] = [c EXCEPT ![Len(c)][2] = Ranges!Larger(@, s[i + 1][2])]
        BY <2>5, <2>7, <2>8, <2>9 DEF Ranges!Extend
      <3>2. i # 0
        <4>1. SUFFICES ASSUME i = 0 PROVE FALSE
          OBVIOUS
        <4>2. m[0] = <<>>
          BY <1>3
        <4> QED
          BY <2>3, <2>8, <2>9, <4>1, <4>2
      <3>4. s[i] \in Int \X Int /\ s[i][1] <= s[i + 1][1]
        BY <2>11, <3>2
      <3>6. s[i + 1][1] <= c[Len(c)][2] + 1
        BY <2>5, <2>8, <2>9 DEF Ranges!Joins
      <3>7. s[i + 1] \in Int \X Int /\ s[i + 1][1] <= s[i + 1][2]
        BY <2>5, <2>6, Zenon
      <3>8. Joined([c EXCEPT ![Len(c)][2] = Ranges!Larger(@, s[i + 1][2])],
                   s, i + 1, p)
        BY <2>4, <3>2, <3>4, <3>6, <3>7, Widened
      <3> QED
        BY <3>1, <3>8, Zenon
    <2>10. CASE ~ (k > 0 /\ Ranges!Joins(c[k], r))
      <3>1. m[i + 1] = Append(c, r)
        BY <2>7, <2>8, <2>10 DEF Ranges!Extend
      <3>2. ~ (Len(c) > 0 /\ Ranges!Joins(c[Len(c)], s[i + 1]))
        BY <2>5, <2>8, <2>10, Zenon
      <3>3. s[i + 1] \in Int \X Int /\ s[i + 1][1] <= s[i + 1][2]
        BY <2>5, <2>6, Zenon
      <3>4. Joined(Append(c, s[i + 1]), s, i + 1, p)
        BY <2>4, <2>11, <3>2, <3>3, Appended
      <3> QED
        BY <2>5, <3>1, <3>4, Zenon
    <2> QED
      BY <2>9, <2>10
  <1>7. Good(n)
    <2>1. PICK S : S = {i \in Nat : Good(i)}
      OBVIOUS
    <2>2. 0 \in S
      BY <1>5, <2>1
    <2>3. \A i \in Nat : i \in S => i + 1 \in S
      BY <1>6, <2>1
    <2>4. Nat \subseteq S
      BY <2>2, <2>3, Induction
    <2> QED
      BY <2>1, <2>4
  <1> QED
    BY <1>1, <1>2, <1>7

-----------------------------------------------------------------------------
\* Sorting changes the order of the ranges only.
LEMMA SortedHeld ==
  ASSUME NEW rs, Proper(rs), NEW s \in Ranges!Sorted(rs), NEW p
  PROVE  /\ Ascending(s) /\ Len(s) = Len(rs)
         /\ Cardinality(Holding(s, Len(s), p)) = Cardinality(Holding(rs, Len(rs), p))
         /\ Holding(s, Len(s), p) = {} <=> Holding(rs, Len(rs), p) = {}
         /\ Twice(s, Len(s), p) => Twice(rs, Len(rs), p)
  <1>1. PICK n \in Nat : n = Len(rs)
    BY DEF Proper
  <1>2. DOMAIN rs = 1 .. n
    BY <1>1 DEF Proper
  <1>3. PICK f \in [1 .. n -> 1 .. n] :
           /\ \A i, j \in 1 .. n : f[i] = f[j] => i = j
           /\ \A i \in 1 .. n - 1 : rs[f[i]][1] <= rs[f[i + 1]][1]
           /\ s = [i \in 1 .. n |-> rs[f[i]]]
    <2>1. PICK f \in [DOMAIN rs -> DOMAIN rs] :
             /\ \A i, j \in DOMAIN rs : f[i] = f[j] => i = j
             /\ \A i \in 1 .. Len(rs) - 1 : rs[f[i]][1] <= rs[f[i + 1]][1]
             /\ s = [i \in DOMAIN rs |-> rs[f[i]]]
      BY Zenon DEF Ranges!Sorted
    <2> QED
      BY <1>1, <1>2, <2>1, Zenon
  <1>4. \A i \in 1 .. n : f[i] \in 1 .. n /\ s[i] = rs[f[i]]
    BY <1>3
  <1>5. \A i \in 1 .. n : rs[i] \in Int \X Int /\ rs[i][1] <= rs[i][2]
    <2>1. rs \in Seq(Int \X Int) /\ \A i \in 1 .. n : rs[i][1] <= rs[i][2]
      BY <1>1, Zenon DEF Proper
    <2>2. \A i \in 1 .. n : rs[i] \in Int \X Int
      BY <1>1, <2>1
    <2> QED
      BY <2>1, <2>2, Zenon
  <1>6. Len(s) = n
    BY <1>3
  <1>7. Ascending(s)
    <2>1. \A i \in 1 .. n : s[i] \in Int \X Int /\ s[i][1] <= s[i][2]
      BY <1>4, <1>5, Zenon
    <2>2. s \in Seq(Int \X Int)
      BY <1>3, <1>6, <2>1
    <2>3. ASSUME NEW i \in 1 .. n - 1 PROVE s[i][1] <= s[i + 1][1]
      <3>1. i \in 1 .. n /\ i + 1 \in 1 .. n
        OBVIOUS
      <3>2. rs[f[i]][1] <= rs[f[i + 1]][1]
        BY <1>3, Zenon
      <3>3. s[i] = rs[f[i]] /\ s[i + 1] = rs[f[i + 1]]
        BY <1>4, <3>1, Zenon
      <3> QED
        BY <3>2, <3>3, Zenon
    <2> QED
      BY <1>6, <2>1, <2>2, <2>3 DEF Ascending, Proper
  <1>8. IsFiniteSet(1 .. n)
    BY FS_Interval
  <1>9. f \in Injection(1 .. n, 1 .. n)
    BY <1>3, Zenon DEF Injection, IsInjective
  <1>10. f \in Surjection(1 .. n, 1 .. n)
    BY <1>8, <1>9, FS_Injection
  <1>11. \A j \in 1 .. n : \E i \in 1 .. n : f[i] = j
    BY <1>10, Zenon DEF Surjection
  <1>12. PICK H : H = Holding(s, n, p)
    OBVIOUS
  <1>13. PICK K : K = Holding(rs, n, p)
    OBVIOUS
  <1>14. \A i \in 1 .. n : i \in H <=> f[i] \in K
    BY <1>4, <1>12, <1>13, Zenon DEF Holding
  <1>15. H \subseteq 1 .. n /\ K \subseteq 1 .. n
    BY <1>12, <1>13 DEF Holding
  <1>16. PICK g : g = [i \in H |-> f[i]]
    OBVIOUS
  <1>17. \A i \in H : g[i] = f[i]
    BY <1>16
  <1>18. g \in [H -> K]
    BY <1>14, <1>15, <1>16
  <1>19. \A i, j \in H : g[i] = g[j] => i = j
    BY <1>3, <1>15, <1>17, Zenon
  <1>20. \A j \in K : \E i \in H : g[i] = j
    <2>1. ASSUME NEW j \in K PROVE \E i \in H : g[i] = j
      <3>1. PICK i \in 1 .. n : f[i] = j
        BY <1>11, <1>15
      <3>2. i \in H
        BY <1>14, <3>1
      <3> QED
        BY <1>17, <3>1, <3>2
    <2> QED
      BY <2>1
  <1>21. g \in Injection(H, K)
    BY <1>18, <1>19, Zenon DEF Injection, IsInjective
  <1>22. g \in Surjection(H, K)
    BY <1>18, <1>20, Zenon DEF Surjection
  <1>23. IsFiniteSet(K)
    BY <1>13, HoldingFinite
  <1>24. Cardinality(H) = Cardinality(K)
    BY <1>21, <1>22, <1>23, FS_Injection
  <1>25. H = {} <=> K = {}
    <2>1. CASE H = {}
      BY <1>20, <2>1
    <2>2. CASE H # {}
      BY <1>18, <2>2
    <2> QED
      BY <2>1, <2>2
  <1>26. ASSUME Twice(s, n, p) PROVE Twice(rs, n, p)
    <2>1. PICK i \in 1 .. n, j \in 1 .. n : i # j /\ s[i] = s[j] /\ Within(s[i], p)
      BY <1>26, Zenon DEF Twice
    <2>2. f[i] \in 1 .. n /\ f[j] \in 1 .. n /\ f[i] # f[j]
      BY <1>3, <1>4, <2>1, Zenon
    <2> QED
      BY <1>4, <2>1, <2>2, Zenon DEF Twice
  <1> QED
    BY <1>1, <1>6, <1>7, <1>12, <1>13, <1>24, <1>25, <1>26

-----------------------------------------------------------------------------
(***************************************************************************)
(* A request and its answer, for contents of any length and any number of  *)
(* ranges.                                                                 *)
(***************************************************************************)
\* The bytes of a content of length L that a range asks for.
AskedOf(L, r) ==
  {p \in 0 .. L - 1 :
     IF r[1] = -1 THEN p >= L - r[2] ELSE p >= r[1] /\ (r[2] = -1 \/ p <= r[2])}

AskedTimes(L, ranges, p) ==
  Cardinality({i \in DOMAIN ranges : p \in AskedOf(L, ranges[i])})

SentTimes(w, p) == Cardinality({i \in DOMAIN w : w[i] = p})

\* The same range, with p in it, was asked for twice.
TwiceAsked(L, ranges, p) ==
  \E i, j \in DOMAIN ranges :
     i # j /\ AskedOf(L, ranges[i]) = AskedOf(L, ranges[j]) /\ p \in AskedOf(L, ranges[i])

Overlapping(L, ranges) ==
  {i \in DOMAIN ranges :
     \E j \in 1 .. i - 1 : AskedOf(L, ranges[i]) \cap AskedOf(L, ranges[j]) # {}}

Refusable(L, ranges) ==
  \/ Len(ranges) > RangeMax
  \/ \E i \in DOMAIN ranges :
        \/ ~ Ranges!Parses(ranges[i]) \/ AskedOf(L, ranges[i]) = {}
        \/ ranges[i][1] = -1 /\ ranges[i][2] > L
  \/ Cardinality(Overlapping(L, ranges)) > 2

Asking == Nat \cup {-1}

\* What is a range of the content after the bounds are put in is what was
\* asked for, and what is none asks for nothing, or for too long a suffix.
LEMMA NormalAsked ==
  ASSUME NEW L \in Nat, L = Ranges!content_len,
         NEW r \in Asking \X Asking, Ranges!Parses(r)
  PROVE  /\ Ranges!Normal(r) \in Int \X Int
         /\ Ranges!Fits(Ranges!Normal(r)) =>
              /\ Ranges!Normal(r)[1] <= Ranges!Normal(r)[2]
              /\ 0 <= Ranges!Normal(r)[1] /\ Ranges!Normal(r)[2] < L
              /\ \A p \in 0 .. L - 1 :
                    p \in AskedOf(L, r) <=> Within(Ranges!Normal(r), p)
              /\ AskedOf(L, r) # {} /\ ~ (r[1] = -1 /\ r[2] > L)
         /\ ~ Ranges!Fits(Ranges!Normal(r)) =>
              AskedOf(L, r) = {} \/ (r[1] = -1 /\ r[2] > L)
  <1>1. PICK a \in Asking, b \in Asking : r = <<a, b>>
    OBVIOUS
  <1>2. r[1] = a /\ r[2] = b
    BY <1>1
  <1>3. a \in Int /\ b \in Int /\ -1 <= a /\ -1 <= b
    BY DEF Asking
  <1>4. /\ ~ (a = -1 /\ b = -1)
        /\ a # -1 /\ b # -1 => a <= b
    BY <1>1, <1>2, <1>3 DEF Ranges!Parses, Ranges!None
  <1>5. PICK x \in Int : x = (IF a # -1 THEN a ELSE L - b)
    <2>1. L - b \in Int
      BY <1>3
    <2>2. (IF a # -1 THEN a ELSE L - b) \in Int
      BY <1>3, <2>1, Zenon
    <2> QED
      BY <2>2, Zenon
  <1>6. PICK y \in Int : y = (IF a = -1 \/ b = -1 \/ b >= L THEN L - 1 ELSE b)
    <2>1. L - 1 \in Int
      OBVIOUS
    <2>2. (IF a = -1 \/ b = -1 \/ b >= L THEN L - 1 ELSE b) \in Int
      BY <1>3, <2>1, Zenon
    <2> QED
      BY <2>2, Zenon
  <1>7. Ranges!Normal(r) = <<x, y>>
    BY <1>2, <1>3, <1>4, <1>5, <1>6 DEF Ranges!Normal, Ranges!None
  <1>8. \A p \in 0 .. L - 1 :
           p \in AskedOf(L, r) <=>
             IF a = -1 THEN p >= L - b ELSE p >= a /\ (b = -1 \/ p <= b)
    BY <1>2 DEF AskedOf
  <1>9. Ranges!Fits(Ranges!Normal(r)) <=> 0 <= x /\ x <= y /\ y < L
    BY <1>7 DEF Ranges!Fits
  <1>10. \A p \in 0 .. L - 1 : Within(Ranges!Normal(r), p) <=> x <= p /\ p <= y
    BY <1>7 DEF Within
  <1>11. ASSUME NEW p \in 0 .. L - 1
         PROVE  (IF a = -1 THEN p >= L - b ELSE p >= a /\ (b = -1 \/ p <= b))
                  <=> (x <= p /\ p <= y)
    BY <1>3, <1>4, <1>5, <1>6
  <1>12. ASSUME ~ (0 <= x /\ x <= y /\ y < L)
         PROVE  AskedOf(L, r) = {} \/ (r[1] = -1 /\ r[2] > L)
    <2>1. CASE a = -1
      <3>1. b \in Nat
        BY <1>3, <1>4, <2>1
      <3>2. x = L - b /\ y = L - 1
        BY <1>5, <1>6, <2>1
      <3>3. b > L \/ b = 0
        BY <1>12, <3>1, <3>2
      <3>4. CASE b = 0
        <4>1. \A p \in 0 .. L - 1 : p \notin AskedOf(L, r)
          BY <1>8, <2>1, <3>4
        <4> QED
          BY <4>1 DEF AskedOf
      <3> QED
        BY <1>2, <2>1, <3>3, <3>4
    <2>2. CASE a # -1
      <3>1. a >= L
        BY <1>3, <1>4, <1>5, <1>6, <1>12, <2>2
      <3>2. \A p \in 0 .. L - 1 : p \notin AskedOf(L, r)
        BY <1>3, <1>8, <2>2, <3>1
      <3> QED
        BY <3>2 DEF AskedOf
    <2> QED
      BY <2>1, <2>2
  <1>13. /\ Ranges!Normal(r) \in Int \X Int
         /\ Ranges!Normal(r)[1] = x /\ Ranges!Normal(r)[2] = y
    BY <1>7
  <1>14. ASSUME 0 <= x, x <= y, y < L
         PROVE  AskedOf(L, r) # {} /\ ~ (r[1] = -1 /\ r[2] > L)
    <2>1. x \in 0 .. L - 1
      BY <1>14
    <2>2. IF a = -1 THEN x >= L - b ELSE x >= a /\ (b = -1 \/ x <= b)
      BY <1>11, <1>14, <2>1
    <2>3. x \in AskedOf(L, r)
      BY <1>8, <2>1, <2>2, Zenon
    <2>4. ~ (a = -1 /\ b > L)
      BY <1>3, <1>5, <1>14
    <2> QED
      BY <1>2, <2>3, <2>4
  <1> QED
    BY <1>8, <1>9, <1>10, <1>11, <1>12, <1>13, <1>14

\* Two ranges of the content overlap when they ask for a byte in common.
LEMMA CommonBytes ==
  ASSUME NEW L \in Nat, L = Ranges!content_len,
         NEW r \in Asking \X Asking, Ranges!Parses(r), Ranges!Fits(Ranges!Normal(r)),
         NEW t \in Asking \X Asking, Ranges!Parses(t), Ranges!Fits(Ranges!Normal(t))
  PROVE  Ranges!Overlap(Ranges!Normal(r), Ranges!Normal(t))
           <=> AskedOf(L, r) \cap AskedOf(L, t) # {}
  <1>1. PICK x : x = Ranges!Normal(r)
    OBVIOUS
  <1>2. PICK y : y = Ranges!Normal(t)
    OBVIOUS
  <1>3. /\ x \in Int \X Int /\ x[1] <= x[2] /\ 0 <= x[1] /\ x[2] < L
        /\ \A p \in 0 .. L - 1 : p \in AskedOf(L, r) <=> Within(x, p)
    BY <1>1, NormalAsked
  <1>4. /\ y \in Int \X Int /\ y[1] <= y[2] /\ 0 <= y[1] /\ y[2] < L
        /\ \A p \in 0 .. L - 1 : p \in AskedOf(L, t) <=> Within(y, p)
    BY <1>2, NormalAsked
  <1>5. PICK a \in Int, b \in Int, u \in Int, v \in Int :
           a = x[1] /\ b = x[2] /\ u = y[1] /\ v = y[2]
    BY <1>3, <1>4
  <1>6. a <= b /\ 0 <= a /\ b < L /\ u <= v /\ 0 <= u /\ v < L
    BY <1>3, <1>4, <1>5
  <1>7. Ranges!Overlap(x, y) <=> a <= v /\ u <= b
    BY <1>5 DEF Ranges!Overlap
  <1>8. \A p : /\ Within(x, p) <=> a <= p /\ p <= b
               /\ Within(y, p) <=> u <= p /\ p <= v
    BY <1>5, Zenon DEF Within
  <1>9. ASSUME a <= v, u <= b PROVE AskedOf(L, r) \cap AskedOf(L, t) # {}
    <2>1. PICK p \in Int : p = (IF a > u THEN a ELSE u)
      OBVIOUS
    <2>2. p \in 0 .. L - 1 /\ a <= p /\ p <= b /\ u <= p /\ p <= v
      BY <1>6, <1>9, <2>1
    <2>3. p \in AskedOf(L, r) /\ p \in AskedOf(L, t)
      BY <1>3, <1>4, <1>8, <2>2, Zenon
    <2> QED
      BY <2>3
  <1>10. ASSUME AskedOf(L, r) \cap AskedOf(L, t) # {} PROVE a <= v /\ u <= b
    <2>1. PICK p : p \in AskedOf(L, r) /\ p \in AskedOf(L, t)
      BY <1>10
    <2>2. p \in 0 .. L - 1
      BY <2>1, Zenon DEF AskedOf
    <2>3. a <= p /\ p <= b /\ u <= p /\ p <= v
      BY <1>3, <1>4, <1>8, <2>1, <2>2, Zenon
    <2>4. p \in Int
      BY <2>2
    <2> QED
      BY <2>3, <2>4
  <1> QED
    BY <1>1, <1>2, <1>7, <1>9, <1>10, Zenon

\* The server finds an error in ranges exactly when there is a cause.
LEMMA RefusedForCause ==
  ASSUME NEW L \in Nat, L = Ranges!content_len,
         NEW ranges \in Seq(Asking \X Asking),
         \A i \in DOMAIN ranges : Ranges!Parses(ranges[i])
  PROVE  Ranges!RangeError(ranges) <=> Refusable(L, ranges)
  <1>1. PICK n \in Nat : n = Len(ranges) /\ DOMAIN ranges = 1 .. n
    OBVIOUS
  <1>2. PICK rs : rs = [i \in 1 .. n |-> Ranges!Normal(ranges[i])]
    OBVIOUS
  <1>3. \A i \in 1 .. n : /\ ranges[i] \in Asking \X Asking
                          /\ Ranges!Parses(ranges[i])
                          /\ rs[i] = Ranges!Normal(ranges[i])
    <2>1. ASSUME NEW i \in 1 .. n
          PROVE  ranges[i] \in Asking \X Asking
      BY <1>1
    <2> QED
      BY <1>1, <1>2, <2>1, Zenon
  <1>4. /\ DOMAIN rs = 1 .. n /\ Len(rs) = n
    BY <1>2
  <1>5. PICK O : O = {i \in 1 .. n : \E j \in 1 .. i - 1 :
                                        Ranges!Overlap(rs[i], rs[j])}
    OBVIOUS
  <1>6. Ranges!RangeError(ranges) <=> \/ n > RangeMax
                                      \/ \E i \in 1 .. n : ~ Ranges!Fits(rs[i])
                                      \/ Cardinality(O) > 2
    BY <1>1, <1>2, <1>4, <1>5, SameCardinality, Zenon
       DEF Ranges!RangeError, SameCount
  <1>7. ASSUME NEW i \in 1 .. n
        PROVE  Ranges!Fits(rs[i]) <=> ~ (\/ AskedOf(L, ranges[i]) = {}
                                         \/ ranges[i][1] = -1 /\ ranges[i][2] > L)
    <2>1. PICK r \in Asking \X Asking : r = ranges[i]
      BY <1>3
    <2>2. Ranges!Parses(r) /\ rs[i] = Ranges!Normal(r)
      BY <1>3, <2>1
    <2> QED
      BY <2>1, <2>2, NormalAsked
  <1>8. CASE \E i \in 1 .. n : ~ Ranges!Fits(rs[i])
    BY <1>1, <1>6, <1>7, <1>8, Zenon DEF Refusable
  <1>9. CASE \A i \in 1 .. n : Ranges!Fits(rs[i])
    <2>1. ASSUME NEW i \in 1 .. n, NEW j \in 1 .. i - 1
          PROVE  Ranges!Overlap(rs[i], rs[j])
                   <=> AskedOf(L, ranges[i]) \cap AskedOf(L, ranges[j]) # {}
      <3>1. j \in 1 .. n
        OBVIOUS
      <3>2. PICK r \in Asking \X Asking, t \in Asking \X Asking :
               r = ranges[i] /\ t = ranges[j]
        BY <1>3, <3>1
      <3>3. /\ Ranges!Parses(r) /\ rs[i] = Ranges!Normal(r)
            /\ Ranges!Parses(t) /\ rs[j] = Ranges!Normal(t)
        BY <1>3, <3>1, <3>2, Zenon
      <3>4. Ranges!Fits(Ranges!Normal(r)) /\ Ranges!Fits(Ranges!Normal(t))
        BY <1>9, <3>1, <3>3, Zenon
      <3>5. Ranges!Overlap(Ranges!Normal(r), Ranges!Normal(t))
              <=> AskedOf(L, r) \cap AskedOf(L, t) # {}
        BY <3>3, <3>4, CommonBytes
      <3> QED
        BY <3>2, <3>3, <3>5, Zenon
    <2>2. O = Overlapping(L, ranges)
      BY <1>1, <1>5, <2>1, Zenon DEF Overlapping
    <2> QED
      BY <1>1, <1>3, <1>6, <1>7, <1>9, <2>2, Zenon DEF Refusable
  <1> QED
    BY <1>8, <1>9, Zenon

\* The ranges that are left are sent, each byte of them that was asked for
\* once at least, and as often as it was asked for at most, and more than once
\* only if it was asked for in the same range twice.
LEMMA PartServed ==
  ASSUME NEW L \in Nat, L = Ranges!content_len,
         NEW ranges \in Seq(Asking \X Asking), ranges # <<>>,
         \A i \in DOMAIN ranges : Ranges!Parses(ranges[i]),
         ~ Ranges!RangeError(ranges),
         NEW c \in Ranges!Coalesced(ranges)
  PROVE  /\ c # <<>>
         /\ \A p \in 0 .. L - 1 :
               /\ SentTimes(Ranges!Selected(c), p) <= AskedTimes(L, ranges, p)
               /\ SentTimes(Ranges!Selected(c), p) = 0
                    <=> AskedTimes(L, ranges, p) = 0
               /\ SentTimes(Ranges!Selected(c), p) > 1 => TwiceAsked(L, ranges, p)
  <1>1. PICK n \in Nat : n = Len(ranges) /\ DOMAIN ranges = 1 .. n /\ n # 0
    OBVIOUS
  <1>2. PICK rs : rs = [i \in 1 .. n |-> Ranges!Normal(ranges[i])]
    OBVIOUS
  <1>3. \A i \in 1 .. n : /\ ranges[i] \in Asking \X Asking
                          /\ Ranges!Parses(ranges[i])
                          /\ rs[i] = Ranges!Normal(ranges[i])
    BY <1>1, <1>2
  <1>4. /\ DOMAIN rs = 1 .. n /\ Len(rs) = n
    BY <1>2
  <1>5. \A i \in 1 .. n : Ranges!Fits(rs[i])
    BY <1>1, <1>2, <1>4, Zenon DEF Ranges!RangeError
  <1>6. ASSUME NEW i \in 1 .. n
        PROVE  /\ rs[i] \in Int \X Int /\ rs[i][1] <= rs[i][2]
               /\ \A p \in 0 .. L - 1 :
                     p \in AskedOf(L, ranges[i]) <=> Within(rs[i], p)
    <2>1. PICK r \in Asking \X Asking : r = ranges[i]
      BY <1>3
    <2>2. Ranges!Parses(r) /\ rs[i] = Ranges!Normal(r)
      BY <1>3, <2>1
    <2>3. Ranges!Fits(Ranges!Normal(r))
      BY <1>5, <2>2
    <2> QED
      BY <2>1, <2>2, <2>3, NormalAsked
  <1>7. Proper(rs)
    <2>1. rs \in Seq(Int \X Int)
      BY <1>2, <1>4, <1>6
    <2> QED
      BY <1>4, <1>6, <2>1 DEF Proper
  <1>8. PICK s \in Ranges!Sorted(rs) : c = Ranges!Merged(s)
    BY <1>1, <1>2, Zenon DEF Ranges!Coalesced
  <1>9. Ascending(s) /\ Len(s) = n
    BY <1>4, <1>7, SortedHeld
  <1>10. ASSUME NEW p \in Nat PROVE Joined(c, s, n, p)
    <2>1. Joined(Ranges!Merged(s), s, Len(s), p)
      BY <1>9, MergedHeld
    <2> QED
      BY <1>8, <1>9, <2>1, Zenon
  <1>11. Proper(c) /\ Len(c) # 0
    BY <1>1, <1>10 DEF Joined
  <1>12. ASSUME NEW p \in 0 .. L - 1
         PROVE  /\ SentTimes(Ranges!Selected(c), p) <= AskedTimes(L, ranges, p)
                /\ SentTimes(Ranges!Selected(c), p) = 0
                     <=> AskedTimes(L, ranges, p) = 0
                /\ SentTimes(Ranges!Selected(c), p) > 1 => TwiceAsked(L, ranges, p)
    <2>1. p \in Nat
      OBVIOUS
    <2>2. PICK w : w = Ranges!Selected(c)
      OBVIOUS
    <2>3. w \in Seq(Int) /\ Cardinality(PlacesOf(w, p)) = Cardinality(Holding(c, Len(c), p))
      BY <1>11, <2>1, <2>2, SelectedHeld
    <2>4. SentTimes(w, p) = Cardinality(PlacesOf(w, p))
      <3>1. DOMAIN w = 1 .. Len(w)
        BY <2>3
      <3> QED
        BY <3>1, Zenon DEF SentTimes, PlacesOf
    <2>5. {i \in DOMAIN ranges : p \in AskedOf(L, ranges[i])} = Holding(rs, n, p)
      <3>1. \A i \in 1 .. n : p \in AskedOf(L, ranges[i]) <=> Within(rs[i], p)
        BY <1>6
      <3> QED
        BY <1>1, <3>1, Zenon DEF Holding
    <2>6. AskedTimes(L, ranges, p) = Cardinality(Holding(rs, n, p))
      BY <2>5, Zenon DEF AskedTimes
    <2>7. /\ Cardinality(Holding(s, n, p)) = Cardinality(Holding(rs, n, p))
          /\ Holding(s, n, p) = {} <=> Holding(rs, n, p) = {}
          /\ Twice(s, n, p) => Twice(rs, n, p)
      <3>1. /\ Cardinality(Holding(s, Len(s), p))
                 = Cardinality(Holding(rs, Len(rs), p))
            /\ Holding(s, Len(s), p) = {} <=> Holding(rs, Len(rs), p) = {}
            /\ Twice(s, Len(s), p) => Twice(rs, Len(rs), p)
        BY <1>7, SortedHeld
      <3> QED
        BY <1>4, <1>9, <3>1
    <2>8. /\ Cardinality(Holding(c, Len(c), p)) <= Cardinality(Holding(s, n, p))
          /\ Holding(c, Len(c), p) = {} <=> Holding(s, n, p) = {}
          /\ Cardinality(Holding(c, Len(c), p)) > 1 => Twice(s, n, p)
      BY <1>10, <2>1 DEF Joined
    <2>9. PICK k \in Nat : k = Len(c)
      BY <1>11 DEF Proper
    <2>10. /\ Cardinality(Holding(c, k, p)) = 0 <=> Holding(c, k, p) = {}
           /\ Cardinality(Holding(rs, n, p)) = 0 <=> Holding(rs, n, p) = {}
      BY HoldingFinite, FS_EmptySet
    <2>11. ASSUME Twice(rs, n, p) PROVE TwiceAsked(L, ranges, p)
      <3>1. PICK i \in 1 .. n, j \in 1 .. n :
               i # j /\ rs[i] = rs[j] /\ Within(rs[i], p)
        BY <2>11, Zenon DEF Twice
      <3>2. \A q \in 0 .. L - 1 :
               q \in AskedOf(L, ranges[i]) <=> q \in AskedOf(L, ranges[j])
        BY <1>6, <3>1, Zenon
      <3>3. AskedOf(L, ranges[i]) = AskedOf(L, ranges[j])
        <4>1. \A q : q \in AskedOf(L, ranges[i]) => q \in 0 .. L - 1
          BY Zenon DEF AskedOf
        <4>2. \A q : q \in AskedOf(L, ranges[j]) => q \in 0 .. L - 1
          BY Zenon DEF AskedOf
        <4> QED
          BY <3>2, <4>1, <4>2, Zenon
      <3>4. p \in AskedOf(L, ranges[i])
        BY <1>6, <3>1, Zenon
      <3> QED
        BY <1>1, <3>1, <3>3, <3>4, Zenon DEF TwiceAsked
    <2> QED
      BY <2>2, <2>3, <2>4, <2>6, <2>7, <2>8, <2>9, <2>10, <2>11
  <1>13. c # <<>>
    BY <1>11
  <1> QED
    BY <1>12, <1>13

\* The whole content has each byte once.
LEMMA WholeServed ==
  ASSUME NEW L \in Nat, L = Ranges!content_len
  PROVE  /\ Len(Ranges!Whole) = L
         /\ \A p \in 0 .. L - 1 : SentTimes(Ranges!Whole, p) = 1
  <1>1. PICK w : w = [i \in 1 .. L |-> i - 1]
    OBVIOUS
  <1>2. Ranges!Whole = w
    <2>1. (L - 1) - 0 + 1 = L /\ \A i \in Int : 0 + i - 1 = i - 1
      OBVIOUS
    <2> QED
      BY <1>1, <2>1 DEF Ranges!Whole, Ranges!Bytes
  <1>3. Len(w) = L /\ DOMAIN w = 1 .. L
    BY <1>1
  <1>4. ASSUME NEW p \in 0 .. L - 1 PROVE SentTimes(w, p) = 1
    <2>1. {i \in DOMAIN w : w[i] = p} = {p + 1}
      BY <1>1, <1>3
    <2> QED
      BY <2>1, FS_Singleton DEF SentTimes
  <1> QED
    BY <1>2, <1>3, <1>4

\* What OnlyAsked says of an answer that is written.
Served(L, q, a) ==
  /\ a.status = 206 /\ ~ q.head /\ q.ranges # <<>> =>
       \A p \in 0 .. L - 1 :
          /\ SentTimes(a.sent, p) <= AskedTimes(L, q.ranges, p)
          /\ SentTimes(a.sent, p) = 0 <=> AskedTimes(L, q.ranges, p) = 0
          /\ SentTimes(a.sent, p) > 1 => TwiceAsked(L, q.ranges, p)
  /\ a.status = 200 /\ ~ q.head /\ (q.own = 0 \/ q.source = "body") =>
       \A p \in 0 .. L - 1 : SentTimes(a.sent, p) = 1

LEMMA ServedIsOnlyAsked ==
  Served(Ranges!content_len, request, answer) => Ranges!OnlyAsked
  <1>1. PICK L : L = Ranges!content_len
    OBVIOUS
  <1>2. \A r : Ranges!Asked(r) = AskedOf(L, r)
    BY <1>1, Zenon DEF Ranges!Asked, AskedOf, Ranges!None
  <1>3. \A p : /\ Ranges!Cardinality({i \in DOMAIN answer.sent : answer.sent[i] = p})
                    = SentTimes(answer.sent, p)
               /\ Ranges!Cardinality({i \in DOMAIN request.ranges :
                                        p \in AskedOf(L, request.ranges[i])})
                    = AskedTimes(L, request.ranges, p)
    BY SameCardinality, Zenon DEF SameCount, SentTimes, AskedTimes
  <1> QED
    BY <1>1, <1>2, <1>3
       DEF Served, TwiceAsked, Ranges!OnlyAsked

LEMMA AnswerServed ==
  ASSUME request \in Requests, request' = request, Ranges!Answer
  PROVE  Served(Ranges!content_len, request, answer)'
  <1>1. PICK q : q = request /\ q \in Requests
    OBVIOUS
  <1>2. /\ q.source \in {"body", "provider", "chunked", "file"}
        /\ q.own \in {0} \cup 200 .. 299 /\ (q.source = "file" => q.own = 0)
        /\ q.length \in Nat /\ q.head \in BOOLEAN
        /\ q.ranges \in Seq(Asking \X Asking)
    BY <1>1, RequestsAssumption, ZenonT(60) DEF Asking
  <1>3. PICK L \in Nat : L = Ranges!content_len /\ L = Ranges!content_len'
    <2>1. (IF q.source = "chunked" THEN 0 ELSE q.length) \in Nat
      BY <1>2
    <2> QED
      BY <1>1, <2>1, Zenon DEF Ranges!content_len
  <1>4. PICK a : a = answer'
    OBVIOUS
  <1>5. SUFFICES Served(L, q, a)
    BY <1>1, <1>3, <1>4, Zenon
  <1>6. Ranges!req_ranges \in {<<>>, q.ranges}
          /\ (q.source # "file" => Ranges!req_ranges = q.ranges)
    BY <1>1, Zenon DEF Ranges!req_ranges
  <1>7. PICK st : st = (IF request.own # 0 THEN request.own
                        ELSE IF Ranges!req_ranges = <<>> THEN 200 ELSE 206)
    OBVIOUS
  <1>12. /\ st # 416
         /\ q.own = 0 => st = IF Ranges!req_ranges = <<>> THEN 200 ELSE 206
    <2>1. PICK o \in Nat : o = q.own /\ o < 300
      <3>1. q.own \in {0} \cup 200 .. 299
        BY <1>2
      <3>2. q.own \in Nat /\ q.own < 300
        BY <3>1
      <3> QED
        BY <3>2
    <2>2. st = o \/ st = 200 \/ st = 206
      BY <1>1, <1>7, <2>1, ZenonT(60)
    <2>3. st # 416
      BY <2>1, <2>2
    <2> QED
      BY <1>1, <1>7, <2>3, Zenon
  <1>8. CASE \E i \in DOMAIN q.ranges : ~ Ranges!Parses(q.ranges[i])
    <2>1. a.status = 416
      BY <1>1, <1>4, <1>8 DEF Ranges!Answer, Ranges!Without
    <2> QED
      BY <2>1 DEF Served
  <1>9. CASE /\ \A i \in DOMAIN q.ranges : Ranges!Parses(q.ranges[i])
             /\ Ranges!NotModified
    <2>1. a.status = 304
      BY <1>1, <1>4, <1>9 DEF Ranges!Answer, Ranges!Without
    <2> QED
      BY <2>1 DEF Served
  <1>10. CASE /\ \A i \in DOMAIN q.ranges : Ranges!Parses(q.ranges[i])
              /\ ~ Ranges!NotModified
              /\ Ranges!req_ranges # <<>> /\ Ranges!RangeError(Ranges!req_ranges)
    <2>1. a.status = 416
      BY <1>1, <1>4, <1>10 DEF Ranges!Answer, Ranges!Without
    <2> QED
      BY <2>1 DEF Served
  <1>11. CASE /\ \A i \in DOMAIN q.ranges : Ranges!Parses(q.ranges[i])
              /\ ~ Ranges!NotModified
              /\ ~ (Ranges!req_ranges # <<>> /\ Ranges!RangeError(Ranges!req_ranges))
    <2>1. PICK c \in IF Ranges!req_ranges = <<>> THEN {<<>>}
                     ELSE Ranges!Coalesced(Ranges!req_ranges) :
             answer' = [status |-> st, announced |-> Ranges!Announced(st, c),
                        sent |-> Ranges!Written(st, c)]
      BY <1>1, <1>7, <1>11 DEF Ranges!Answer
    <2>2. a.status = st /\ a.sent = Ranges!Written(st, c)
      BY <1>4, <2>1
    <2>3. CASE Ranges!req_ranges = <<>>
      <3>1. c = <<>>
        BY <2>1, <2>3
      <3>2. st # 206 \/ q.source # "file"
        <4>1. q.source = "file" => q.own = 0
          BY <1>2, Zenon
        <4> QED
          BY <1>12, <2>3, <4>1
      <3>4. q.source # "file" => q.ranges = <<>>
        BY <1>6, <2>3
      <3>5. ~ q.head => a.sent = Ranges!Whole
        BY <1>1, <2>2, <3>1, Zenon DEF Ranges!Written
      <3>6. ~ q.head => \A p \in 0 .. L - 1 : SentTimes(a.sent, p) = 1
        BY <1>3, <3>5, WholeServed
      <3> QED
        BY <2>2, <1>12, <3>2, <3>4, <3>6 DEF Served
    <2>4. CASE Ranges!req_ranges # <<>>
      <3>1. Ranges!req_ranges = q.ranges /\ q.ranges # <<>>
        BY <1>6, <2>4
      <3>2. c \in Ranges!Coalesced(q.ranges)
        BY <2>1, <2>4, <3>1
      <3>3. ~ Ranges!RangeError(q.ranges)
        BY <1>11, <3>1, Zenon
      <3>4. /\ c # <<>>
            /\ \A p \in 0 .. L - 1 :
                  /\ SentTimes(Ranges!Selected(c), p) <= AskedTimes(L, q.ranges, p)
                  /\ SentTimes(Ranges!Selected(c), p) = 0
                       <=> AskedTimes(L, q.ranges, p) = 0
                  /\ SentTimes(Ranges!Selected(c), p) > 1 => TwiceAsked(L, q.ranges, p)
        BY <1>2, <1>3, <1>11, <3>1, <3>2, <3>3, PartServed
      <3>6. st = 206 /\ ~ q.head => a.sent = Ranges!Selected(c)
        BY <1>1, <2>2, <3>4, Zenon DEF Ranges!Written, Ranges!Partial
      <3>7. st = 200 => q.own # 0
        BY <1>12, <2>4
      <3>8. st = 200 /\ ~ q.head /\ q.source = "body" => a.sent = Ranges!Whole
        <4>1. 200 # 206
          OBVIOUS
        <4> QED
          BY <1>1, <2>2, <4>1, ZenonT(60) DEF Ranges!Written, Ranges!Partial
      <3>9. st = 200 /\ ~ q.head /\ q.source = "body" =>
              \A p \in 0 .. L - 1 : SentTimes(a.sent, p) = 1
        <4>1. \A p \in 0 .. L - 1 : SentTimes(Ranges!Whole, p) = 1
          BY <1>3, WholeServed
        <4> QED
          BY <3>8, <4>1
      <3> QED
        BY <1>12, <2>2, <3>4, <3>6, <3>7, <3>9 DEF Served
    <2> QED
      BY <2>3, <2>4
  <1> QED
    BY <1>8, <1>9, <1>10, <1>11

\* As many bytes are written as were announced.
LEMMA AnswerAnnounced ==
  ASSUME request \in Requests, request' = request, Ranges!Answer
  PROVE  Ranges!AnnouncedIsSent'
  <1>1. PICK q : q = request /\ q = request' /\ q \in Requests
    OBVIOUS
  <1>2. q.length \in Nat /\ q.own \in {0} \cup 200 .. 299
    BY <1>1, RequestsAssumption, Zenon
  <1>3. PICK L \in Nat : L = Ranges!content_len
    <2>1. (IF q.source = "chunked" THEN 0 ELSE q.length) \in Nat
      BY <1>2
    <2> QED
      BY <1>1, <2>1, Zenon DEF Ranges!content_len
  <1>4. PICK a : a = answer'
    OBVIOUS
  <1>5. SUFFICES ASSUME ~ q.head, q.source # "chunked",
                        q.own \in {0, 206} \/ q.source = "body"
                 PROVE  Len(a.sent) = a.announced
    BY <1>1, <1>4, Zenon DEF Ranges!AnnouncedIsSent
  <1>6. CASE \E s : Ranges!Without(s)
    <2>1. a.sent = <<>> /\ a.announced = 0
      BY <1>4, <1>6 DEF Ranges!Without
    <2> QED
      BY <2>1
  <1>7. CASE ~ \E s : Ranges!Without(s)
    <2>1. PICK st : st = (IF request.own # 0 THEN request.own
                          ELSE IF Ranges!req_ranges = <<>> THEN 200 ELSE 206)
      OBVIOUS
    <2>2. PICK c \in IF Ranges!req_ranges = <<>> THEN {<<>>}
                     ELSE Ranges!Coalesced(Ranges!req_ranges) :
             answer' = [status |-> st, announced |-> Ranges!Announced(st, c),
                        sent |-> Ranges!Written(st, c)]
      BY <1>7, <2>1 DEF Ranges!Answer
    <2>3. a.announced = Ranges!Announced(st, c) /\ a.sent = Ranges!Written(st, c)
      BY <1>4, <2>2
    <2>4. a.announced = IF Ranges!Partial(st, c) THEN Len(Ranges!Selected(c)) ELSE L
      BY <1>1, <1>3, <1>5, <2>3, Zenon DEF Ranges!Announced
    <2>5. a.sent = IF c # <<>> /\ (q.source = "body" => Ranges!Partial(st, c))
                   THEN Ranges!Selected(c) ELSE Ranges!Whole
      BY <1>1, <1>5, <2>3, Zenon DEF Ranges!Written
    <2>6. Len(Ranges!Whole) = L
      BY <1>3, WholeServed
    <2>7. CASE q.source = "body"
      BY <2>4, <2>5, <2>6, <2>7, Zenon DEF Ranges!Partial
    <2>8. CASE q.source # "body"
      <3>1. q.own = 0 \/ q.own = 206
        BY <1>5, <2>8
      <3>2. c # <<>> => st = 206
        <4>1. Ranges!req_ranges = <<>> => c = <<>>
          BY <2>2
        <4> QED
          BY <1>1, <2>1, <3>1, <4>1
      <3> QED
        BY <2>4, <2>5, <2>6, <2>8, <3>2, Zenon DEF Ranges!Partial
    <2> QED
      BY <2>7, <2>8
  <1> QED
    BY <1>6, <1>7

\* Ranges are refused or served as RefusedRight says.
RefusedAt(L, q, rs, a) ==
  /\ a.status = 416 => Refusable(L, q.ranges)
  /\ a.status \in 200 .. 299 /\ rs # <<>> => ~ Refusable(L, rs)

LEMMA RefusedAtIsRight ==
  RefusedAt(Ranges!content_len, request, Ranges!req_ranges, answer)
    => Ranges!RefusedRight
  <1>1. PICK L : L = Ranges!content_len
    OBVIOUS
  <1>2. \A r : Ranges!Asked(r) = AskedOf(L, r)
    BY <1>1, Zenon DEF Ranges!Asked, AskedOf, Ranges!None
  <1>3. ASSUME NEW ranges PROVE Ranges!Refusable(ranges) <=> Refusable(L, ranges)
    <2>1. {i \in DOMAIN ranges :
              \E j \in 1 .. i - 1 :
                 Ranges!Asked(ranges[i]) \cap Ranges!Asked(ranges[j]) # {}}
            = Overlapping(L, ranges)
      BY <1>2, Zenon DEF Overlapping
    <2> QED
      BY <1>1, <1>2, <2>1, SameCardinality, Zenon
         DEF Ranges!Refusable, Refusable, SameCount, Ranges!None
  <1> QED
    BY <1>1, <1>3, Zenon DEF RefusedAt, Ranges!RefusedRight

LEMMA AnswerRefused ==
  ASSUME request \in Requests, request' = request, Ranges!Answer
  PROVE  RefusedAt(Ranges!content_len, request, Ranges!req_ranges, answer)'
  <1>1. PICK q : q = request /\ q \in Requests
    OBVIOUS
  <1>2. /\ q.own \in {0} \cup 200 .. 299 /\ q.length \in Nat
        /\ q.ranges \in Seq(Asking \X Asking)
    BY <1>1, RequestsAssumption, ZenonT(60) DEF Asking
  <1>3. PICK L \in Nat : L = Ranges!content_len /\ L = Ranges!content_len'
    <2>1. (IF q.source = "chunked" THEN 0 ELSE q.length) \in Nat
      BY <1>2
    <2> QED
      BY <1>1, <2>1, Zenon DEF Ranges!content_len
  <1>4. PICK rs : rs = Ranges!req_ranges /\ rs = Ranges!req_ranges'
    BY Zenon DEF Ranges!req_ranges
  <1>5. rs = <<>> \/ rs = q.ranges
    BY <1>1, <1>4, Zenon DEF Ranges!req_ranges
  <1>6. PICK a : a = answer'
    OBVIOUS
  <1>7. SUFFICES RefusedAt(L, q, rs, a)
    BY <1>1, <1>3, <1>4, <1>6, Zenon
  <1>8. CASE \E i \in DOMAIN q.ranges : ~ Ranges!Parses(q.ranges[i])
    <2>1. a.status = 416
      BY <1>1, <1>6, <1>8 DEF Ranges!Answer, Ranges!Without
    <2>2. Refusable(L, q.ranges)
      BY <1>8, Zenon DEF Refusable
    <2> QED
      BY <2>1, <2>2 DEF RefusedAt
  <1>9. CASE /\ \A i \in DOMAIN q.ranges : Ranges!Parses(q.ranges[i])
             /\ Ranges!NotModified
    <2>1. a.status = 304
      BY <1>1, <1>6, <1>9 DEF Ranges!Answer, Ranges!Without
    <2> QED
      BY <2>1 DEF RefusedAt
  <1>10. ASSUME \A i \in DOMAIN q.ranges : Ranges!Parses(q.ranges[i])
         PROVE  Ranges!RangeError(q.ranges) <=> Refusable(L, q.ranges)
    BY <1>2, <1>3, <1>10, RefusedForCause
  <1>11. CASE /\ \A i \in DOMAIN q.ranges : Ranges!Parses(q.ranges[i])
              /\ ~ Ranges!NotModified /\ rs # <<>> /\ Ranges!RangeError(rs)
    <2>1. a.status = 416
      BY <1>1, <1>4, <1>6, <1>11 DEF Ranges!Answer, Ranges!Without
    <2>2. Refusable(L, q.ranges)
      BY <1>5, <1>10, <1>11
    <2> QED
      BY <2>1, <2>2 DEF RefusedAt
  <1>12. CASE /\ \A i \in DOMAIN q.ranges : Ranges!Parses(q.ranges[i])
              /\ ~ Ranges!NotModified /\ ~ (rs # <<>> /\ Ranges!RangeError(rs))
    <2>1. a.status = (IF request.own # 0 THEN request.own
                      ELSE IF rs = <<>> THEN 200 ELSE 206)
      BY <1>1, <1>4, <1>6, <1>12 DEF Ranges!Answer
    <2>2. a.status # 416
      <3>1. PICK o \in Nat : o = q.own /\ o < 300
        <4>1. q.own \in {0} \cup 200 .. 299
          BY <1>2
        <4>2. q.own \in Nat /\ q.own < 300
          BY <4>1
        <4> QED
          BY <4>2
      <3>2. a.status = o \/ a.status = 200 \/ a.status = 206
        BY <1>1, <2>1, <3>1, ZenonT(60)
      <3> QED
        BY <3>1, <3>2
    <2>3. rs # <<>> => ~ Refusable(L, rs)
      BY <1>5, <1>10, <1>12, Zenon
    <2> QED
      BY <2>2, <2>3, Zenon DEF RefusedAt
  <1> QED
    BY <1>8, <1>9, <1>11, <1>12, Zenon

RangesInv ==
  subject = "ranges" => /\ RefusedAt(Ranges!content_len, request,
                                     Ranges!req_ranges, answer)
                        /\ request \in Requests
                        /\ Served(Ranges!content_len, request, answer)
                        /\ Ranges!AnnouncedIsSent

LEMMA RangesInit == MessageInit => RangesInv
  <1> SUFFICES ASSUME MessageInit, subject = "ranges"
               PROVE  /\ RefusedAt(Ranges!content_len, request,
                                   Ranges!req_ranges, answer)
                      /\ request \in Requests
                      /\ Served(Ranges!content_len, request, answer)
                      /\ Ranges!AnnouncedIsSent
    BY Zenon DEF RangesInv
  <1>1. request \in Requests /\ answer = Ranges!Unanswered
    BY Zenon DEF MessageInit, Ranges!RangesInit
  <1>2. answer.status = 0
    BY <1>1 DEF Ranges!Unanswered
  <1>3. Served(Ranges!content_len, request, answer)
    BY <1>2 DEF Served
  <1>5. RefusedAt(Ranges!content_len, request, Ranges!req_ranges, answer)
    BY <1>2 DEF RefusedAt
  <1>4. Ranges!AnnouncedIsSent
    BY <1>1, Zenon DEF Ranges!AnnouncedIsSent
  <1> QED
    BY <1>1, <1>3, <1>4, <1>5

LEMMA RangesKept ==
  ASSUME RangesInv, [MessageNext]_messageVars PROVE RangesInv'
  <1>1. CASE RangesStep
    <2>1. subject = "ranges" /\ request \in Requests
      BY <1>1 DEF RangesStep, RangesInv
    <2>2. Ranges!Answer /\ request' = request
      BY <1>1 DEF RangesStep, Ranges!RangesNext
    <2>3. Served(Ranges!content_len, request, answer)'
      BY <2>1, <2>2, AnswerServed
    <2>4. Ranges!AnnouncedIsSent'
      BY <2>1, <2>2, AnswerAnnounced
    <2>5. RefusedAt(Ranges!content_len, request, Ranges!req_ranges, answer)'
      BY <2>1, <2>2, AnswerRefused
    <2>6. subject' = subject
      BY <1>1 DEF RangesStep
    <2> QED
      BY <2>1, <2>2, <2>3, <2>4, <2>5, <2>6, Zenon DEF RangesInv
  <1>2. CASE UNCHANGED <<subject, request, answer>>
    <2>1. /\ Ranges!content_len' = Ranges!content_len
          /\ Ranges!req_ranges' = Ranges!req_ranges
      BY <1>2, Zenon DEF Ranges!content_len, Ranges!req_ranges
    <2>2. Ranges!AnnouncedIsSent' <=> Ranges!AnnouncedIsSent
      BY <1>2 DEF Ranges!AnnouncedIsSent, Ranges!Unanswered
    <2> QED
      BY <1>2, <2>1, <2>2, Zenon DEF RangesInv
  <1>3. CASE ContentStep \/ FormStep \/ TargetStep
    BY <1>2, <1>3 DEF ContentStep, FormStep, TargetStep, rangeVars
  <1>4. CASE RoutingStep \/ EventsStep
    BY <1>2, <1>4 DEF RoutingStep, EventsStep, rangeVars
  <1>5. CASE UNCHANGED messageVars
    BY <1>2, <1>5 DEF messageVars, rangeVars
  <1> QED
    BY <1>1, <1>2, <1>3, <1>4, <1>5 DEF MessageNext

\* Whatever ranges of a content are asked for, their bytes are sent and no
\* others, none of them more often than it was asked for, one more than once
\* only if the same range was asked for more than once, and as many bytes as were
\* announced.  Ranges are refused when there are more than RangeMax of them,
\* when one is malformed, asks for no byte of the content or is a suffix longer
\* than it, or when more than two have bytes in common with one before them, and
\* never for anything else.
THEOREM RangesServedCorrect == MessageSpec => []RangesServed
  <1>1. RangesInv => RangesServed
    BY ServedIsOnlyAsked, RefusedAtIsRight, Zenon
       DEF RangesInv, RangesServed, Ranges!RangesServed
  <1> QED
    BY <1>1, RangesInit, RangesKept, PTL DEF MessageSpec

=============================================================================
