------------------------------ MODULE HttpEvents ------------------------------
(***************************************************************************)
(* The client for server-sent events of httplib.h (class SSEClient): one   *)
(* thread reads the lines of a stream, puts events together and calls the  *)
(* handlers, and connects again when the stream ends; another one stops    *)
(* it, and may start it again.  The server is one that sends the events    *)
(* after the one whose identifier it is given.                             *)
(***************************************************************************)
EXTENDS Naturals, Sequences, SequencesExt

CONSTANTS
  Feeds,                   \* what a server has: sequences of [id, type]
  MaxFaults,               \* bounds what fails, and
  MaxStops,                \* how often the client is stopped
  max_reconnect_attempts   \* 0: no limit

VARIABLES
  feed,      \* the events of the server
  faults,    \* how much has failed
  link,      \* [wire, half, up]: what was sent, the beginning of its first
             \* line read or not, and whether more may come
  loop,      \* [at, lines, reconnect_count, last_event_id, msg]: the thread,
             \* which ends at "gone", or at "denied" by what the server says
  running_,  \* whether the client has been started and not stopped
  stopper,   \* "idle" or "join"; and how often stop was called
  delivered, \* the events handed to the handlers
  refused    \* how many connections failed since one succeeded (history)

eventVars == <<feed, faults, link, loop, running_, stopper, delivered, refused>>

NoMsg == [event |-> "", data |-> 0, id |-> 0]
NoLink == [wire |-> <<>>, half |-> FALSE, up |-> FALSE]

EventsInit ==
  /\ feed \in Feeds /\ faults = 0 /\ link = NoLink
  /\ loop = [at |-> "open", lines |-> <<>>, reconnect_count |-> 0,
             last_event_id |-> 0, msg |-> NoMsg]
  /\ running_ = TRUE /\ stopper = [at |-> "idle", calls |-> 0]
  /\ delivered = <<>> /\ refused = 0

-----------------------------------------------------------------------------
\* The lines of the events from n on.
Line(field, value) == [field |-> field, value |-> value]

EventLines(n) ==
  (IF feed[n].id THEN <<Line("id", n)>> ELSE <<>>)
  \o (IF feed[n].type # "" THEN <<Line("event", feed[n].type)>> ELSE <<>>)
  \o <<Line("data", n), Line("blank", 0)>>

After(id) ==
  FlattenSeq([i \in 1 .. Len(feed) - id |-> EventLines(id + i)])

Go(at) == loop' = [loop EXCEPT !.at = at]

Ended == loop.at \in {"gone", "denied"}   \* the thread

should_reconnect ==
  /\ running_
  /\ max_reconnect_attempts = 0 \/ loop.reconnect_count < max_reconnect_attempts

\* The connection failed or has ended: wait, or give up.
TryAgain == Go(IF should_reconnect THEN "wait" ELSE "gone")

\* The head of the loop, and stream::Get with the identifier.  A server that
\* has nothing more answers 204 No Content, one that denies the stream 401, 403
\* or 404, which end the thread at once; a failure is a connection that cannot
\* be made or any other status.
Open ==
  /\ loop.at = "open"
  /\ \/ /\ ~ running_ /\ Go("gone") /\ UNCHANGED <<link, faults, refused>>
     \/ /\ running_ /\ loop.last_event_id < Len(feed)
        /\ link' = [wire |-> After(loop.last_event_id), half |-> FALSE, up |-> TRUE]
        /\ loop' = [loop EXCEPT !.at = "next", !.reconnect_count = 0,
                                !.msg = NoMsg]
        /\ refused' = 0 /\ UNCHANGED faults
     \/ /\ running_ /\ loop.last_event_id = Len(feed)
        /\ Go("gone") /\ UNCHANGED <<link, faults, refused>>
     \/ /\ running_ /\ Go("denied") /\ UNCHANGED <<link, faults, refused>>
     \/ /\ running_ /\ faults < MaxFaults /\ faults' = faults + 1
        /\ refused' = refused + 1
        /\ TryAgain /\ UNCHANGED link
  /\ UNCHANGED <<feed, running_, stopper, delivered>>

\* result.next: some of what was sent, up to the middle of a line.
Receive ==
  /\ loop.at = "next" /\ running_
  /\ \E n \in 0 .. Len(link.wire), half \in BOOLEAN :
        /\ n = 0 => half /\ ~ link.half
        /\ half => n < Len(link.wire)
        /\ loop' = [loop EXCEPT !.at = "lines", !.lines = SubSeq(link.wire, 1, n)]
        /\ link' = [link EXCEPT !.half = half,
                     !.wire = SubSeq(@, n + 1, Len(@))]
  /\ UNCHANGED <<feed, faults, running_, stopper, delivered, refused>>

\* Mutant of NoMore: a read without a timeout.
Mut_NoTimeout ==
  /\ loop.at = "next"
  /\ ~ link.up
  /\ IF running_ THEN TryAgain ELSE Go("gone")
  /\ link' = NoLink
  /\ UNCHANGED <<feed, faults, running_, stopper, delivered, refused>>

\* Nothing comes: the stream has ended, or the read has timed out.
NoMore ==
  /\ loop.at = "next"
  /\ ~ running_ \/ link.wire = <<>> \/ ~ link.up
  /\ IF running_ THEN TryAgain ELSE Go("gone")
  /\ link' = NoLink
  /\ UNCHANGED <<feed, faults, running_, stopper, delivered, refused>>

\* parse_sse_line.
Parsed(line) ==
  CASE line.field = "id" -> [loop.msg EXCEPT !.id = line.value]
    [] line.field = "event" -> [loop.msg EXCEPT !.event = line.value]
    [] line.field = "data" -> [loop.msg EXCEPT !.data = line.value]
    [] OTHER -> loop.msg

\* Mutant of Dispatch: the identifier is remembered when its line is read.
Mut_IdAtOnce ==
  LET line == Head(loop.lines)
      complete == line.field = "blank" /\ loop.msg.data # 0
  IN /\ loop' = [loop EXCEPT
                   !.lines = Tail(@),
                   !.last_event_id = IF line.field = "id" THEN line.value ELSE @,
                   !.msg = IF complete THEN NoMsg ELSE Parsed(line)]
     /\ delivered' = IF complete THEN Append(delivered, loop.msg) ELSE delivered

\* One line; with the blank one the event is complete, its identifier is
\* remembered, a handler is called.
Dispatch ==
  LET line == Head(loop.lines)
      complete == line.field = "blank" /\ loop.msg.data # 0
  IN /\ loop' = [loop EXCEPT
                   !.lines = Tail(@),
                   !.last_event_id =
                     IF complete /\ loop.msg.id # 0 THEN loop.msg.id ELSE @,
                   !.msg = IF complete THEN NoMsg ELSE Parsed(line)]
     /\ delivered' = IF complete THEN Append(delivered, loop.msg) ELSE delivered

NextLine ==
  /\ loop.at = "lines"
  /\ IF loop.lines = <<>> THEN Go("next") /\ UNCHANGED delivered ELSE Dispatch
  /\ UNCHANGED <<feed, faults, link, running_, stopper, refused>>

\* wait_for_reconnect ends by the time or because the client is stopped.
Reconnect ==
  /\ loop.at = "wait"
  /\ loop' = [loop EXCEPT !.at = "open", !.reconnect_count = @ + 1]
  /\ UNCHANGED <<feed, faults, link, running_, stopper, delivered, refused>>

EventLoop == Open \/ Receive \/ NoMore \/ NextLine \/ Reconnect

-----------------------------------------------------------------------------
\* The stream breaks off: nothing of what was not read arrives.
BreakOff ==
  /\ link.up /\ faults < MaxFaults /\ faults' = faults + 1
  /\ link' = [link EXCEPT !.wire = <<>>, !.up = FALSE]
  /\ UNCHANGED <<feed, loop, running_, stopper, delivered, refused>>

\* stop, which waits for the thread.
Stop ==
  /\ stopper.at = "idle" /\ stopper.calls < MaxStops
  /\ stopper' = [at |-> "join", calls |-> stopper.calls + 1]
  /\ running_' = FALSE
  /\ UNCHANGED <<feed, faults, link, loop, delivered, refused>>

\* stop returns; the client may be started again.
Start ==
  /\ stopper.at = "join" /\ Ended
  /\ stopper' = [stopper EXCEPT !.at = "idle"]
  /\ running_' = TRUE
  /\ loop' = [loop EXCEPT !.at = "open", !.lines = <<>>, !.reconnect_count = 0]
  /\ refused' = 0
  /\ UNCHANGED <<feed, faults, link, delivered>>

EventsNext == EventLoop \/ BreakOff \/ Stop \/ Start

-----------------------------------------------------------------------------
(***************************************************************************)
(* Properties.                                                             *)
(***************************************************************************)
\* The last event with an identifier among the first n delivered.
Known(n) ==
  LET ids == {0} \cup {delivered[i].id : i \in 1 .. n}
  IN CHOOSE i \in ids : \A j \in ids : j <= i

\* Events are delivered as they were sent and in their order, however the
\* stream is cut and whenever it breaks off or the client is started again:
\* none is left out, and one is repeated only if it came after the last one
\* with an identifier.  A client that was neither stopped nor denied the stream
\* gives up only after it has everything or after as many failed attempts as it
\* may make.
EventsInOrder ==
  /\ \A i \in DOMAIN delivered :
       LET n == delivered[i].data
       IN /\ delivered[i].event = feed[n].type
          /\ delivered[i].id = IF feed[n].id THEN n ELSE 0
          /\ n > Known(i - 1)
          /\ n <= 1 + IF i = 1 THEN 0 ELSE delivered[i - 1].data
  /\ loop.at = "gone" /\ running_ =>
       \/ Len(feed) = IF delivered = <<>> THEN 0 ELSE Last(delivered).data
       \/ 0 < max_reconnect_attempts /\ max_reconnect_attempts <= refused

\* The thread has ended and nobody waits for it.
AtRest == Ended /\ stopper.at = "idle"

=============================================================================
