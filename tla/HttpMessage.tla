----------------------------- MODULE HttpMessage -----------------------------
(***************************************************************************)
(* What is in a message of httplib.h: the target of a request and the      *)
(* handler or the file it leads to, a form, the ranges of a content that   *)
(* are asked for and sent, the content on its way, and the events of a     *)
(* stream.  A behaviour is about one of these subjects; all of them use    *)
(* one connection as a sequence of pieces that arrive in their order.      *)
(***************************************************************************)
EXTENDS Integers, Sequences

CONSTANTS
  MaxContent, payload_max_length, RecvSize,              \* HttpContent
  Forms, Epilogues, MaxParts, HeaderMax,                 \* HttpMultipart
  Requests, RangeMax,                                    \* HttpRanges
  Targets,                                               \* HttpTarget
  Routes, ParamNames, Files, Dirs,                       \* HttpRouting
  Feeds, MaxFaults, MaxStops, max_reconnect_attempts     \* HttpEvents

ASSUME MessageAssumption ==
  /\ {MaxContent, payload_max_length, RecvSize, MaxParts, HeaderMax, RangeMax,
      MaxFaults, MaxStops, max_reconnect_attempts} \subseteq Nat
  /\ RecvSize > 0
  /\ \A f \in Feeds : f \in Seq([id : BOOLEAN, type : STRING])

\* The boundary of a form is in none of its contents, after the last one the
\* line ends at most, and a header line may have two symbols.
ASSUME FormsAssumption ==
  /\ HeaderMax > 1 /\ Epilogues \subseteq {<<>>, <<"cr", "lf">>}
  /\ \A form \in Forms :
       /\ form # <<>>
       /\ form \in Seq([head : {"field", "file"}, type : BOOLEAN,
                        content : Seq(STRING)])
       /\ \A i \in DOMAIN form : \A j \in 0 .. Len(form[i].content) - 5 :
            SubSeq(form[i].content, j + 1, j + 5) # <<"cr", "lf", "-", "-", "b">>

\* A range has a first or a last byte or both; a handler sets no status or one
\* of success, and none for a file.
ASSUME RequestsAssumption ==
  \A q \in Requests :
    /\ q.source \in {"body", "provider", "chunked", "file"}
    /\ q.own \in {0} \cup 200 .. 299 /\ (q.source = "file" => q.own = 0)
    /\ q.length \in Nat /\ q.head \in BOOLEAN
    /\ q.ranges \in Seq((Nat \cup {-1}) \X (Nat \cup {-1}))

VARIABLES
  subject,                                      \* what the behaviour is about
  wire, ended, sender, receiver,                \* HttpContent
  items, rest, parser,                          \* HttpMultipart
  request, answer,                              \* HttpRanges
  target, arrived,                              \* HttpTarget
  route, outcome,                               \* HttpRouting
  feed, faults, link, loop, running_, stopper, delivered, refused  \* HttpEvents

Content == INSTANCE HttpContent
Form == INSTANCE HttpMultipart
Ranges == INSTANCE HttpRanges
Target == INSTANCE HttpTarget
Routing == INSTANCE HttpRouting
Events == INSTANCE HttpEvents

contentVars == <<wire, ended, sender, receiver>>
formVars == <<items, rest, parser>>
rangeVars == <<request, answer>>
targetVars == <<target, arrived>>
routeVars == <<route, outcome>>
eventVars == <<feed, faults, link, loop, running_, stopper, delivered, refused>>

messageVars == <<subject, contentVars, formVars, rangeVars, targetVars, routeVars,
                 eventVars>>

Idle == "no subject"

MessageInit ==
  /\ subject \in {"content", "form", "ranges", "target", "routing", "events"}
  /\ IF subject = "content" THEN Content!ContentInit
     ELSE wire = Idle /\ ended = Idle /\ sender = Idle /\ receiver = Idle
  /\ IF subject = "form" THEN Form!FormInit
     ELSE items = Idle /\ rest = Idle /\ parser = Idle
  /\ IF subject = "ranges" THEN Ranges!RangesInit
     ELSE request = Idle /\ answer = Idle
  /\ IF subject = "target" THEN Target!TargetInit
     ELSE target = Idle /\ arrived = Idle
  /\ IF subject = "routing" THEN Routing!RouteInit
     ELSE route = Idle /\ outcome = Idle
  /\ IF subject = "events" THEN Events!EventsInit
     ELSE /\ feed = Idle /\ faults = Idle /\ link = Idle /\ loop = Idle
          /\ running_ = Idle /\ stopper = Idle /\ delivered = Idle
          /\ refused = Idle

ContentStep ==
  /\ subject = "content" /\ Content!ContentNext
  /\ UNCHANGED <<subject, formVars, rangeVars, targetVars, routeVars, eventVars>>

FormStep ==
  /\ subject = "form" /\ Form!FormStep
  /\ UNCHANGED <<subject, contentVars, rangeVars, targetVars, routeVars, eventVars>>

RangesStep ==
  /\ subject = "ranges" /\ Ranges!RangesNext
  /\ UNCHANGED <<subject, contentVars, formVars, targetVars, routeVars, eventVars>>

TargetStep ==
  /\ subject = "target" /\ Target!TargetNext
  /\ UNCHANGED <<subject, contentVars, formVars, rangeVars, routeVars, eventVars>>

RoutingStep ==
  /\ subject = "routing" /\ Routing!RouteNext
  /\ UNCHANGED <<subject, contentVars, formVars, rangeVars, targetVars, eventVars>>

EventsStep ==
  /\ subject = "events" /\ Events!EventsNext
  /\ UNCHANGED <<subject, contentVars, formVars, rangeVars, targetVars, routeVars>>

MessageNext ==
  \/ ContentStep \/ FormStep \/ RangesStep
  \/ TargetStep \/ RoutingStep \/ EventsStep

\* The thread of the event client runs on, and a stop that has waited for it
\* returns.
MessageFairness ==
  /\ WF_eventVars(subject = "events" /\ Events!EventLoop)
  /\ WF_eventVars(subject = "events" /\ Events!Start)

MessageSpec == MessageInit /\ [][MessageNext]_messageVars /\ MessageFairness

-----------------------------------------------------------------------------
(***************************************************************************)
(* Properties: what the modules of the subjects promise.                   *)
(***************************************************************************)
\* A receiver gets the bytes of a content in their order, and reports success
\* only when it has all of a content that has a length or comes in chunks.
ReceivedWhole == subject = "content" => Content!ReceivedWhole

\* A content that was sent to its end is refused only if it is too large or
\* too late.
AcceptedWhenSent == subject = "content" => Content!AcceptedWhenSent

\* However a form is cut into pieces, its parts are read as they were sent.
FormAsSent == subject = "form" => Form!FormAsSent

\* The bytes that were asked for are sent and no others, one twice only if a
\* range was asked for twice, and as many as were announced.  Ranges are refused
\* when there is a cause, and only then.
RangesServed == subject = "ranges" => Ranges!RangesServed

\* The path and the parameters arrive, whatever characters are in them.
TargetArrives == subject = "target" => Target!TargetArrives

\* A path reaches the handler whose pattern it is, or its file and no other.
RoutedRight == subject = "routing" => Routing!RoutedRight

\* Events are delivered in their order and none is left out, however often
\* the stream breaks off.
EventsInOrder == subject = "events" => Events!EventsInOrder

\* The event client gets to the end of what the server has, whose last event
\* has an identifier, or ends earlier, and whoever has stopped it returns.
EventsEnd == <>[](subject = "events" => Events!AtRest)

=============================================================================
