----------------------------- MODULE HttpContent -----------------------------
(***************************************************************************)
(* The content of an HTTP message on its way (httplib.h): a content        *)
(* provider writes it to a data sink, with a length, in chunks, or until   *)
(* the connection is closed; the other side reads it, with a receiver or   *)
(* piece by piece as a stream.  The bytes of the content are numbered; a   *)
(* line of the chunked coding is one cell.                                 *)
(***************************************************************************)
EXTENDS Naturals, Sequences, SequencesExt

CONSTANTS
  MaxContent,          \* the longest content
  payload_max_length,  \* what a receiver accepts
  RecvSize             \* CPPHTTPLIB_RECV_BUFSIZ

VARIABLES
  wire,     \* what was sent and not read yet
  ended,    \* the sender's side: "open", "closed" or at the "next" message
  sender,   \* the progress of the sender
  receiver  \* the progress of the receiver

contentVars == <<wire, ended, sender, receiver>>

Hows == {"length", "chunked", "close"}

Data(i) == [k |-> "data", n |-> i]
Line(k, n) == [k |-> k, n |-> n]
CRLF == Line("crlf", 0)
Next1 == Line("next", 0)   \* the first line of the message that follows

Bytes(from, l) == [i \in 1 .. l |-> Data(from + i)]

Chunk(from, l) == <<Line("size", l)>> \o Bytes(from, l) \o <<CRLF>>

ContentInit ==
  /\ wire = <<>> /\ ended = "open"
  /\ \E how \in Hows, api \in {"content", "stream"}, len \in 0 .. MaxContent :
       /\ sender = [how |-> how, length |-> len, at |-> "loop", offset |-> 0,
                    available |-> TRUE, ok |-> TRUE, done |-> FALSE]
       /\ receiver = [api |-> api, at |-> "start", left |-> 0, got |-> <<>>,
                      held |-> <<>>, result |-> "", late |-> FALSE]
       /\ how # "length" => len = 0

-----------------------------------------------------------------------------
(***************************************************************************)
(* The sender: write_content, write_content_chunked and                    *)
(* write_content_without_length.                                           *)
(***************************************************************************)
SenderOnly == UNCHANGED <<ended, receiver>>

\* The condition of the loop.
GoesOn == IF sender.how = "length" THEN sender.offset < sender.length
          ELSE sender.available

\* The loop calls the provider as long as the socket can be written to.
CallProvider ==
  /\ sender.at = "loop" /\ GoesOn
  /\ \/ sender' = [sender EXCEPT !.at = "provider"]
     \/ sender' = [sender EXCEPT !.at = "false"]
  /\ UNCHANGED wire /\ SenderOnly

\* The loop ends with true, at its end or because the server is shut down.
LoopEnds ==
  /\ sender.at = "loop"
  /\ \/ ~ GoesOn /\ sender' = [sender EXCEPT !.at = "true"]
     \/ sender' = [sender EXCEPT !.at = "shutdown"]
  /\ UNCHANGED wire /\ SenderOnly

\* write_data: all cells, or some of them and then ok is false.
Writes(cells, s) ==
  \/ wire' = wire \o cells /\ sender' = s
  \/ /\ \E n \in 0 .. Len(cells) - 1 : wire' = wire \o SubSeq(cells, 1, n)
     /\ sender' = [s EXCEPT !.ok = FALSE]

\* Mutant of SinkWrite: the chunk is not ended by a CRLF.
Mut_OpenChunk(l) ==
  /\ sender.at = "provider" /\ sender.ok /\ ~ sender.done
  /\ sender.offset + l <= MaxContent
  /\ LET s == [sender EXCEPT !.offset = @ + l, !.available = l > 0]
     IN IF sender.how = "chunked" /\ l > 0
        THEN Writes(<<Line("size", l)>> \o Bytes(sender.offset, l), s)
        ELSE Writes(Bytes(sender.offset, l), s)
  /\ SenderOnly

\* data_sink.write.  A provider is assumed to write no more than the length
\* that was announced and nothing after done.
SinkWrite(l) ==
  /\ sender.at = "provider" /\ sender.ok /\ ~ sender.done
  /\ sender.offset + l <=
       IF sender.how = "length" THEN sender.length ELSE MaxContent
  /\ LET s == [sender EXCEPT !.offset = @ + l,
                 !.available = IF sender.how = "chunked" THEN l > 0 ELSE @]
     IN IF sender.how = "chunked" /\ l > 0
        THEN Writes(Chunk(sender.offset, l), s)
        ELSE Writes(Bytes(sender.offset, l), s)
  /\ SenderOnly

\* data_sink.done and done_with_trailer.
SinkDone ==
  /\ sender.at = "provider" /\ sender.ok /\ ~ sender.done
  /\ sender.how # "length"
  /\ \E trailer \in IF sender.how = "chunked"
                    THEN {<<>>, <<Line("trailer", 0)>>} ELSE {<<>>} :
        Writes(IF sender.how = "chunked"
               THEN <<Line("size", 0)>> \o trailer \o <<CRLF>> ELSE <<>>,
               [sender EXCEPT !.available = FALSE, !.done = TRUE])
  /\ SenderOnly

\* The provider returns true or, to cancel, false.
ProviderReturns ==
  /\ sender.at = "provider"
  /\ \/ sender.ok /\ sender' = [sender EXCEPT !.at = "loop"]
     \/ sender' = [sender EXCEPT !.at = "false"]
  /\ UNCHANGED wire /\ SenderOnly

\* After true the next message may follow; otherwise, and after a content
\* without length, the connection is closed.
Finish ==
  /\ sender.at \in {"true", "false", "shutdown"} /\ ended = "open"
  /\ IF sender.at = "true" /\ sender.how # "close"
     THEN wire' = Append(wire, Next1) /\ ended' = "next"
     ELSE UNCHANGED wire /\ ended' = "closed"
  /\ UNCHANGED <<sender, receiver>>

-----------------------------------------------------------------------------
(***************************************************************************)
(* The receiver: read_content, or StreamHandle::read until it returns 0 or *)
(* less.                                                                   *)
(***************************************************************************)
Receive(r, left) == receiver' = r /\ wire' = left /\ UNCHANGED <<ended, sender>>

Ends(result) == [receiver EXCEPT !.at = "end", !.result = result]

\* The next n cells are read, and those after them left alone.
Rest(n) == SubSeq(wire, n + 1, Len(wire))

\* getline: the cells up to the end of the line, or up to the end of what
\* will ever come.
LineEnds == {i \in DOMAIN wire : wire[i].k # "data"}

LineLength == IF LineEnds # {} THEN CHOOSE i \in LineEnds : \A j \in LineEnds : i <= j
              ELSE Len(wire)

HasLine == LineEnds # {} \/ (wire # <<>> /\ ended = "closed")

IsLine(k) == LineLength = 1 /\ wire[1].k = k

\* A read returns some of what has arrived, up to want and up to the buffer.
Arrived(want) ==
  {n \in 1 .. Len(wire) : n <= want /\ n <= RecvSize}

Read(n) == [i \in 1 .. n |-> wire[i]]

TooMuch(n) ==
  receiver.api = "content" /\ Len(receiver.got) + n > payload_max_length

\* r after it was given the bytes b.
Handed(r, b) ==
  IF TooMuch(Len(b)) THEN Ends("too_large") ELSE [r EXCEPT !.got = @ \o b]

\* read_content by the headers; a stream without a length ends at once.
Start ==
  /\ receiver.at = "start"
  /\ LET len == sender.length
         r == [receiver EXCEPT !.left = len]
     IN receiver' = CASE sender.how = "chunked" -> [r EXCEPT !.at = "size"]
          [] sender.how = "close" ->
               IF receiver.api = "stream" THEN Ends("success")
               ELSE [r EXCEPT !.at = "all"]
          [] OTHER ->
               IF TooMuch(len) THEN [r EXCEPT !.at = "skip"]
               ELSE IF len = 0 THEN Ends("success") ELSE [r EXCEPT !.at = "known"]
  /\ UNCHANGED <<wire, ended, sender>>

\* Mutant of ReadKnown: it does not stop at the length.
Mut_ReadsOver ==
  /\ receiver.at = "known"
  /\ \E n \in Arrived(RecvSize) :
        Receive(IF n >= receiver.left
                THEN [Ends("success") EXCEPT !.got = @ \o Read(n)]
                ELSE [receiver EXCEPT !.left = @ - n, !.got = @ \o Read(n)],
                Rest(n))

\* read_content_with_length, BodyReader::read; skip_content_with_length.
ReadKnown ==
  /\ receiver.at = "known"
  /\ \E n \in Arrived(receiver.left) :
        LET r == [receiver EXCEPT !.left = @ - n, !.got = @ \o Read(n)]
        IN Receive(IF r.left = 0 THEN [r EXCEPT !.at = "end", !.result = "success"]
                   ELSE r, Rest(n))

Skip ==
  /\ receiver.at = "skip"
  /\ \E n \in Arrived(receiver.left) :
        Receive(IF n = receiver.left THEN Ends("too_large")
                ELSE [receiver EXCEPT !.left = @ - n], Rest(n))

\* read_content_without_length.
ReadAll ==
  /\ receiver.at = "all"
  /\ \E n \in Arrived(MaxContent) :
        Receive(Handed(receiver, Read(n)), Rest(n))

\* ChunkedDecoder::read_payload: the line with the size.
ReadSize ==
  /\ receiver.at = "size" /\ HasLine
  /\ Receive(IF ~ IsLine("size") THEN Ends("error")
             ELSE IF wire[1].n = 0 THEN [receiver EXCEPT !.at = "trailers"]
             ELSE [receiver EXCEPT !.at = "chunk", !.left = wire[1].n],
             Rest(LineLength))

\* Its data.  The last of it is handed over after the line that ends the
\* chunk was read.
ReadChunk ==
  /\ receiver.at = "chunk"
  /\ \E n \in Arrived(receiver.left) :
        LET r == [receiver EXCEPT !.left = @ - n]
        IN Receive(IF r.left = 0
                   THEN [r EXCEPT !.at = "chunk_end", !.held = Read(n)]
                   ELSE Handed(r, Read(n)), Rest(n))

ReadChunkEnd ==
  /\ receiver.at = "chunk_end" /\ HasLine
  /\ Receive(IF IsLine("crlf")
             THEN Handed([receiver EXCEPT !.at = "size", !.held = <<>>],
                         receiver.held)
             ELSE Ends("error"), Rest(LineLength))

\* parse_trailers_into: lines up to an empty one.  A stream has seen its last
\* byte before.
ReadTrailer ==
  /\ receiver.at = "trailers" /\ HasLine
  /\ Receive(IF IsLine("trailer") THEN receiver
             ELSE IF IsLine("crlf") \/ receiver.api = "stream" THEN Ends("success")
             ELSE Ends("error"), Rest(LineLength))

\* Nothing comes in time, or nothing will come any more.
NothingComes ==
  /\ receiver.at \notin {"start", "end"}
  /\ IF receiver.at \in {"size", "chunk_end", "trailers"} THEN ~ HasLine
     ELSE wire = <<>>
  /\ Receive(CASE receiver.at = "all" /\ ended = "closed" -> Ends("success")
               [] receiver.at = "skip" -> Ends("too_large")
               [] receiver.at = "trailers" /\ receiver.api = "stream" ->
                    Ends("success")
               [] OTHER -> [Ends("error") EXCEPT !.late = ended # "closed"],
             <<>>)

Receiver ==
  \/ Start \/ ReadKnown \/ Skip \/ ReadAll \/ ReadSize \/ ReadChunk
  \/ ReadChunkEnd \/ ReadTrailer \/ NothingComes

Sender ==
  \/ CallProvider \/ LoopEnds \/ ProviderReturns \/ SinkDone \/ Finish
  \/ \E l \in 0 .. MaxContent : SinkWrite(l)

ContentNext == Sender \/ Receiver

-----------------------------------------------------------------------------
(***************************************************************************)
(* Properties.                                                             *)
(***************************************************************************)
Framed == sender.how # "close"

\* What was begun with a length or in chunks has been sent to its end.
Complete ==
  IF sender.how = "length" THEN sender.offset = sender.length /\ sender.ok
  ELSE sender.done /\ sender.ok

\* However the cells arrive and wherever they stop: the receiver gets the
\* bytes of the content in their order and no more than it accepts; it
\* reports success for a content with a length or in chunks only when it has
\* all of it, and then the next message is the next thing it will read.
ReceivedWhole ==
  /\ \A i \in DOMAIN receiver.got : receiver.got[i] = Data(i)
  /\ receiver.api = "content" => Len(receiver.got) <= payload_max_length
  /\ receiver.result = "success" /\ Framed =>
       /\ Len(receiver.got) =
            IF sender.how = "length" THEN sender.length ELSE sender.offset
       /\ wire \in {<<>>, <<Next1>>}

\* A content that was sent to its end is refused only if it is too large or
\* comes too late.
AcceptedWhenSent ==
  /\ receiver.result = "error" => receiver.late \/ ~ Complete
  /\ receiver.result = "too_large" =>
       payload_max_length < IF sender.how = "length" THEN sender.length
                            ELSE sender.offset

=============================================================================
