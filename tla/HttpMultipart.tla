---------------------------- MODULE HttpMultipart ----------------------------
(***************************************************************************)
(* A form of several parts (httplib.h): the client serializes it, and the  *)
(* server parses it as the pieces of it arrive (class FormDataParser).     *)
(* A header line is one symbol, the boundary another; the line ends and    *)
(* the dashes, which the parser looks for wherever they are, are not       *)
(* joined.                                                                 *)
(***************************************************************************)
EXTENDS Naturals, Sequences, FiniteSets, FiniteSetsExt

CONSTANTS
  Forms,         \* what is sent: sequences of [head, type, content]
  Epilogues,     \* what may follow after the last boundary
  MaxParts,      \* CPPHTTPLIB_MULTIPART_FORM_DATA_FILE_MAX_COUNT
  HeaderMax      \* CPPHTTPLIB_HEADER_MAX_LENGTH

VARIABLES
  items,    \* the parts of the form
  rest,     \* what has not arrived yet
  parser    \* the FormDataParser, and the parts it has made

formVars == <<items, rest, parser>>

crlf == <<"cr", "lf">>
dash == <<"-", "-">>
boundary == <<"b">>
dash_boundary_crlf == dash \o boundary \o crlf
crlf_dash_boundary == crlf \o dash \o boundary

-----------------------------------------------------------------------------
(***************************************************************************)
(* serialize_multipart_formdata.                                           *)
(***************************************************************************)
ItemBegin(item) ==
  dash_boundary_crlf \o <<item.head>> \o crlf
  \o (IF item.type THEN <<"content-type">> \o crlf ELSE <<>>) \o crlf

Serialized(form) ==
  LET from[i \in 1 .. Len(form) + 1] ==
        IF i > Len(form) THEN dash \o boundary \o dash
        ELSE ItemBegin(form[i]) \o form[i].content \o crlf \o from[i + 1]
  IN from[1]

FormInit ==
  /\ items \in Forms
  /\ \E e \in Epilogues : rest = Serialized(items) \o e
  /\ parser = [state |-> "initial", buf |-> <<>>, busy |-> FALSE,
               valid |-> FALSE, refused |-> FALSE, parts |-> <<>>,
               head |-> "", type |-> FALSE]

-----------------------------------------------------------------------------
\* buf_find: how many symbols come before s, or all of them.
Find(s) ==
  LET b == parser.buf
      at == {i \in 0 .. Len(b) - Len(s) : SubSeq(b, i + 1, i + Len(s)) = s}
  IN IF at = {} THEN Len(b) ELSE Min(at)

Found(s) == Find(s) < Len(parser.buf)

Without(n) == SubSeq(parser.buf, n + 1, Len(parser.buf))

\* The loop of parse goes on in a state as long as the buffer is not empty.
GoOn(p) == parser' = [p EXCEPT !.busy = p.buf # <<>>]

Waits == parser' = [parser EXCEPT !.busy = FALSE]

Refuses == parser' = [parser EXCEPT !.refused = TRUE, !.busy = FALSE,
                                    !.valid = FALSE]

In(state) == parser.busy /\ parser.state = state

\* parse is called with the next piece.
Feed ==
  /\ ~ parser.busy /\ ~ parser.refused /\ rest # <<>>
  /\ \E n \in 1 .. Len(rest) :
        /\ parser' = [parser EXCEPT !.buf = @ \o SubSeq(rest, 1, n),
                                    !.busy = TRUE]
        /\ rest' = SubSeq(rest, n + 1, Len(rest))

InitialBoundary ==
  /\ In("initial")
  /\ IF Found(dash_boundary_crlf)
     THEN GoOn([parser EXCEPT !.state = "entry",
            !.buf = Without(Find(dash_boundary_crlf) + Len(dash_boundary_crlf))])
     ELSE Waits

NewEntry ==
  /\ In("entry")
  /\ GoOn([parser EXCEPT !.state = "headers", !.head = "", !.type = FALSE])

\* The callback of read_content adds a part.
NewPart ==
  Append(parser.parts, [head |-> parser.head, type |-> parser.type,
                        content |-> <<>>])

\* One line of the headers.  The length of a line is only looked at when the
\* loop of this state is entered, not as it goes on.
HeaderLine ==
  LET pos == Find(crlf)
      b == parser.buf
      next == Without(pos + 2)
  IN
  IF parser.state = "headers" /\ pos > HeaderMax
  THEN parser' = [parser EXCEPT !.refused = TRUE, !.busy = FALSE]
  ELSE IF ~ Found(crlf)
  THEN parser' = [parser EXCEPT !.busy = FALSE, !.state = "headers"]
  ELSE
  CASE pos = 0 /\ Len(parser.parts) = MaxParts -> Refuses
    [] pos = 0 /\ Len(parser.parts) # MaxParts ->
         GoOn([parser EXCEPT !.parts = NewPart, !.buf = next, !.state = "body"])
    [] pos = 1 /\ b[1] \in {"field", "file"} ->
         parser' = [parser EXCEPT !.head = b[1], !.buf = next,
                                  !.state = "more headers"]
    [] pos = 1 /\ b[1] = "content-type" ->
         parser' = [parser EXCEPT !.type = TRUE, !.buf = next,
                                  !.state = "more headers"]
    [] OTHER -> Refuses

Headers == (In("headers") \/ In("more headers")) /\ HeaderLine

\* content_callback: n symbols are added to the last part.
WithContent(n) ==
  [parser.parts EXCEPT ![Len(parser.parts)].content =
                         @ \o SubSeq(parser.buf, 1, n)]

\* Mutant of Body: everything is handed over that is not the delimiter.
Mut_KeepsNothing ==
  /\ In("body")
  /\ LET size == Len(crlf_dash_boundary)
         pos == Find(crlf_dash_boundary)
     IN IF Found(crlf_dash_boundary)
        THEN GoOn([parser EXCEPT !.parts = WithContent(pos),
                     !.buf = Without(pos + size), !.state = "boundary"])
        ELSE parser' = [parser EXCEPT !.parts = WithContent(pos),
                          !.buf = <<>>, !.busy = FALSE]

\* The content up to the delimiter; as much is kept as may be a part of it.
Body ==
  /\ In("body")
  /\ LET size == Len(crlf_dash_boundary)
         pos == Find(crlf_dash_boundary)
         len == Len(parser.buf) - size
     IN IF size > Len(parser.buf) THEN Waits
        ELSE IF Found(crlf_dash_boundary)
        THEN GoOn([parser EXCEPT !.parts = WithContent(pos),
                     !.buf = Without(pos + size), !.state = "boundary"])
        ELSE parser' = [parser EXCEPT !.parts = WithContent(len),
                          !.buf = Without(len), !.busy = FALSE]

\* After a delimiter: another part, or the end and what comes after it.
Boundary ==
  /\ In("boundary")
  /\ LET two == SubSeq(parser.buf, 1, 2)
     IN IF Len(parser.buf) < 2 THEN Waits
        ELSE IF two = crlf
        THEN GoOn([parser EXCEPT !.buf = Without(2), !.state = "entry"])
        ELSE IF two = dash
        THEN GoOn([parser EXCEPT !.buf = <<>>, !.valid = TRUE])
        ELSE Waits

FormNext ==
  \/ Feed
  \/ (InitialBoundary \/ NewEntry \/ Headers \/ Body \/ Boundary)
     /\ UNCHANGED rest

FormStep == FormNext /\ UNCHANGED items

-----------------------------------------------------------------------------
(***************************************************************************)
(* Properties.                                                             *)
(***************************************************************************)
Parsed == rest = <<>> /\ ~ parser.busy

\* However the form is cut into pieces, the parts are those of the form, in
\* their order and with their contents, and the form is found to be valid; it
\* is refused exactly when it has too many parts, and never found valid then.
FormAsSent ==
  /\ parser.refused => Len(items) > MaxParts
  /\ Len(items) > MaxParts => ~ parser.valid
  /\ Parsed => \/ parser.refused
               \/ parser.valid /\ parser.parts = items

=============================================================================
