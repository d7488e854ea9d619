------------------------------ MODULE HttpRanges ------------------------------
(***************************************************************************)
(* How a server of httplib.h answers a request for ranges of a content:    *)
(* the Range header is parsed, checked against the content and coalesced,  *)
(* the length of the answer is announced, and the answer is written, from  *)
(* a body or by a content provider.  A range is a pair <<first, last>>     *)
(* with -1 for what is left out, as in the code; the bytes of the content  *)
(* are numbered from 0.                                                    *)
(***************************************************************************)
EXTENDS Integers, Sequences, FiniteSets, SequencesExt

CONSTANTS
  Requests,   \* what is asked for, and how the handler answers
  RangeMax    \* CPPHTTPLIB_RANGE_MAX_COUNT

VARIABLES
  request,   \* [source, length, own, ranges, match, since, if_range, head]
  answer     \* [status, announced, sent], when it was written

rangeVars == <<request, answer>>

None == -1
Unanswered == [status |-> 0, announced |-> None, sent |-> <<>>]

RangesInit == request \in Requests /\ answer = Unanswered

-----------------------------------------------------------------------------
\* parse_range_header refuses an empty range and one that runs backwards.
Parses(r) == /\ r # <<None, None>>
             /\ None \in {r[1], r[2]} \/ r[1] <= r[2]

\* check_if_not_modified, of a file: If-None-Match comes first.
NotModified ==
  /\ request.source = "file"
  /\ IF request.match # "absent" THEN request.match = "hit"
     ELSE request.since = "unmodified"

\* check_if_range, of a file, whose own tag is a weak one: no tag matches it.
req_ranges ==
  IF request.source = "file" /\ request.if_range \in {"tag", "modified"}
  THEN <<>> ELSE request.ranges

\* content_length_ or the size of the body; 0 when the content is chunked.
content_len == IF request.source = "chunked" THEN 0 ELSE request.length

\* A range without -1, cut to the content.
Normal(r) ==
  << IF r[1] # None THEN r[1] ELSE IF r[2] = None THEN 0 ELSE content_len - r[2],
     IF None \in {r[1], r[2]} \/ r[2] >= content_len THEN content_len - 1
     ELSE r[2] >>

Fits(r) == 0 <= r[1] /\ r[1] <= r[2] /\ r[2] < content_len

Overlap(r, s) == r[1] <= s[2] /\ s[1] <= r[2]

\* Mutant of RangeError: one more is allowed to overlap.
Mut_OneMore(ranges) ==
  LET rs == [i \in DOMAIN ranges |-> Normal(ranges[i])]
  IN \/ Len(rs) > RangeMax
     \/ \E i \in DOMAIN rs : ~ Fits(rs[i])
     \/ Cardinality({i \in DOMAIN rs :
                       \E j \in 1 .. i - 1 : Overlap(rs[i], rs[j])}) > 3

\* range_error.
RangeError(ranges) ==
  LET rs == [i \in DOMAIN ranges |-> Normal(ranges[i])]
  IN \/ Len(rs) > RangeMax
     \/ \E i \in DOMAIN rs : ~ Fits(rs[i])
     \/ Cardinality({i \in DOMAIN rs :
                       \E j \in 1 .. i - 1 : Overlap(rs[i], rs[j])}) > 2

\* coalesce_ranges: the ranges are sorted by their beginning, those that
\* begin together in any order.
Sorted(rs) ==
  {[i \in DOMAIN rs |-> rs[p[i]]] :
     p \in {f \in [DOMAIN rs -> DOMAIN rs] :
              /\ \A i, j \in DOMAIN rs : f[i] = f[j] => i = j
              /\ \A i \in 1 .. Len(rs) - 1 : rs[f[i]][1] <= rs[f[i + 1]][1]}}

Joins(prev, r) == r[1] <= prev[2] + 1 /\ r # prev

Larger(a, b) == IF a > b THEN a ELSE b

Extend(coalesced, r) ==
  LET n == Len(coalesced)
  IN IF n > 0 /\ Joins(coalesced[n], r)
     THEN [coalesced EXCEPT ![n][2] = Larger(@, r[2])]
     ELSE Append(coalesced, r)

Merged(s) ==
  LET upTo[n \in 0 .. Len(s)] ==
        IF n = 0 THEN <<>> ELSE Extend(upTo[n - 1], s[n])
  IN upTo[Len(s)]

Coalesced(ranges) ==
  {Merged(s) : s \in Sorted([i \in DOMAIN ranges |-> Normal(ranges[i])])}

-----------------------------------------------------------------------------
(***************************************************************************)
(* The bytes of the answer, and -1 for a piece of the multipart format.    *)
(***************************************************************************)
Bytes(r) == [i \in 1 .. r[2] - r[1] + 1 |-> r[1] + i - 1]

Whole == Bytes(<<0, content_len - 1>>)

\* process_multipart_ranges_data, which is used to count and to write.
Multipart(rs) ==
  FlattenSeq([i \in DOMAIN rs |-> <<None>> \o Bytes(rs[i]) \o <<None>>])
  \o <<None>>

Selected(rs) == IF Len(rs) = 1 THEN Bytes(rs[1]) ELSE Multipart(rs)

Partial(status, rs) == rs # <<>> /\ status = 206

\* apply_ranges: the Content-Length, which goes by the status.
Announced(status, rs) ==
  IF request.source = "chunked" THEN None
  ELSE IF Partial(status, rs) THEN Len(Selected(rs)) ELSE content_len

\* write_response_core and write_content_with_provider, which does not look
\* at the status.
Written(status, rs) ==
  IF request.head THEN <<>>
  ELSE IF rs # <<>> /\ (request.source = "body" => Partial(status, rs))
  THEN Selected(rs)
  ELSE Whole

Without(status) == answer' = [status |-> status, announced |-> 0, sent |-> <<>>]

\* process_request after the handler: the status it has set is kept.
Answer ==
  LET rs == req_ranges
      status == IF request.own # 0 THEN request.own
                ELSE IF rs = <<>> THEN 200 ELSE 206
  IN
  IF \E i \in DOMAIN request.ranges : ~ Parses(request.ranges[i])
  THEN Without(416)
  ELSE IF NotModified THEN Without(304)
  ELSE IF rs # <<>> /\ RangeError(rs) THEN Without(416)
  ELSE \E c \in IF rs = <<>> THEN {<<>>} ELSE Coalesced(rs) :
          answer' = [status |-> status, announced |-> Announced(status, c),
                     sent |-> Written(status, c)]

RangesNext == answer = Unanswered /\ Answer /\ UNCHANGED request

-----------------------------------------------------------------------------
(***************************************************************************)
(* Properties.                                                             *)
(***************************************************************************)
Asked(r) ==
  {p \in 0 .. content_len - 1 :
     IF r[1] = None THEN p >= content_len - r[2]
     ELSE p >= r[1] /\ (r[2] = None \/ p <= r[2])}

\* As many bytes are sent as were announced.  Left out is a handler that sets
\* a status of its own and a content provider: then the whole length is
\* announced and only the range is written.
AnnouncedIsSent ==
  /\ answer # Unanswered /\ ~ request.head /\ request.source # "chunked"
  /\ request.own \in {0, 206} \/ request.source = "body"
  => Len(answer.sent) = answer.announced

\* A partial answer consists of the bytes that were asked for and no others.
\* A byte is sent no more often than it was asked for, and more than once only
\* if the same range with that byte was asked for more than once: ranges that
\* overlap otherwise are joined.  Any other successful answer is the whole
\* content.
OnlyAsked ==
  LET ranges == request.ranges
      sent(p) == Cardinality({i \in DOMAIN answer.sent : answer.sent[i] = p})
      asked(p) == Cardinality({i \in DOMAIN ranges : p \in Asked(ranges[i])})
  IN
  /\ answer.status = 206 /\ ~ request.head /\ ranges # <<>> =>
       \A p \in 0 .. content_len - 1 :
          /\ sent(p) <= asked(p)
          /\ sent(p) = 0 <=> asked(p) = 0
          /\ sent(p) > 1 => \E i, j \in DOMAIN ranges :
                               /\ i # j /\ Asked(ranges[i]) = Asked(ranges[j])
                               /\ p \in Asked(ranges[i])
  /\ answer.status = 200 /\ ~ request.head
     /\ (request.own = 0 \/ request.source = "body") =>
       \A p \in 0 .. content_len - 1 : sent(p) = 1

\* The causes to refuse ranges: there are too many of them, one is malformed,
\* asks for no byte of the content or is a suffix longer than it, or more than
\* two have bytes in common with one before them.
Refusable(ranges) ==
  \/ Len(ranges) > RangeMax
  \/ \E i \in DOMAIN ranges :
        \/ ~ Parses(ranges[i]) \/ Asked(ranges[i]) = {}
        \/ ranges[i][1] = None /\ ranges[i][2] > content_len
  \/ Cardinality({i \in DOMAIN ranges :
                    \E j \in 1 .. i - 1 :
                       Asked(ranges[i]) \cap Asked(ranges[j]) # {}}) > 2

\* Ranges are refused for one of these causes, and those served have none.
RefusedRight ==
  /\ answer.status = 416 => Refusable(request.ranges)
  /\ answer.status \in 200 .. 299 /\ req_ranges # <<>> => ~ Refusable(req_ranges)

\* The right bytes are sent, as many as were announced, and ranges are refused
\* when there is a cause and only then.
RangesServed == OnlyAsked /\ AnnouncedIsSent /\ RefusedRight

=============================================================================
