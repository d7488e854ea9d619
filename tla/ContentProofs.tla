--------------------------- MODULE ContentProofs ---------------------------
(***************************************************************************)
(* The content of a message of httplib, with a length, in chunks or to the *)
(* end of the connection, for contents of any length.                      *)
(***************************************************************************)
EXTENDS HttpMessage, WellFoundedInduction, TLAPS

-----------------------------------------------------------------------------
\* Induction over the natural numbers, for a set.

\* A set of natural numbers has a least element.
LEMMA NatLeast ==
  ASSUME NEW T, T \subseteq Nat, T # {}
  PROVE  \E n \in T : \A m \in T : n <= m
  <1>1. PICK R : R = OpToRel(<, Nat)
    OBVIOUS
  <1>2. IsWellFoundedOn(R, Nat)
    BY <1>1, NatLessThanWellFounded
  <1>3. PICK n \in T : \A m \in T : ~ (<<m, n>> \in R)
    BY <1>1, <1>2, WFMin
  <1>4. \A m \in T : ~ (m < n)
    BY <1>1, <1>3 DEF OpToRel
  <1> QED
    BY <1>4

LEMMA Induction ==
  ASSUME NEW S, 0 \in S, \A n \in Nat : n \in S => n + 1 \in S
  PROVE  Nat \subseteq S
  <1>1. SUFFICES ASSUME Nat \ S # {} PROVE FALSE
    OBVIOUS
  <1>2. PICK n \in Nat \ S : \A m \in Nat \ S : n <= m
    BY <1>1, NatLeast
  <1>3. n # 0 /\ n - 1 \in Nat
    BY <1>2
  <1>4. n - 1 \in S
    BY <1>2, <1>3
  <1> QED
    BY <1>2, <1>3, <1>4

-----------------------------------------------------------------------------
(***************************************************************************)
(* The content: what a decoder does with the cells, one after the other.   *)
(* A state is what it reads next, how much is left of the chunk, and how   *)
(* much of the content has been read.                                      *)
(***************************************************************************)
\* The cells that HttpContent has on a connection.
Cells == [k : {"data", "size", "crlf", "trailer", "next"}, n : Nat]

Decoding == {"size", "chunk", "chunk_end", "trailers"}
States == [at : Decoding \cup {"over", "next", "lost", "bad"}, left : Nat,
           count : Nat]

State(at, left, count) == [at |-> at, left |-> left, count |-> count]

Proper(s) == s.at # "bad" /\ (s.at = "chunk" => s.left > 0)

\* The state after the cell c; "bad" if no such cell may follow.
Decoded(s, c) ==
  CASE s.at = "size" /\ c.k = "size" ->
         State(IF c.n = 0 THEN "trailers" ELSE "chunk", c.n, s.count)
    [] s.at = "size" /\ c = Content!Next1 -> State("lost", 0, s.count)
    [] s.at = "chunk" /\ c = Content!Data(s.count + 1) ->
         State(IF s.left = 1 THEN "chunk_end"
               ELSE "chunk", s.left - 1, s.count + 1)
    [] s.at = "chunk_end" /\ c = Content!CRLF -> State("size", 0, s.count)
    [] s.at = "trailers" /\ c.k = "trailer" -> s
    [] s.at = "trailers" /\ c = Content!CRLF -> State("over", 0, s.count)
    [] s.at = "over" /\ c = Content!Next1 -> State("next", 0, s.count)
    [] OTHER -> State("bad", 0, 0)

\* Where the receiver is.
Reached ==
  CASE receiver.at = "chunk" -> State("chunk", receiver.left, Len(receiver.got))
    [] receiver.at = "chunk_end" ->
         State("chunk_end", 0, Len(receiver.got) + Len(receiver.held))
    [] receiver.at = "trailers" -> State("trailers", 0, Len(receiver.got))
    [] OTHER -> State("size", 0, Len(receiver.got))

\* Where the sender is, after all that it has written.
Written(s) ==
  CASE sender.ok /\ ended = "next" ->
         s.at = (IF sender.done THEN "next" ELSE "lost")
           /\ s.count = sender.offset
    [] sender.ok /\ ended # "next" ->
         s = State(IF sender.done THEN "over" ELSE "size", 0, sender.offset)
    [] OTHER -> s.at \in Decoding /\ (s.at = "trailers"
                                      => s.count = sender.offset)

\* The states before, between and after the cells of w.
Path(w, st) ==
  /\ st \in [1 .. Len(w) + 1 -> States]
  /\ \A i \in 1 .. Len(w) : st[i + 1] = Decoded(st[i], w[i])
  /\ \A i \in 1 .. Len(w) + 1 : Proper(st[i])

\* From where the receiver is to where the sender is.
Run(st) ==
  /\ Path(wire, st) /\ st[1] = Reached /\ Written(st[Len(wire) + 1])
  /\ \A i \in 1 .. Len(wire) + 1 : st[i].count <= sender.offset

\* All of the content was received, and what is left is the next message.
ChunkedSuccess ==
  /\ Len(receiver.got) = sender.offset
  /\ IF sender.ok
     THEN sender.done /\ wire = IF ended = "next" THEN <<Content!Next1>>
       ELSE <<>>
     ELSE wire = <<>>

\* What is on the connection leads the decoder from one end to the other.
ChunkedInv ==
  sender.how = "chunked" =>
    /\ receiver.at # "end" => \E st : Run(st)
    /\ receiver.result = "success" => ChunkedSuccess

\* Without chunks: the data from a position on, and perhaps the next message.
Segment(c, d) ==
  /\ \A i \in 1 .. d : wire[i] = Content!Data(c + i)
  /\ c + d <= sender.offset /\ (sender.ok => c + d = sender.offset)
  /\ IF ended = "next" THEN Len(wire) = d + 1 /\ wire[d + 1] = Content!Next1
     ELSE Len(wire) = d

\* How much of the content has been taken from the connection.
Position ==
  IF receiver.at = "skip" THEN sender.length - receiver.left
  ELSE Len(receiver.got)

\* What is on the connection goes on where the receiver is.
PlainInv ==
  sender.how # "chunked" /\ (receiver.at # "end"
                             \/ receiver.result = "success") =>
    \E d \in 0 .. Len(wire) : Segment(Position, d)

SenderTypes ==
  /\ sender \in [how : Content!Hows, length : Nat,
                 at : {"loop", "provider", "true", "false", "shutdown"},
                 offset : Nat, available : BOOLEAN, ok : BOOLEAN,
                 done : BOOLEAN]
  /\ ended \in {"open", "closed", "next"}

\* Bytes beyond the length are never written, and nothing after a failure.
SenderInv ==
  /\ SenderTypes
  /\ sender.how = "length" => sender.offset <= sender.length /\ ~ sender.done
  /\ ~ sender.ok => sender.at \in {"provider", "false"}
  /\ sender.done => ~ sender.available
  /\ sender.at = "true" => ~ Content!GoesOn
  /\ ended # "open" => sender.at \in {"true", "false", "shutdown"}
  /\ ended = "next" => sender.at = "true" /\ sender.how # "close"

ReceiverTypes ==
  /\ receiver \in [api : {"content", "stream"},
                   at : Decoding \cup {"start", "known", "skip", "all", "end"},
                   left : Nat, got : Seq(Cells), held : Seq(Cells),
                   result : {"", "success", "error", "too_large"},
                   late : BOOLEAN]
  /\ wire \in Seq(Cells)

\* What was received is the beginning of the content, and no more than it may
\* be; what is left is counted right.
ReceiverInv ==
  /\ ReceiverTypes
  /\ \A i \in DOMAIN receiver.got : receiver.got[i] = Content!Data(i)
  /\ receiver.api = "content" => Len(receiver.got) <= payload_max_length
  /\ receiver.at # "end" => receiver.result = ""
  /\ receiver.at = "start" => receiver.got = <<>>
  /\ receiver.at = "chunk_end" =>
       \A i \in DOMAIN receiver.held :
          receiver.held[i] = Content!Data(Len(receiver.got) + i)
  /\ receiver.at \in Decoding => sender.how = "chunked"
  /\ receiver.at = "all" => sender.how = "close"
  /\ receiver.at = "chunk" => receiver.left > 0
  /\ receiver.at = "known" =>
       /\ sender.how = "length" /\ receiver.left > 0
       /\ Len(receiver.got) + receiver.left = sender.length
       /\ receiver.api = "content" => sender.length <= payload_max_length
  /\ receiver.at = "skip" =>
       /\ sender.how = "length" /\ 0 < receiver.left
       /\ receiver.left <= sender.length /\ payload_max_length < sender.length

\* Why a content of a known length is complete, and why it is refused.
ResultInv ==
  /\ receiver.result = "success" /\ sender.how = "length" =>
       Len(receiver.got) = sender.length
  /\ receiver.result = "error" /\ ~ receiver.late =>
       ended # "open" /\ ~ Content!Complete
  /\ receiver.result = "too_large" =>
       payload_max_length < IF sender.how = "length" THEN sender.length
                            ELSE sender.offset

\* The inductive invariant of the content.
ContentInv ==
  SenderInv /\ ReceiverInv /\ ResultInv /\ PlainInv /\ ChunkedInv

\* In a chunk only the next byte of the content may follow.
LEMMA DecodedData ==
  ASSUME NEW s \in States, NEW c \in Cells, s.at = "chunk",
         Proper(s), Proper(Decoded(s, c))
  PROVE  /\ c = Content!Data(s.count + 1)
         /\ Decoded(s, c) = State(IF s.left = 1 THEN "chunk_end" ELSE "chunk",
                                  s.left - 1, s.count + 1)
  <1>1. c = Content!Data(s.count + 1)
    BY DEF Proper, Decoded, State
  <1> QED
    BY <1>1 DEF Decoded

\* Which lines may follow where a line is read.
LEMMA DecodedLine ==
  ASSUME NEW s \in States, NEW c \in Cells, s.at \in Decoding \ {"chunk"},
         Proper(Decoded(s, c))
  PROVE  /\ c.k # "data"
         /\ s.at = "size" =>
              \/ /\ c.k = "size"
                 /\ Decoded(s, c) = State(IF c.n = 0 THEN "trailers"
                                          ELSE "chunk",
                                          c.n, s.count)
              \/ c = Content!Next1 /\ Decoded(s, c) = State("lost", 0, s.count)
         /\ s.at = "chunk_end" =>
              c = Content!CRLF /\ Decoded(s, c) = State("size", 0, s.count)
         /\ s.at = "trailers" =>
              \/ c.k = "trailer" /\ Decoded(s, c) = s
              \/ c = Content!CRLF /\ Decoded(s, c) = State("over", 0, s.count)
  <1>1. CASE s.at = "size"
    BY <1>1 DEF Proper, Decoded, State, Content!Next1, Content!Line
  <1>2. CASE s.at = "chunk_end"
    <2>1. c = Content!CRLF
      BY <1>2 DEF Proper, Decoded, State
    <2>2. Decoded(s, c) = State("size", 0, s.count)
      BY <1>2, <2>1 DEF Decoded
    <2> QED
      BY <1>2, <2>1, <2>2 DEF Content!CRLF, Content!Line
  <1>3. CASE s.at = "trailers"
    BY <1>3 DEF Proper, Decoded, State, Content!CRLF, Content!Line
  <1> QED
    BY <1>1, <1>2, <1>3 DEF Decoding

\* After the end only the next message may follow.
LEMMA DecodedOver ==
  ASSUME NEW s \in States, NEW c \in Cells, Proper(Decoded(s, c)),
         s.at \notin Decoding
  PROVE  /\ s.at = "over" /\ c = Content!Next1
         /\ Decoded(s, c) = State("next", 0, s.count)
  <1>1. s.at = "over"
    BY DEF Proper, Decoded, State, Decoding
  <1>2. c = Content!Next1
    BY <1>1 DEF Proper, Decoded, State
  <1> QED
    BY <1>1, <1>2 DEF Decoded

\* What is left of a path when the first n cells are gone.
LEMMA PathDrop ==
  ASSUME NEW w \in Seq(Cells), NEW st, Path(w, st), NEW n \in 0 .. Len(w),
         NEW u, u = SubSeq(w, n + 1, Len(w))
  PROVE  /\ u \in Seq(Cells) /\ Len(u) = Len(w) - n
         /\ Path(u, [i \in 1 .. Len(u) + 1 |-> st[n + i]])
  <1>1. PICK L \in Nat : L = Len(w)
    OBVIOUS
  <1>2. u \in Seq(Cells) /\ Len(u) = L - n
        /\ \A i \in 1 .. L - n : u[i] = w[n + i]
    BY <1>1
  <1>3. st \in [1 .. L + 1 -> States] /\ (\A i \in 1 .. L + 1 : Proper(st[i]))
        /\ \A i \in 1 .. L : st[i + 1] = Decoded(st[i], w[i])
    BY <1>1 DEF Path
  <1>4. PICK g : g = [i \in 1 .. L - n + 1 |-> st[n + i]]
    OBVIOUS
  <1>5. g \in [1 .. L - n + 1 -> States]
          /\ \A i \in 1 .. L - n + 1 : Proper(g[i])
    BY <1>1, <1>3, <1>4
  <1>6. ASSUME NEW i \in 1 .. L - n PROVE g[i + 1] = Decoded(g[i], u[i])
    <2>1. g[i] = st[n + i] /\ g[i + 1] = st[n + (i + 1)]
      <3>1. i \in 1 .. L - n + 1 /\ i + 1 \in 1 .. L - n + 1
        BY <1>1
      <3> QED
        BY <1>4, <3>1
    <2>3. u[i] = w[n + i]
      BY <1>2
    <2>2. n + i \in 1 .. L /\ n + (i + 1) = (n + i) + 1
      BY <1>1
    <2> QED
      BY <1>3, <2>1, <2>2, <2>3
  <1>7. Path(u, g)
    BY <1>2, <1>5, <1>6 DEF Path
  <1> QED
    BY <1>1, <1>2, <1>4, <1>7

\* One path after another.
LEMMA PathJoin ==
  ASSUME NEW w \in Seq(Cells), NEW e \in Seq(Cells), NEW st, NEW g,
         Path(w, st), Path(e, g), g[1] = st[Len(w) + 1]
  PROVE  \E h : /\ Path(w \o e, h) /\ h[1] = st[1]
                /\ h[Len(w \o e) + 1] = g[Len(e) + 1]
                /\ \A i \in 1 .. Len(w \o e) + 1 :
                      \/ \E j \in 1 .. Len(w) + 1 : h[i] = st[j]
                      \/ \E j \in 1 .. Len(e) + 1 : h[i] = g[j]
  <1>1. PICK L \in Nat : L = Len(w)
    OBVIOUS
  <1>2. PICK M \in Nat : M = Len(e)
    OBVIOUS
  <1>3. PICK x : x = w \o e
    OBVIOUS
  <1>4. x \in Seq(Cells) /\ Len(x) = L + M
        /\ (\A i \in 1 .. L : x[i] = w[i])
             /\ (\A i \in 1 .. M : x[L + i] = e[i])
    BY <1>1, <1>2, <1>3
  <1>5. st \in [1 .. L + 1 -> States] /\ (\A i \in 1 .. L + 1 : Proper(st[i]))
        /\ \A i \in 1 .. L : st[i + 1] = Decoded(st[i], w[i])
    BY <1>1 DEF Path
  <1>6. g \in [1 .. M + 1 -> States] /\ (\A i \in 1 .. M + 1 : Proper(g[i]))
        /\ \A i \in 1 .. M : g[i + 1] = Decoded(g[i], e[i])
    BY <1>2 DEF Path
  <1>7. PICK h : h = [i \in 1 .. L + M + 1 |->
                        IF i <= L + 1 THEN st[i] ELSE g[i - L]]
    OBVIOUS
  <1>8. (\A i \in 1 .. L + 1 : h[i] = st[i])
          /\ \A i \in 1 .. M + 1 : h[L + i] = g[i]
    <2>1. \A i \in 1 .. L + 1 : h[i] = st[i]
      BY <1>7
    <2>2. ASSUME NEW i \in 1 .. M + 1, i # 1 PROVE h[L + i] = g[i]
      BY <1>7, <2>2
    <2>3. h[L + 1] = g[1]
      BY <1>1, <2>1
    <2> QED
      BY <2>1, <2>2, <2>3
  <1>9. ASSUME NEW i \in 1 .. L + M + 1
        PROVE  \/ \E j \in 1 .. L + 1 : h[i] = st[j]
               \/ \E j \in 1 .. M + 1 : h[i] = g[j]
    <2>1. CASE i <= L + 1
      BY <1>8, <2>1
    <2>2. CASE i > L + 1
      <3>1. i - L \in 1 .. M + 1 /\ L + (i - L) = i
        BY <2>2
      <3> QED
        BY <1>8, <3>1
    <2> QED
      BY <2>1, <2>2
  <1>10. h \in [1 .. L + M + 1 -> States]
           /\ \A i \in 1 .. L + M + 1 : Proper(h[i])
    <2>1. \A i \in 1 .. L + M + 1 : h[i] \in States /\ Proper(h[i])
      BY <1>5, <1>6, <1>9
    <2> QED
      BY <1>7, <2>1
  <1>11. ASSUME NEW i \in 1 .. L + M PROVE h[i + 1] = Decoded(h[i], x[i])
    <2>1. CASE i <= L
      <3>1. i \in 1 .. L /\ i \in 1 .. L + 1 /\ i + 1 \in 1 .. L + 1
        BY <2>1
      <3> QED
        BY <1>4, <1>5, <1>8, <3>1
    <2>2. CASE i > L
      <3>1. PICK k \in Int : k = i - L
        OBVIOUS
      <3>2. k \in 1 .. M /\ k \in 1 .. M + 1 /\ k + 1 \in 1 .. M + 1
            /\ i = L + k /\ i + 1 = L + (k + 1)
        BY <2>2, <3>1
      <3>3. h[L + k] = g[k] /\ h[L + (k + 1)] = g[k + 1]
        BY <1>8, <3>2
      <3>4. g[k + 1] = Decoded(g[k], e[k])
        BY <1>6, <3>2
      <3>5. x[L + k] = e[k]
        BY <1>4, <3>2
      <3>6. h[i + 1] = g[k + 1] /\ h[i] = g[k] /\ x[i] = e[k]
        BY <3>2, <3>3, <3>5
      <3> QED
        BY <3>4, <3>6
    <2> QED
      BY <2>1, <2>2
  <1>12. Path(x, h)
    BY <1>4, <1>10, <1>11 DEF Path
  <1>13. h[1] = st[1] /\ h[L + M + 1] = g[M + 1]
    <2>1. L + M + 1 = L + (M + 1) /\ M + 1 \in 1 .. M + 1 /\ 1 \in 1 .. L + 1
      OBVIOUS
    <2> QED
      BY <1>8, <2>1
  <1> QED
    BY <1>1, <1>2, <1>3, <1>4, <1>9, <1>12, <1>13

\* The data of a chunk comes at once.
LEMMA PathData ==
  ASSUME NEW w \in Seq(Cells), NEW st, Path(w, st), st[1].at = "chunk",
         NEW n \in 1 .. Len(w), n <= st[1].left
  PROVE  /\ st[n + 1] = State(IF n = st[1].left THEN "chunk_end" ELSE "chunk",
                              st[1].left - n, st[1].count + n)
         /\ \A i \in 1 .. n : w[i] = Content!Data(st[1].count + i)
  <1>1. PICK L \in Nat : L = Len(w)
    OBVIOUS
  <1>2. st \in [1 .. L + 1 -> States] /\ (\A i \in 1 .. L + 1 : Proper(st[i]))
        /\ \A i \in 1 .. L : st[i + 1] = Decoded(st[i], w[i])
    BY <1>1 DEF Path
  <1>3. st[1] \in States
    BY <1>2
  <1>4. PICK c \in Nat : c = st[1].count
    BY <1>3 DEF States
  <1>5. PICK l \in Nat : l = st[1].left
    BY <1>3 DEF States
  <1>6. l > 0 /\ n <= l /\ n \in 1 .. L
    BY <1>1, <1>2, <1>5 DEF Proper
  <1> DEFINE Reads(k) ==
        k < n => /\ st[k + 2] = State(IF k + 1 = l THEN "chunk_end"
                                      ELSE "chunk",
                                      l - (k + 1), c + (k + 1))
                 /\ w[k + 1] = Content!Data(c + (k + 1))
  <1>7. ASSUME NEW k \in 0 .. n - 1,
               st[k + 1] = State("chunk", l - k, c + k)
        PROVE  Reads(k)
    <2>1. k + 1 \in 1 .. L /\ k + 1 \in 1 .. L + 1 /\ k + 2 = (k + 1) + 1
          /\ k + 2 \in 1 .. L + 1
      BY <1>6
    <2>2. PICK s \in States : s = st[k + 1]
      BY <1>2, <2>1
    <2>3. PICK x \in Cells : x = w[k + 1]
      BY <1>1, <2>1
    <2>4. st[k + 2] = Decoded(s, x) /\ Proper(s) /\ Proper(Decoded(s, x))
      BY <1>2, <2>1, <2>2, <2>3
    <2>5. s.at = "chunk" /\ s.left = l - k /\ s.count = c + k
      BY <1>7, <2>2 DEF State
    <2>6. x = Content!Data(s.count + 1)
          /\ Decoded(s, x) = State(IF s.left = 1 THEN "chunk_end" ELSE "chunk",
                                   s.left - 1, s.count + 1)
      BY <2>4, <2>5, DecodedData
    <2>7. s.count + 1 = c + (k + 1) /\ s.left - 1 = l - (k + 1)
          /\ (s.left = 1 <=> k + 1 = l)
      BY SMTT(30), <2>5
    <2> QED
      BY <2>3, <2>4, <2>6, <2>7
  <1>14. PICK S : \A k \in Nat : k \in S <=> Reads(k)
    <2>1. \A k \in Nat : k \in {j \in Nat : Reads(j)} <=> Reads(k)
      OBVIOUS
    <2> QED
      BY <2>1
  <1>8. S \cap Nat = {k \in Nat : Reads(k)}
    BY <1>14
  <1>9. 0 \in S
    <2>1. st[1] = State("chunk", l - 0, c + 0)
      BY <1>3, <1>4, <1>5 DEF States, State
    <2>2. 0 \in 0 .. n - 1 /\ st[0 + 1] = st[1]
      BY <1>6
    <2>3. Reads(0)
      BY <1>7, <2>1, <2>2
    <2> QED
      BY <1>8, <2>3
  <1>10. ASSUME NEW k \in Nat, k \in S PROVE k + 1 \in S
    <2> HIDE DEF Reads
    <2>5. k + 1 \in Nat /\ Reads(k)
      BY <1>10, <1>14
    <2>6. SUFFICES Reads(k + 1)
      BY <1>14, <2>5
    <2> USE DEF Reads
    <2>1. SUFFICES ASSUME k + 1 < n PROVE Reads(k + 1)
      OBVIOUS
    <2>2. Reads(k) /\ k < n
      <3>1. k < n
        BY <1>6, <2>1
      <3> QED
        BY <2>5, <3>1
    <2>3. k + 1 # l /\ k + 1 \in 0 .. n - 1 /\ k + 2 = (k + 1) + 1
      BY <1>6, <2>1
    <2>4. st[(k + 1) + 1] = State("chunk", l - (k + 1), c + (k + 1))
      BY <2>2, <2>3
    <2> QED
      BY <1>7, <2>3, <2>4
  <1>11. \A k \in Nat : Reads(k)
    <2>1. Nat \subseteq S
      BY <1>9, <1>10, Induction
    <2> QED
      BY <1>8, <2>1
  <1>12. st[n + 1] = State(IF n = l THEN "chunk_end" ELSE "chunk", l - n, c + n)
    <2>1. n - 1 \in Nat /\ n - 1 < n /\ (n - 1) + 2 = n + 1 /\ (n - 1) + 1 = n
      BY <1>6
    <2>2. Reads(n - 1)
      BY <1>11, <2>1
    <2> QED
      BY <2>1, <2>2
  <1>13. ASSUME NEW i \in 1 .. n PROVE w[i] = Content!Data(c + i)
    <2>1. i - 1 \in Nat /\ i - 1 < n /\ (i - 1) + 1 = i
      BY <1>6
    <2>2. Reads(i - 1)
      BY <1>11, <2>1
    <2> QED
      BY <2>1, <2>2
  <1> QED
    BY <1>4, <1>5, <1>12, <1>13

-----------------------------------------------------------------------------
\* What is known of the sender and the receiver, and the steps of the sender
\* that write nothing.

LEMMA SenderTyped ==
  ASSUME ContentInv
  PROVE  /\ sender.how \in Content!Hows /\ sender.length \in Nat
         /\ sender.offset \in Nat /\ sender.ok \in BOOLEAN
         /\ sender.done \in BOOLEAN
  BY DEF ContentInv, SenderInv, SenderTypes

LEMMA ReceiverTyped ==
  ASSUME ContentInv
  PROVE  /\ wire \in Seq(Cells) /\ Len(wire) \in Nat
         /\ receiver.left \in Nat
         /\ receiver.got \in Seq(Cells) /\ Len(receiver.got) \in Nat
         /\ receiver.held \in Seq(Cells) /\ Len(receiver.held) \in Nat
  <1>1. ReceiverTypes
    BY DEF ContentInv, ReceiverInv
  <1>2. wire \in Seq(Cells) /\ receiver.left \in Nat
        /\ receiver.got \in Seq(Cells) /\ receiver.held \in Seq(Cells)
    BY <1>1 DEF ReceiverTypes
  <1> QED
    BY <1>2

LEMMA PositionTyped ==
  ASSUME ContentInv
  PROVE  Position \in Int
  BY SenderTyped, ReceiverTyped DEF Position

LEMMA Joining ==
  ASSUME NEW w \in Seq(Cells), NEW e \in Seq(Cells),
         NEW L, L = Len(w), NEW n, n = Len(e), NEW x, x = w \o e
  PROVE  /\ x \in Seq(Cells) /\ L \in Nat /\ n \in Nat /\ Len(x) = L + n
         /\ \A i \in 1 .. L : x[i] = w[i]
         /\ \A i \in 1 .. n : x[L + i] = e[i]
  OBVIOUS

LEMMA BytesSent ==
  ASSUME NEW o \in Nat, NEW n \in Nat
  PROVE  /\ Content!Bytes(o, n) \in Seq(Cells) /\ Len(Content!Bytes(o, n)) = n
         /\ \A i \in 1 .. n : Content!Bytes(o, n)[i] = Content!Data(o + i)
  <1>1. \A i \in 1 .. n : Content!Data(o + i) \in Cells
    BY DEF Content!Data, Cells
  <1> QED
    BY <1>1 DEF Content!Bytes

\* A step that leaves alone what the sender has written.
LEMMA Unmoved ==
  ASSUME ContentInv, UNCHANGED <<wire, ended, receiver>>, SenderInv',
         sender'.how = sender.how, sender'.length = sender.length,
         sender'.offset = sender.offset, sender'.ok = sender.ok,
         sender'.done = sender.done
  PROVE  ContentInv'
  <1>1. ReceiverInv'
    BY DEF ContentInv, ReceiverInv, ReceiverTypes
  <1>2. ResultInv'
    BY DEF ContentInv, ResultInv, Content!Complete
  <1>3. PlainInv'
    BY DEF ContentInv, PlainInv, Segment, Position
  <1>4. ChunkedInv'
    <2>1. ASSUME NEW st, Run(st) PROVE Run(st)'
      BY <2>1 DEF Run, Written, Reached
    <2>2. ChunkedSuccess => ChunkedSuccess'
      BY DEF ChunkedSuccess
    <2> QED
      BY <2>1, <2>2 DEF ContentInv, ChunkedInv
  <1> QED
    BY <1>1, <1>2, <1>3, <1>4 DEF ContentInv

LEMMA ContentCallProvider ==
  ASSUME ContentInv, Content!CallProvider
  PROVE  ContentInv'
  <1>1. PICK a \in {"provider", "false"} : sender' = [sender EXCEPT !.at = a]
    BY DEF Content!CallProvider
  <1>2. UNCHANGED <<wire, ended, receiver>> /\ sender.at = "loop"
    BY DEF Content!CallProvider, Content!SenderOnly
  <1>3. SenderInv'
    BY <1>1, <1>2 DEF ContentInv, SenderInv, SenderTypes
  <1>4. /\ sender'.how = sender.how /\ sender'.length = sender.length
        /\ sender'.offset = sender.offset /\ sender'.ok = sender.ok
        /\ sender'.done = sender.done
    BY <1>1 DEF ContentInv, SenderInv, SenderTypes
  <1> QED
    BY <1>2, <1>3, <1>4, Unmoved

LEMMA ContentLoopEnds ==
  ASSUME ContentInv, Content!LoopEnds
  PROVE  ContentInv'
  <1>1. PICK a \in {"true", "shutdown"} :
           /\ sender' = [sender EXCEPT !.at = a]
           /\ a = "true" => ~ Content!GoesOn
    BY DEF Content!LoopEnds
  <1>2. UNCHANGED <<wire, ended, receiver>> /\ sender.at = "loop"
    BY DEF Content!LoopEnds, Content!SenderOnly
  <1>3. SenderInv'
    BY <1>1, <1>2 DEF ContentInv, SenderInv, SenderTypes, Content!GoesOn
  <1>4. /\ sender'.how = sender.how /\ sender'.length = sender.length
        /\ sender'.offset = sender.offset /\ sender'.ok = sender.ok
        /\ sender'.done = sender.done
    BY <1>1 DEF ContentInv, SenderInv, SenderTypes
  <1> QED
    BY <1>2, <1>3, <1>4, Unmoved

LEMMA ContentProviderReturns ==
  ASSUME ContentInv, Content!ProviderReturns
  PROVE  ContentInv'
  <1>1. PICK a \in {"loop", "false"} :
           /\ sender' = [sender EXCEPT !.at = a]
           /\ a = "loop" => sender.ok
    BY DEF Content!ProviderReturns
  <1>2. UNCHANGED <<wire, ended, receiver>> /\ sender.at = "provider"
    BY DEF Content!ProviderReturns, Content!SenderOnly
  <1>3. SenderInv'
    BY <1>1, <1>2 DEF ContentInv, SenderInv, SenderTypes, Content!GoesOn
  <1>4. /\ sender'.how = sender.how /\ sender'.length = sender.length
        /\ sender'.offset = sender.offset /\ sender'.ok = sender.ok
        /\ sender'.done = sender.done
    BY <1>1 DEF ContentInv, SenderInv, SenderTypes
  <1> QED
    BY <1>2, <1>3, <1>4, Unmoved

\* More data is written, all of it or some.
LEMMA PlainGrows ==
  ASSUME ContentInv, sender.how # "chunked", sender.ok, ended = "open",
         NEW n \in Nat,
         wire' = wire \o Content!Bytes(sender.offset, n),
         UNCHANGED <<ended, receiver>>,
         sender'.how = sender.how, sender'.length = sender.length,
         sender.offset + n <= sender'.offset,
         sender'.ok => sender'.offset = sender.offset + n
  PROVE  PlainInv'
  <1>1. SUFFICES ASSUME receiver.at # "end" \/ receiver.result = "success"
                 PROVE  \E d \in 0 .. Len(wire') : Segment(Position, d)'
    BY DEF PlainInv
  <1>2. PICK d \in 0 .. Len(wire) : Segment(Position, d)
    BY <1>1 DEF ContentInv, PlainInv
  <1>3. PICK o \in Nat : o = sender.offset
    BY SenderTyped
  <1>4. PICK L \in Nat : L = Len(wire)
    BY ReceiverTyped
  <1>5. PICK c \in Int : c = Position
    BY PositionTyped
  <1>7. d = L /\ c + L = o /\ \A i \in 1 .. L : wire[i] = Content!Data(c + i)
    BY <1>2, <1>3, <1>4, <1>5 DEF Segment
  <1>15. c + L = o
    BY <1>7
  <1>8. PICK b : b = Content!Bytes(o, n)
    OBVIOUS
  <1>9. b \in Seq(Cells) /\ Len(b) = n
        /\ \A i \in 1 .. n : b[i] = Content!Data(o + i)
    BY <1>8, BytesSent
  <1>10. /\ Len(wire') = L + n
         /\ \A i \in 1 .. L : wire'[i] = wire[i]
         /\ \A i \in 1 .. n : wire'[L + i] = b[i]
    <2>1. wire \in Seq(Cells) /\ wire' = wire \o b
      BY <1>3, <1>8, ReceiverTyped
    <2> QED
      BY <1>4, <1>9, <2>1, Joining
  <1>11. ASSUME NEW i \in 1 .. L + n PROVE wire'[i] = Content!Data(c + i)
    <2>1. CASE i <= L
      <3>1. i \in 1 .. L
        BY <2>1
      <3> QED
        BY <1>7, <1>10, <3>1
    <2>2. CASE i > L
      <3>1. PICK k \in 1 .. n : i = L + k
        <4>1. i - L \in 1 .. n /\ i = L + (i - L)
          BY <2>2
        <4> QED
          BY <4>1
      <3>2. c + i = o + k
        BY <1>15, <3>1
      <3> QED
        BY <1>9, <1>10, <3>1, <3>2
    <2>3. i <= L \/ i > L
      OBVIOUS
    <2> QED
      BY <2>1, <2>2, <2>3
  <1>12. Position' = c
    BY <1>5 DEF Position
  <1>13. c + (L + n) = o + n
    BY <1>15
  <1>14. Segment(Position, L + n)'
    BY <1>3, <1>10, <1>11, <1>12, <1>13 DEF Segment
  <1> QED
    BY <1>10, <1>14

-----------------------------------------------------------------------------
\* What is written: a chunk, the beginning of one, a part of the content.

\* What was written of the cells, if not all of them.
LEMMA WrittenHow ==
  ASSUME NEW e \in Seq(Cells), NEW s, Content!Writes(e, s)
  PROVE  \/ wire' = wire \o e /\ sender' = s
         \/ /\ sender' = [s EXCEPT !.ok = FALSE]
            /\ \E n \in Nat : n < Len(e) /\ wire' = wire \o SubSeq(e, 1, n)
  <1>1. CASE wire' = wire \o e /\ sender' = s
    BY <1>1
  <1>2. CASE /\ \E n \in 0 .. Len(e) - 1 : wire' = wire \o SubSeq(e, 1, n)
             /\ sender' = [s EXCEPT !.ok = FALSE]
    <2>1. PICK n \in 0 .. Len(e) - 1 : wire' = wire \o SubSeq(e, 1, n)
      BY <1>2
    <2>2. n \in Nat /\ n < Len(e)
      OBVIOUS
    <2> QED
      BY <1>2, <2>1, <2>2
  <1> QED
    BY <1>1, <1>2 DEF Content!Writes

LEMMA Prefix ==
  ASSUME NEW w \in Seq(Cells), NEW n \in Nat, n <= Len(w), NEW e,
         e = SubSeq(w, 1, n)
  PROVE  /\ e \in Seq(Cells) /\ Len(e) = n
         /\ \A i \in 1 .. n : e[i] = w[i]
  OBVIOUS

LEMMA BytesPrefix ==
  ASSUME NEW o \in Nat, NEW l \in Nat, NEW n \in Nat, n <= l
  PROVE  SubSeq(Content!Bytes(o, l), 1, n) = Content!Bytes(o, n)
  <1>1. PICK b \in Seq(Cells) : b = Content!Bytes(o, l)
    BY BytesSent
  <1>2. Len(b) = l /\ \A i \in 1 .. l : b[i] = Content!Data(o + i)
    BY <1>1, BytesSent
  <1>3. PICK e : e = SubSeq(b, 1, n)
    OBVIOUS
  <1>4. e \in Seq(Cells) /\ Len(e) = n /\ \A i \in 1 .. n : e[i] = b[i]
    BY <1>2, <1>3, Prefix
  <1>5. \A i \in 1 .. n : e[i] = Content!Data(o + i)
    BY <1>2, <1>4
  <1>6. e = [i \in 1 .. n |-> Content!Data(o + i)]
    BY <1>4, <1>5
  <1> QED
    BY <1>1, <1>3, <1>6 DEF Content!Bytes

\* A chunk, or the beginning of one.
LEMMA ChunkCells ==
  ASSUME NEW o \in Nat, NEW l \in Nat
  PROVE  /\ Content!Chunk(o, l) \in Seq(Cells)
         /\ Len(Content!Chunk(o, l)) = l + 2
         /\ Content!Chunk(o, l)[1] = Content!Line("size", l)
         /\ Content!Chunk(o, l)[l + 2] = Content!CRLF
         /\ \A i \in 1 .. l : Content!Chunk(o, l)[i + 1] = Content!Data(o + i)
  <1>1. PICK b \in Seq(Cells) : b = Content!Bytes(o, l)
    BY BytesSent
  <1>2. Len(b) = l /\ \A i \in 1 .. l : b[i] = Content!Data(o + i)
    BY <1>1, BytesSent
  <1>3. Content!Line("size", l) \in Cells /\ Content!CRLF \in Cells
    BY DEF Content!Line, Content!CRLF, Cells
  <1>4. PICK x \in Cells : x = Content!Line("size", l)
    BY <1>3
  <1>5. PICK y \in Cells : y = Content!CRLF
    BY <1>3
  <1>6. PICK w : w = <<x>> \o b \o <<y>>
    OBVIOUS
  <1>7. w \in Seq(Cells) /\ Len(w) = l + 2 /\ w[1] = x /\ w[l + 2] = y
    BY <1>2, <1>6
  <1>8. \A i \in 1 .. l : w[i + 1] = b[i]
    BY <1>2, <1>6
  <1>9. w = Content!Chunk(o, l)
    BY <1>1, <1>4, <1>5, <1>6 DEF Content!Chunk
  <1> QED
    BY <1>2, <1>4, <1>5, <1>7, <1>8, <1>9

\* The cases of the decoder, one by one.
LEMMA DecodedAs ==
  ASSUME NEW s, NEW c
  PROVE  /\ s.at = "size" /\ c.k = "size" =>
              Decoded(s, c) = State(IF c.n = 0 THEN "trailers" ELSE "chunk",
                                    c.n, s.count)
         /\ s.at = "size" /\ c = Content!Next1 =>
              Decoded(s, c) = State("lost", 0, s.count)
         /\ s.at = "chunk_end" /\ c = Content!CRLF =>
              Decoded(s, c) = State("size", 0, s.count)
         /\ s.at = "trailers" /\ c.k = "trailer" => Decoded(s, c) = s
         /\ s.at = "trailers" /\ c = Content!CRLF =>
              Decoded(s, c) = State("over", 0, s.count)
         /\ s.at = "over" /\ c = Content!Next1 =>
              Decoded(s, c) = State("next", 0, s.count)
  <1>1. Content!Next1.k = "next" /\ Content!CRLF.k = "crlf"
    BY DEF Content!Next1, Content!CRLF, Content!Line
  <1>2. s.at = "size" /\ c.k = "size" =>
          Decoded(s, c) = State(IF c.n = 0 THEN "trailers"
                                ELSE "chunk", c.n, s.count)
    BY <1>1 DEF Decoded
  <1>3. s.at = "size" /\ c = Content!Next1 =>
          Decoded(s, c) = State("lost", 0, s.count)
    BY <1>1 DEF Decoded
  <1>4. s.at = "chunk_end" /\ c = Content!CRLF =>
          Decoded(s, c) = State("size", 0, s.count)
    BY DEF Decoded
  <1>5. s.at = "trailers" /\ c.k = "trailer" => Decoded(s, c) = s
    BY <1>1 DEF Decoded
  <1>6. s.at = "trailers" /\ c = Content!CRLF =>
          Decoded(s, c) = State("over", 0, s.count)
    BY <1>1 DEF Decoded
  <1>7. s.at = "over" /\ c = Content!Next1 =>
          Decoded(s, c) = State("next", 0, s.count)
    BY DEF Decoded
  <1> QED
    BY <1>2, <1>3, <1>4, <1>5, <1>6, <1>7

LEMMA StateFields ==
  ASSUME NEW a, NEW l, NEW n, NEW s, s = State(a, l, n)
  PROVE  s.at = a /\ s.left = l /\ s.count = n
  BY DEF State

LEMMA StateProper ==
  ASSUME NEW a, a \in Decoding \cup {"over", "next", "lost"},
         NEW l \in Nat, NEW n \in Nat, NEW s, s = State(a, l, n),
         a = "chunk" => l > 0
  PROVE  s \in States /\ Proper(s)
  <1>1. s.at = a /\ s.left = l /\ s.count = n
    BY DEF State
  <1>2. s \in States
    BY DEF State, States
  <1>3. a # "bad"
    BY DEF Decoding
  <1> QED
    BY <1>1, <1>2, <1>3 DEF Proper

\* e is the beginning of a chunk.
OfChunk(e, o, l) ==
  Len(e) <= l + 2 /\ \A i \in 1 .. Len(e) : e[i] = Content!Chunk(o, l)[i]

\* The beginning of a chunk is read without an error, and with all of it the
\* next chunk is expected.
LEMMA ChunkPath ==
  ASSUME NEW o \in Nat, NEW l \in Nat, l # 0, NEW e \in Seq(Cells),
         NEW n \in Nat,
         n = Len(e), OfChunk(e, o, l)
  PROVE  \E g : /\ Path(e, g) /\ g[1] = State("size", 0, o)
                /\ \A i \in 1 .. n + 1 : g[i].count <= o + l
                /\ g[n + 1].at \in Decoding \ {"trailers"}
                /\ n = l + 2 => g[n + 1] = State("size", 0, o + l)
  <1>11. l \in Nat \ {0} /\ n <= l + 2
         /\ \A i \in 1 .. n : e[i] = Content!Chunk(o, l)[i]
    BY DEF OfChunk
  <1> DEFINE G(i) == CASE i = 1 -> State("size", 0, o)
                       [] i \in 2 .. l + 1 -> State("chunk", l + 2 - i, o + i - 2)
                       [] i = l + 2 -> State("chunk_end", 0, o + l)
                       [] OTHER -> State("size", 0, o + l)
  <1>1. /\ G(1) = State("size", 0, o)
        /\ \A i \in 2 .. l + 1 : G(i) = State("chunk", l + 2 - i, o + i - 2)
        /\ G(l + 2) = State("chunk_end", 0, o + l)
        /\ G(l + 3) = State("size", 0, o + l)
    <2>1. G(1) = State("size", 0, o)
      <3>1. ~ (1 \in 2 .. l + 1) /\ 1 # l + 2
        OBVIOUS
      <3> QED
        BY <3>1
    <2>2. \A i \in 2 .. l + 1 : G(i) = State("chunk", l + 2 - i, o + i - 2)
      <3>1. \A i \in 2 .. l + 1 : i # 1 /\ i # l + 2
        OBVIOUS
      <3> QED
        BY <3>1
    <2>3. G(l + 2) = State("chunk_end", 0, o + l)
      <3>1. ~ (l + 2 \in 2 .. l + 1) /\ l + 2 # 1
        OBVIOUS
      <3> QED
        BY <3>1
    <2>4. G(l + 3) = State("size", 0, o + l)
      <3>1. ~ (l + 3 \in 2 .. l + 1) /\ l + 3 # 1 /\ l + 3 # l + 2
        OBVIOUS
      <3> QED
        BY <3>1
    <2> QED
      BY <2>1, <2>2, <2>3, <2>4
  <1> HIDE DEF G
  <1>10. ASSUME NEW i \in 1 .. l + 3
        PROVE  i = 1 \/ i = l + 2 \/ i = l + 3 \/ i \in 2 .. l + 1
    OBVIOUS
  <1>2. ASSUME NEW i \in 1 .. l + 3
        PROVE  /\ G(i) \in States /\ Proper(G(i)) /\ G(i).count <= o + l
               /\ G(i).at \in Decoding \ {"trailers"}
    <2>5. PICK a \in Decoding \ {"trailers"}, x \in Nat, c \in Nat :
            G(i) = State(a, x, c) /\ c <= o + l /\ (a = "chunk" => x > 0)
      <3>5. {"size", "chunk", "chunk_end"} = Decoding \ {"trailers"}
        BY DEF Decoding
      <3>1. CASE i = 1
        <4>1. o <= o + l
          OBVIOUS
        <4> QED
          BY <1>1, <3>1, <3>5, <4>1
      <3>2. CASE i = l + 2 \/ i = l + 3
        <4>1. PICK c \in Nat : c = o + l
          OBVIOUS
        <4>2. c <= o + l
          BY <4>1
        <4>3. CASE i = l + 2
          <5>1. G(i) = State("chunk_end", 0, c)
            BY <1>1, <4>1, <4>3
          <5>2. "chunk_end" \in Decoding \ {"trailers"}
            BY <3>5
          <5> QED
            BY <4>2, <5>1, <5>2
        <4>4. CASE i = l + 3
          <5>1. G(i) = State("size", 0, c)
            BY <1>1, <4>1, <4>4
          <5> QED
            BY <3>5, <4>2, <5>1
        <4> QED
          BY <3>2, <4>3, <4>4
      <3>4. CASE i \in 2 .. l + 1
        <4>1. PICK x \in Nat : x = l + 2 - i
          BY <3>4
        <4>2. PICK c \in Nat : c = o + i - 2
          BY <3>4
        <4>3. G(i) = State("chunk", x, c)
          BY <1>1, <3>4, <4>1, <4>2
        <4>4. x > 0 /\ c <= o + l
          BY <3>4, <4>1, <4>2
        <4> QED
          BY <3>5, <4>3, <4>4
      <3> QED
        BY <1>10, <3>1, <3>2, <3>4
    <2>6. G(i).at = a /\ G(i).count = c
      BY <2>5, StateFields
    <2>7. G(i) \in States /\ Proper(G(i))
      BY <2>5, StateProper
    <2> QED
      BY <2>5, <2>6, <2>7
  <1>3. ASSUME NEW i \in 1 .. l + 2
        PROVE  G(i + 1) = Decoded(G(i), Content!Chunk(o, l)[i])
    <2>1. CASE i = 1
      <3>1. Content!Chunk(o, l)[i] = [k |-> "size", n |-> l]
        BY <2>1, ChunkCells DEF Content!Line
      <3>2. G(i + 1) = State("chunk", l, o)
        <4>1. i + 1 = 2 /\ 2 \in 2 .. l + 1 /\ l + 2 - 2 = l /\ o + 2 - 2 = o
          BY <2>1
        <4> QED
          BY <1>1, <4>1
      <3>3. G(i) = State("size", 0, o)
        BY <1>1, <2>1
      <3>4. PICK s : s = G(i)
        OBVIOUS
      <3>5. PICK c : c = Content!Chunk(o, l)[i]
        OBVIOUS
      <3>6. s.at = "size" /\ s.count = o /\ c.k = "size" /\ c.n = l
        BY <3>1, <3>3, <3>4, <3>5 DEF State
      <3>7. Decoded(s, c) = State(IF c.n = 0 THEN "trailers"
                                  ELSE "chunk", c.n, s.count)
        BY <3>6, DecodedAs
      <3> QED
        BY <3>2, <3>4, <3>5, <3>6, <3>7
    <2>2. CASE i = l + 2
      <3>1. Content!Chunk(o, l)[i] = Content!CRLF
        BY <2>2, ChunkCells
      <3>2. G(i) = State("chunk_end", 0, o + l)
              /\ G(i + 1) = State("size", 0, o + l)
        <4>1. i + 1 = l + 3
          BY <2>2
        <4> QED
          BY <1>1, <2>2, <4>1
      <3>3. PICK s : s = G(i)
        OBVIOUS
      <3>6. PICK x : x = o + l
        OBVIOUS
      <3>7. s = State("chunk_end", 0, x)
        BY <3>2, <3>3, <3>6
      <3>4. s.at = "chunk_end" /\ s.count = x
        BY <3>7, StateFields
      <3>8. Decoded(s, Content!CRLF) = State("size", 0, s.count)
        BY <3>4, DecodedAs
      <3>5. Decoded(s, Content!CRLF) = State("size", 0, o + l)
        BY <3>4, <3>6, <3>8
      <3> QED
        BY <3>1, <3>2, <3>3, <3>4, <3>5
    <2>3. CASE i \in 2 .. l + 1
      <3>1. PICK j \in 1 .. l : i = j + 1
        <4>1. i - 1 \in 1 .. l /\ i = (i - 1) + 1
          BY <2>3
        <4> QED
          BY <4>1
      <3>2. Content!Chunk(o, l)[i] = Content!Data(o + j)
        BY <3>1, ChunkCells
      <3>3. G(i) = State("chunk", l + 1 - j, o + j - 1)
        <4>1. l + 2 - i = l + 1 - j /\ o + i - 2 = o + j - 1
          BY <3>1
        <4> QED
          BY <1>1, <2>3, <4>1
      <3>4. G(i + 1) = State(IF j = l THEN "chunk_end"
                             ELSE "chunk", l - j, o + j)
        <4>1. CASE j = l
          <5>1. i + 1 = l + 2 /\ l - j = 0 /\ o + j = o + l
            BY <3>1, <4>1
          <5> QED
            BY <1>1, <4>1, <5>1
        <4>2. CASE j # l
          <5>1. i + 1 \in 2 .. l + 1 /\ l + 2 - (i + 1) = l - j
                /\ o + (i + 1) - 2 = o + j
            BY <3>1, <4>2
          <5> QED
            BY <1>1, <4>2, <5>1
        <4> QED
          BY <4>1, <4>2
      <3>5. PICK s \in States : s = G(i)
        BY <1>2
      <3>6. s.at = "chunk" /\ s.left = l + 1 - j /\ s.count = o + j - 1
        BY <3>3, <3>5 DEF State
      <3>7. s.count + 1 = o + j /\ s.left - 1 = l - j /\ (s.left = 1 <=> j = l)
        BY <3>6
      <3>8. Decoded(s, Content!Data(o + j))
              = State(IF s.left = 1 THEN "chunk_end"
                      ELSE "chunk", s.left - 1, s.count + 1)
        BY <3>6, <3>7 DEF Decoded
      <3> QED
        BY <3>2, <3>4, <3>5, <3>7, <3>8
    <2>4. i = 1 \/ i = l + 2 \/ i \in 2 .. l + 1
      OBVIOUS
    <2> QED
      BY <2>1, <2>2, <2>3, <2>4
  <1>4. PICK g : g = [i \in 1 .. n + 1 |-> G(i)]
    OBVIOUS
  <1>5. \A i \in 1 .. n + 1 : g[i] = G(i) /\ i \in 1 .. l + 3
    BY <1>4, <1>11
  <1>6. ASSUME NEW i \in 1 .. n PROVE g[i + 1] = Decoded(g[i], e[i])
    <2>1. i \in 1 .. n + 1 /\ i + 1 \in 1 .. n + 1 /\ i \in 1 .. l + 2
      BY <1>11
    <2> QED
      BY <1>3, <1>5, <1>11, <2>1
  <1>7. g \in [1 .. n + 1 -> States] /\ \A i \in 1 .. n + 1 : Proper(g[i])
    BY <1>2, <1>4, <1>5
  <1>8. Path(e, g)
    BY <1>6, <1>7 DEF Path
  <1>9. n + 1 \in 1 .. n + 1 /\ 1 \in 1 .. n + 1 /\ (n = l + 2 => n + 1 = l + 3)
    OBVIOUS
  <1> QED
    BY <1>1, <1>2, <1>5, <1>8, <1>9

-----------------------------------------------------------------------------
\* The sender writes more.

\* The empty path and one more cell.
LEMMA PathEmpty ==
  ASSUME NEW s \in States, Proper(s), NEW w, w = <<>>
  PROVE  \E g : Path(w, g) /\ g[1] = s /\ \A i \in 1 .. Len(w) + 1 : g[i] = s
  <1>1. PICK g : g = [i \in 1 .. 1 |-> s]
    OBVIOUS
  <1>2. Len(w) = 0
    OBVIOUS
  <1>3. Path(w, g)
    BY <1>1, <1>2 DEF Path
  <1> QED
    BY <1>1, <1>2, <1>3

LEMMA PathOne ==
  ASSUME NEW s \in States, Proper(s), NEW c \in Cells,
         NEW t \in States, Proper(t), t = Decoded(s, c), NEW e, e = <<c>>
  PROVE  \E g : Path(e, g) /\ g[1] = s /\ g[Len(e) + 1] = t
                /\ \A i \in 1 .. Len(e) + 1 : g[i] \in {s, t}
  <1>1. PICK g : g = [i \in 1 .. 2 |-> IF i = 1 THEN s ELSE t]
    OBVIOUS
  <1>2. Len(e) = 1 /\ e[1] = c
    OBVIOUS
  <1>3. g[1] = s /\ g[2] = t /\ \A i \in 1 .. 2 : g[i] \in {s, t}
    BY <1>1
  <1>4. Path(e, g)
    <2>1. g \in [1 .. 2 -> States] /\ \A i \in 1 .. 2 : Proper(g[i])
      BY <1>1
    <2>2. \A i \in 1 .. 1 : i = 1
      OBVIOUS
    <2>3. \A i \in 1 .. 1 : g[i + 1] = Decoded(g[i], e[i])
      BY <1>2, <1>3, <2>2
    <2> QED
      BY <1>2, <2>1, <2>3 DEF Path
  <1> QED
    BY <1>2, <1>3, <1>4

\* The wire grows by the cells e.
LEMMA ChunkedGrows ==
  ASSUME ContentInv, sender.how = "chunked", sender.ok, ended = "open",
         NEW e \in Seq(Cells), wire' = wire \o e, receiver' = receiver,
         sender.offset <= sender'.offset, sender'.offset \in Nat,
         NEW g, Path(e, g),
         g[1] = State(IF sender.done THEN "over" ELSE "size", 0, sender.offset),
         \A i \in 1 .. Len(e) + 1 : g[i].count <= sender'.offset,
         Written(g[Len(e) + 1])',
         receiver.result = "success" => ChunkedSuccess'
  PROVE  ChunkedInv'
  <1>1. SUFFICES ASSUME receiver.at # "end" PROVE \E st : Run(st)'
    BY DEF ChunkedInv
  <1>2. PICK st : Run(st)
    BY <1>1 DEF ContentInv, ChunkedInv
  <1>3. Path(wire, st) /\ st[1] = Reached /\ Written(st[Len(wire) + 1])
        /\ \A i \in 1 .. Len(wire) + 1 : st[i].count <= sender.offset
    BY <1>2 DEF Run
  <1>4. st[Len(wire) + 1] = g[1]
    BY <1>3 DEF Written
  <1>5. wire \in Seq(Cells)
    BY ReceiverTyped
  <1>6. PICK h : /\ Path(wire \o e, h) /\ h[1] = st[1]
                 /\ h[Len(wire \o e) + 1] = g[Len(e) + 1]
                 /\ \A i \in 1 .. Len(wire \o e) + 1 :
                       \/ \E j \in 1 .. Len(wire) + 1 : h[i] = st[j]
                       \/ \E j \in 1 .. Len(e) + 1 : h[i] = g[j]
    <2>1. PICK w \in Seq(Cells) : w = wire
      BY <1>5
    <2>2. Path(w, st) /\ g[1] = st[Len(w) + 1]
      BY <1>3, <1>4, <2>1
    <2>3. \E h : /\ Path(w \o e, h) /\ h[1] = st[1]
                 /\ h[Len(w \o e) + 1] = g[Len(e) + 1]
                 /\ \A i \in 1 .. Len(w \o e) + 1 :
                       \/ \E j \in 1 .. Len(w) + 1 : h[i] = st[j]
                       \/ \E j \in 1 .. Len(e) + 1 : h[i] = g[j]
      BY <2>2, PathJoin
    <2> QED
      BY <2>1, <2>3
  <1>7. ASSUME NEW i \in 1 .. Len(wire') + 1 PROVE h[i].count <= sender'.offset
    <2>1. CASE \E j \in 1 .. Len(wire) + 1 : h[i] = st[j]
      <3>1. PICK j \in 1 .. Len(wire) + 1 : h[i] = st[j]
        BY <2>1
      <3>2. st[j].count <= sender.offset /\ st[j] \in States
        BY <1>3, <3>1 DEF Path
      <3>3. st[j].count \in Nat /\ sender.offset \in Nat
        BY <3>2, SenderTyped DEF States
      <3>4. PICK c \in Nat, o \in Nat, q \in Nat :
              c = st[j].count /\ o = sender.offset /\ q = sender'.offset
        BY <3>3
      <3>5. c <= o /\ o <= q
        BY <3>2, <3>4
      <3>6. c <= q
        BY <3>5
      <3> QED
        BY <3>1, <3>4, <3>6
    <2>2. CASE \E j \in 1 .. Len(e) + 1 : h[i] = g[j]
      BY <2>2
    <2> QED
      BY <1>6, <2>1, <2>2
  <1>8. Reached' = Reached
    BY DEF Reached
  <1>9. Run(h)'
    BY <1>3, <1>6, <1>7, <1>8 DEF Run
  <1> QED
    BY <1>9

\* What else follows from more having been written.
LEMMA Grown ==
  ASSUME ContentInv, ended = "open", SenderInv', receiver' = receiver,
         sender'.how = sender.how, sender'.length = sender.length,
         sender.offset <= sender'.offset, wire' \in Seq(Cells),
         PlainInv', ChunkedInv'
  PROVE  ContentInv'
  <1>1. ReceiverInv'
    BY DEF ContentInv, ReceiverInv, ReceiverTypes
  <1>2. ResultInv'
    <2>1. receiver.result = "error" => receiver.late
      BY DEF ContentInv, ResultInv
    <2>2. receiver.result = "success" /\ sender.how = "length" =>
            Len(receiver.got) = sender.length
      BY DEF ContentInv, ResultInv
    <2>3. ASSUME receiver.result = "too_large", sender.how # "length"
          PROVE  payload_max_length < sender'.offset
      <3>1. payload_max_length < sender.offset
        BY <2>3 DEF ContentInv, ResultInv
      <3>2. PICK o \in Nat, q \in Nat : o = sender.offset /\ q = sender'.offset
        BY SenderTyped DEF SenderInv, SenderTypes
      <3>3. payload_max_length \in Nat
        BY MessageAssumption
      <3>4. payload_max_length < o /\ o <= q
        BY <3>1, <3>2
      <3>5. payload_max_length < q
        BY <3>3, <3>4
      <3> QED
        BY <3>2, <3>5
    <2>4. receiver.result = "too_large" /\ sender.how = "length" =>
            payload_max_length < sender.length
      BY DEF ContentInv, ResultInv
    <2> QED
      BY <2>1, <2>2, <2>3, <2>4 DEF ResultInv
  <1> QED
    BY <1>1, <1>2 DEF ContentInv

LEMMA ContentFinish ==
  ASSUME ContentInv, Content!Finish
  PROVE  ContentInv'
  <1>1. /\ sender.at \in {"true", "false", "shutdown"} /\ ended = "open"
        /\ sender' = sender /\ receiver' = receiver
    BY DEF Content!Finish
  <1>2. PICK o \in Nat : o = sender.offset
    BY SenderTyped
  <1>3. wire \in Seq(Cells) /\ Len(wire) \in Nat
    BY ReceiverTyped
  <1>4. o <= o
    OBVIOUS
  <1>5. CASE sender.at = "true" /\ sender.how # "close"
    <2>1. wire' = Append(wire, Content!Next1) /\ ended' = "next"
      BY <1>5 DEF Content!Finish
    <2>2. PICK x \in Cells : x = Content!Next1
      BY DEF Content!Next1, Content!Line, Cells
    <2>3. SenderInv'
      BY <1>1, <1>5, <2>1 DEF ContentInv, SenderInv, SenderTypes, Content!GoesOn
    <2>4. wire' \in Seq(Cells) /\ Len(wire') = Len(wire) + 1
          /\ wire'[Len(wire) + 1] = x
          /\ \A i \in 1 .. Len(wire) : wire'[i] = wire[i]
      BY <1>3, <2>1, <2>2
    <2>5. sender.ok
      BY <1>5 DEF ContentInv, SenderInv, SenderTypes
    <2>6. PlainInv'
      <3>1. SUFFICES ASSUME receiver.at # "end" \/ receiver.result = "success",
                            sender.how # "chunked"
                     PROVE  \E d \in 0 .. Len(wire') : Segment(Position, d)'
        BY <1>1 DEF PlainInv
      <3>2. PICK d \in 0 .. Len(wire) : Segment(Position, d)
        BY <3>1 DEF ContentInv, PlainInv
      <3>3. Position' = Position
        BY <1>1 DEF Position
      <3>4. d = Len(wire)
              /\ \A i \in 1 .. d : wire[i] = Content!Data(Position + i)
        BY <1>1, <3>2 DEF Segment
      <3>5. Position + d <= sender.offset /\ Position + d = sender.offset
        BY <2>5, <3>2 DEF Segment
      <3>6. Segment(Position, d)'
        BY <1>1, <2>1, <2>2, <2>4, <3>3, <3>4, <3>5 DEF Segment
      <3>7. d \in 0 .. Len(wire')
        BY <1>3, <2>4, <3>4
      <3> QED
        BY <3>6, <3>7
    <2>7. ChunkedInv'
      <3>1. CASE sender.how # "chunked"
        BY <1>1, <3>1 DEF ChunkedInv
      <3>2. CASE sender.how = "chunked"
        <4>1. PICK a \in {"over", "size"} : a = IF sender.done THEN "over"
                     ELSE "size"
          OBVIOUS
        <4>2. PICK s : s = State(a, 0, o)
          OBVIOUS
        <4>3. PICK b \in {"next", "lost"} : b = IF sender.done THEN "next"
                     ELSE "lost"
          OBVIOUS
        <4>4. PICK t : t = State(b, 0, o)
          OBVIOUS
        <4>5. s \in States /\ Proper(s) /\ t \in States /\ Proper(t)
          <5>1. /\ {a, b} \subseteq Decoding \cup {"over", "next", "lost"}
                /\ 0 \in Nat /\ a # "chunk" /\ b # "chunk"
            BY <4>1, <4>3 DEF Decoding
          <5>2. s \in States /\ Proper(s)
            BY <4>2, <5>1, StateProper
          <5>3. t \in States /\ Proper(t)
            BY <4>4, <5>1, StateProper
          <5> QED
            BY <5>2, <5>3
        <4>6. s.at = a /\ s.count = o /\ t.at = b /\ t.count = o
          BY <4>2, <4>4, StateFields
        <4>7. t = Decoded(s, x)
          BY <2>2, <4>1, <4>3, <4>4, <4>6, DecodedAs
        <4>8. PICK e : e = <<x>>
          OBVIOUS
        <4>9. PICK g : Path(e, g) /\ g[1] = s /\ g[Len(e) + 1] = t
                       /\ \A i \in 1 .. Len(e) + 1 : g[i] \in {s, t}
          BY <4>5, <4>7, <4>8, PathOne
        <4>10. e \in Seq(Cells) /\ wire' = wire \o e
          BY SMTT(30), <1>3, <2>1, <2>2, <4>8
        <4>11. Written(g[Len(e) + 1])'
          BY <1>1, <1>2, <2>1, <2>5, <4>3, <4>6, <4>9 DEF Written
        <4>12. \A i \in 1 .. Len(e) + 1 : g[i].count <= sender'.offset
          BY <1>1, <1>2, <1>4, <4>6, <4>9
        <4>13. receiver.result = "success" => ChunkedSuccess'
          <5>1. SUFFICES ASSUME receiver.result = "success"
                         PROVE  ChunkedSuccess'
            OBVIOUS
          <5>2. Len(receiver.got) = sender.offset /\ sender.done /\ wire = <<>>
            BY <1>1, <2>5, <3>2, <5>1 DEF ContentInv, ChunkedInv, ChunkedSuccess
          <5>3. wire' = <<Content!Next1>>
            BY <2>1, <5>2
          <5> QED
            BY <1>1, <2>1, <2>5, <5>2, <5>3 DEF ChunkedSuccess
        <4>14. sender.offset <= sender'.offset /\ sender'.offset \in Nat
          BY <1>1, <1>2, <1>4
        <4>15. g[1] = State(IF sender.done THEN "over"
                            ELSE "size", 0, sender.offset)
          BY <1>2, <4>1, <4>2, <4>9
        <4> QED
          BY <1>1, <2>5, <3>2, <4>9, <4>10, <4>11, <4>12, <4>13, <4>14, <4>15,
             ChunkedGrows
      <3> QED
        BY <3>1, <3>2
    <2> QED
      BY <1>1, <1>2, <1>4, <2>3, <2>4, <2>6, <2>7, Grown
  <1>6. CASE ~ (sender.at = "true" /\ sender.how # "close")
    <2>1. wire' = wire /\ ended' = "closed"
      BY <1>6 DEF Content!Finish
    <2>2. SenderInv'
      BY <1>1, <2>1 DEF ContentInv, SenderInv, SenderTypes, Content!GoesOn
    <2>3. PlainInv'
      BY <1>1, <2>1 DEF ContentInv, PlainInv, Segment, Position
    <2>4. ChunkedInv'
      <3>1. ASSUME NEW st, Run(st) PROVE Run(st)'
        BY <1>1, <2>1, <3>1 DEF Run, Written, Reached
      <3>2. ChunkedSuccess => ChunkedSuccess'
        BY <1>1, <2>1 DEF ChunkedSuccess
      <3> QED
        BY <1>1, <3>1, <3>2 DEF ContentInv, ChunkedInv
    <2> QED
      BY <1>1, <1>2, <1>3, <1>4, <2>1, <2>2, <2>3, <2>4, Grown
  <1> QED
    BY <1>5, <1>6

LEMMA WrittenPrefix ==
  ASSUME NEW o \in Nat, NEW l \in Nat, NEW s,
         Content!Writes(Content!Bytes(o, l), s)
  PROVE  \E n \in Nat : /\ n <= l /\ wire' = wire \o Content!Bytes(o, n)
                        /\ \/ n = l /\ sender' = s
                           \/ sender' = [s EXCEPT !.ok = FALSE]
  <1>1. PICK b \in Seq(Cells) : b = Content!Bytes(o, l)
    BY BytesSent
  <1>2. Len(b) = l
    BY <1>1, BytesSent
  <1>3. Content!Writes(b, s)
    BY <1>1
  <1>4. \/ wire' = wire \o b /\ sender' = s
        \/ /\ sender' = [s EXCEPT !.ok = FALSE]
           /\ \E n \in Nat : n < Len(b) /\ wire' = wire \o SubSeq(b, 1, n)
    BY <1>3, WrittenHow
  <1>5. CASE wire' = wire \o b /\ sender' = s
    <2>1. l <= l
      OBVIOUS
    <2> QED
      BY <1>1, <1>5, <2>1
  <1>6. CASE /\ sender' = [s EXCEPT !.ok = FALSE]
             /\ \E n \in Nat : n < Len(b) /\ wire' = wire \o SubSeq(b, 1, n)
    <2>1. PICK n \in Nat : n < l /\ wire' = wire \o SubSeq(b, 1, n)
      BY <1>2, <1>6
    <2>2. n <= l
      BY <2>1
    <2>3. SubSeq(b, 1, n) = Content!Bytes(o, n)
      BY <1>1, <2>2, BytesPrefix
    <2> QED
      BY <1>6, <2>1, <2>2, <2>3
  <1> QED
    BY <1>4, <1>5, <1>6

\* The provider writes l bytes, as a chunk or as they are.
LEMMA ContentSinkWrite ==
  ASSUME ContentInv, NEW l \in Nat, Content!SinkWrite(l)
  PROVE  ContentInv'
  <1>1. /\ sender.at = "provider" /\ sender.ok /\ ~ sender.done
        /\ ended' = ended /\ receiver' = receiver
        /\ sender.how = "length" => sender.offset + l <= sender.length
    BY DEF Content!SinkWrite, Content!SenderOnly
  <1>2. ended = "open"
    BY <1>1 DEF ContentInv, SenderInv
  <1>3. PICK o \in Nat : o = sender.offset
    BY SenderTyped
  <1>4. PICK L \in Nat : L = sender.length
    BY SenderTyped
  <1>5. PICK q \in Nat : q = o + l
    OBVIOUS
  <1>6. o <= q /\ (sender.how = "length" => q <= L)
    BY <1>1, <1>3, <1>4, <1>5
  <1>7. wire \in Seq(Cells) /\ Len(wire) \in Nat
    BY ReceiverTyped
  <1>17. PICK v \in BOOLEAN :
            v = IF sender.how = "chunked" THEN l > 0 ELSE sender.available
    <2>1. sender.available \in BOOLEAN
      BY DEF ContentInv, SenderInv, SenderTypes
    <2>2. (l > 0) \in BOOLEAN
      OBVIOUS
    <2>3. (IF sender.how = "chunked" THEN l > 0
           ELSE sender.available) \in BOOLEAN
      BY <2>1, <2>2
    <2> QED
      BY <2>3
  <1>18. PICK s : s = [sender EXCEPT !.offset = q,
                 !.available = IF sender.how = "chunked" THEN l > 0 ELSE @]
    OBVIOUS
  <1>8. s = [sender EXCEPT !.offset = q, !.available = v]
    BY <1>17, <1>18
  <1>9. IF sender.how = "chunked" /\ l > 0
        THEN Content!Writes(Content!Chunk(o, l), s)
        ELSE Content!Writes(Content!Bytes(o, l), s)
    BY <1>3, <1>5, <1>18 DEF Content!SinkWrite
  <1>10. sender' = s \/ sender' = [s EXCEPT !.ok = FALSE]
    BY <1>9 DEF Content!Writes
  <1>11. /\ sender'.how = sender.how /\ sender'.length = sender.length
         /\ sender'.offset = q /\ sender'.done = sender.done
         /\ sender'.at = "provider"
    BY <1>1, <1>8, <1>10 DEF ContentInv, SenderInv, SenderTypes
  <1>12. SenderInv'
    <2>1. SenderTypes'
      <3>1. s.available \in BOOLEAN /\ s.how = sender.how
        BY <1>8 DEF ContentInv, SenderInv, SenderTypes
      <3> QED
        BY <1>1, <1>2, <1>8, <1>10, <3>1 DEF ContentInv, SenderInv, SenderTypes
    <2>2. sender.how = "length" => q <= sender.length
      BY <1>4, <1>6
    <2> QED
      BY <1>1, <1>2, <1>11, <2>1, <2>2 DEF SenderInv
  <1>13. sender.offset <= sender'.offset
    BY <1>3, <1>6, <1>11
  <1>14. CASE sender.how # "chunked"
    <2>1. PICK n \in Nat : /\ n <= l /\ wire' = wire \o Content!Bytes(o, n)
                           /\ \/ n = l /\ sender' = s
                              \/ sender' = [s EXCEPT !.ok = FALSE]
      BY <1>9, <1>14, WrittenPrefix
    <2>2. sender'.ok => n = l
      BY <1>8, <2>1 DEF ContentInv, SenderInv, SenderTypes
    <2>3. o + n <= q /\ (n = l => q = o + n)
      BY <1>5, <2>1
    <2>4. sender.offset + n <= sender'.offset
      BY <1>3, <1>11, <2>3
    <2>5. sender'.ok => sender'.offset = sender.offset + n
      BY <1>3, <1>11, <2>2, <2>3
    <2>6. PlainInv'
      BY <1>1, <1>2, <1>3, <1>11, <1>14, <2>1, <2>4, <2>5, PlainGrows
    <2>7. wire' \in Seq(Cells)
      <3>1. Content!Bytes(o, n) \in Seq(Cells)
        BY BytesSent
      <3> QED
        BY <1>7, <2>1, <3>1
    <2>8. ChunkedInv'
      BY <1>11, <1>14 DEF ChunkedInv
    <2> QED
      BY <1>1, <1>2, <1>11, <1>12, <1>13, <2>6, <2>7, <2>8, Grown
  <1>15. CASE sender.how = "chunked" /\ l = 0
    <2>1. PICK n \in Nat : /\ n <= l /\ wire' = wire \o Content!Bytes(o, n)
                           /\ \/ n = l /\ sender' = s
                              \/ sender' = [s EXCEPT !.ok = FALSE]
      <3>1. Content!Writes(Content!Bytes(o, l), s)
        BY <1>9, <1>15
      <3> QED
        BY <3>1, WrittenPrefix
    <2>2. PICK b \in Seq(Cells) : b = Content!Bytes(o, 0)
      BY BytesSent
    <2>3. Len(b) = 0
      BY <2>2, BytesSent
    <2>4. n = 0 /\ wire' = wire
      BY <1>7, <1>15, <2>1, <2>2, <2>3
    <2>5. sender' = s
      <3>1. Content!Writes(b, s)
        BY <1>9, <1>15, <2>2
      <3>2. ~ \E k \in 0 .. Len(b) - 1 : wire' = wire \o SubSeq(b, 1, k)
        BY <2>3
      <3> QED
        BY <3>1, <3>2 DEF Content!Writes
    <2>6. sender'.ok = sender.ok
      BY <1>8, <2>5 DEF ContentInv, SenderInv, SenderTypes
    <2>7. sender'.offset = sender.offset
      BY <1>3, <1>5, <1>11, <1>15
    <2> QED
      BY <1>1, <1>11, <1>12, <2>4, <2>6, <2>7, Unmoved
  <1>16. CASE sender.how = "chunked" /\ l # 0
    <2>1. PICK w \in Seq(Cells) : w = Content!Chunk(o, l)
      BY ChunkCells
    <2>2. Len(w) = l + 2
      BY <2>1, ChunkCells
    <2>3. Content!Writes(w, s)
      <3>1. l > 0
        BY <1>16
      <3> QED
        BY <1>9, <1>16, <2>1, <3>1
    <2>4. PICK e \in Seq(Cells), n \in Nat :
             /\ wire' = wire \o e /\ Len(e) = n /\ n <= l + 2
             /\ \A i \in 1 .. n : e[i] = w[i]
             /\ \/ n = l + 2 /\ sender' = s
                \/ sender' = [s EXCEPT !.ok = FALSE]
      <3>1. CASE wire' = wire \o w /\ sender' = s
        <4>1. PICK n \in Nat : n = l + 2 /\ n <= l + 2
          OBVIOUS
        <4> QED
          BY <2>2, <3>1, <4>1
      <3>2. CASE /\ sender' = [s EXCEPT !.ok = FALSE]
                 /\ \E n \in Nat : n < Len(w) /\ wire' = wire \o SubSeq(w, 1, n)
        <4>1. PICK n \in Nat : n < l + 2 /\ wire' = wire \o SubSeq(w, 1, n)
          BY <2>2, <3>2
        <4>2. n <= l + 2 /\ n <= Len(w)
          BY <2>2, <4>1
        <4>3. PICK e : e = SubSeq(w, 1, n)
          OBVIOUS
        <4>4. e \in Seq(Cells) /\ Len(e) = n /\ \A i \in 1 .. n : e[i] = w[i]
          BY <4>2, <4>3, Prefix
        <4> QED
          BY <3>2, <4>1, <4>2, <4>3, <4>4
      <3> QED
        BY <2>3, <3>1, <3>2, WrittenHow
    <2>5. l \in Nat \ {0} /\ \A i \in 1 .. n : e[i] = Content!Chunk(o, l)[i]
      BY <1>16, <2>1, <2>4
    <2>6. PICK g : /\ Path(e, g) /\ g[1] = State("size", 0, o)
                   /\ \A i \in 1 .. n + 1 : g[i].count <= o + l
                   /\ g[n + 1].at \in Decoding \ {"trailers"}
                   /\ n = l + 2 => g[n + 1] = State("size", 0, o + l)
      <3>1. OfChunk(e, o, l)
        BY <2>4, <2>5 DEF OfChunk
      <3>2. n = Len(e)
        BY <2>4
      <3>3. l # 0
        BY <1>16
      <3> QED
        BY <3>1, <3>2, <3>3, ChunkPath
    <2>7. PlainInv'
      BY <1>11, <1>16 DEF PlainInv
    <2>8. sender'.ok => n = l + 2
      BY <1>8, <2>4 DEF ContentInv, SenderInv, SenderTypes
    <2>9. Written(g[Len(e) + 1])'
      <3>1. CASE sender'.ok
        <4>1. g[Len(e) + 1] = State("size", 0, q)
          BY <1>5, <2>4, <2>6, <2>8, <3>1
        <4> QED
          BY <1>1, <1>2, <1>11, <3>1, <4>1 DEF Written
      <3>2. CASE ~ sender'.ok
        <4>1. g[Len(e) + 1].at \in Decoding \ {"trailers"}
          BY <2>4, <2>6
        <4> QED
          BY <3>2, <4>1 DEF Written
      <3> QED
        BY <3>1, <3>2
    <2>10. \A i \in 1 .. Len(e) + 1 : g[i].count <= sender'.offset
      BY <1>5, <1>11, <2>4, <2>6
    <2>11. ~ (receiver.result = "success")
      BY <1>1, <1>16 DEF ContentInv, ChunkedInv, ChunkedSuccess
    <2>12. g[1] = State(IF sender.done THEN "over"
                        ELSE "size", 0, sender.offset)
      BY <1>1, <1>3, <2>6
    <2>13. sender'.offset \in Nat
      BY <1>11
    <2>14. ChunkedInv'
      BY <1>1, <1>2, <1>13, <1>16, <2>4, <2>6, <2>9, <2>10, <2>11, <2>12, <2>13,
         ChunkedGrows
    <2>15. wire' \in Seq(Cells)
      BY <1>7, <2>4
    <2> QED
      BY <1>1, <1>2, <1>11, <1>12, <1>13, <2>7, <2>14, <2>15, Grown
  <1> QED
    BY <1>14, <1>15, <1>16

-----------------------------------------------------------------------------
\* The end of the chunks.

\* w ends the chunks, and e is the beginning of it.
Ending(w, e) ==
  /\ Len(w) >= 2 /\ w[1] = Content!Line("size", 0) /\ w[Len(w)] = Content!CRLF
  /\ \A i \in 2 .. Len(w) - 1 : w[i] = Content!Line("trailer", 0)
  /\ Len(e) <= Len(w) /\ \A i \in 1 .. Len(e) : e[i] = w[i]

\* The same of the last chunk and the trailers.
LEMMA DonePath ==
  ASSUME NEW o \in Nat, NEW w \in Seq(Cells), NEW e \in Seq(Cells), Ending(w, e)
  PROVE  \E g : /\ Path(e, g) /\ g[1] = State("size", 0, o)
                /\ \A i \in 1 .. Len(e) + 1 : g[i].count = o
                /\ IF Len(e) = Len(w) THEN g[Len(e) + 1] = State("over", 0, o)
                   ELSE g[Len(e) + 1].at \in Decoding
  <1>1. PICK W \in Nat : W = Len(w)
    OBVIOUS
  <1>2. PICK n \in Nat : n = Len(e)
    OBVIOUS
  <1>3. /\ W >= 2 /\ w[1] = Content!Line("size", 0) /\ w[W] = Content!CRLF
        /\ \A i \in 2 .. W - 1 : w[i] = Content!Line("trailer", 0)
        /\ n <= W /\ \A i \in 1 .. n : e[i] = w[i]
    BY <1>1, <1>2 DEF Ending
  <1>4. PICK S : S = State("size", 0, o)
    OBVIOUS
  <1>5. PICK T : T = State("trailers", 0, o)
    OBVIOUS
  <1>6. PICK O : O = State("over", 0, o)
    OBVIOUS
  <1>7. S.at = "size" /\ T.at = "trailers" /\ O.at = "over"
        /\ S.count = o /\ T.count = o /\ O.count = o
    BY <1>4, <1>5, <1>6, StateFields
  <1>8. {S, T, O} \subseteq States /\ Proper(S) /\ Proper(T) /\ Proper(O)
    <2>1. {"size", "trailers", "over"} \subseteq Decoding \cup {"over", "next",
                                                                "lost"}
          /\ 0 \in Nat
      BY DEF Decoding
    <2>2. S \in States /\ Proper(S)
      BY <1>4, <2>1, StateProper
    <2>3. T \in States /\ Proper(T)
      BY <1>5, <2>1, StateProper
    <2>4. O \in States /\ Proper(O)
      <3>1. O \in States
        BY <1>6 DEF State, States
      <3>2. O.at # "bad" /\ O.at # "chunk"
        BY <1>7
      <3> QED
        BY <3>1, <3>2 DEF Proper
    <2> QED
      BY <2>2, <2>3, <2>4
  <1>9. PICK g : g = [i \in 1 .. n + 1 |->
                        IF i = 1 THEN S ELSE IF i = W + 1 THEN O ELSE T]
    OBVIOUS
  <1>10. g \in [1 .. n + 1 -> States] /\ \A i \in 1 .. n + 1 : Proper(g[i])
           /\ g[i].count = o
    BY <1>7, <1>8, <1>9
  <1>11. ASSUME NEW i \in 1 .. n PROVE g[i + 1] = Decoded(g[i], e[i])
    <2>1. i \in 1 .. n + 1 /\ i + 1 \in 1 .. n + 1 /\ i + 1 # 1 /\ i # W + 1
      BY <1>3
    <2>2. e[i] = w[i]
      BY <1>3
    <2>3. g[i + 1] = IF i = W THEN O ELSE T
      BY <1>9, <2>1
    <2>4. g[i] = IF i = 1 THEN S ELSE T
      BY <1>9, <2>1
    <2>5. CASE i = 1
      <3>1. PICK c : c = e[i]
        OBVIOUS
      <3>2. c.k = "size" /\ c.n = 0
        BY <1>3, <2>2, <2>5, <3>1 DEF Content!Line
      <3>3. Decoded(S, c) = State(IF c.n = 0 THEN "trailers"
                                  ELSE "chunk", c.n, S.count)
        BY <1>7, <3>2, DecodedAs
      <3>4. Decoded(S, c) = T
        BY <1>5, <1>7, <3>2, <3>3
      <3>5. i # W
        BY <1>3, <2>5
      <3> QED
        BY <2>3, <2>4, <2>5, <3>1, <3>4, <3>5
    <2>6. CASE i # 1 /\ i = W
      <3>1. e[i] = Content!CRLF
        BY <1>3, <2>2, <2>6
      <3>2. Decoded(T, Content!CRLF) = State("over", 0, T.count)
        BY <1>7, DecodedAs
      <3> QED
        BY <1>6, <1>7, <2>3, <2>4, <2>6, <3>1, <3>2
    <2>7. CASE i # 1 /\ i # W
      <3>1. PICK c : c = e[i]
        OBVIOUS
      <3>2. i \in 2 .. W - 1
        BY <1>3, <2>7
      <3>3. c.k = "trailer"
        BY <1>3, <2>2, <3>1, <3>2 DEF Content!Line
      <3>4. Decoded(T, c) = T
        BY <1>7, <3>3, DecodedAs
      <3> QED
        BY <2>3, <2>4, <2>7, <3>1, <3>4
    <2> QED
      BY <2>5, <2>6, <2>7
  <1>12. Path(e, g)
    BY <1>2, <1>10, <1>11 DEF Path
  <1>13. 1 \in 1 .. n + 1 /\ n + 1 \in 1 .. n + 1
    OBVIOUS
  <1>14. g[1] = S
    BY <1>9, <1>13
  <1>15. IF n = W THEN g[n + 1] = O ELSE g[n + 1].at \in Decoding
    <2>1. CASE n = W
      <3>1. n + 1 # 1 /\ n + 1 = W + 1
        BY <1>3, <2>1
      <3>2. g[n + 1] = O
        BY <1>9, <1>13, <3>1
      <3> QED
        BY <2>1, <3>2
    <2>2. CASE n # W
      <3>1. n + 1 # W + 1
        BY <2>2
      <3>2. g[n + 1] \in {S, T}
        BY <1>9, <1>13, <3>1
      <3>3. S.at \in Decoding /\ T.at \in Decoding
        BY <1>7 DEF Decoding
      <3> QED
        BY <2>2, <3>2, <3>3
    <2> QED
      BY <2>1, <2>2
  <1> QED
    BY <1>1, <1>2, <1>4, <1>6, <1>10, <1>12, <1>14, <1>15

LEMMA ContentSinkDone ==
  ASSUME ContentInv, Content!SinkDone
  PROVE  ContentInv'
  <1>1. /\ sender.at = "provider" /\ sender.ok /\ ~ sender.done
        /\ ended' = ended /\ receiver' = receiver /\ sender.how # "length"
    BY DEF Content!SinkDone, Content!SenderOnly
  <1>2. ended = "open"
    BY <1>1 DEF ContentInv, SenderInv
  <1>3. PICK o \in Nat : o = sender.offset
    BY SenderTyped
  <1>4. wire \in Seq(Cells) /\ Len(wire) \in Nat
    BY ReceiverTyped
  <1>5. PICK s : s = [sender EXCEPT !.available = FALSE, !.done = TRUE]
    OBVIOUS
  <1>6. PICK trailer \in {<<>>, <<Content!Line("trailer", 0)>>} :
           Content!Writes(IF sender.how = "chunked"
                          THEN <<Content!Line("size", 0)>> \o trailer \o <<Content!CRLF>>
                          ELSE <<>>, s)
    BY <1>1, <1>5 DEF Content!SinkDone
  <1>7. sender' = s \/ sender' = [s EXCEPT !.ok = FALSE]
    BY <1>6 DEF Content!Writes
  <1>8. /\ sender'.how = sender.how /\ sender'.length = sender.length
        /\ sender'.offset = o /\ sender'.done = TRUE /\ sender'.at = "provider"
        /\ ~ sender'.available
    BY <1>1, <1>3, <1>5, <1>7 DEF ContentInv, SenderInv, SenderTypes
  <1>9. SenderInv'
    <2>1. SenderTypes'
      BY <1>1, <1>2, <1>5, <1>7 DEF ContentInv, SenderInv, SenderTypes
    <2> QED
      BY <1>1, <1>2, <1>8, <2>1 DEF SenderInv
  <1>10. o <= o
    OBVIOUS
  <1>11. CASE sender.how # "chunked"
    <2>9. <<>> \in Seq(Cells)
      OBVIOUS
    <2>1. PICK e \in Seq(Cells) : e = <<>>
      BY <2>9
    <2>2. Len(e) = 0 /\ Content!Writes(e, s)
      BY <1>6, <1>11, <2>1
    <2>3. ~ \E k \in 0 .. Len(e) - 1 : wire' = wire \o SubSeq(e, 1, k)
      BY <2>2
    <2>4. wire' = wire \o e /\ sender' = s
      BY <2>2, <2>3 DEF Content!Writes
    <2>5. wire' = wire
      BY <1>4, <2>1, <2>4
    <2>6. sender'.ok = sender.ok
      BY <1>5, <2>4 DEF ContentInv, SenderInv, SenderTypes
    <2>7. PlainInv'
      BY <1>1, <1>3, <1>8, <2>5, <2>6 DEF ContentInv, PlainInv, Segment,
         Position
    <2>8. ChunkedInv'
      BY <1>8, <1>11 DEF ChunkedInv
    <2> QED
      BY <1>1, <1>2, <1>3, <1>4, <1>8, <1>9, <1>10, <2>5, <2>7, <2>8, Grown
  <1>12. CASE sender.how = "chunked"
    <2>1. PICK x \in Cells : x = Content!Line("size", 0)
      BY DEF Content!Line, Cells
    <2>2. PICK y \in Cells : y = Content!Line("trailer", 0)
      BY DEF Content!Line, Cells
    <2>3. PICK z \in Cells : z = Content!CRLF
      BY DEF Content!CRLF, Content!Line, Cells
    <2>4. PICK w : w = <<x>> \o trailer \o <<z>>
      OBVIOUS
    <2>5. PICK t \in Seq(Cells) : t = trailer
      <3>1. <<>> \in Seq(Cells) /\ <<y>> \in Seq(Cells)
        OBVIOUS
      <3>2. trailer \in Seq(Cells)
        BY <2>2, <3>1
      <3> QED
        BY <3>2
    <2>20. PICK T \in Nat : T = Len(t)
      OBVIOUS
    <2>21. \A i \in 1 .. T : t[i] = y
      <3>1. CASE trailer = <<>>
        BY <2>5, <2>20, <3>1
      <3>2. CASE trailer = <<Content!Line("trailer", 0)>>
        BY <2>2, <2>5, <2>20, <3>2
      <3> QED
        BY <3>1, <3>2
    <2>22. /\ w \in Seq(Cells) /\ Len(w) = T + 2 /\ w[1] = x /\ w[T + 2] = z
           /\ \A i \in 1 .. T : w[i + 1] = t[i]
      <3>1. w = <<x>> \o t \o <<z>>
        BY <2>4, <2>5
      <3>2. w \in Seq(Cells) /\ Len(w) = T + 2 /\ w[1] = x /\ w[T + 2] = z
        BY <2>20, <3>1
      <3>3. \A i \in 1 .. T : w[i + 1] = t[i]
        BY <2>20, <3>1
      <3> QED
        BY <3>2, <3>3
    <2>6. /\ w \in Seq(Cells) /\ Len(w) \in Nat /\ Len(w) >= 2
          /\ w[1] = x /\ w[Len(w)] = z
          /\ \A i \in 2 .. Len(w) - 1 : w[i] = y
      <3>1. ASSUME NEW i \in 2 .. T + 1 PROVE w[i] = y
        <4>1. i - 1 \in 1 .. T /\ (i - 1) + 1 = i
          OBVIOUS
        <4> QED
          BY <2>21, <2>22, <4>1
      <3>2. Len(w) \in Nat /\ Len(w) >= 2 /\ Len(w) - 1 = T + 1
        BY <2>22
      <3> QED
        BY <2>22, <3>1, <3>2
    <2>7. Content!Writes(w, s)
      BY <1>6, <1>12, <2>1, <2>3, <2>4
    <2>8. PICK e \in Seq(Cells) :
             /\ wire' = wire \o e
             /\ Len(e) <= Len(w) /\ \A i \in 1 .. Len(e) : e[i] = w[i]
             /\ \/ Len(e) = Len(w) /\ sender' = s
                \/ sender' = [s EXCEPT !.ok = FALSE] /\ Len(e) # Len(w)
      <3>1. CASE wire' = wire \o w /\ sender' = s
        <4>1. Len(w) <= Len(w) /\ \A i \in 1 .. Len(w) : w[i] = w[i]
          BY <2>6
        <4> QED
          BY <2>6, <3>1, <4>1
      <3>2. CASE /\ sender' = [s EXCEPT !.ok = FALSE]
                 /\ \E n \in Nat : n < Len(w) /\ wire' = wire \o SubSeq(w, 1, n)
        <4>1. PICK n \in Nat : n < Len(w) /\ wire' = wire \o SubSeq(w, 1, n)
          BY <3>2
        <4>2. n <= Len(w) /\ n # Len(w)
          BY <2>6, <4>1
        <4>3. PICK e : e = SubSeq(w, 1, n)
          OBVIOUS
        <4>4. e \in Seq(Cells) /\ Len(e) = n /\ \A i \in 1 .. n : e[i] = w[i]
          BY <2>6, <4>2, <4>3, Prefix
        <4> QED
          BY <3>2, <4>1, <4>2, <4>3, <4>4
      <3> QED
        BY <2>6, <2>7, <3>1, <3>2, WrittenHow
    <2>9. Ending(w, e)
      BY <2>1, <2>2, <2>3, <2>6, <2>8 DEF Ending
    <2>10. PICK g : /\ Path(e, g) /\ g[1] = State("size", 0, o)
                    /\ \A i \in 1 .. Len(e) + 1 : g[i].count = o
                    /\ IF Len(e) = Len(w)
                         THEN g[Len(e) + 1] = State("over", 0, o)
                       ELSE g[Len(e) + 1].at \in Decoding
      BY SMTT(30), <2>6, <2>9, DonePath
    <2>11. PlainInv'
      BY <1>8, <1>12 DEF PlainInv
    <2>12. sender'.ok <=> Len(e) = Len(w)
      BY <1>1, <1>5, <2>8 DEF ContentInv, SenderInv, SenderTypes
    <2>13. Written(g[Len(e) + 1])'
      <3>1. CASE sender'.ok
        <4>1. g[Len(e) + 1] = State("over", 0, o)
          BY <2>10, <2>12, <3>1
        <4> QED
          BY <1>1, <1>2, <1>8, <3>1, <4>1 DEF Written
      <3>2. CASE ~ sender'.ok
        <4>1. g[Len(e) + 1].at \in Decoding
          BY <2>10, <2>12, <3>2
        <4>2. g[Len(e) + 1].count = o
          <5>1. Len(e) + 1 \in 1 .. Len(e) + 1
            OBVIOUS
          <5> QED
            BY <2>10, <5>1
        <4> QED
          BY <1>8, <3>2, <4>1, <4>2 DEF Written
      <3> QED
        BY <3>1, <3>2
    <2>14. \A i \in 1 .. Len(e) + 1 : g[i].count <= sender'.offset
      BY <1>8, <1>10, <2>10
    <2>15. ~ (receiver.result = "success")
      BY <1>1, <1>12 DEF ContentInv, ChunkedInv, ChunkedSuccess
    <2>16. g[1] = State(IF sender.done THEN "over"
                        ELSE "size", 0, sender.offset)
      BY <1>1, <1>3, <2>10
    <2>17. sender.offset <= sender'.offset /\ sender'.offset \in Nat
      BY <1>3, <1>8, <1>10
    <2>18. ChunkedInv'
      BY <1>1, <1>2, <1>12, <2>8, <2>10, <2>13, <2>14, <2>15, <2>16, <2>17,
         ChunkedGrows
    <2>19. wire' \in Seq(Cells)
      BY <1>4, <2>8
    <2> QED
      BY <1>1, <1>2, <1>8, <1>9, <2>11, <2>17, <2>18, <2>19, Grown
  <1> QED
    BY <1>11, <1>12

-----------------------------------------------------------------------------
\* The receiver without chunks: what it takes is the next of the content.

ReceiverOnly == ended' = ended /\ sender' = sender

LEMMA SenderKept ==
  ASSUME ContentInv, ReceiverOnly
  PROVE  SenderInv'
  BY DEF ReceiverOnly, ContentInv, SenderInv, SenderTypes, Content!GoesOn

LEMMA Dropped ==
  ASSUME NEW w \in Seq(Cells), NEW n \in 0 .. Len(w),
         NEW u, u = SubSeq(w, n + 1, Len(w))
  PROVE  /\ u \in Seq(Cells) /\ Len(u) = Len(w) - n
         /\ \A i \in 1 .. Len(w) - n : u[i] = w[n + i]
  OBVIOUS

\* Data is read.
LEMMA PlainShrinks ==
  ASSUME wire \in Seq(Cells), ReceiverOnly, NEW c \in Int, NEW d \in Nat,
         Segment(c, d), NEW n \in Nat, n <= d, wire' = Content!Rest(n),
         NEW a \in Int, a = c + n, Position' = a
  PROVE  \E b \in 0 .. Len(wire') : Segment(Position, b)'
  <1>1. PICK L \in Nat : L = Len(wire)
    OBVIOUS
  <1>2. d <= L
    BY <1>1 DEF Segment
  <1>3. PICK w \in Seq(Cells) : w = wire
    OBVIOUS
  <1>4. PICK u : u = SubSeq(w, n + 1, Len(w))
    OBVIOUS
  <1>5. n \in 0 .. Len(w)
    BY <1>1, <1>2, <1>3
  <1>6. Len(u) = Len(w) - n /\ \A i \in 1 .. Len(w) - n : u[i] = w[n + i]
    BY <1>4, <1>5, Dropped
  <1>7. wire' = u
    BY <1>3, <1>4 DEF Content!Rest
  <1>8. Len(wire') = L - n /\ \A i \in 1 .. L - n : wire'[i] = wire[n + i]
    BY <1>1, <1>3, <1>6, <1>7
  <1>9. PICK b \in Nat : b = d - n
    OBVIOUS
  <1>10. a + b = c + d
    BY <1>9
  <1>11. ASSUME NEW i \in 1 .. b PROVE wire'[i] = Content!Data(a + i)
    <2>1. PICK j \in 1 .. d : j = n + i
      BY <1>9
    <2>2. wire'[i] = wire[j]
      BY <1>2, <1>8, <1>9, <2>1
    <2>3. wire[j] = Content!Data(c + j)
      BY DEF Segment
    <2>4. c + j = a + i
      BY <2>1
    <2> QED
      BY <2>2, <2>3, <2>4
  <1>12. IF ended = "next"
         THEN Len(wire') = b + 1 /\ wire'[b + 1] = Content!Next1
         ELSE Len(wire') = b
    <2>1. CASE ended = "next"
      <3>1. L = d + 1 /\ wire[d + 1] = Content!Next1
        BY <1>1, <2>1 DEF Segment
      <3>2. b + 1 \in 1 .. L - n /\ n + (b + 1) = d + 1 /\ L - n = b + 1
        BY <1>9, <3>1
      <3> QED
        BY <1>8, <2>1, <3>1, <3>2
    <2>2. CASE ended # "next"
      <3>1. L = d
        BY <1>1, <2>2 DEF Segment
      <3> QED
        BY <1>8, <1>9, <2>2, <3>1
    <2> QED
      BY <2>1, <2>2
  <1>13. a + b <= sender.offset /\ (sender.ok => a + b = sender.offset)
    BY <1>10 DEF Segment
  <1>14. Segment(Position, b)'
    BY <1>11, <1>12, <1>13 DEF ReceiverOnly, Segment
  <1>15. b \in 0 .. Len(wire')
    BY <1>8, <1>9, <1>2
  <1> QED
    BY <1>14, <1>15

\* What is read of the wire, as part of what the receiver has got.
LEMMA Taken ==
  ASSUME NEW w \in Seq(Cells), NEW n \in 0 .. Len(w),
         NEW r, r = [i \in 1 .. n |-> w[i]]
  PROVE  r \in Seq(Cells) /\ Len(r) = n /\ \A i \in 1 .. n : r[i] = w[i]
  OBVIOUS

\* The next of the content after its beginning.
LEMMA Getting ==
  ASSUME NEW g \in Seq(Cells), NEW c \in Nat, c = Len(g),
         \A i \in DOMAIN g : g[i] = Content!Data(i),
         NEW r \in Seq(Cells), NEW n \in Nat, n = Len(r),
         \A i \in 1 .. n : r[i] = Content!Data(c + i),
         NEW h, h = g \o r
  PROVE  /\ h \in Seq(Cells) /\ Len(h) = c + n
         /\ \A i \in DOMAIN h : h[i] = Content!Data(i)
  <1>1. h \in Seq(Cells) /\ Len(h) = c + n
        /\ (\A i \in 1 .. c : h[i] = g[i]) /\ \A i \in 1 .. n : h[c + i] = r[i]
    BY Joining
  <1>2. ASSUME NEW i \in 1 .. c + n PROVE h[i] = Content!Data(i)
    <2>1. CASE i <= c
      <3>1. i \in 1 .. c /\ i \in DOMAIN g
        BY <2>1
      <3> QED
        BY <1>1, <3>1
    <2>2. CASE i > c
      <3>1. PICK j \in 1 .. n : i = c + j
        <4>1. i - c \in 1 .. n /\ i = c + (i - c)
          BY <2>2
        <4> QED
          BY <4>1
      <3> QED
        BY <1>1, <3>1
    <2>3. i <= c \/ i > c
      OBVIOUS
    <2> QED
      BY <2>1, <2>2, <2>3
  <1>3. DOMAIN h = 1 .. c + n
    BY <1>1
  <1> QED
    BY <1>1, <1>2, <1>3

\* What is read does not go beyond the content.
LEMMA NotBeyond ==
  ASSUME ContentInv, receiver.at \in {"known", "skip", "all"},
         NEW c \in Int, c = Position, NEW d \in Nat, Segment(c, d),
         NEW n \in Nat, n <= Len(wire),
         receiver.at # "all" => n <= receiver.left
  PROVE  n <= d
  <1>1. CASE ended # "next"
    BY <1>1 DEF Segment
  <1>2. CASE ended = "next"
    <2>1. /\ sender.how = "length" /\ sender.ok /\ receiver.at \in {"known",
                                                                    "skip"}
          /\ ~ (sender.offset < sender.length) /\ sender.offset <= sender.length
      <3>1. sender.at = "true" /\ sender.how # "close"
        BY <1>2 DEF ContentInv, SenderInv
      <3>2. sender.how = "length" /\ receiver.at \in {"known", "skip"}
        BY <3>1 DEF ContentInv, ReceiverInv
      <3> QED
        BY <3>1, <3>2 DEF ContentInv, SenderInv, Content!GoesOn
    <2>2. PICK o \in Nat, l \in Nat, L \in Nat :
             o = sender.offset /\ l = sender.length /\ L = receiver.left
      BY SenderTyped, ReceiverTyped
    <2>3. o = l /\ c + d = o
      BY <2>1, <2>2 DEF Segment
    <2>4. c + L = l
      <3>1. CASE receiver.at = "known"
        <4>1. Len(receiver.got) + receiver.left = sender.length
          BY <3>1 DEF ContentInv, ReceiverInv
        <4>2. c = Len(receiver.got)
          BY <3>1 DEF Position
        <4> QED
          BY <2>2, <4>1, <4>2
      <3>2. CASE receiver.at = "skip"
        <4>1. c = l - L
          BY <2>2, <3>2 DEF Position
        <4> QED
          BY <4>1
      <3> QED
        BY <2>1, <3>1, <3>2
    <2>5. n <= L
      BY <2>1, <2>2
    <2> QED
      BY <2>3, <2>4, <2>5
  <1> QED
    BY <1>1, <1>2

\* The cells that are handed over.
LEMMA ReadCells ==
  ASSUME ContentInv, receiver.at \in {"known", "all"},
         NEW d \in Nat, Segment(Position, d), NEW n \in Nat, n <= d,
         n <= Len(wire),
         NEW h, h = receiver.got \o Content!Read(n)
  PROVE  /\ h \in Seq(Cells) /\ Len(h) = Len(receiver.got) + n
         /\ \A i \in DOMAIN h : h[i] = Content!Data(i)
  <1>1. PICK w \in Seq(Cells) : w = wire
    BY ReceiverTyped
  <1>2. PICK g \in Seq(Cells) : g = receiver.got
    BY ReceiverTyped
  <1>3. PICK c \in Nat : c = Len(g)
    OBVIOUS
  <1>4. PICK r : r = [i \in 1 .. n |-> w[i]]
    OBVIOUS
  <1>5. n \in 0 .. Len(w)
    BY <1>1
  <1>6. r \in Seq(Cells) /\ Len(r) = n /\ \A i \in 1 .. n : r[i] = w[i]
    BY <1>4, <1>5, Taken
  <1>7. r = Content!Read(n)
    BY <1>1, <1>4 DEF Content!Read
  <1>8. Position = c
    BY <1>2, <1>3 DEF Position
  <1>9. \A i \in 1 .. n : r[i] = Content!Data(c + i)
    <2>1. \A i \in 1 .. d : w[i] = Content!Data(c + i)
      BY <1>1, <1>8 DEF Segment
    <2>2. 1 .. n \subseteq 1 .. d
      OBVIOUS
    <2> QED
      BY <1>6, <2>1, <2>2
  <1>10. \A i \in DOMAIN g : g[i] = Content!Data(i)
    BY <1>2 DEF ContentInv, ReceiverInv
  <1>11. h = g \o r
    BY <1>2, <1>7
  <1>12. n = Len(r)
    BY <1>6
  <1>14. r \in Seq(Cells)
    BY <1>6
  <1>13. h \in Seq(Cells) /\ Len(h) = c + n
         /\ \A i \in DOMAIN h : h[i] = Content!Data(i)
    BY <1>3, <1>9, <1>10, <1>11, <1>12, <1>14, Getting
  <1> QED
    BY <1>2, <1>3, <1>13

\* What is left on the wire.
LEMMA RestTyped ==
  ASSUME ContentInv, NEW n \in Nat, n <= Len(wire)
  PROVE  Content!Rest(n) \in Seq(Cells) /\ Len(Content!Rest(n)) = Len(wire) - n
  <1>1. PICK w \in Seq(Cells) : w = wire
    BY ReceiverTyped
  <1>2. PICK u : u = SubSeq(w, n + 1, Len(w))
    OBVIOUS
  <1>3. n \in 0 .. Len(w)
    BY <1>1
  <1>4. u \in Seq(Cells) /\ Len(u) = Len(w) - n
    BY <1>2, <1>3, Dropped
  <1> QED
    BY <1>1, <1>2, <1>4 DEF Content!Rest

\* The steps of the receiver, one by one.
LEMMA ContentReadKnown ==
  ASSUME ContentInv, Content!ReadKnown
  PROVE  ContentInv'
  <1>1. receiver.at = "known"
    BY DEF Content!ReadKnown
  <1>2. /\ sender.how = "length" /\ receiver.left > 0
        /\ Len(receiver.got) + receiver.left = sender.length
        /\ receiver.api = "content" => sender.length <= payload_max_length
    BY <1>1 DEF ContentInv, ReceiverInv
  <1>3. PICK n \in Content!Arrived(receiver.left) :
           LET r == [receiver EXCEPT !.left = @ - n,
                     !.got = @ \o Content!Read(n)]
           IN Content!Receive(IF r.left = 0
                              THEN [r EXCEPT !.at = "end", !.result = "success"]
                              ELSE r, Content!Rest(n))
    BY DEF Content!ReadKnown
  <1>4. n \in Nat /\ n > 0 /\ n <= Len(wire) /\ n <= receiver.left
    BY ReceiverTyped, <1>3 DEF Content!Arrived
  <1>5. PICK l \in Nat : l = receiver.left - n
    BY <1>4, ReceiverTyped
  <1>6. PICK h : h = receiver.got \o Content!Read(n)
    OBVIOUS
  <1>7. /\ ReceiverOnly /\ wire' = Content!Rest(n)
        /\ receiver' = IF l = 0
                       THEN [receiver EXCEPT !.left = l, !.got = h,
                                             !.at = "end", !.result = "success"]
                       ELSE [receiver EXCEPT !.left = l, !.got = h]
    <2>1. PICK r : r = [receiver EXCEPT !.left = l, !.got = h]
      OBVIOUS
    <2>2. r.left = l
      BY <2>1 DEF ContentInv, ReceiverInv, ReceiverTypes
    <2>3. r = [receiver EXCEPT !.left = @ - n, !.got = @ \o Content!Read(n)]
      BY <1>5, <1>6, <2>1
    <2>4. Content!Receive(IF r.left = 0
                          THEN [r EXCEPT !.at = "end", !.result = "success"]
                          ELSE r, Content!Rest(n))
      BY <1>3, <2>3
    <2>5. [r EXCEPT !.at = "end", !.result = "success"]
          = [receiver EXCEPT !.left = l, !.got = h, !.at = "end",
             !.result = "success"]
      BY <2>1
    <2> QED
      BY <2>1, <2>2, <2>4, <2>5 DEF Content!Receive, ReceiverOnly
  <1>8. PICK d \in 0 .. Len(wire) : Segment(Position, d)
    BY <1>1, <1>2 DEF ContentInv, PlainInv
  <1>9. PICK c \in Nat : c = Len(receiver.got)
    BY ReceiverTyped
  <1>10. Position = c
    BY <1>1, <1>9 DEF Position
  <1>11. d \in Nat /\ n <= d
    <2>1. c \in Int /\ Segment(c, d) /\ d \in Nat
      BY <1>8, <1>10
    <2> QED
      BY <1>1, <1>4, <1>10, <2>1, NotBeyond
  <1>12. h \in Seq(Cells) /\ Len(h) = c + n
         /\ \A i \in DOMAIN h : h[i] = Content!Data(i)
    BY <1>1, <1>4, <1>6, <1>8, <1>9, <1>11, ReadCells
  <1>13. wire' \in Seq(Cells)
    BY <1>4, <1>7, RestTyped
  <1>14. PICK m \in Nat : m = sender.length
    BY SenderTyped
  <1>15. c + n + l = m /\ c + n <= m
    <2>1. PICK k \in Nat : k = receiver.left
      BY ReceiverTyped
    <2>2. c + k = m
      BY <1>2, <1>9, <1>14, <2>1
    <2>3. n \in Nat /\ n <= k /\ l = k - n
      BY <1>4, <1>5, <2>1
    <2> QED
      BY <2>2, <2>3
  <1>16. /\ receiver'.got = h /\ receiver'.left = l
              /\ receiver'.api = receiver.api
         /\ receiver'.late = receiver.late /\ ReceiverTypes'
         /\ IF l = 0 THEN receiver'.at = "end" /\ receiver'.result = "success"
            ELSE receiver'.at = "known" /\ receiver'.result = receiver.result
    <2>1. ReceiverTypes
      BY DEF ContentInv, ReceiverInv
    <2>2. CASE l = 0
      <3>1. receiver' = [receiver EXCEPT !.left = l, !.got = h,
                                         !.at = "end", !.result = "success"]
        BY <1>7, <2>2
      <3> QED
        BY <1>1, <1>12, <1>13, <2>1, <2>2, <3>1 DEF ReceiverTypes
    <2>3. CASE l # 0
      <3>1. receiver' = [receiver EXCEPT !.left = l, !.got = h]
        BY <1>7, <2>3
      <3> QED
        BY <1>1, <1>12, <1>13, <2>1, <2>3, <3>1 DEF ReceiverTypes
    <2> QED
      BY <2>2, <2>3
  <1>17. payload_max_length \in Nat
    BY MessageAssumption
  <1>18. receiver.api = "content" => c + n <= payload_max_length
    <2>1. SUFFICES ASSUME receiver.api = "content"
                   PROVE  c + n <= payload_max_length
      OBVIOUS
    <2>2. m <= payload_max_length
      BY <1>2, <1>14, <2>1
    <2>3. n \in Nat
      BY <1>4
    <2> QED
      BY <1>15, <1>17, <2>2, <2>3
  <1>19. receiver.result = ""
    BY <1>1 DEF ContentInv, ReceiverInv
  <1>20. Len(receiver'.got) = c + n
    BY <1>12, <1>16
  <1>21. ReceiverInv'
    <2>1. \A i \in DOMAIN receiver'.got : receiver'.got[i] = Content!Data(i)
      BY <1>12, <1>16
    <2>2. receiver'.api = "content" => Len(receiver'.got) <= payload_max_length
      BY <1>16, <1>18, <1>20
    <2>3. receiver'.at \in {"end", "known"}
      BY <1>16
    <2>4. receiver'.at = "known" =>
            /\ sender'.how = "length" /\ receiver'.left > 0
            /\ Len(receiver'.got) + receiver'.left = sender'.length
            /\ receiver'.api = "content" => sender'.length <= payload_max_length
      BY <1>2, <1>7, <1>14, <1>15, <1>16, <1>20 DEF ReceiverOnly
    <2>5. receiver'.at # "end" => receiver'.result = ""
      BY <1>16, <1>19
    <2> QED
      BY <1>16, <2>1, <2>2, <2>3, <2>4, <2>5 DEF ReceiverInv, Decoding
  <1>22. ResultInv'
    <2>1. receiver'.result \in {"", "success"}
      BY <1>16, <1>19
    <2>2. receiver'.result = "success" => Len(receiver'.got) = sender'.length
      <3>1. receiver'.result = "success" => l = 0
        BY <1>16, <1>19
      <3>2. l = 0 => c + n = m
        BY <1>4, <1>15
      <3> QED
        BY <1>7, <1>14, <1>20, <3>1, <3>2 DEF ReceiverOnly
    <2> QED
      BY <2>1, <2>2 DEF ResultInv
  <1>23. PlainInv'
    <2>1. PICK a \in Int : a = c + n
      BY <1>4
    <2>2. Position' = a
      BY <1>16, <1>20, <2>1 DEF Position
    <2>3. wire \in Seq(Cells) /\ c \in Int /\ Segment(c, d)
      BY <1>8, <1>10, ReceiverTyped
    <2>4. \E b \in 0 .. Len(wire') : Segment(Position, b)'
      BY <1>4, <1>7, <1>11, <2>1, <2>2, <2>3, PlainShrinks
    <2> QED
      BY <2>4 DEF PlainInv
  <1>24. ChunkedInv'
    BY <1>2, <1>7 DEF ChunkedInv, ReceiverOnly
  <1> QED
    BY <1>7, <1>21, <1>22, <1>23, <1>24, SenderKept DEF ContentInv

LEMMA ContentSkip ==
  ASSUME ContentInv, Content!Skip
  PROVE  ContentInv'
  <1>1. receiver.at = "skip"
    BY DEF Content!Skip
  <1>2. /\ sender.how = "length" /\ receiver.left > 0
        /\ receiver.left <= sender.length /\ payload_max_length < sender.length
        /\ receiver.result = "" /\ ReceiverTypes
    BY <1>1 DEF ContentInv, ReceiverInv
  <1>3. PICK n \in Content!Arrived(receiver.left) :
           Content!Receive(IF n = receiver.left THEN Content!Ends("too_large")
                           ELSE [receiver EXCEPT !.left = @ - n],
                           Content!Rest(n))
    BY <1>1 DEF Content!Skip
  <1>4. n \in Nat /\ n > 0 /\ n <= Len(wire) /\ n <= receiver.left
    BY ReceiverTyped, <1>3 DEF Content!Arrived
  <1>5. ReceiverOnly /\ wire' = Content!Rest(n)
        /\ receiver' = IF n = receiver.left THEN Content!Ends("too_large")
                       ELSE [receiver EXCEPT !.left = @ - n]
    BY <1>3 DEF Content!Receive, ReceiverOnly
  <1>6. wire' \in Seq(Cells)
    BY <1>4, <1>5, RestTyped
  <1>7. CASE n = receiver.left
    <2>1. receiver' = [receiver EXCEPT !.at = "end", !.left = receiver.left,
                                       !.result = "too_large"]
      BY <1>2, <1>5, <1>7 DEF Content!Ends, ReceiverTypes
    <2>2. PICK r : r = receiver'
      OBVIOUS
    <2>3. /\ r.at = "end" /\ r.result = "too_large" /\ r.got = receiver.got
          /\ r.api = receiver.api /\ ReceiverTypes'
      BY <1>2, <1>6, <2>1, <2>2 DEF ReceiverTypes
    <2>4. ReceiverInv'
      BY <2>2, <2>3 DEF ContentInv, ReceiverInv, Decoding
    <2>5. ResultInv'
      BY <1>2, <1>5, <2>2, <2>3 DEF ResultInv, ReceiverOnly
    <2>6. PlainInv' /\ ChunkedInv'
      BY <1>2, <1>5, <2>2, <2>3 DEF PlainInv, ChunkedInv, ReceiverOnly
    <2> QED
      BY <1>5, <2>4, <2>5, <2>6, SenderKept DEF ContentInv
  <1>8. CASE n # receiver.left
    <2>1. PICK l \in Nat : l = receiver.left - n
      BY <1>4, ReceiverTyped
    <2>2. receiver' = [receiver EXCEPT !.left = l]
      BY <1>5, <1>8, <2>1
    <2>3. /\ receiver'.at = "skip" /\ receiver'.result = ""
               /\ receiver'.got = receiver.got
          /\ receiver'.api = receiver.api /\ ReceiverTypes'
               /\ receiver'.left = l
      BY <1>1, <1>2, <1>6, <2>2 DEF ReceiverTypes
    <2>4. PICK m \in Nat, k \in Nat : m = sender.length /\ k = receiver.left
      BY SenderTyped, ReceiverTyped
    <2>5. n \in Nat /\ n > 0 /\ n <= k /\ n # k /\ l = k - n /\ k <= m
      BY <1>2, <1>4, <1>8, <2>1, <2>4
    <2>6. 0 < l /\ l <= m
      BY <2>4, <2>5
    <2>7. ReceiverInv'
      BY <1>2, <1>5, <2>3, <2>4, <2>6 DEF ContentInv, ReceiverInv, Decoding,
         ReceiverOnly
    <2>8. ResultInv'
      BY <1>2, <1>5, <2>3 DEF ResultInv, ReceiverOnly
    <2>9. PlainInv'
      <3>1. PICK d \in 0 .. Len(wire) : Segment(Position, d)
        BY <1>1, <1>2 DEF ContentInv, PlainInv
      <3>2. PICK c \in Int : c = m - k
        OBVIOUS
      <3>3. Position = c
        BY <1>1, <2>4, <3>2 DEF Position
      <3>4. Segment(c, d) /\ d \in Nat /\ wire \in Seq(Cells)
        BY <3>1, <3>3, ReceiverTyped
      <3>5. n <= d
        BY <1>1, <1>4, <3>3, <3>4, NotBeyond
      <3>6. PICK a \in Int : a = c + n
        BY <2>5
      <3>7. a = m - l
        BY <2>5, <3>2, <3>6
      <3>8. Position' = a
        BY <1>5, <2>3, <2>4, <3>7 DEF Position, ReceiverOnly
      <3>9. \E b \in 0 .. Len(wire') : Segment(Position, b)'
        BY <1>4, <1>5, <3>4, <3>5, <3>6, <3>8, PlainShrinks
      <3> QED
        BY <3>9 DEF PlainInv
    <2>10. ChunkedInv'
      BY <1>2, <1>5 DEF ChunkedInv, ReceiverOnly
    <2> QED
      BY <1>5, <2>7, <2>8, <2>9, <2>10, SenderKept DEF ContentInv
  <1> QED
    BY <1>7, <1>8

LEMMA ContentReadAll ==
  ASSUME ContentInv, Content!ReadAll
  PROVE  ContentInv'
  <1>1. receiver.at = "all"
    BY DEF Content!ReadAll
  <1>2. sender.how = "close" /\ receiver.result = "" /\ ReceiverTypes
    BY <1>1 DEF ContentInv, ReceiverInv
  <1>3. PICK n \in Content!Arrived(MaxContent) :
           Content!Receive(Content!Handed(receiver, Content!Read(n)), Content!Rest(n))
    BY <1>1 DEF Content!ReadAll
  <1>4. n \in Nat /\ n > 0 /\ n <= Len(wire)
    BY ReceiverTyped, <1>3 DEF Content!Arrived
  <1>5. ReceiverOnly /\ wire' = Content!Rest(n)
        /\ receiver' = Content!Handed(receiver, Content!Read(n))
    BY <1>3 DEF Content!Receive, ReceiverOnly
  <1>6. wire' \in Seq(Cells)
    BY <1>4, <1>5, RestTyped
  <1>7. PICK d \in 0 .. Len(wire) : Segment(Position, d)
    BY <1>1, <1>2 DEF ContentInv, PlainInv
  <1>8. PICK c \in Nat : c = Len(receiver.got)
    BY ReceiverTyped
  <1>9. Position = c
    BY <1>1, <1>8 DEF Position
  <1>10. Segment(c, d) /\ d \in Nat /\ wire \in Seq(Cells) /\ c \in Int
    BY <1>7, <1>9, ReceiverTyped
  <1>11. n <= d
    BY <1>1, <1>4, <1>9, <1>10, NotBeyond
  <1>12. PICK r : r = Content!Read(n)
    OBVIOUS
  <1>13. Len(r) = n
    BY <1>4, <1>12 DEF Content!Read
  <1>14. payload_max_length \in Nat
    BY MessageAssumption
  <1>15. CASE Content!TooMuch(n)
    <2>1. receiver' = Content!Ends("too_large")
      BY <1>5, <1>12, <1>13, <1>15 DEF Content!Handed
    <2>2. /\ receiver'.at = "end" /\ receiver'.result = "too_large"
          /\ receiver'.got = receiver.got
          /\ receiver'.api = receiver.api /\ ReceiverTypes'
      BY <1>2, <1>6, <2>1 DEF ReceiverTypes, Content!Ends
    <2>3. ReceiverInv'
      BY <2>2 DEF ContentInv, ReceiverInv, Decoding
    <2>4. payload_max_length < sender.offset
      <3>1. c + n > payload_max_length
        BY <1>8, <1>15 DEF Content!TooMuch
      <3>2. c + d <= sender.offset /\ sender.offset \in Nat
        BY <1>10, SenderTyped DEF Segment
      <3>3. PICK o \in Nat : o = sender.offset
        BY <3>2
      <3>4. c + d <= o
        BY <3>2, <3>3
      <3>5. payload_max_length < o
        BY <1>4, <1>10, <1>11, <1>14, <3>1, <3>4
      <3> QED
        BY <3>3, <3>5
    <2>5. ResultInv'
      BY <1>2, <1>5, <2>2, <2>4 DEF ResultInv, ReceiverOnly
    <2>6. PlainInv' /\ ChunkedInv'
      BY <1>2, <1>5, <2>2 DEF PlainInv, ChunkedInv, ReceiverOnly
    <2> QED
      BY <1>5, <2>3, <2>5, <2>6, SenderKept DEF ContentInv
  <1>16. CASE ~ Content!TooMuch(n)
    <2>1. PICK h : h = receiver.got \o Content!Read(n)
      OBVIOUS
    <2>2. receiver' = [receiver EXCEPT !.got = h]
      BY <1>5, <1>12, <1>13, <1>16, <2>1 DEF Content!Handed
    <2>3. h \in Seq(Cells) /\ Len(h) = c + n
          /\ \A i \in DOMAIN h : h[i] = Content!Data(i)
      BY <1>1, <1>4, <1>7, <1>8, <1>10, <1>11, <2>1, ReadCells
    <2>4. /\ receiver'.at = "all" /\ receiver'.result = "" /\ receiver'.got = h
          /\ receiver'.api = receiver.api /\ ReceiverTypes'
      BY <1>1, <1>2, <1>6, <2>2, <2>3 DEF ReceiverTypes
    <2>5. receiver.api = "content" => c + n <= payload_max_length
      <3>1. receiver.api = "content" => ~ (c + n > payload_max_length)
        BY <1>8, <1>16 DEF Content!TooMuch
      <3> QED
        BY <1>4, <1>14, <3>1
    <2>6. receiver'.api = "content" => Len(receiver'.got) <= payload_max_length
      BY <2>3, <2>4, <2>5
    <2>7. ReceiverInv'
      BY <1>2, <1>5, <2>3, <2>4, <2>6 DEF ReceiverInv, Decoding, ReceiverOnly
    <2>8. ResultInv'
      BY <2>4 DEF ResultInv
    <2>9. PICK a \in Int : a = c + n
      BY <1>4
    <2>10. Position' = a
      BY <2>3, <2>4, <2>9 DEF Position
    <2>11. \E b \in 0 .. Len(wire') : Segment(Position, b)'
      BY <1>4, <1>5, <1>10, <1>11, <2>9, <2>10, PlainShrinks
    <2>12. PlainInv'
      BY <2>11 DEF PlainInv
    <2>13. ChunkedInv'
      BY <1>2, <1>5 DEF ChunkedInv, ReceiverOnly
    <2> QED
      BY <1>5, <2>7, <2>8, <2>12, <2>13, SenderKept DEF ContentInv
  <1> QED
    BY <1>15, <1>16

LEMMA ContentStart ==
  ASSUME ContentInv, Content!Start
  PROVE  ContentInv'
  <1>1. receiver.at = "start" /\ ReceiverOnly /\ wire' = wire
    BY DEF Content!Start, ReceiverOnly
  <1>2. receiver.got = <<>> /\ receiver.result = "" /\ ReceiverTypes
    BY <1>1 DEF ContentInv, ReceiverInv
  <1>3. PICK m \in Nat : m = sender.length
    BY SMTT(30), SenderTyped
  <1>4. PICK a \in {"size", "all", "end", "skip", "known"}, l \in Nat :
          /\ receiver' = [receiver EXCEPT !.at = a, !.left = l,
                            !.result = IF a = "end" THEN "success" ELSE ""]
          /\ a = "size" <=> sender.how = "chunked"
          /\ a = "all" => sender.how = "close"
          /\ a \in {"skip", "known"} => sender.how = "length" /\ l = m
          /\ a = "end" => sender.how = "close" \/ (sender.how = "length"
                                                   /\ m = 0)
          /\ a = "skip" => Content!TooMuch(m)
          /\ a = "known" => ~ Content!TooMuch(m) /\ m # 0
    <2>1. receiver.left \in Nat
      BY ReceiverTyped
    <2>2. CASE sender.how = "chunked"
      <3>1. receiver' = [receiver EXCEPT !.at = "size", !.left = m,
                         !.result = ""]
        BY <1>2, <1>3, <2>2 DEF Content!Start, ReceiverTypes
      <3> QED
        BY <2>2, <3>1
    <2>3. CASE sender.how = "close"
      <3>1. CASE receiver.api = "stream"
        <4>1. receiver' = [receiver EXCEPT !.at = "end", !.left = receiver.left,
                                           !.result = "success"]
          BY <1>2, <1>3, <2>3, <3>1 DEF Content!Start, Content!Ends,
             ReceiverTypes
        <4> QED
          BY <2>1, <2>3, <4>1
      <3>2. CASE receiver.api # "stream"
        <4>1. receiver' = [receiver EXCEPT !.at = "all", !.left = m,
                           !.result = ""]
          BY <1>2, <1>3, <2>3, <3>2 DEF Content!Start, ReceiverTypes
        <4> QED
          BY <2>3, <4>1
      <3> QED
        BY <3>1, <3>2
    <2>4. CASE sender.how = "length"
      <3>1. CASE Content!TooMuch(m)
        <4>1. receiver' = [receiver EXCEPT !.at = "skip", !.left = m,
                           !.result = ""]
          BY <1>2, <1>3, <2>4, <3>1 DEF Content!Start, ReceiverTypes
        <4> QED
          BY <2>4, <3>1, <4>1
      <3>2. CASE ~ Content!TooMuch(m) /\ m = 0
        <4>1. receiver' = [receiver EXCEPT !.at = "end", !.left = receiver.left,
                                           !.result = "success"]
          BY <1>2, <1>3, <2>4, <3>2 DEF Content!Start, Content!Ends,
             ReceiverTypes
        <4> QED
          BY <2>1, <2>4, <3>2, <4>1
      <3>3. CASE ~ Content!TooMuch(m) /\ m # 0
        <4>1. receiver' = [receiver EXCEPT !.at = "known", !.left = m,
                           !.result = ""]
          BY <1>2, <1>3, <2>4, <3>3 DEF Content!Start, ReceiverTypes
        <4> QED
          BY <2>4, <3>3, <4>1
      <3> QED
        BY <3>1, <3>2, <3>3
    <2> QED
      BY <2>2, <2>3, <2>4, SenderTyped DEF Content!Hows
  <1>5. /\ receiver'.at = a /\ receiver'.left = l /\ (IF a = "end"
                                                      THEN receiver'.result = "success" ELSE receiver'.result = "")
        /\ receiver'.got = <<>> /\ receiver'.api = receiver.api
             /\ ReceiverTypes'
    BY <1>1, <1>2, <1>4 DEF ReceiverTypes, Decoding
  <1>13. payload_max_length \in Nat
    BY MessageAssumption
  <1>6. Len(receiver.got) = 0 /\ Len(receiver'.got) = 0
    BY <1>2, <1>5
  <1>14. Content!TooMuch(m) <=>
           receiver.api = "content" /\ m > payload_max_length
    BY <1>3, <1>6, <1>13 DEF Content!TooMuch
  <1>7. a = "skip" => payload_max_length < m /\ 0 < m
    BY <1>3, <1>4, <1>13, <1>14
  <1>8. a = "known" => (receiver.api = "content" => m <= payload_max_length)
    BY <1>3, <1>4, <1>13, <1>14
  <1>9. ReceiverInv'
    <2>1. a # "end" => receiver'.result = ""
      BY <1>5
    <2>2. a = "known" =>
            /\ sender'.how = "length" /\ l > 0 /\ 0 + l = sender'.length
            /\ receiver.api = "content" => sender'.length <= payload_max_length
      <3>1. SUFFICES ASSUME a = "known"
                     PROVE  /\ sender'.how = "length" /\ l > 0
                            /\ 0 + l = sender'.length
                            /\ receiver.api = "content" =>
                                  sender'.length <= payload_max_length
        OBVIOUS
      <3>2. sender'.how = "length" /\ l = m /\ m # 0
        BY <1>1, <1>4, <3>1 DEF ReceiverOnly
      <3>3. sender'.length = m
        BY <1>1, <1>3 DEF ReceiverOnly
      <3>4. m > 0 /\ 0 + m = m
        BY <1>3, <3>2
      <3> QED
        BY <1>8, <3>1, <3>2, <3>3, <3>4
    <2>3. a = "skip" =>
            /\ sender'.how = "length" /\ 0 < l /\ l <= sender'.length
            /\ payload_max_length < sender'.length
      <3>1. SUFFICES ASSUME a = "skip"
                     PROVE  /\ sender'.how = "length" /\ 0 < l
                            /\ l <= sender'.length
                            /\ payload_max_length < sender'.length
        OBVIOUS
      <3>2. sender'.how = "length" /\ l = m
        BY <1>1, <1>4, <3>1 DEF ReceiverOnly
      <3>3. sender'.length = m
        BY <1>1, <1>3 DEF ReceiverOnly
      <3>4. m <= m
        BY <1>3
      <3> QED
        BY <1>7, <3>1, <3>2, <3>3, <3>4
    <2>4. a \in Decoding => sender'.how = "chunked"
      BY <1>1, <1>4 DEF ReceiverOnly, Decoding
    <2>5. a = "all" => sender'.how = "close"
      BY <1>1, <1>4 DEF ReceiverOnly
    <2>6. a \notin {"start", "chunk", "chunk_end"}
      BY <1>4
    <2>7. \A i \in DOMAIN receiver'.got : receiver'.got[i] = Content!Data(i)
      BY <1>2, <1>5 DEF ContentInv, ReceiverInv
    <2>8. receiver'.api = "content" => Len(receiver'.got) <= payload_max_length
      <3>1. 0 <= payload_max_length
        BY <1>13
      <3> QED
        BY <1>6, <3>1
    <2> QED
      BY <1>5, <1>6, <2>1, <2>2, <2>3, <2>4, <2>5, <2>6, <2>7,
         <2>8 DEF ReceiverInv
  <1>10. ResultInv'
    BY <1>1, <1>3, <1>4, <1>5, <1>6 DEF ResultInv, ReceiverOnly
  <1>11. PlainInv'
    <2>1. SUFFICES ASSUME sender.how # "chunked"
                   PROVE  \E d \in 0 .. Len(wire') : Segment(Position, d)'
      BY <1>1 DEF PlainInv, ReceiverOnly
    <2>2. PICK d \in 0 .. Len(wire) : Segment(Position, d)
      BY <1>1, <2>1 DEF ContentInv, PlainInv
    <2>3. Position = 0
      BY <1>1, <1>2, <1>6 DEF Position
    <2>4. m - m = 0
      BY <1>3
    <2>5. Position' = 0
      BY <1>1, <1>3, <1>4, <1>5, <1>6, <2>4 DEF Position, ReceiverOnly
    <2> QED
      BY <1>1, <2>2, <2>3, <2>5 DEF Segment, ReceiverOnly
  <1>12. ChunkedInv'
    <2>1. SUFFICES ASSUME sender.how = "chunked" PROVE ChunkedInv'
      BY <1>1 DEF ChunkedInv, ReceiverOnly
    <2>2. a = "size"
      BY <1>4, <2>1
    <2>3. PICK st : Run(st)
      BY <1>1, <2>1 DEF ContentInv, ChunkedInv
    <2>4. Reached' = Reached
      BY <1>1, <1>2, <1>5, <2>2 DEF Reached
    <2>5. Run(st)'
      BY <1>1, <2>3, <2>4 DEF Run, Written, ReceiverOnly
    <2> QED
      BY <1>5, <2>2, <2>5 DEF ChunkedInv
  <1> QED
    BY <1>1, <1>9, <1>10, <1>11, <1>12, SenderKept DEF ContentInv

-----------------------------------------------------------------------------
\* The receiver of chunks.

\* Cells are read.
LEMMA ChunkedShrinks ==
  ASSUME ContentInv, ReceiverOnly, NEW st, Run(st), NEW n \in Nat,
         n <= Len(wire),
         wire' = Content!Rest(n), Reached' = st[n + 1]
  PROVE  \E g : Run(g)'
  <1>1. PICK w \in Seq(Cells) : w = wire
    BY ReceiverTyped
  <1>2. PICK L \in Nat : L = Len(w)
    OBVIOUS
  <1>3. PICK u : u = SubSeq(w, n + 1, Len(w))
    OBVIOUS
  <1>4. n \in 0 .. Len(w)
    BY <1>1, <1>2
  <1>5. Path(w, st)
    BY <1>1 DEF Run
  <1>6. u \in Seq(Cells) /\ Len(u) = Len(w) - n
        /\ Path(u, [i \in 1 .. Len(u) + 1 |-> st[n + i]])
    BY <1>3, <1>4, <1>5, PathDrop
  <1>22. n <= L
    BY <1>1, <1>2
  <1>7. PICK M \in Nat : M = L - n
    BY <1>22
  <1>8. Len(u) = M
    BY <1>2, <1>6, <1>7
  <1>9. PICK g : g = [i \in 1 .. M + 1 |-> st[n + i]]
    OBVIOUS
  <1>10. Path(u, g)
    BY <1>6, <1>8, <1>9
  <1>11. u = wire'
    BY <1>1, <1>3 DEF Content!Rest
  <1>12. ASSUME NEW i \in 1 .. M + 1 PROVE g[i] = st[n + i]
                  /\ n + i \in 1 .. L + 1
    BY <1>7, <1>9
  <1>13. g[1] = st[n + 1]
    BY <1>12
  <1>14. g[M + 1] = st[L + 1]
    <2>1. M + 1 \in 1 .. M + 1 /\ n + (M + 1) = L + 1
      BY <1>7
    <2> QED
      BY <1>12, <2>1
  <1>15. Written(st[L + 1])
    BY <1>1, <1>2 DEF Run
  <1>16. \A i \in 1 .. M + 1 : g[i].count <= sender.offset
    <2>1. \A i \in 1 .. L + 1 : st[i].count <= sender.offset
      BY <1>1, <1>2 DEF Run
    <2> QED
      BY <1>12, <2>1
  <1>17. Path(wire', g)
    BY <1>10, <1>11
  <1>18. Len(wire') = M
    BY <1>8, <1>11
  <1>19. Written(g[M + 1])'
    BY <1>14, <1>15 DEF Written, ReceiverOnly
  <1>20. \A i \in 1 .. M + 1 : g[i].count <= sender'.offset
    BY <1>16 DEF ReceiverOnly
  <1>21. Run(g)'
    BY <1>13, <1>17, <1>18, <1>19, <1>20 DEF Run
  <1> QED
    BY <1>21

\* The states next to the first cell.
LEMMA FirstStates ==
  ASSUME ContentInv, NEW st, Run(st)
  PROVE  /\ st[1] \in States /\ Proper(st[1]) /\ st[1] = Reached
         /\ st[1].count <= sender.offset
         /\ wire = <<>> => Written(st[1])
         /\ Len(wire) > 0 =>
              /\ wire[1] \in Cells /\ st[2] = Decoded(st[1], wire[1])
              /\ st[2] \in States /\ Proper(st[2])
              /\ st[2].count <= sender.offset
              /\ Len(wire) = 1 => Written(st[2])
  <1>1. PICK L \in Nat : L = Len(wire)
    BY ReceiverTyped
  <1>2. /\ st \in [1 .. L + 1 -> States] /\ \A i \in 1 .. L + 1 : Proper(st[i])
        /\ \A i \in 1 .. L : st[i + 1] = Decoded(st[i], wire[i])
        /\ \A i \in 1 .. L + 1 : st[i].count <= sender.offset
        /\ Written(st[L + 1]) /\ st[1] = Reached
    BY <1>1 DEF Run, Path
  <1>3. st[1] \in States /\ Proper(st[1]) /\ st[1].count <= sender.offset
    <2>1. 1 \in 1 .. L + 1
      OBVIOUS
    <2> QED
      BY <1>2, <2>1
  <1>4. wire = <<>> => Written(st[1])
    <2>1. SUFFICES ASSUME wire = <<>> PROVE Written(st[1])
      OBVIOUS
    <2>2. L = 0
      BY <1>1, <2>1
    <2>3. L + 1 = 1
      BY <2>2
    <2> QED
      BY <1>2, <2>3
  <1>5. ASSUME L > 0
        PROVE  /\ wire[1] \in Cells /\ st[2] = Decoded(st[1], wire[1])
               /\ st[2] \in States /\ Proper(st[2])
               /\ st[2].count <= sender.offset
    <2>1. 1 \in 1 .. L /\ 2 \in 1 .. L + 1 /\ 1 + 1 = 2
      BY <1>5
    <2>2. wire[1] \in Cells
      BY <1>1, <2>1, ReceiverTyped
    <2> QED
      BY <1>2, <2>1, <2>2
  <1>6. L = 1 => Written(st[2])
    <2>1. SUFFICES ASSUME L = 1 PROVE Written(st[2])
      OBVIOUS
    <2>2. L + 1 = 2
      BY <2>1
    <2> QED
      BY <1>2, <2>2
  <1> QED
    BY <1>1, <1>2, <1>3, <1>4, <1>5, <1>6

\* A line is one cell.
LEMMA FirstLine ==
  ASSUME ContentInv, NEW st, Run(st), st[1].at \in Decoding \ {"chunk"},
         wire # <<>>
  PROVE  /\ Content!LineLength = 1 /\ Content!HasLine /\ Len(wire) > 0
         /\ 1 <= Len(wire)
  <1>1. PICK w \in Seq(Cells) : w = wire
    BY ReceiverTyped
  <1>2. PICK L \in Nat : L = Len(w)
    OBVIOUS
  <1>3. L > 0
    BY <1>1, <1>2
  <1>4. /\ st[1] \in States /\ wire[1] \in Cells
        /\ Proper(Decoded(st[1], wire[1]))
    BY <1>1, <1>2, <1>3, FirstStates
  <1>5. wire[1].k # "data"
    BY <1>4, DecodedLine
  <1>6. PICK E : E = Content!LineEnds
    OBVIOUS
  <1>7. 1 \in E /\ E \subseteq 1 .. L
    <2>1. DOMAIN wire = 1 .. L
      BY <1>1, <1>2
    <2>2. 1 \in 1 .. L
      BY <1>3
    <2> QED
      BY <1>5, <1>6, <2>1, <2>2 DEF Content!LineEnds
  <1>8. \A j \in E : 1 <= j
    BY <1>7
  <1>9. PICK e : e = CHOOSE i \in E : \A j \in E : i <= j
    OBVIOUS
  <1>10. e \in E /\ \A j \in E : e <= j
    BY <1>7, <1>8, <1>9
  <1>11. e \in 1 .. L /\ e <= 1
    BY <1>7, <1>10
  <1>12. e = 1
    BY <1>11
  <1>13. Content!LineLength = e
    BY <1>6, <1>7, <1>9 DEF Content!LineLength
  <1>14. Content!HasLine
    BY <1>6, <1>7 DEF Content!HasLine
  <1>15. Len(wire) > 0 /\ 1 <= Len(wire)
    BY <1>1, <1>2, <1>3
  <1> QED
    BY <1>12, <1>13, <1>14, <1>15

\* What follows when the receiver goes on, and when it ends.
LEMMA ChunkedMoves ==
  ASSUME ContentInv, sender.how = "chunked", ReceiverOnly, ReceiverInv',
         receiver'.at # "end", \E st : Run(st)'
  PROVE  ContentInv'
  <1>1. receiver'.result = ""
    BY DEF ReceiverInv
  <1>2. ResultInv'
    BY <1>1 DEF ResultInv
  <1>3. PlainInv' /\ ChunkedInv'
    BY <1>1 DEF PlainInv, ChunkedInv, ReceiverOnly
  <1> QED
    BY <1>2, <1>3, SenderKept DEF ContentInv

LEMMA ChunkedEnds ==
  ASSUME ContentInv, sender.how = "chunked", ReceiverOnly, wire' \in Seq(Cells),
         NEW x \in {"error", "success", "too_large"}, NEW b \in BOOLEAN,
         receiver' = [receiver EXCEPT !.at = "end", !.result = x, !.late = b],
         x = "success" => ChunkedSuccess',
         x = "error" => b \/ (ended # "open" /\ ~ Content!Complete),
         x = "too_large" => payload_max_length < sender.offset
  PROVE  ContentInv'
  <1>1. ReceiverTypes
    BY DEF ContentInv, ReceiverInv
  <1>2. /\ receiver'.at = "end" /\ receiver'.result = x /\ receiver'.late = b
        /\ receiver'.got = receiver.got /\ receiver'.api = receiver.api
        /\ ReceiverTypes'
    BY <1>1 DEF ReceiverTypes
  <1>3. ReceiverInv'
    BY <1>2 DEF ContentInv, ReceiverInv, Decoding
  <1>4. ResultInv'
    BY <1>2 DEF ResultInv, ReceiverOnly, Content!Complete
  <1>5. PlainInv' /\ ChunkedInv'
    BY <1>2 DEF PlainInv, ChunkedInv, ReceiverOnly
  <1> QED
    BY <1>3, <1>4, <1>5, SenderKept DEF ContentInv

\* Where a receiver of chunks is.
LEMMA Decoder ==
  ASSUME ContentInv, receiver.at \in Decoding
  PROVE  /\ sender.how = "chunked" /\ receiver.result = "" /\ ReceiverTypes
         /\ \E st : Run(st)
         /\ Reached.at = receiver.at
         /\ receiver.at # "chunk_end" => Reached.count = Len(receiver.got)
         /\ receiver.at = "chunk_end" =>
              Reached.count = Len(receiver.got) + Len(receiver.held)
         /\ receiver.at = "chunk" => Reached.left = receiver.left
              /\ receiver.left > 0
  <1>1. receiver.at # "end"
    BY DEF Decoding
  <1>2. sender.how = "chunked" /\ receiver.result = "" /\ ReceiverTypes
        /\ (receiver.at = "chunk" => receiver.left > 0)
    BY <1>1 DEF ContentInv, ReceiverInv
  <1>3. \E st : Run(st)
    BY <1>1, <1>2 DEF ContentInv, ChunkedInv
  <1>4. receiver.at \in {"size", "chunk", "chunk_end", "trailers"}
    BY DEF Decoding
  <1>5. Reached.at = receiver.at
    BY <1>4 DEF Reached, State
  <1>6. receiver.at # "chunk_end" => Reached.count = Len(receiver.got)
    BY <1>4 DEF Reached, State
  <1>7. receiver.at = "chunk_end" =>
          Reached.count = Len(receiver.got) + Len(receiver.held)
    BY DEF Reached, State
  <1>8. receiver.at = "chunk" => Reached.left = receiver.left
    BY DEF Reached, State
  <1> QED
    BY <1>2, <1>3, <1>5, <1>6, <1>7, <1>8

LEMMA ContentReadSize ==
  ASSUME ContentInv, Content!ReadSize
  PROVE  ContentInv'
  <1>1. receiver.at = "size" /\ Content!HasLine
    BY DEF Content!ReadSize
  <1>2. receiver.at \in Decoding
    BY <1>1 DEF Decoding
  <1>3. sender.how = "chunked" /\ receiver.result = "" /\ ReceiverTypes
    BY <1>2, Decoder
  <1>4. PICK st : Run(st)
    BY <1>2, Decoder
  <1>5. st[1] = Reached /\ st[1].at = "size" /\ st[1].count = Len(receiver.got)
    BY <1>1, <1>2, <1>4, Decoder, FirstStates
  <1>6. wire # <<>>
    BY <1>1 DEF Content!HasLine, Content!LineEnds
  <1>7. st[1].at \in Decoding \ {"chunk"}
    BY <1>5 DEF Decoding
  <1>8. Content!LineLength = 1 /\ Len(wire) > 0 /\ 1 <= Len(wire)
    BY <1>4, <1>6, <1>7, FirstLine
  <1>9. PICK c \in Cells : c = wire[1]
    BY <1>4, <1>8, FirstStates
  <1>10. /\ st[1] \in States /\ st[2] = Decoded(st[1], c) /\ st[2] \in States
         /\ Proper(st[2])
    BY <1>4, <1>8, <1>9, FirstStates
  <1>11. \/ /\ c.k = "size"
            /\ st[2] = State(IF c.n = 0 THEN "trailers"
                             ELSE "chunk", c.n, st[1].count)
         \/ c = Content!Next1 /\ st[2] = State("lost", 0, st[1].count)
    BY <1>5, <1>7, <1>10, DecodedLine
  <1>12. /\ ReceiverOnly /\ wire' = Content!Rest(1)
         /\ receiver' = IF ~ (c.k = "size") THEN Content!Ends("error")
                        ELSE IF c.n = 0 THEN [receiver EXCEPT !.at = "trailers"]
                        ELSE [receiver EXCEPT !.at = "chunk", !.left = c.n]
    BY <1>8, <1>9 DEF Content!ReadSize, Content!Receive, Content!IsLine,
       ReceiverOnly
  <1>13. wire' \in Seq(Cells)
    BY <1>8, <1>12, RestTyped
  <1>14. CASE c.k = "size"
    <2>1. c.n \in Nat
      BY DEF Cells
    <2>2. c # Content!Next1
      BY <1>14 DEF Content!Next1, Content!Line
    <2>3. st[2] = State(IF c.n = 0 THEN "trailers"
                        ELSE "chunk", c.n, st[1].count)
      BY <1>11, <2>2
    <2>4. PICK a \in {"trailers", "chunk"} : a = IF c.n = 0 THEN "trailers"
                 ELSE "chunk"
      OBVIOUS
    <2>5. /\ receiver'.at = a /\ (a = "chunk" => receiver'.left = c.n
                                  /\ c.n # 0)
          /\ receiver'.got = receiver.got /\ receiver'.api = receiver.api
          /\ receiver'.result = "" /\ ReceiverTypes'
      <3>1. CASE c.n = 0
        <4>1. receiver' = [receiver EXCEPT !.at = "trailers"] /\ a = "trailers"
          BY <1>12, <1>14, <2>4, <3>1
        <4> QED
          BY <1>3, <1>13, <4>1 DEF ReceiverTypes, Decoding
      <3>2. CASE c.n # 0
        <4>1. receiver' = [receiver EXCEPT !.at = "chunk", !.left = c.n]
                /\ a = "chunk"
          BY <1>12, <1>14, <2>4, <3>2
        <4> QED
          BY <1>3, <1>13, <2>1, <3>2, <4>1 DEF ReceiverTypes, Decoding
      <3> QED
        BY <3>1, <3>2
    <2>6. Reached' = st[2]
      <3>1. CASE c.n = 0
        <4>1. a = "trailers" /\ st[2] = State("trailers", 0, Len(receiver.got))
          BY <1>5, <2>3, <2>4, <3>1
        <4>2. Reached' = State("trailers", 0, Len(receiver.got))
          BY <2>5, <4>1 DEF Reached
        <4> QED
          BY <4>1, <4>2
      <3>2. CASE c.n # 0
        <4>1. a = "chunk" /\ st[2] = State("chunk", c.n, Len(receiver.got))
          BY <1>5, <2>3, <2>4, <3>2
        <4>2. Reached' = State("chunk", c.n, Len(receiver.got))
          BY <2>5, <4>1 DEF Reached
        <4> QED
          BY <4>1, <4>2
      <3> QED
        BY <3>1, <3>2
    <2>7. 1 \in Nat /\ 1 + 1 = 2
      OBVIOUS
    <2>8. \E g : Run(g)'
      BY <1>4, <1>8, <1>12, <2>6, <2>7, ChunkedShrinks
    <2>9. a = "chunk" => receiver'.left > 0
      <3>1. c.n # 0 => c.n > 0
        BY <2>1
      <3>2. a = "chunk" => receiver'.left = c.n /\ c.n # 0
        BY <2>5
      <3> QED
        BY <3>1, <3>2
    <2>10. ReceiverInv'
      BY <1>3, <1>12, <2>5, <2>9 DEF ContentInv, ReceiverInv, Decoding,
         ReceiverOnly
    <2>11. receiver'.at # "end"
      BY <2>5
    <2> QED
      BY <1>3, <1>12, <2>8, <2>10, <2>11, ChunkedMoves
  <1>15. CASE c.k # "size"
    <2>1. PICK b \in BOOLEAN : b = receiver.late
      BY <1>3 DEF ReceiverTypes
    <2>2. receiver' = [receiver EXCEPT !.at = "end", !.result = "error",
                       !.late = b]
      BY <1>3, <1>12, <1>15, <2>1 DEF Content!Ends, ReceiverTypes
    <2>3. c = Content!Next1 /\ st[2] = State("lost", 0, st[1].count)
      BY <1>11, <1>15
    <2>4. st[2].at = "lost"
      BY <2>3 DEF State
    <2>5. Len(wire) = 1
      <3>1. SUFFICES ASSUME Len(wire) # 1 PROVE FALSE
        OBVIOUS
      <3>2. PICK L \in Nat : L = Len(wire)
        BY ReceiverTyped
      <3>3. 2 \in 1 .. L /\ 2 + 1 = 3 /\ 3 \in 1 .. L + 1
        BY <1>8, <3>1, <3>2
      <3>4. PICK x \in Cells : x = wire[2]
        BY <3>2, <3>3, ReceiverTyped
      <3>5. Proper(Decoded(st[2], x))
        BY <1>4, <3>2, <3>3, <3>4 DEF Run, Path
      <3>6. st[2].at \notin Decoding
        BY <2>4 DEF Decoding
      <3>7. st[2].at = "over"
        BY <1>10, <3>5, <3>6, DecodedOver
      <3> QED
        BY <2>4, <3>7
    <2>6. Written(st[2])
      BY <1>4, <1>8, <2>5, FirstStates
    <2>7. sender.ok /\ ended = "next" /\ ~ sender.done
      <3>1. "lost" \notin Decoding
        BY DEF Decoding
      <3>2. ~ (st[2] = State(IF sender.done THEN "over"
                             ELSE "size", 0, sender.offset))
        BY <2>4 DEF State
      <3> QED
        BY <2>4, <2>6, <3>1, <3>2 DEF Written
    <2>8. ended # "open" /\ ~ Content!Complete
      BY <1>3, <2>7 DEF Content!Complete
    <2>9. "error" \in {"error", "success", "too_large"}
      OBVIOUS
    <2> QED
      BY <1>3, <1>12, <1>13, <2>2, <2>8, <2>9, ChunkedEnds
  <1> QED
    BY <1>14, <1>15

LEMMA ContentReadChunkEnd ==
  ASSUME ContentInv, Content!ReadChunkEnd
  PROVE  ContentInv'
  <1>1. receiver.at = "chunk_end" /\ Content!HasLine
    BY DEF Content!ReadChunkEnd
  <1>2. receiver.at \in Decoding
    BY <1>1 DEF Decoding
  <1>3. sender.how = "chunked" /\ receiver.result = "" /\ ReceiverTypes
    BY <1>2, Decoder
  <1>4. PICK st : Run(st)
    BY <1>2, Decoder
  <1>5. /\ st[1] = Reached /\ st[1].at = "chunk_end"
        /\ st[1].count = Len(receiver.got) + Len(receiver.held)
    BY <1>1, <1>2, <1>4, Decoder, FirstStates
  <1>6. wire # <<>>
    BY <1>1 DEF Content!HasLine, Content!LineEnds
  <1>7. st[1].at \in Decoding \ {"chunk"}
    BY <1>5 DEF Decoding
  <1>8. Content!LineLength = 1 /\ Len(wire) > 0 /\ 1 <= Len(wire)
    BY <1>4, <1>6, <1>7, FirstLine
  <1>9. PICK c \in Cells : c = wire[1]
    BY <1>4, <1>8, FirstStates
  <1>10. /\ st[1] \in States /\ st[2] = Decoded(st[1], c) /\ st[2] \in States
         /\ Proper(st[2]) /\ st[1].count <= sender.offset
    BY <1>4, <1>8, <1>9, FirstStates
  <1>11. c = Content!CRLF /\ st[2] = State("size", 0, st[1].count)
    BY <1>5, <1>7, <1>10, DecodedLine
  <1>12. PICK e \in Seq(Cells) : e = receiver.held
    BY ReceiverTyped
  <1>13. PICK n \in Nat : n = Len(e)
    OBVIOUS
  <1>14. PICK k \in Nat : k = Len(receiver.got)
    BY ReceiverTyped
  <1>15. PICK r : r = [receiver EXCEPT !.at = "size", !.held = <<>>]
    OBVIOUS
  <1>16. ReceiverOnly /\ wire' = Content!Rest(1)
           /\ receiver' = Content!Handed(r, e)
    <2>1. Content!IsLine("crlf")
      BY <1>8, <1>9, <1>11 DEF Content!IsLine, Content!CRLF, Content!Line
    <2> QED
      BY <1>8, <1>12, <1>15, <2>1 DEF Content!ReadChunkEnd, Content!Receive,
         ReceiverOnly
  <1>17. wire' \in Seq(Cells)
    BY <1>8, <1>16, RestTyped
  <1>18. payload_max_length \in Nat
    BY MessageAssumption
  <1>19. k + n = st[1].count
    BY <1>5, <1>12, <1>13, <1>14
  <1>20. CASE Content!TooMuch(n)
    <2>1. PICK b \in BOOLEAN : b = receiver.late
      BY <1>3 DEF ReceiverTypes
    <2>2. receiver' = Content!Ends("too_large")
      BY <1>13, <1>16, <1>20 DEF Content!Handed
    <2>3. receiver' = [receiver EXCEPT !.at = "end", !.result = "too_large",
                       !.late = b]
      BY <1>3, <2>1, <2>2 DEF Content!Ends, ReceiverTypes
    <2>4. k + n > payload_max_length
      BY <1>14, <1>20 DEF Content!TooMuch
    <2>5. PICK o \in Nat : o = sender.offset
      BY SenderTyped
    <2>6. k + n <= o
      BY <1>10, <1>19, <2>5
    <2>7. payload_max_length < sender.offset
      BY <1>18, <2>4, <2>5, <2>6
    <2>8. "too_large" \in {"error", "success", "too_large"}
      OBVIOUS
    <2> QED
      BY <1>3, <1>16, <1>17, <2>3, <2>7, <2>8, ChunkedEnds
  <1>21. CASE ~ Content!TooMuch(n)
    <2>1. PICK g \in Seq(Cells) : g = receiver.got
      BY ReceiverTyped
    <2>2. PICK h : h = g \o e
      OBVIOUS
    <2>3. k = Len(g)
      BY <1>14, <2>1
    <2>4. \A i \in DOMAIN g : g[i] = Content!Data(i)
      BY <2>1 DEF ContentInv, ReceiverInv
    <2>5. \A i \in 1 .. n : e[i] = Content!Data(k + i)
      <3>1. \A i \in DOMAIN e : e[i] = Content!Data(k + i)
        BY <1>1, <1>12, <1>14 DEF ContentInv, ReceiverInv
      <3>2. DOMAIN e = 1 .. n
        BY <1>13
      <3> QED
        BY <3>1, <3>2
    <2>6. h \in Seq(Cells) /\ Len(h) = k + n
          /\ \A i \in DOMAIN h : h[i] = Content!Data(i)
      BY <1>13, <2>2, <2>3, <2>4, <2>5, Getting
    <2>7. r.got = g
      BY <1>3, <1>15, <2>1 DEF ReceiverTypes
    <2>8. receiver' = [r EXCEPT !.got = h]
      BY <1>13, <1>16, <1>21, <2>2, <2>7 DEF Content!Handed
    <2>9. receiver' = [receiver EXCEPT !.at = "size", !.held = <<>>, !.got = h]
      BY <1>15, <2>8
    <2>10. <<>> \in Seq(Cells)
      OBVIOUS
    <2>11. /\ receiver'.at = "size" /\ receiver'.got = h
           /\ receiver'.api = receiver.api /\ receiver'.result = ""
                /\ ReceiverTypes'
      BY <1>3, <1>17, <2>6, <2>9, <2>10 DEF ReceiverTypes, Decoding
    <2>12. Reached' = st[2]
      <3>1. Reached' = State("size", 0, k + n)
        BY <2>6, <2>11 DEF Reached
      <3> QED
        BY <1>11, <1>19, <3>1
    <2>13. 1 \in Nat /\ 1 + 1 = 2
      OBVIOUS
    <2>14. \E f : Run(f)'
      BY <1>4, <1>8, <1>16, <2>12, <2>13, ChunkedShrinks
    <2>15. receiver.api = "content" => k + n <= payload_max_length
      <3>1. receiver.api = "content" => ~ (k + n > payload_max_length)
        BY <1>14, <1>21 DEF Content!TooMuch
      <3> QED
        BY <1>18, <3>1
    <2>16. receiver'.api = "content" => Len(receiver'.got) <= payload_max_length
      BY <2>6, <2>11, <2>15
    <2>17. ReceiverInv'
      BY <1>3, <1>16, <2>6, <2>11, <2>16 DEF ReceiverInv, Decoding, ReceiverOnly
    <2>18. receiver'.at # "end"
      BY <2>11
    <2> QED
      BY <1>3, <1>16, <2>14, <2>17, <2>18, ChunkedMoves
  <1> QED
    BY <1>20, <1>21

LEMMA ContentReadChunk ==
  ASSUME ContentInv, Content!ReadChunk
  PROVE  ContentInv'
  <1>1. receiver.at = "chunk"
    BY DEF Content!ReadChunk
  <1>2. receiver.at \in Decoding
    BY <1>1 DEF Decoding
  <1>3. sender.how = "chunked" /\ receiver.result = "" /\ ReceiverTypes
    BY <1>2, Decoder
  <1>4. PICK st : Run(st)
    BY <1>2, Decoder
  <1>5. /\ st[1] = Reached /\ st[1].at = "chunk" /\ st[1].left = receiver.left
        /\ st[1].count = Len(receiver.got)
    BY <1>1, <1>2, <1>4, Decoder, FirstStates
  <1>6. PICK n \in Content!Arrived(receiver.left) :
           LET r == [receiver EXCEPT !.left = @ - n]
           IN Content!Receive(IF r.left = 0
                   THEN [r EXCEPT !.at = "chunk_end", !.held = Content!Read(n)]
                   ELSE Content!Handed(r, Content!Read(n)), Content!Rest(n))
    BY DEF Content!ReadChunk
  <1>7. n \in Nat /\ n > 0 /\ n <= Len(wire) /\ n <= receiver.left
    BY ReceiverTyped, <1>6 DEF Content!Arrived
  <1>8. PICK l \in Nat : l = receiver.left - n
    BY <1>7, ReceiverTyped
  <1>9. PICK k \in Nat : k = Len(receiver.got)
    BY ReceiverTyped
  <1>10. PICK r : r = [receiver EXCEPT !.left = l]
    OBVIOUS
  <1>11. r.left = l /\ r = [receiver EXCEPT !.left = @ - n]
    BY <1>3, <1>8, <1>10 DEF ReceiverTypes
  <1>12. /\ ReceiverOnly /\ wire' = Content!Rest(n)
         /\ receiver' = IF l = 0
                        THEN [r EXCEPT !.at = "chunk_end",
                              !.held = Content!Read(n)]
                        ELSE Content!Handed(r, Content!Read(n))
    BY <1>6, <1>11 DEF Content!Receive, ReceiverOnly
  <1>13. wire' \in Seq(Cells)
    BY <1>7, <1>12, RestTyped
  <1>14. PICK w \in Seq(Cells) : w = wire
    BY ReceiverTyped
  <1>15. PICK e : e = [i \in 1 .. n |-> w[i]]
    OBVIOUS
  <1>16. e = Content!Read(n)
    BY <1>14, <1>15 DEF Content!Read
  <1>17. n \in 0 .. Len(w) /\ n \in 1 .. Len(w)
    BY <1>7, <1>14
  <1>18. e \in Seq(Cells) /\ Len(e) = n /\ \A i \in 1 .. n : e[i] = w[i]
    BY <1>15, <1>17, Taken
  <1>19. /\ st[n + 1] = State(IF n = st[1].left THEN "chunk_end" ELSE "chunk",
                              st[1].left - n, st[1].count + n)
         /\ \A i \in 1 .. n : w[i] = Content!Data(st[1].count + i)
    <2>1. Path(w, st)
      BY <1>4, <1>14 DEF Run
    <2>2. n <= st[1].left
      BY <1>5, <1>7
    <2> QED
      BY <1>5, <1>17, <2>1, <2>2, PathData
  <1>20. st[n + 1] = State(IF l = 0 THEN "chunk_end" ELSE "chunk", l, k + n)
    <2>1. PICK m \in Nat : m = receiver.left
      BY ReceiverTyped
    <2>2. l = m - n /\ n \in Nat
      BY <1>7, <1>8, <2>1
    <2>3. n = m <=> l = 0
      BY <2>2
    <2>4. st[1].left = m /\ st[1].count = k
      BY <1>5, <1>9, <2>1
    <2>5. st[n + 1] = State(IF n = m THEN "chunk_end"
                            ELSE "chunk", m - n, k + n)
      BY <1>19, <2>4
    <2> QED
      BY <2>2, <2>3, <2>5
  <1>21. \A i \in 1 .. n : e[i] = Content!Data(k + i)
    BY <1>5, <1>9, <1>18, <1>19
  <1>22. payload_max_length \in Nat
    BY MessageAssumption
  <1>23. CASE l = 0
    <2>1. receiver' = [receiver EXCEPT !.left = l, !.at = "chunk_end",
                       !.held = e]
      BY <1>10, <1>12, <1>16, <1>23
    <2>2. /\ receiver'.at = "chunk_end" /\ receiver'.got = receiver.got
          /\ receiver'.held = e
          /\ receiver'.api = receiver.api /\ receiver'.result = ""
               /\ ReceiverTypes'
      BY <1>3, <1>13, <1>18, <2>1 DEF ReceiverTypes, Decoding
    <2>3. Reached' = st[n + 1]
      <3>1. Reached' = State("chunk_end", 0, k + n)
        BY <1>9, <1>18, <2>2 DEF Reached
      <3>2. st[n + 1] = State("chunk_end", 0, k + n)
        BY <1>20, <1>23
      <3> QED
        BY <3>1, <3>2
    <2>4. n \in Nat
      BY <1>7
    <2>5. \E g : Run(g)'
      BY <1>4, <1>7, <1>12, <2>3, <2>4, ChunkedShrinks
    <2>6. \A i \in DOMAIN receiver'.held :
            receiver'.held[i] = Content!Data(Len(receiver'.got) + i)
      <3>1. DOMAIN e = 1 .. n
        BY <1>18
      <3> QED
        BY <1>9, <1>21, <2>2, <3>1
    <2>7. ReceiverInv'
      BY <1>3, <1>12, <2>2, <2>6 DEF ContentInv, ReceiverInv, Decoding,
         ReceiverOnly
    <2>8. receiver'.at # "end"
      BY <2>2
    <2> QED
      BY <1>3, <1>12, <2>5, <2>7, <2>8, ChunkedMoves
  <1>24. CASE l # 0 /\ Content!TooMuch(n)
    <2>1. PICK b \in BOOLEAN : b = receiver.late
      BY <1>3 DEF ReceiverTypes
    <2>2. receiver' = Content!Ends("too_large")
      BY <1>12, <1>16, <1>18, <1>24 DEF Content!Handed
    <2>3. receiver' = [receiver EXCEPT !.at = "end", !.result = "too_large",
                       !.late = b]
      BY <1>3, <2>1, <2>2 DEF Content!Ends, ReceiverTypes
    <2>4. k + n > payload_max_length
      BY <1>9, <1>24 DEF Content!TooMuch
    <2>5. PICK o \in Nat : o = sender.offset
      BY SenderTyped
    <2>6. k + n <= o
      <3>1. st[n + 1].count = k + n
        BY <1>20 DEF State
      <3>2. PICK L \in Nat : L = Len(wire)
        BY ReceiverTyped
      <3>3. n + 1 \in 1 .. L + 1
        BY <1>7, <3>2
      <3>4. st[n + 1].count <= sender.offset
        BY <1>4, <3>2, <3>3 DEF Run
      <3> QED
        BY <2>5, <3>1, <3>4
    <2>7. payload_max_length < sender.offset
      BY <1>7, <1>22, <2>4, <2>5, <2>6
    <2>8. "too_large" \in {"error", "success", "too_large"}
      OBVIOUS
    <2> QED
      BY <1>3, <1>12, <1>13, <2>3, <2>7, <2>8, ChunkedEnds
  <1>25. CASE l # 0 /\ ~ Content!TooMuch(n)
    <2>1. PICK g \in Seq(Cells) : g = receiver.got
      BY ReceiverTyped
    <2>2. PICK h : h = g \o e
      OBVIOUS
    <2>3. k = Len(g)
      BY <1>9, <2>1
    <2>4. \A i \in DOMAIN g : g[i] = Content!Data(i)
      BY <2>1 DEF ContentInv, ReceiverInv
    <2>5. n \in Nat
      BY <1>7
    <2>19. e \in Seq(Cells)
      BY <1>18
    <2>20. PICK m \in Nat : m = n
      BY <2>5
    <2>6. m = Len(e) /\ \A i \in 1 .. m : e[i] = Content!Data(k + i)
      BY <1>18, <1>21, <2>20
    <2>21. h \in Seq(Cells) /\ Len(h) = k + m
           /\ \A i \in DOMAIN h : h[i] = Content!Data(i)
      BY <2>2, <2>3, <2>4, <2>6, <2>19, Getting
    <2>7. h \in Seq(Cells) /\ Len(h) = k + n
          /\ \A i \in DOMAIN h : h[i] = Content!Data(i)
      BY <2>20, <2>21
    <2>8. r.got = g
      BY <1>3, <1>10, <2>1 DEF ReceiverTypes
    <2>9. receiver' = [r EXCEPT !.got = h]
      BY <1>12, <1>16, <1>18, <1>25, <2>2, <2>8 DEF Content!Handed
    <2>10. receiver' = [receiver EXCEPT !.left = l, !.got = h]
      BY <1>10, <2>9
    <2>11. /\ receiver'.at = "chunk" /\ receiver'.got = h /\ receiver'.left = l
           /\ receiver'.api = receiver.api /\ receiver'.result = ""
                /\ ReceiverTypes'
      BY <1>1, <1>3, <1>13, <2>7, <2>10 DEF ReceiverTypes, Decoding
    <2>12. Reached' = st[n + 1]
      <3>1. Reached' = State("chunk", l, k + n)
        BY <2>7, <2>11 DEF Reached
      <3>2. st[n + 1] = State("chunk", l, k + n)
        BY <1>20, <1>25
      <3> QED
        BY <3>1, <3>2
    <2>13. \E f : Run(f)'
      BY <1>4, <1>7, <1>12, <2>5, <2>12, ChunkedShrinks
    <2>14. receiver.api = "content" => k + n <= payload_max_length
      <3>1. receiver.api = "content" => ~ (k + n > payload_max_length)
        BY <1>9, <1>25 DEF Content!TooMuch
      <3> QED
        BY <1>22, <2>5, <3>1
    <2>15. receiver'.api = "content" => Len(receiver'.got) <= payload_max_length
      BY <2>7, <2>11, <2>14
    <2>16. l > 0
      BY <1>25
    <2>17. ReceiverInv'
      BY <1>3, <1>12, <2>7, <2>11, <2>15, <2>16 DEF ReceiverInv, Decoding,
         ReceiverOnly
    <2>18. receiver'.at # "end"
      BY <2>11
    <2> QED
      BY <1>3, <1>12, <2>13, <2>17, <2>18, ChunkedMoves
  <1> QED
    BY <1>23, <1>24, <1>25

LEMMA ContentReadTrailer ==
  ASSUME ContentInv, Content!ReadTrailer
  PROVE  ContentInv'
  <1>1. receiver.at = "trailers" /\ Content!HasLine
    BY DEF Content!ReadTrailer
  <1>2. receiver.at \in Decoding
    BY SMTT(30), <1>1 DEF Decoding
  <1>3. sender.how = "chunked" /\ receiver.result = "" /\ ReceiverTypes
    BY <1>2, Decoder
  <1>4. PICK st : Run(st)
    BY <1>2, Decoder
  <1>5. st[1] = Reached /\ st[1].at = "trailers"
          /\ st[1].count = Len(receiver.got)
    BY <1>1, <1>2, <1>4, Decoder, FirstStates
  <1>6. wire # <<>>
    BY <1>1 DEF Content!HasLine, Content!LineEnds
  <1>7. st[1].at \in Decoding \ {"chunk"}
    BY <1>5 DEF Decoding
  <1>8. Content!LineLength = 1 /\ Len(wire) > 0 /\ 1 <= Len(wire)
    BY <1>4, <1>6, <1>7, FirstLine
  <1>9. PICK c \in Cells : c = wire[1]
    BY <1>4, <1>8, FirstStates
  <1>10. /\ st[1] \in States /\ st[2] = Decoded(st[1], c) /\ st[2] \in States
         /\ Proper(st[2])
    BY <1>4, <1>8, <1>9, FirstStates
  <1>11. \/ c.k = "trailer" /\ st[2] = st[1]
         \/ c = Content!CRLF /\ st[2] = State("over", 0, st[1].count)
    BY <1>5, <1>7, <1>10, DecodedLine
  <1>12. ReceiverOnly /\ wire' = Content!Rest(1)
    BY <1>8 DEF Content!ReadTrailer, Content!Receive, ReceiverOnly
  <1>13. wire' \in Seq(Cells) /\ Len(wire') = Len(wire) - 1
    BY <1>8, <1>12, RestTyped
  <1>14. CASE c.k = "trailer" /\ st[2] = st[1]
    <2>1. receiver' = receiver
      <3>1. Content!IsLine("trailer") /\ ~ Content!IsLine("crlf")
        BY <1>8, <1>9, <1>14 DEF Content!IsLine
      <3> QED
        BY <3>1 DEF Content!ReadTrailer, Content!Receive
    <2>2. Reached' = st[2]
      BY <1>5, <1>14, <2>1 DEF Reached
    <2>3. 1 \in Nat /\ 1 + 1 = 2
      OBVIOUS
    <2>4. \E g : Run(g)'
      BY <1>4, <1>8, <1>12, <2>2, <2>3, ChunkedShrinks
    <2>5. ReceiverInv'
      BY <1>12, <1>13, <2>1 DEF ContentInv, ReceiverInv, ReceiverTypes,
         ReceiverOnly
    <2>6. receiver'.at # "end"
      BY <1>1, <2>1
    <2> QED
      BY <1>3, <1>12, <2>4, <2>5, <2>6, ChunkedMoves
  <1>15. CASE c = Content!CRLF /\ st[2] = State("over", 0, st[1].count)
    <2>1. PICK b \in BOOLEAN : b = receiver.late
      BY <1>3 DEF ReceiverTypes
    <2>2. receiver' = Content!Ends("success")
      <3>1. Content!IsLine("crlf") /\ ~ Content!IsLine("trailer")
        BY <1>8, <1>9, <1>15 DEF Content!IsLine, Content!CRLF, Content!Line
      <3> QED
        BY <3>1 DEF Content!ReadTrailer, Content!Receive
    <2>3. receiver' = [receiver EXCEPT !.at = "end", !.result = "success",
                       !.late = b]
      BY <1>3, <2>1, <2>2 DEF Content!Ends, ReceiverTypes
    <2>4. receiver'.got = receiver.got
      BY <1>3, <2>3 DEF ReceiverTypes
    <2>5. PICK L \in Nat : L = Len(wire)
      BY ReceiverTyped
    <2>6. st[2].at = "over" /\ st[2].count = Len(receiver.got)
      BY <1>5, <1>15 DEF State
    <2>7. ChunkedSuccess'
      <3>1. CASE L = 1
        <4>1. Written(st[2])
          BY <1>4, <1>8, <2>5, <3>1, FirstStates
        <4>2. sender.ok /\ ended # "next"
              /\ st[2] = State(IF sender.done THEN "over"
                               ELSE "size", 0, sender.offset)
          <5>1. "over" \notin Decoding
            BY DEF Decoding
          <5> QED
            BY <2>6, <4>1, <5>1, SenderTyped DEF Written
        <4>3. sender.done /\ sender.offset = Len(receiver.got)
          BY <2>6, <4>2 DEF State
        <4>4. Len(wire') = 0
          BY <1>13, <2>5, <3>1
        <4>5. wire' = <<>>
          BY <1>13, <4>4
        <4> QED
          BY <1>12, <2>4, <4>2, <4>3, <4>5 DEF ChunkedSuccess, ReceiverOnly
      <3>2. CASE L # 1
        <4>1. 2 \in 1 .. L /\ 2 + 1 = 3 /\ 3 \in 1 .. L + 1
          BY <1>8, <2>5, <3>2
        <4>2. PICK x \in Cells : x = wire[2]
          BY <2>5, <4>1, ReceiverTyped
        <4>3. st[3] = Decoded(st[2], x) /\ st[3] \in States /\ Proper(st[3])
          BY <1>4, <2>5, <4>1, <4>2 DEF Run, Path
        <4>4. st[2].at \notin Decoding
          BY <2>6 DEF Decoding
        <4>5. x = Content!Next1 /\ st[3] = State("next", 0, st[2].count)
          BY <1>10, <4>3, <4>4, DecodedOver
        <4>6. st[3].at = "next" /\ st[3].count = Len(receiver.got)
          BY <2>6, <4>5 DEF State
        <4>7. L = 2
          <5>1. SUFFICES ASSUME L # 2 PROVE FALSE
            OBVIOUS
          <5>2. 3 \in 1 .. L /\ 3 + 1 = 4 /\ 4 \in 1 .. L + 1
            BY <4>1, <5>1
          <5>3. PICK y \in Cells : y = wire[3]
            BY <2>5, <5>2, ReceiverTyped
          <5>4. Proper(Decoded(st[3], y))
            BY <1>4, <2>5, <5>2, <5>3 DEF Run, Path
          <5>5. st[3].at \notin Decoding
            BY <4>6 DEF Decoding
          <5>6. st[3].at = "over"
            BY <4>3, <5>4, <5>5, DecodedOver
          <5> QED
            BY <4>6, <5>6
        <4>8. Written(st[3])
          <5>1. L + 1 = 3
            BY <4>7
          <5> QED
            BY <1>4, <2>5, <5>1 DEF Run
        <4>9. sender.ok /\ ended = "next" /\ sender.done
              /\ sender.offset = Len(receiver.got)
          <5>1. "next" \notin Decoding
            BY DEF Decoding
          <5>2. ~ (st[3] = State(IF sender.done THEN "over"
                                 ELSE "size", 0, sender.offset))
            BY <4>6 DEF State
          <5> QED
            BY <4>6, <4>8, <5>1, <5>2, SenderTyped DEF Written
        <4>10. Len(wire') = 1 /\ wire'[1] = x
          <5>1. PICK w \in Seq(Cells) : w = wire
            BY ReceiverTyped
          <5>2. PICK u : u = SubSeq(w, 1 + 1, Len(w))
            OBVIOUS
          <5>7. Len(w) = 2
            BY <2>5, <4>7, <5>1
          <5>3. Len(w) = 2 /\ 1 \in 0 .. Len(w)
            BY <5>7
          <5>4. Len(u) = Len(w) - 1
                  /\ \A i \in 1 .. Len(w) - 1 : u[i] = w[1 + i]
            BY <5>2, <5>3, Dropped
          <5>5. Len(u) = 1 /\ u[1] = w[2]
            BY <5>3, <5>4
          <5>6. wire' = u
            BY <1>12, <5>1, <5>2 DEF Content!Rest
          <5> QED
            BY <4>2, <5>1, <5>5, <5>6
        <4>11. wire' = <<Content!Next1>>
          BY <1>13, <4>5, <4>10
        <4> QED
          BY <1>12, <2>4, <4>9, <4>11 DEF ChunkedSuccess, ReceiverOnly
      <3> QED
        BY <3>1, <3>2
    <2>8. "success" \in {"error", "success", "too_large"}
      OBVIOUS
    <2> QED
      BY <1>3, <1>12, <1>13, <2>3, <2>7, <2>8, ChunkedEnds
  <1> QED
    BY <1>11, <1>14, <1>15

-----------------------------------------------------------------------------
\* Nothing comes any more: the connection was closed, or it took too long.

LEMMA ContentNothingComes ==
  ASSUME ContentInv, Content!NothingComes
  PROVE  ContentInv'
  <1>1. receiver.at \notin {"start", "end"} /\ ReceiverTypes
        /\ receiver.result = ""
    BY DEF Content!NothingComes, ContentInv, ReceiverInv
  <1>2. PICK x \in {"error", "success", "too_large"} :
           /\ receiver.at = "all" /\ ended = "closed" <=> x = "success"
                /\ receiver.at \notin Decoding
           /\ receiver.at = "skip" <=> x = "too_large"
           /\ receiver.at = "trailers" /\ receiver.api = "stream" <=>
                x = "success" /\ receiver.at \in Decoding
           /\ x # "error" => receiver' = Content!Ends(x)
           /\ x = "error" => receiver' = [Content!Ends("error") EXCEPT
                                            !.late = ended # "closed"]
    <2>1. CASE receiver.at = "all" /\ ended = "closed"
      <3>1. receiver' = Content!Ends("success")
        BY <2>1 DEF Content!NothingComes, Content!Receive
      <3> QED
        BY <2>1, <3>1 DEF Decoding
    <2>2. CASE receiver.at = "skip"
      <3>1. receiver' = Content!Ends("too_large")
        BY <2>2 DEF Content!NothingComes, Content!Receive
      <3> QED
        BY <2>2, <3>1 DEF Decoding
    <2>3. CASE receiver.at = "trailers" /\ receiver.api = "stream"
      <3>1. receiver' = Content!Ends("success")
        BY <2>3 DEF Content!NothingComes, Content!Receive
      <3> QED
        BY <2>3, <3>1 DEF Decoding
    <2>4. CASE /\ ~ (receiver.at = "all" /\ ended = "closed")
               /\ receiver.at # "skip"
               /\ ~ (receiver.at = "trailers" /\ receiver.api = "stream")
      <3>1. receiver' = [Content!Ends("error") EXCEPT !.late = ended # "closed"]
        BY <2>4 DEF Content!NothingComes, Content!Receive
      <3> QED
        BY <2>4, <3>1
    <2> QED
      BY <2>1, <2>2, <2>3, <2>4
  <1>3. ReceiverOnly /\ wire' = <<>>
    BY DEF Content!NothingComes, Content!Receive, ReceiverOnly
  <1>4. wire' \in Seq(Cells)
    <2>1. <<>> \in Seq(Cells)
      OBVIOUS
    <2> QED
      BY <1>3, <2>1
  <1>5. receiver.late \in BOOLEAN /\ (ended # "closed") \in BOOLEAN
    BY <1>1 DEF ReceiverTypes
  <1>6. PICK b \in BOOLEAN : b = IF x = "error" THEN ended # "closed"
               ELSE receiver.late
    BY <1>5
  <1>7. receiver' = [receiver EXCEPT !.at = "end", !.result = x, !.late = b]
    <2>1. CASE x = "error"
      <3>1. b = (ended # "closed")
        BY <1>6, <2>1
      <3>2. receiver' = [Content!Ends("error") EXCEPT !.late = b]
        BY <1>2, <2>1, <3>1
      <3> QED
        BY <2>1, <3>2 DEF Content!Ends
    <2>2. CASE x # "error"
      <3>1. b = receiver.late
        BY <1>6, <2>2
      <3>2. receiver' = [receiver EXCEPT !.at = "end", !.result = x]
        BY <1>2, <2>2 DEF Content!Ends
      <3> QED
        BY <1>1, <3>1, <3>2 DEF ReceiverTypes
    <2> QED
      BY <2>1, <2>2
  <1>8. CASE receiver.at \in Decoding
    <2>1. sender.how = "chunked"
      BY <1>8, Decoder
    <2>2. PICK st : Run(st)
      BY <1>8, Decoder
    <2>3. st[1] = Reached /\ st[1].at = receiver.at
      BY <1>8, <2>2, Decoder, FirstStates
    <2>4. wire = <<>>
      <3>1. CASE receiver.at = "chunk"
        BY <3>1 DEF Content!NothingComes
      <3>2. CASE receiver.at # "chunk"
        <4>1. receiver.at \in {"size", "chunk_end", "trailers"}
          BY <1>8, <3>2 DEF Decoding
        <4>2. ~ Content!HasLine
          BY <4>1 DEF Content!NothingComes
        <4>3. st[1].at \in Decoding \ {"chunk"}
          BY <1>8, <2>3, <3>2
        <4> QED
          BY <2>2, <4>2, <4>3, FirstLine
      <3> QED
        BY <3>1, <3>2
    <2>5. Written(st[1])
      BY <2>2, <2>4, FirstStates
    <2>6. ~ (sender.ok /\ ended = "next")
      <3>1. "next" \notin Decoding /\ "lost" \notin Decoding
        BY DEF Decoding
      <3> QED
        BY <1>8, <2>3, <2>5, <3>1 DEF Written
    <2>7. sender.ok => ~ sender.done
      <3>1. SUFFICES ASSUME sender.ok, sender.done PROVE FALSE
        OBVIOUS
      <3>2. st[1] = State("over", 0, sender.offset)
        BY <2>5, <2>6, <3>1 DEF Written
      <3>3. st[1].at = "over"
        BY <3>2 DEF State
      <3> QED
        BY <1>8, <2>3, <3>3 DEF Decoding
    <2>8. x = "success" => ChunkedSuccess'
      <3>1. SUFFICES ASSUME x = "success" PROVE ChunkedSuccess'
        OBVIOUS
      <3>2. receiver.at = "trailers"
        BY <1>2, <1>8, <3>1
      <3>3. ~ sender.ok
        <4>1. SUFFICES ASSUME sender.ok PROVE FALSE
          OBVIOUS
        <4>2. st[1] = State(IF sender.done THEN "over"
                            ELSE "size", 0, sender.offset)
          BY <2>5, <2>6, <4>1 DEF Written
        <4>3. st[1].at \in {"over", "size"}
          BY <4>2 DEF State
        <4> QED
          BY <2>3, <3>2, <4>3
      <3>4. st[1].count = sender.offset
        BY <2>3, <2>5, <3>2, <3>3 DEF Written
      <3>5. st[1].count = Len(receiver.got)
        BY <1>8, <2>3, <3>2, Decoder
      <3>6. receiver'.got = receiver.got
        BY <1>1, <1>7 DEF ReceiverTypes
      <3> QED
        BY <1>3, <3>3, <3>4, <3>5, <3>6 DEF ChunkedSuccess, ReceiverOnly
    <2>9. x = "error" => b \/ (ended # "open" /\ ~ Content!Complete)
      <3>1. SUFFICES ASSUME x = "error", ~ b
                     PROVE  ended # "open" /\ ~ Content!Complete
        OBVIOUS
      <3>2. ended = "closed"
        BY <1>6, <3>1
      <3>3. ~ Content!Complete
        BY <2>1, <2>7 DEF Content!Complete
      <3> QED
        BY <3>2, <3>3
    <2>10. x # "too_large"
      BY <1>2, <1>8 DEF Decoding
    <2> QED
      BY <1>3, <1>4, <1>7, <2>1, <2>8, <2>9, <2>10, ChunkedEnds
  <1>9. CASE receiver.at \in {"known", "skip", "all"}
    <2>1. sender.how \in {"length", "close"} /\ (receiver.at = "all"
                                                 => sender.how = "close")
          /\ (receiver.at # "all" => sender.how = "length")
      BY <1>9 DEF ContentInv, ReceiverInv
    <2>2. wire = <<>>
      BY <1>9 DEF Content!NothingComes
    <2>3. /\ receiver'.at = "end" /\ receiver'.result = x /\ receiver'.late = b
          /\ receiver'.got = receiver.got /\ receiver'.api = receiver.api
          /\ ReceiverTypes'
      BY <1>1, <1>4, <1>7 DEF ReceiverTypes
    <2>4. ReceiverInv'
      BY <2>3 DEF ContentInv, ReceiverInv, Decoding
    <2>5. PICK d \in 0 .. Len(wire) : Segment(Position, d)
      BY <1>9, <2>1 DEF ContentInv, PlainInv
    <2>6. d = 0
      BY <2>2, <2>5
    <2>7. PICK c \in Int : c = Position
      BY PositionTyped
    <2>8. sender.ok => c = sender.offset
      BY <2>5, <2>6, <2>7, SenderTyped DEF Segment
    <2>9. x = "error" /\ ~ b => ended = "closed" /\ receiver.at = "known"
      BY <1>2, <1>6, <1>9 DEF Decoding
    <2>10. receiver.at = "known" => ~ Content!Complete
      <3>1. SUFFICES ASSUME receiver.at = "known", Content!Complete PROVE FALSE
        OBVIOUS
      <3>2. sender.offset = sender.length /\ sender.ok
        BY <2>1, <3>1 DEF Content!Complete
      <3>3. c = Len(receiver.got)
        BY <2>7, <3>1 DEF Position
      <3>4. Len(receiver.got) + receiver.left = sender.length
              /\ receiver.left > 0
        BY <3>1 DEF ContentInv, ReceiverInv
      <3>5. PICK m \in Nat : m = receiver.left
        BY ReceiverTyped
      <3>6. c + m = c /\ m > 0
        BY <2>8, <3>2, <3>3, <3>4, <3>5
      <3> QED
        BY <3>6
    <2>11. ResultInv'
      <3>1. x = "error" /\ ~ b => ended' # "open" /\ ~ Content!Complete'
        BY <1>3, <2>9, <2>10 DEF ReceiverOnly, Content!Complete
      <3>2. x = "too_large" => sender.how = "length"
              /\ payload_max_length < sender.length
        <4>1. x = "too_large" => receiver.at = "skip"
          BY <1>2
        <4> QED
          BY <2>1, <4>1 DEF ContentInv, ReceiverInv
      <3>3. x = "success" => sender.how = "close"
        BY <1>2, <1>9, <2>1 DEF Decoding
      <3> QED
        BY <1>3, <2>3, <3>1, <3>2, <3>3 DEF ResultInv, ReceiverOnly
    <2>12. PlainInv'
      <3>1. SUFFICES ASSUME receiver'.result = "success"
                     PROVE  \E k \in 0 .. Len(wire') : Segment(Position, k)'
        BY <2>3 DEF PlainInv
      <3>2. receiver.at = "all"
        BY <1>2, <1>9, <2>3, <3>1 DEF Decoding
      <3>3. Position' = Position
        BY <2>3, <3>2 DEF Position
      <3>4. wire' = wire
        BY <1>3, <2>2
      <3>5. Segment(Position, d)'
        BY <1>3, <2>5, <3>3, <3>4 DEF Segment, ReceiverOnly
      <3> QED
        BY <2>5, <3>4, <3>5
    <2>13. ChunkedInv'
      BY <1>3, <2>1 DEF ChunkedInv, ReceiverOnly
    <2> QED
      BY <1>3, <2>4, <2>11, <2>12, <2>13, SenderKept DEF ContentInv
  <1> QED
    BY <1>1, <1>8, <1>9 DEF ReceiverTypes

-----------------------------------------------------------------------------
\* Together.

LEMMA ContentInitially ==
  ASSUME Content!ContentInit
  PROVE  ContentInv
  <1>9. PICK how \in Content!Hows, l \in 0 .. MaxContent :
          /\ sender = [how |-> how, length |-> l, at |-> "loop", offset |-> 0,
                       available |-> TRUE, ok |-> TRUE, done |-> FALSE]
          /\ \E api \in {"content", "stream"} :
               receiver = [api |-> api, at |-> "start", left |-> 0,
                           got |-> <<>>,
                           held |-> <<>>, result |-> "", late |-> FALSE]
    BY DEF Content!ContentInit
  <1>10. PICK m \in Nat : m = l
    OBVIOUS
  <1>11. sender = [how |-> how, length |-> m, at |-> "loop", offset |-> 0,
                   available |-> TRUE, ok |-> TRUE, done |-> FALSE]
    BY <1>9, <1>10
  <1>2. wire = <<>> /\ ended = "open"
    BY DEF Content!ContentInit
  <1>4. <<>> \in Seq(Cells) /\ Len(<<>>) = 0 /\ \A i \in DOMAIN <<>> : FALSE
    <2>1. <<>> \in Seq(Cells)
      OBVIOUS
    <2>2. Len(<<>>) = 0
      OBVIOUS
    <2>3. \A i \in DOMAIN <<>> : FALSE
      OBVIOUS
    <2> QED
      BY <2>1, <2>2, <2>3
  <1>13. ASSUME NEW api, api \in {"content", "stream"},
                receiver = [api |-> api, at |-> "start", left |-> 0,
                            got |-> <<>>,
                            held |-> <<>>, result |-> "", late |-> FALSE]
         PROVE  /\ receiver.at = "start" /\ receiver.got = <<>>
                /\ receiver.result = "" /\ ReceiverTypes
    <2>1. ReceiverTypes
      BY <1>2, <1>4, <1>13 DEF ReceiverTypes
    <2> QED
      BY <1>13, <2>1
  <1>14. PICK api : /\ api \in {"content", "stream"}
                    /\ receiver = [api |-> api, at |-> "start", left |-> 0,
                                   got |-> <<>>, held |-> <<>>, result |-> "",
                                   late |-> FALSE]
    BY <1>9
  <1>12. /\ receiver.at = "start" /\ receiver.got = <<>> /\ receiver.result = ""
         /\ ReceiverTypes
    BY <1>13, <1>14
  <1>3. SenderInv
    <2>1. SenderTypes
      BY <1>2, <1>11 DEF SenderTypes
    <2>2. 0 <= m
      OBVIOUS
    <2> QED
      BY <1>2, <1>11, <2>1, <2>2 DEF SenderInv
  <1>5. ReceiverInv
    <2>1. ReceiverTypes
      BY <1>12
    <2>2. receiver.at = "start" /\ receiver.got = <<>> /\ receiver.result = ""
      BY <1>12
    <2>3. 0 <= payload_max_length
      BY MessageAssumption
    <2> QED
      BY <1>4, <2>1, <2>2, <2>3 DEF ReceiverInv, Decoding
  <1>6. ResultInv
    BY <1>12 DEF ResultInv
  <1>7. PlainInv
    <2>1. Position = 0
      BY <1>4, <1>12 DEF Position
    <2>2. Segment(0, 0)
      <3>1. sender.offset = 0 /\ ended # "next" /\ Len(wire) = 0
        BY <1>2, <1>4, <1>11
      <3>2. 0 + 0 = 0 /\ 0 <= 0 /\ \A i \in 1 .. 0 : FALSE
        OBVIOUS
      <3> QED
        BY <3>1, <3>2 DEF Segment
    <2>3. 0 \in 0 .. Len(wire)
      BY <1>2, <1>4
    <2> QED
      BY <2>1, <2>2, <2>3 DEF PlainInv
  <1>8. ChunkedInv
    <2>1. PICK s : s = State("size", 0, 0)
      OBVIOUS
    <2>2. s \in States /\ Proper(s)
      <3>1. "size" \in Decoding \cup {"over", "next", "lost"}
        BY DEF Decoding
      <3> QED
        BY <2>1, <3>1, StateProper
    <2>3. PICK g : Path(wire, g) /\ g[1] = s
                 /\ \A i \in 1 .. Len(wire) + 1 : g[i] = s
      BY <1>2, <2>2, PathEmpty
    <2>4. Len(wire) = 0 /\ Len(wire) + 1 = 1 /\ 0 <= 0
      BY <1>2, <1>4
    <2>5. Reached = s
      BY <1>4, <1>12, <2>1 DEF Reached
    <2>6. Written(s)
      BY <1>2, <1>11, <2>1 DEF Written
    <2>7. s.count = 0 /\ sender.offset = 0
      BY <1>11, <2>1 DEF State
    <2>8. Run(g)
      BY <2>3, <2>4, <2>5, <2>6, <2>7 DEF Run
    <2> QED
      BY <1>12, <2>8 DEF ChunkedInv
  <1> QED
    BY <1>3, <1>5, <1>6, <1>7, <1>8 DEF ContentInv

\* The invariant of the behaviours that are about a content.
ContentSubject == subject = "content" => ContentInv

LEMMA ContentStepKept ==
  ASSUME ContentInv, Content!ContentNext
  PROVE  ContentInv'
  <1>1. ASSUME NEW l \in 0 .. MaxContent, Content!SinkWrite(l) PROVE ContentInv'
    BY <1>1, ContentSinkWrite
  <1>2. CASE Content!Sender
    BY <1>1, <1>2, ContentCallProvider, ContentLoopEnds, ContentProviderReturns,
       ContentSinkDone, ContentFinish DEF Content!Sender
  <1>3. CASE Content!Receiver
    BY <1>3, ContentStart, ContentReadKnown, ContentSkip, ContentReadAll,
       ContentReadSize, ContentReadChunk, ContentReadChunkEnd,
       ContentReadTrailer,
       ContentNothingComes DEF Content!Receiver
  <1> QED
    BY <1>2, <1>3 DEF Content!ContentNext

LEMMA MessageContentInit ==
  ASSUME MessageInit
  PROVE  ContentSubject
  BY ContentInitially DEF MessageInit, ContentSubject

LEMMA MessageContentStep ==
  ASSUME ContentSubject, [MessageNext]_messageVars
  PROVE  ContentSubject'
  <1>1. CASE ContentStep
    BY <1>1, ContentStepKept DEF ContentStep, ContentSubject
  <1>2. ASSUME subject' = subject, subject # "content" PROVE ContentSubject'
    BY <1>2 DEF ContentSubject
  <1>3. CASE FormStep \/ RangesStep \/ TargetStep \/ RoutingStep \/ EventsStep
    BY <1>2, <1>3 DEF FormStep, RangesStep, TargetStep, RoutingStep, EventsStep
  <1>4. CASE UNCHANGED messageVars
    <2>1. UNCHANGED <<subject, wire, ended, sender, receiver>>
      BY <1>4 DEF messageVars, contentVars
    <2>2. SUFFICES ASSUME ContentInv PROVE ContentInv'
      BY <2>1 DEF ContentSubject
    <2>3. SenderInv'
      BY <2>1, <2>2 DEF ContentInv, SenderInv, SenderTypes, Content!GoesOn
    <2> QED
      BY <2>1, <2>2, <2>3, Unmoved
  <1> QED
    BY <1>1, <1>3, <1>4 DEF MessageNext

LEMMA ContentInvariant == MessageSpec => []ContentSubject
  <1>1. MessageInit => ContentSubject
    BY MessageContentInit
  <1>2. ContentSubject /\ [MessageNext]_messageVars => ContentSubject'
    BY MessageContentStep
  <1> QED
    BY <1>1, <1>2, PTL DEF MessageSpec

\* The invariant implies the properties.
LEMMA ContentWhole ==
  ASSUME ContentInv
  PROVE  Content!ReceivedWhole
  <1>1. \A i \in DOMAIN receiver.got : receiver.got[i] = Content!Data(i)
    BY DEF ContentInv, ReceiverInv
  <1>2. receiver.api = "content" => Len(receiver.got) <= payload_max_length
    BY DEF ContentInv, ReceiverInv
  <1>3. ASSUME receiver.result = "success", Content!Framed
        PROVE  /\ Len(receiver.got) = IF sender.how = "length"
                    THEN sender.length
                                      ELSE sender.offset
               /\ wire \in {<<>>, <<Content!Next1>>}
    <2>1. sender.how \in {"length", "chunked"}
      BY <1>3, SenderTyped DEF Content!Framed, Content!Hows
    <2>2. CASE sender.how = "chunked"
      <3>1. ChunkedSuccess
        BY <1>3, <2>2 DEF ContentInv, ChunkedInv
      <3> QED
        BY <2>2, <3>1 DEF ChunkedSuccess
    <2>3. CASE sender.how = "length"
      <3>1. Len(receiver.got) = sender.length
        BY <1>3, <2>3 DEF ContentInv, ResultInv
      <3>2. receiver.at = "end"
        BY <1>3 DEF ContentInv, ReceiverInv
      <3>3. PICK d \in 0 .. Len(wire) : Segment(Position, d)
        BY <1>3, <2>3 DEF ContentInv, PlainInv
      <3>4. PICK m \in Nat : m = sender.length
        BY SenderTyped
      <3>5. Position = m
        BY <3>1, <3>2, <3>4 DEF Position
      <3>6. m + d <= sender.offset
        BY <3>3, <3>5 DEF Segment
      <3>7. sender.offset <= m
        BY <2>3, <3>4 DEF ContentInv, SenderInv
      <3>8. d = 0
        <4>1. PICK o \in Nat : o = sender.offset
          BY SenderTyped
        <4>2. m + d <= o /\ o <= m /\ d \in Nat
          BY <3>6, <3>7, <4>1
        <4> QED
          BY <4>2
      <3>9. IF ended = "next" THEN Len(wire) = 1 /\ wire[1] = Content!Next1
            ELSE Len(wire) = 0
        BY <3>3, <3>8 DEF Segment
      <3>10. wire \in Seq(Cells)
        BY ReceiverTyped
      <3>11. wire = <<>> \/ wire = <<Content!Next1>>
        BY <3>9, <3>10
      <3> QED
        BY <2>3, <3>1, <3>11
    <2> QED
      BY <2>1, <2>2, <2>3
  <1> QED
    BY <1>1, <1>2, <1>3 DEF Content!ReceivedWhole

LEMMA ContentAccepted ==
  ASSUME ContentInv
  PROVE  Content!AcceptedWhenSent
  BY DEF ContentInv, ResultInv, Content!AcceptedWhenSent

\* For contents, chunks and reads of any size, whatever is cut off: what a
\* receiver has is the beginning of the content, no longer than it may be; and
\* it reports success for a framed content only when it has all of it and has
\* taken no byte of the next message from the connection.
THEOREM ReceivedWholeCorrect == MessageSpec => []ReceivedWhole
  <1>1. ContentSubject => ReceivedWhole
    BY ContentWhole DEF ContentSubject, ReceivedWhole
  <1> QED
    BY <1>1, ContentInvariant, PTL

\* A receiver refuses a content that was sent to its end only because it is too
\* large or came too late, however the connection cuts it into pieces.
THEOREM AcceptedWhenSentCorrect == MessageSpec => []AcceptedWhenSent
  <1>1. ContentSubject => AcceptedWhenSent
    BY ContentAccepted DEF ContentSubject, AcceptedWhenSent
  <1> QED
    BY <1>1, ContentInvariant, PTL

=============================================================================
