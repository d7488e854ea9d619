---------------------------- MODULE StegoProofs ----------------------------
(***************************************************************************)
(* However many runs of stego add, read and clear, fall short or are       *)
(* killed: as long as no two of them write at the same time, the picture   *)
(* stays (StegoInv), and every run reports success truthfully (TrailerInv  *)
(* on top of it): --add has added its trailer, --clear has undone exactly  *)
(* the last --add, --read has printed the whole message of it.             *)
(***************************************************************************)
EXTENDS Stego, SequenceTheorems, TLAPS

Orderly == LaunchPolicy # "any"

Cell == {Zero} \cup {<<"picture", i>> : i \in Nat}
          \cup {<<"message", a, i>> : a \in Adders, i \in Nat}
          \cup {<<"length", n, i>> : n \in Nat, i \in Nat}
          \cup {<<"magic", i>> : i \in Nat}

Types ==
  /\ file \in Seq(Cell) /\ picture \in Seq(Cell)
  /\ last \in [adder : SUBSET Adders, before : Seq(Cell)]
  /\ pc \in [Procs -> Steps] /\ crashed \subseteq Procs
  /\ sz \in [Procs -> Nat] /\ len \in [Procs -> Nat] /\ at \in [Adders -> Nat]

\* Who writes, writes alone.
Alone ==
  /\ \A a \in Adders \cap Running : Running \subseteq Readers \cup {a}
  /\ \A c \in Clearers \cap Running : Running = {c}

\* Each cell of a length field is so far behind the picture that the message
\* it tells of lies between the two.
LengthsTrue ==
  \A p \in 1 .. Len(file) : \A n \in Nat, i \in 1 .. LEN :
     file[p] = <<"length", n, i>> => p - i - n >= Len(picture)

\* What a run of --add has appended to the file it found before the step.
Appended(a, step) ==
  CASE step = "write_payload" -> <<>>
    [] step = "write_length"  -> Message(a)
    [] step = "write_magic"   -> Message(a) \o Length(MsgLen[a])

AddersTrue ==
  \A a \in Adders \cap Running :
     pc[a] \in {"write_payload", "write_length", "write_magic"} =>
        /\ Len(last.before) >= Len(picture)
        /\ file = last.before \o Appended(a, pc[a]) /\ at[a] = Len(file)

\* What a run of --clear has seen is still so, and it will cut off no cell of
\* the picture.
ClearersTrue ==
  \A c \in Clearers \cap Running :
     /\ pc[c] \in {"tail", "lenbuf", "refstat", "ftruncate"} => sz[c] = Len(file)
     /\ pc[c] \in {"refstat", "ftruncate"} => Payload(c, len[c]) >= Len(picture)

StegoInv == Types /\ Alone /\ OriginalKept /\ LengthsTrue
              /\ AddersTrue /\ ClearersTrue

-----------------------------------------------------------------------------
LEMMA Associative ==
  ASSUME NEW r \in Seq(Cell), NEW s \in Seq(Cell), NEW t \in Seq(Cell)
  PROVE  (r \o s) \o t = r \o (s \o t)
  BY ConcatAssociative

LEMMA Trailers ==
  ASSUME NEW a \in Adders
  PROVE  /\ Message(a) \in Seq(Cell) /\ Len(Message(a)) = MsgLen[a]
         /\ Length(MsgLen[a]) \in Seq(Cell) /\ Len(Length(MsgLen[a])) = LEN
         /\ MAGIC \in Seq(Cell) /\ Len(MAGIC) = MAGIC_LEN
         /\ MsgLen[a] \in Nat
  <1>1. MsgLen[a] \in Nat /\ LEN \in Nat /\ MAGIC_LEN \in Nat
    BY StegoAssumption
  <1>2. /\ \A i \in 1 .. MsgLen[a] : <<"message", a, i>> \in Cell
        /\ \A i \in 1 .. LEN : <<"length", MsgLen[a], i>> \in Cell
        /\ \A i \in 1 .. MAGIC_LEN : <<"magic", i>> \in Cell
    BY <1>1 DEF Cell
  <1> QED
    BY <1>1, <1>2 DEF Message, Length, MAGIC

\* A prefix that is written at the end of the file is appended to it.
LEMMA WrittenAtEnd ==
  ASSUME file \in Seq(Cell), NEW s \in Seq(Cell), NEW k \in 0 .. Len(s)
  PROVE  /\ SubSeq(s, 1, k) \in Seq(Cell) /\ Len(SubSeq(s, 1, k)) = k
         /\ Written(Len(file), SubSeq(s, 1, k)) = file \o SubSeq(s, 1, k)
         /\ k = Len(s) => SubSeq(s, 1, k) = s
  <1>1. /\ SubSeq(s, 1, k) \in Seq(Cell) /\ Len(SubSeq(s, 1, k)) = k
        /\ \A i \in 1 .. k : SubSeq(s, 1, k)[i] = s[i]
    <2>1. Len(s) \in Nat /\ k \in Nat /\ \A i \in 1 .. k : s[i] \in Cell
      BY ElementOfSeq
    <2> QED
      BY <2>1, SubSeqProperties
  <1>2. k = Len(s) => SubSeq(s, 1, k) = s
    BY <1>1, SeqEqual
  <1> DEFINE t == SubSeq(s, 1, k)
  <1> HIDE DEF t
  <1>3. t \in Seq(Cell) /\ Len(t) = k
    BY <1>1 DEF t
  <1>4. Written(Len(file), t) =
          [i \in 1 .. Len(file) + Len(t) |->
             IF i \in Len(file) + 1 .. Len(file) + Len(t) THEN t[i - Len(file)]
             ELSE IF i <= Len(file) THEN file[i] ELSE Zero]
    <2>1. Len(file) + Len(t) >= Len(file)
      BY <1>3
    <2> QED
      BY <2>1 DEF Written
  <1>5. Written(Len(file), t) = file \o t
    <2>1. /\ file \o t \in Seq(Cell) /\ Len(file \o t) = Len(file) + Len(t)
          /\ \A i \in 1 .. Len(file) + Len(t) : (file \o t)[i] =
               IF i <= Len(file) THEN file[i] ELSE t[i - Len(file)]
      BY <1>3, ConcatProperties
    <2>2. \A i \in 1 .. Len(file) + Len(t) :
            Written(Len(file), t)[i] = (file \o t)[i]
      BY <1>3, <1>4, <2>1
    <2>3. Len(file) + Len(t) \in Nat /\ \A i \in 1 .. Len(file) + Len(t) :
            Written(Len(file), t)[i] \in Cell
      BY <1>3, <2>1, <2>2, ElementOfSeq
    <2>4. /\ Written(Len(file), t) \in Seq(Cell)
          /\ Len(Written(Len(file), t)) = Len(file) + Len(t)
      BY <1>4, <2>3
    <2> QED
      BY <2>1, <2>2, <2>4, SeqEqual
  <1> QED
    BY <1>1, <1>2, <1>5 DEF t

LEMMA StegoInit == Init => StegoInv
  <1> SUFFICES ASSUME Init PROVE StegoInv
    OBVIOUS
  <1>1. PICK n \in Sizes : picture = [i \in 1 .. n |-> Pic(i)]
    BY DEF Init
  <1>2. n \in Nat /\ \A i \in 1 .. n : Pic(i) \in Cell
    BY StegoAssumption DEF Pic, Cell
  <1>3. picture \in Seq(Cell) /\ file = picture /\ last.before = picture
    BY <1>1, <1>2 DEF Init
  <1>4. Types
    BY <1>3 DEF Init, Types, Steps, Procs
  <1>5. Running = {}
    BY DEF Init, Running
  <1>6. \A p \in 1 .. Len(file) : file[p] = <<"picture", p>>
    <2>1. Len(picture) = n /\ \A p \in 1 .. n : picture[p] = <<"picture", p>>
      BY <1>1, <1>2 DEF Pic
    <2> QED
      BY <1>3, <2>1
  <1>7. LengthsTrue
    BY <1>6 DEF LengthsTrue
  <1> QED
    BY <1>3, <1>4, <1>5, <1>7
       DEF StegoInv, Alone, OriginalKept, AddersTrue, ClearersTrue

-----------------------------------------------------------------------------
(***************************************************************************)
(* The steps.                                                              *)
(***************************************************************************)
Appending == {"write_payload", "write_length", "write_magic"}

\* A step of x that leaves the file alone and does not begin to append.
LEMMA QuietStep ==
  ASSUME StegoInv, NEW x \in Running,
         UNCHANGED <<file, picture, last, at, crashed>>,
         NEW to \in Steps \ (Appending \cup {"off"}),
         pc' = [pc EXCEPT ![x] = to],
         sz' \in [Procs -> Nat], len' \in [Procs -> Nat],
         \A y \in Procs : y # x => sz'[y] = sz[y] /\ len'[y] = len[y],
         x \in Clearers =>
           /\ to \in {"tail", "lenbuf", "refstat", "ftruncate"}
                => sz'[x] = Len(file)
           /\ to \in {"refstat", "ftruncate"}
                => sz'[x] - MAGIC_LEN - LEN - len'[x] >= Len(picture)
  PROVE  StegoInv'
  <1>1. x \in Procs /\ x \notin crashed /\ Running' \subseteq Running
        /\ \A y \in Procs : pc'[y] = IF y = x THEN to ELSE pc[y]
    BY DEF Running, Final, StegoInv, Types
  <1>2. Types'
    BY <1>1 DEF StegoInv, Types
  <1>3. Alone'
    <2>1. \A a \in Adders \cap Running' : Running' \subseteq Readers \cup {a}
      BY <1>1 DEF StegoInv, Alone
    <2>2. \A c \in Clearers \cap Running' : Running' = {c}
      BY <1>1 DEF StegoInv, Alone
    <2> QED
      BY <2>1, <2>2 DEF Alone
  <1>4. AddersTrue'
    <2> SUFFICES ASSUME NEW a \in Adders, a \in Running', pc'[a] \in Appending
                 PROVE  /\ Len(last.before) >= Len(picture)
                        /\ file = last.before \o Appended(a, pc'[a])
                        /\ at[a] = Len(file)
      BY DEF AddersTrue, Appending
    <2>1. pc'[a] = pc[a] /\ a \in Running
      BY <1>1 DEF Procs
    <2> QED
      BY <2>1 DEF StegoInv, AddersTrue, Appending
  <1>5. ClearersTrue'
    <2> SUFFICES ASSUME NEW c \in Clearers, c \in Running'
                 PROVE  /\ pc'[c] \in {"tail", "lenbuf", "refstat", "ftruncate"}
                             => sz'[c] = Len(file)
                        /\ pc'[c] \in {"refstat", "ftruncate"}
                             => Payload(c, len[c])' >= Len(picture)
      BY DEF ClearersTrue
    <2>1. CASE c = x
      BY <1>1, <2>1 DEF Payload
    <2>2. CASE c # x
      BY <1>1, <2>2 DEF Payload, StegoInv, ClearersTrue, Procs
    <2> QED
      BY <2>1, <2>2
  <1> QED
    BY <1>2, <1>3, <1>4, <1>5 DEF StegoInv, OriginalKept, LengthsTrue

LEMMA StartStep ==
  ASSUME StegoInv, Orderly, NEW x \in Procs, Start(x)
  PROVE  StegoInv'
  <1>1. /\ UNCHANGED <<file, crashed, sz, len, at, picture, last>>
        /\ pc[x] = "off" /\ pc' = [pc EXCEPT ![x] = "fstat"] /\ MayStart(x)
    BY DEF Start
  <1>2. Types'
    BY <1>1 DEF StegoInv, Types, Steps
  <1>3. /\ \A y \in Procs : pc'[y] = IF y = x THEN "fstat" ELSE pc[y]
        /\ Running' \subseteq Running \cup {x} /\ x \notin Running
    BY <1>1 DEF StegoInv, Types, Running
  <1>4. /\ x \in Readers => Running \cap Clearers = {}
        /\ x \in Adders => Running \subseteq Readers
        /\ x \in Clearers => Running = {}
    BY <1>1, StegoAssumption DEF MayStart, Orderly, Procs
  <1>5. Alone'
    <2>1. \A a \in Adders \cap Running' : Running' \subseteq Readers \cup {a}
      BY <1>3, <1>4, StegoAssumption DEF StegoInv, Alone, Procs
    <2>2. ASSUME NEW c \in Clearers \cap Running'
          PROVE  Running' = {c}
      <3>1. CASE c = x
        BY <1>3, <1>4, <3>1
      <3>2. CASE c # x
        <4>1. c \in Running /\ Running = {c}
          BY <1>3, <3>2 DEF StegoInv, Alone
        <4> QED
          BY <1>4, <4>1, StegoAssumption DEF Procs
      <3> QED
        BY <3>1, <3>2
    <2> QED
      BY <2>1, <2>2 DEF Alone
  <1>6. AddersTrue'
    <2> SUFFICES ASSUME NEW a \in Adders, a \in Running', pc'[a] \in Appending
                 PROVE  /\ Len(last.before) >= Len(picture)
                        /\ file = last.before \o Appended(a, pc'[a])
                        /\ at[a] = Len(file)
      BY <1>1 DEF AddersTrue, Appending
    <2>1. pc'[a] = pc[a] /\ a \in Running
      BY <1>3 DEF Procs, Appending
    <2> QED
      BY <2>1 DEF StegoInv, AddersTrue, Appending
  <1>7. ClearersTrue'
    BY <1>1, <1>3 DEF StegoInv, ClearersTrue, Payload, Procs
  <1> QED
    BY <1>1, <1>2, <1>5, <1>6, <1>7 DEF StegoInv, OriginalKept, LengthsTrue

LEMMA CrashStep ==
  ASSUME StegoInv, NEW x \in Procs, Crash(x)
  PROVE  StegoInv'
  <1>1. UNCHANGED <<file, pc, sz, len, at, picture, last>>
        /\ crashed' = crashed \cup {x} /\ Running' \subseteq Running
    BY DEF Crash, Running
  <1>2. Types' /\ Alone'
    BY <1>1 DEF StegoInv, Types, Alone
  <1>3. AddersTrue' /\ ClearersTrue'
    BY <1>1 DEF StegoInv, AddersTrue, ClearersTrue, Payload
  <1> QED
    BY <1>1, <1>2, <1>3 DEF StegoInv, OriginalKept, LengthsTrue

LEMMA FileSizeStep ==
  ASSUME StegoInv, NEW x \in Procs, FileSize(x)
  PROVE  StegoInv'
  <1>1. PICK to \in {NotFound(x), "tail"} :
           /\ pc' = [pc EXCEPT ![x] = to] /\ x \in Running
           /\ sz' = [sz EXCEPT ![x] = Len(file)]
           /\ UNCHANGED <<file, picture, last, at, crashed, len>>
    BY DEF FileSize, Go, Running, Final
  <1>2. to \in Steps \ (Appending \cup {"off"}) /\ (x \in Clearers =>
           to \in {"failed", "tail"})
    BY StegoAssumption DEF NotFound, Steps, Final, Appending
  <1>3. Len(file) \in Nat /\ sz' \in [Procs -> Nat] /\ len' \in [Procs -> Nat]
    BY <1>1 DEF StegoInv, Types
  <1> QED
    BY <1>1, <1>2, <1>3, QuietStep DEF StegoInv, Types

LEMMA ReadMagicStep ==
  ASSUME StegoInv, NEW x \in Procs, ReadMagic(x)
  PROVE  StegoInv'
  <1>1. PICK to \in {NotFound(x), "lenbuf"} :
           /\ pc' = [pc EXCEPT ![x] = to] /\ x \in Running /\ pc[x] = "tail"
           /\ UNCHANGED <<file, picture, last, at, crashed, sz, len>>
    BY DEF ReadMagic, Go, Running, Final
  <1>2. to \in Steps \ (Appending \cup {"off"}) /\ (x \in Clearers =>
           to \in {"failed", "lenbuf"})
    BY StegoAssumption DEF NotFound, Steps, Final, Appending
  <1>3. x \in Clearers => sz[x] = Len(file)
    BY <1>1 DEF StegoInv, ClearersTrue
  <1>4. sz' \in [Procs -> Nat] /\ len' \in [Procs -> Nat]
    BY <1>1 DEF StegoInv, Types
  <1> QED
    BY <1>1, <1>2, <1>3, <1>4, QuietStep

\* A length that is read from the end of the file leaves the picture whole.
LEMMA LengthSeen ==
  ASSUME StegoInv, NEW x \in Procs, sz[x] = Len(file),
         NEW n \in Lengths(x), Payload(x, n) >= 2
  PROVE  Payload(x, n) >= Len(picture)
  <1> DEFINE pos == sz[x] - MAGIC_LEN - LEN
  <1>1. /\ n \in Nat /\ LEN \in Nat \ {0} /\ MAGIC_LEN \in Nat
        /\ file \in Seq(Cell) /\ Len(file) \in Nat
        /\ Cells(pos, LEN) = Length(n)
    BY StegoAssumption DEF Lengths, StegoInv, Types
  <1>2. pos \in Nat /\ pos + LEN \in 1 .. Len(file) /\ Payload(x, n) = pos - n
    BY <1>1 DEF Payload
  <1> HIDE DEF pos
  <1>3. Cells(pos, LEN) = SubSeq(file, pos + 1, pos + LEN)
    BY <1>1, <1>2 DEF Cells
  <1>4. SubSeq(file, pos + 1, pos + LEN)[LEN] = file[pos + LEN]
    <2>1. pos + 1 \in Int /\ pos + LEN \in Int
          /\ \A i \in pos + 1 .. pos + LEN : file[i] \in Cell
      BY <1>1, <1>2, ElementOfSeq
    <2>2. \A i \in 1 .. (pos + LEN) - (pos + 1) + 1 :
             SubSeq(file, pos + 1, pos + LEN)[i] = file[(pos + 1) + i - 1]
      BY <2>1, SubSeqProperties
    <2>3. LEN \in 1 .. (pos + LEN) - (pos + 1) + 1
          /\ (pos + 1) + LEN - 1 = pos + LEN
      BY <1>1, <1>2
    <2> QED
      BY <2>2, <2>3
  <1>5. Length(n)[LEN] = <<"length", n, LEN>>
    BY <1>1 DEF Length
  <1>6. file[pos + LEN] = <<"length", n, LEN>>
    BY <1>1, <1>3, <1>4, <1>5
  <1>7. (pos + LEN) - LEN - n >= Len(picture)
    <2>1. LEN \in 1 .. LEN
      BY <1>1
    <2> QED
      BY <1>1, <1>2, <1>6, <2>1 DEF StegoInv, LengthsTrue
  <1> QED
    BY <1>1, <1>2, <1>7

LEMMA ReadLengthStep ==
  ASSUME StegoInv, NEW x \in Procs, ReadLength(x)
  PROVE  StegoInv'
  <1>1. /\ x \in Running /\ pc[x] = "lenbuf"
        /\ UNCHANGED <<file, picture, last, at, crashed, sz>>
    BY DEF ReadLength, Go, Running, Final
  <1>2. x \in Clearers => sz[x] = Len(file)
    BY <1>1 DEF StegoInv, ClearersTrue
  <1>3. Found(x) \in Steps \ (Appending \cup {"off"})
        /\ NotFound(x) \in Steps \ (Appending \cup {"off"})
        /\ (x \in Clearers => NotFound(x) = "failed")
    BY StegoAssumption DEF Found, NotFound, Steps, Final, Appending
  <1>4. ASSUME NEW n \in Lengths(x), Payload(x, n) >= 2,
               pc' = [pc EXCEPT ![x] = Found(x)], len' = [len EXCEPT ![x] = n]
        PROVE  StegoInv'
    <2>1. /\ n \in Nat /\ len' \in [Procs -> Nat] /\ sz' \in [Procs -> Nat]
          /\ \A y \in Procs : y # x => sz'[y] = sz[y] /\ len'[y] = len[y]
          /\ len'[x] = n
      BY <1>1, <1>4 DEF Lengths, StegoInv, Types
    <2>2. x \in Clearers => sz'[x] - MAGIC_LEN - LEN - len'[x] >= Len(picture)
      BY <1>1, <1>2, <1>4, <2>1, LengthSeen DEF Payload
    <2> QED
      BY <1>1, <1>2, <1>3, <1>4, <2>1, <2>2, QuietStep
  <1>5. ASSUME pc' = [pc EXCEPT ![x] = NotFound(x)], UNCHANGED len
        PROVE  StegoInv'
    <2>1. sz' \in [Procs -> Nat] /\ len' \in [Procs -> Nat]
      BY <1>1, <1>5 DEF StegoInv, Types
    <2> QED
      BY <1>1, <1>3, <1>5, <2>1, QuietStep
  <1> QED
    BY <1>4, <1>5 DEF ReadLength, Go

LEMMA ReadPayloadStep ==
  ASSUME StegoInv, NEW r \in Readers, ReadPayload(r)
  PROVE  StegoInv'
  <1>1. PICK to \in {"done", "failed"} :
           /\ pc' = [pc EXCEPT ![r] = to] /\ r \in Running
           /\ UNCHANGED <<file, picture, last, at, crashed, sz, len>>
    BY DEF ReadPayload, Go, Running, Final, Procs
  <1>2. to \in Steps \ (Appending \cup {"off"}) /\ r \notin Clearers
    BY StegoAssumption DEF Steps, Final, Appending
  <1>3. sz' \in [Procs -> Nat] /\ len' \in [Procs -> Nat]
    BY <1>1 DEF StegoInv, Types
  <1> QED
    BY <1>1, <1>2, <1>3, QuietStep

LEMMA FileSizeAgainStep ==
  ASSUME StegoInv, NEW c \in Clearers, FileSizeAgain(c)
  PROVE  StegoInv'
  <1>1. /\ pc' = [pc EXCEPT ![c] = "ftruncate"] /\ c \in Running
        /\ pc[c] = "refstat" /\ sz' = [sz EXCEPT ![c] = Len(file)]
        /\ UNCHANGED <<file, picture, last, at, crashed, len>>
    BY DEF FileSizeAgain, Go, Running, Final, Procs
  <1>2. sz[c] = Len(file) /\ Payload(c, len[c]) >= Len(picture)
    BY <1>1 DEF StegoInv, ClearersTrue
  <1>3. /\ sz' = sz /\ sz' \in [Procs -> Nat] /\ len' \in [Procs -> Nat]
    BY <1>1, <1>2 DEF StegoInv, Types
  <1>4. "ftruncate" \in Steps \ (Appending \cup {"off"})
    BY DEF Steps, Appending
  <1> QED
    BY <1>1, <1>2, <1>3, <1>4, QuietStep DEF Payload

\* While one run appends, no other does and none clears.
LEMMA OnlyWriter ==
  ASSUME StegoInv, NEW a \in Adders \cap Running
  PROVE  /\ Clearers \cap Running = {}
         /\ \A b \in Adders \cap Running : b = a
  BY StegoAssumption DEF StegoInv, Alone

LEMMA SeekEndStep ==
  ASSUME StegoInv, NEW a \in Adders, SeekEnd(a)
  PROVE  StegoInv'
  <1>1. /\ a \in Running /\ pc' = [pc EXCEPT ![a] = "write_payload"]
        /\ at' = [at EXCEPT ![a] = Len(file)]
        /\ last' = [adder |-> {}, before |-> file]
        /\ UNCHANGED <<file, picture, crashed, sz, len>>
    BY DEF SeekEnd, Go, Running, Final, Procs
  <1>2. Types'
    <2>1. file' \in Seq(Cell) /\ Len(file) \in Nat
          /\ last' \in [adder : SUBSET Adders, before : Seq(Cell)]
      BY <1>1 DEF StegoInv, Types
    <2>2. pc' \in [Procs -> Steps] /\ at' \in [Adders -> Nat]
      BY <1>1, <2>1 DEF StegoInv, Types, Steps
    <2> QED
      BY <1>1, <2>1, <2>2 DEF StegoInv, Types
  <1>3. /\ Running' \subseteq Running /\ a \in Procs
        /\ \A y \in Procs : y # a => pc'[y] = pc[y]
    BY <1>1 DEF StegoInv, Types, Running, Final, Procs
  <1>4. Alone' /\ Clearers \cap Running' = {}
    BY <1>1, <1>3, OnlyWriter DEF StegoInv, Alone
  <1>5. AddersTrue'
    <2> SUFFICES ASSUME NEW b \in Adders \cap Running'
                 PROVE  /\ Len(file) >= Len(picture)
                        /\ file = file \o Appended(b, pc'[b])
                        /\ at'[b] = Len(file)
      BY <1>1 DEF AddersTrue
    <2>1. b = a
      BY <1>1, <1>3, OnlyWriter
    <2>2. pc'[b] = "write_payload" /\ Appended(b, pc'[b]) = <<>>
      BY <1>1, <2>1 DEF StegoInv, Types, Appended, Procs
    <2>3. file \o <<>> = file
      BY ConcatEmptySeq DEF StegoInv, Types
    <2> QED
      BY <1>1, <2>1, <2>2, <2>3 DEF StegoInv, OriginalKept, Types
  <1> QED
    BY <1>1, <1>2, <1>4, <1>5
       DEF StegoInv, OriginalKept, LengthsTrue, ClearersTrue

\* A write of the appending run: k cells of s are appended, and the run goes
\* on only if that is all of s.
LEMMA AppendStep ==
  ASSUME StegoInv, NEW a \in Adders \cap Running, pc[a] \in Appending,
         NEW s \in Seq(Cell), NEW k \in 0 .. Len(s),
         file' = Written(at[a], SubSeq(s, 1, k)),
         at' = [at EXCEPT ![a] = @ + k],
         NEW to \in Steps, pc' = [pc EXCEPT ![a] = to],
         to \in Final \/ (to \in Appending /\ k = Len(s)
                            /\ Appended(a, to) = Appended(a, pc[a]) \o s
                            /\ Appended(a, pc[a]) \in Seq(Cell)),
         UNCHANGED <<picture, crashed, sz, len>>, last'.before = last.before,
         last' \in [adder : SUBSET Adders, before : Seq(Cell)],
         \A j \in 1 .. Len(s) : \A n \in Nat, i \in 1 .. LEN :
            s[j] = <<"length", n, i>> => Len(file) + j - i - n >= Len(picture)
  PROVE  /\ StegoInv' /\ file' = file \o SubSeq(s, 1, k)
  <1>1. /\ Len(last.before) >= Len(picture) /\ at[a] = Len(file)
        /\ file = last.before \o Appended(a, pc[a]) /\ a \in Procs
    BY DEF StegoInv, AddersTrue, Appending, Procs
  <1> DEFINE t == SubSeq(s, 1, k)
  <1>2. /\ file \in Seq(Cell) /\ picture \in Seq(Cell)
        /\ last.before \in Seq(Cell)
    BY DEF StegoInv, Types
  <1>3. /\ t \in Seq(Cell) /\ Len(t) = k /\ file' = file \o t
        /\ k = Len(s) => t = s
    <2>1. /\ t \in Seq(Cell) /\ Len(t) = k /\ Written(Len(file), t) = file \o t
          /\ k = Len(s) => t = s
      BY <1>2, WrittenAtEnd
    <2>2. file' = Written(Len(file), t)
      BY <1>1
    <2> QED
      BY <2>1, <2>2
  <1>4. \A i \in 1 .. k : t[i] = s[i]
    <2>1. Len(s) \in Nat /\ \A i \in 1 .. k : s[i] \in Cell
      BY ElementOfSeq
    <2> QED
      BY <2>1, SubSeqProperties
  <1> HIDE DEF t
  <1>5. /\ file' \in Seq(Cell) /\ Len(file') = Len(file) + k
        /\ Len(file) \in Nat /\ Len(s) \in Nat /\ k \in Nat
        /\ \A i \in 1 .. Len(file) : file'[i] = file[i]
        /\ \A i \in 1 .. k : file'[Len(file) + i] = t[i]
    <2>1. Len(file) \in Nat /\ Len(s) \in Nat /\ k \in Nat
      BY <1>2
    <2>2. /\ file \o t \in Seq(Cell) /\ Len(file \o t) = Len(file) + Len(t)
          /\ \A i \in 1 .. Len(file) + Len(t) : (file \o t)[i] =
               IF i <= Len(file) THEN file[i] ELSE t[i - Len(file)]
      BY <1>2, <1>3, ConcatProperties, ZenonT(60)
    <2>3. \A i \in 1 .. k : /\ Len(file) + i \in 1 .. Len(file) + Len(t)
                            /\ ~ Len(file) + i <= Len(file)
                            /\ (Len(file) + i) - Len(file) = i
      BY <1>3, <2>1
    <2>4. \A i \in 1 .. k : (file \o t)[Len(file) + i] = t[i]
      BY <2>2, <2>3
    <2>5. \A i \in 1 .. Len(file) : (file \o t)[i] = file[i]
      BY <1>3, <2>1, <2>2
    <2> QED
      BY <1>3, <2>1, <2>2, <2>4, <2>5
  <1>6. Types'
    BY <1>1, <1>5 DEF StegoInv, Types
  <1>7. /\ Running' \subseteq Running
        /\ \A y \in Procs : y # a => pc'[y] = pc[y]
        /\ pc'[a] = to
    BY <1>1 DEF StegoInv, Types, Running
  <1>8. Alone' /\ Clearers \cap Running' = {}
    BY <1>7, OnlyWriter DEF StegoInv, Alone
  <1>9. OriginalKept'
    BY <1>2, <1>5 DEF StegoInv, OriginalKept
  <1>10. LengthsTrue'
    <2> SUFFICES ASSUME NEW p \in 1 .. Len(file) + k, NEW n \in Nat,
                        NEW i \in 1 .. LEN, file'[p] = <<"length", n, i>>
                 PROVE  p - i - n >= Len(picture)
      BY <1>5 DEF LengthsTrue
    <2>1. CASE p \in 1 .. Len(file)
      BY <1>5, <2>1 DEF StegoInv, LengthsTrue
    <2>2. CASE p \notin 1 .. Len(file)
      <3>1. PICK j \in 1 .. k : p = Len(file) + j
        <4>1. p - Len(file) \in 1 .. k /\ p = Len(file) + (p - Len(file))
          BY <1>5, <2>2
        <4> QED
          BY <4>1
      <3>2. s[j] = <<"length", n, i>> /\ j \in 1 .. Len(s)
        BY SMTT(30), <1>4, <1>5, <3>1
      <3>3. Len(file) + j - i - n >= Len(picture)
        BY <3>2
      <3> QED
        BY <3>1, <3>3
    <2> QED
      BY <2>1, <2>2
  <1>11. AddersTrue'
    <2> SUFFICES ASSUME NEW b \in Adders \cap Running', pc'[b] \in Appending
                 PROVE  /\ file' = last.before \o Appended(b, pc'[b])
                        /\ at'[b] = Len(file')
      BY <1>1 DEF AddersTrue, Appending
    <2>1. b = a /\ to \in Appending /\ pc'[b] = to
      BY <1>7, OnlyWriter
    <2>2. k = Len(s) /\ Appended(a, to) = Appended(a, pc[a]) \o s
          /\ Appended(a, pc[a]) \in Seq(Cell)
      BY <2>1 DEF Final, Appending
    <2>3. file' = (last.before \o Appended(a, pc[a])) \o s
      BY <1>1, <1>3, <2>2
    <2>4. file' = last.before \o (Appended(a, pc[a]) \o s)
      <3>1. PICK r, u \in Seq(Cell) : r = last.before /\ u = Appended(a, pc[a])
        BY <1>2, <2>2
      <3>2. (r \o u) \o s = r \o (u \o s)
        BY Associative
      <3> QED
        BY <2>3, <3>1, <3>2
    <2> QED
      BY <1>1, <1>5, <2>1, <2>2, <2>4 DEF StegoInv, Types
  <1> QED
    BY <1>3, <1>6, <1>8, <1>9, <1>10, <1>11 DEF StegoInv, ClearersTrue, t

\* What a write needs beside the invariant: after s the run is done, or has
\* appended s to what it had; a length field in s, if there is one, counts
\* cells behind the picture; and the run still appends to the same file.
Continues(a, s, from, to) ==
  to = "done" \/ (to \in Appending
                     /\ Appended(a, to) = Appended(a, from) \o s
                     /\ Appended(a, from) \in Seq(Cell))

LengthsFit(s) ==
  \A j \in 1 .. Len(s) : \A n \in Nat, i \in 1 .. LEN :
     s[j] = <<"length", n, i>> => Len(file) + j - i - n >= Len(picture)

LastKept == /\ last'.before = last.before
            /\ last' \in [adder : SUBSET Adders, before : Seq(Cell)]

\* One write of the appending run.
LEMMA WriteStep ==
  ASSUME StegoInv, NEW a \in Adders, NEW s \in Seq(Cell),
         NEW from \in Appending, NEW to \in Steps, Write(a, s, from, to),
         Continues(a, s, from, to), LengthsFit(s), LastKept
  PROVE  /\ StegoInv'
         /\ pc[a] = from
         /\ pc'[a] = "done" => to = "done" /\ file' = file \o s
  <1>0. Len(s) \in Nat /\ a \in Procs /\ pc \in [Procs -> Steps]
        /\ file \in Seq(Cell)
    BY DEF StegoInv, Types, Procs
  <1>1. PICK k \in IF WritesMayFail THEN 0 .. Len(s) ELSE {Len(s)} :
           /\ Go(a, from, IF k = Len(s) THEN to ELSE "failed")
           /\ file' = Written(at[a], SubSeq(s, 1, k))
           /\ at' = [at EXCEPT ![a] = @ + k]
           /\ UNCHANGED <<sz, len>>
    BY Zenon DEF Write
  <1>1a. k \in 0 .. Len(s)
    BY <1>0
  <1> DEFINE next == IF k = Len(s) THEN to ELSE "failed"
  <1>2. /\ next \in Steps /\ pc' = [pc EXCEPT ![a] = next] /\ pc'[a] = next
        /\ pc[a] = from /\ a \in Adders \cap Running
        /\ UNCHANGED <<picture, crashed, sz, len>>
    BY <1>0, <1>1 DEF Go, Steps, Running, Final, Appending
  <1>3. next \in Final \/ (next \in Appending /\ k = Len(s)
                             /\ Appended(a, next) = Appended(a, pc[a]) \o s
                             /\ Appended(a, pc[a]) \in Seq(Cell))
    BY <1>2 DEF Final, Continues
  <1>4. next = "done" => to = "done" /\ k = Len(s)
    OBVIOUS
  <1> HIDE DEF next
  <1>5. StegoInv' /\ file' = file \o SubSeq(s, 1, k)
    BY <1>1, <1>1a, <1>2, <1>3, AppendStep DEF LengthsFit, LastKept
  <1>6. k = Len(s) => SubSeq(s, 1, k) = s
    BY <1>0, <1>1a, WrittenAtEnd
  <1> QED
    BY <1>2, <1>4, <1>5, <1>6

\* The three writes; the last one makes the trailer whole.
LEMMA WriteSteps ==
  ASSUME StegoInv, NEW a \in Adders,
         WritePayload(a) \/ WriteLength(a) \/ WriteMagic(a)
  PROVE  /\ StegoInv'
         /\ pc'[a] = "done" => pc[a] = "write_magic" /\ last'.before = last.before
                               /\ file' = file \o MAGIC
  <1>1. /\ Message(a) \in Seq(Cell) /\ Len(Message(a)) = MsgLen[a]
        /\ Length(MsgLen[a]) \in Seq(Cell) /\ Len(Length(MsgLen[a])) = LEN
        /\ MAGIC \in Seq(Cell) /\ Len(MAGIC) = MAGIC_LEN
        /\ MsgLen[a] \in Nat /\ LEN \in Nat /\ MAGIC_LEN \in Nat
    BY Trailers, StegoAssumption
  <1>2. last \in [adder : SUBSET Adders, before : Seq(Cell)]
        /\ file \in Seq(Cell) /\ picture \in Seq(Cell)
    BY DEF StegoInv, Types
  <1>3. CASE WritePayload(a)
    <2>1. PICK from, to :
             /\ from = "write_payload" /\ to = "write_length"
             /\ Write(a, Message(a), from, to) /\ last' = last
      BY <1>3, Zenon DEF WritePayload
    <2>2. /\ Appended(a, from) = <<>> /\ Appended(a, to) = Message(a)
          /\ <<>> \o Message(a) = Message(a) /\ <<>> \in Seq(Cell)
      BY <1>1, <2>1, ConcatEmptySeq DEF Appended
    <2>3. \A j \in 1 .. Len(Message(a)) : \A n \in Nat, i \in 1 .. LEN :
             Message(a)[j] # <<"length", n, i>>
      BY <1>1 DEF Message
    <2>4. from \in Appending /\ to \in Appending \cap Steps
      BY <2>1 DEF Appending, Steps
    <2>5. StegoInv' /\ (pc'[a] = "done" => to = "done")
      <3>1. Continues(a, Message(a), from, to)
        BY <1>1, <2>1, <2>2, <2>4 DEF Continues
      <3>2. LengthsFit(Message(a))
        BY <2>3 DEF LengthsFit
      <3>3. LastKept
        BY <1>2, <2>1 DEF LastKept
      <3> QED
        BY <1>1, <2>1, <2>4, <3>1, <3>2, <3>3, WriteStep
    <2> QED
      BY <2>1, <2>5
  <1>4. CASE WriteLength(a)
    <2>1. PICK from, to :
             /\ from = "write_length" /\ to = "write_magic"
             /\ Write(a, Length(MsgLen[a]), from, to) /\ last' = last
      BY <1>4, Zenon DEF WriteLength
    <2>2. /\ Appended(a, from) = Message(a)
          /\ Appended(a, to) = Message(a) \o Length(MsgLen[a])
      BY <2>1 DEF Appended
    <2>3. pc[a] = "write_length" /\ a \in Running
      BY <2>1 DEF Write, Go, Running, Final, Procs
    <2>4. Len(file) >= Len(picture) + MsgLen[a]
      <3>1. /\ Len(last.before) >= Len(picture) /\ last.before \in Seq(Cell)
            /\ file = last.before \o Message(a)
        BY <1>2, <2>1, <2>2, <2>3 DEF StegoInv, AddersTrue
      <3>2. Len(file) = Len(last.before) + MsgLen[a]
        <4>1. PICK r, u \in Seq(Cell) : r = last.before /\ u = Message(a)
          BY <1>1, <3>1
        <4>2. Len(r \o u) = Len(r) + Len(u)
          BY ConcatProperties
        <4> QED
          BY <1>1, <3>1, <4>1, <4>2
      <3> QED
        BY <1>1, <1>2, <3>1, <3>2
    <2>5. \A j \in 1 .. Len(Length(MsgLen[a])) : \A n \in Nat, i \in 1 .. LEN :
             Length(MsgLen[a])[j] = <<"length", n, i>>
                => Len(file) + j - i - n >= Len(picture)
      <3> SUFFICES ASSUME NEW j \in 1 .. LEN, NEW n \in Nat, NEW i \in 1 .. LEN,
                          Length(MsgLen[a])[j] = <<"length", n, i>>
                   PROVE  Len(file) + j - i - n >= Len(picture)
        BY <1>1
      <3>1. n = MsgLen[a] /\ i = j
        BY DEF Length
      <3> QED
        BY <1>1, <1>2, <2>4, <3>1
    <2>6. from \in Appending /\ to \in Appending \cap Steps
      BY <2>1 DEF Appending, Steps
    <2>7. StegoInv' /\ (pc'[a] = "done" => to = "done")
      <3>1. Continues(a, Length(MsgLen[a]), from, to)
        BY <1>1, <2>1, <2>2, <2>6 DEF Continues
      <3>2. LengthsFit(Length(MsgLen[a]))
        BY <2>5 DEF LengthsFit
      <3>3. LastKept
        BY <1>2, <2>1 DEF LastKept
      <3> QED
        BY <1>1, <2>1, <2>6, <3>1, <3>2, <3>3, WriteStep
    <2> QED
      BY <2>1, <2>7
  <1>5. CASE WriteMagic(a)
    <2>1. PICK from, to :
             /\ from = "write_magic" /\ to = "done" /\ Write(a, MAGIC, from, to)
      BY <1>5, Zenon DEF WriteMagic
    <2>1a. /\ last'.before = last.before
           /\ last' \in [adder : SUBSET Adders, before : Seq(Cell)]
      BY <1>2, <1>5 DEF WriteMagic
    <2>2. \A j \in 1 .. Len(MAGIC) : \A n \in Nat, i \in 1 .. LEN :
             MAGIC[j] # <<"length", n, i>>
      BY <1>1 DEF MAGIC
    <2>3. from \in Appending /\ to \in Steps
      BY <2>1 DEF Appending, Steps, Final
    <2>4. Continues(a, MAGIC, from, to)
      BY <2>1 DEF Continues
    <2>5. LengthsFit(MAGIC)
      BY <2>2 DEF LengthsFit
    <2>6. LastKept
      BY <2>1a DEF LastKept
    <2>7. /\ StegoInv' /\ pc[a] = from
          /\ pc'[a] = "done" => file' = file \o MAGIC
      BY <1>1, <2>1, <2>3, <2>4, <2>5, <2>6, WriteStep
    <2> QED
      BY <2>1, <2>1a, <2>7
  <1> QED
    BY <1>3, <1>4, <1>5

LEMMA TruncateStep ==
  ASSUME StegoInv, NEW c \in Clearers, Truncate(c)
  PROVE  StegoInv'
  <1> DEFINE cut == Payload(c, len[c])
  <1>1. /\ c \in Running /\ c \in Procs /\ pc[c] = "ftruncate"
        /\ UNCHANGED <<picture, crashed, sz, len, at>>
    BY DEF Truncate, Go, Running, Final, Procs
  <1>2. /\ file \in Seq(Cell) /\ picture \in Seq(Cell) /\ Len(file) \in Nat
        /\ Len(picture) \in Nat /\ sz[c] = Len(file) /\ cut >= Len(picture)
        /\ len[c] \in Nat /\ MAGIC_LEN \in Nat /\ LEN \in Nat
    BY <1>1, StegoAssumption DEF StegoInv, ClearersTrue, Types
  <1>3. cut \in Nat /\ cut <= Len(file) /\ cut >= Len(picture)
    BY <1>2 DEF Payload
  <1>4. /\ pc' = [pc EXCEPT ![c] = "done"]
        /\ file' = [i \in 1 .. cut |-> IF i <= Len(file) THEN file[i] ELSE Zero]
        /\ last' = [last EXCEPT !.adder = {}]
    BY <1>1, <1>2, <1>3 DEF Truncate, Go
  <1> HIDE DEF cut
  <1>5. /\ file' \in Seq(Cell) /\ Len(file') = cut
        /\ \A i \in 1 .. cut : file'[i] = file[i]
    <2>1. \A i \in 1 .. cut : i <= Len(file) /\ file[i] \in Cell
      BY <1>2, <1>3, ElementOfSeq
    <2> QED
      BY SMTT(30), <1>3, <1>4, <2>1
  <1>6. Types'
    BY <1>1, <1>4, <1>5 DEF StegoInv, Types, Steps, Final
  <1>7. OriginalKept'
    BY <1>1, <1>2, <1>3, <1>5 DEF StegoInv, OriginalKept
  <1>8. LengthsTrue'
    <2> SUFFICES ASSUME NEW p \in 1 .. cut, NEW n \in Nat, NEW i \in 1 .. LEN,
                        file'[p] = <<"length", n, i>>
                 PROVE  p - i - n >= Len(picture)
      BY <1>1, <1>5 DEF LengthsTrue
    <2>1. p \in 1 .. Len(file) /\ file[p] = <<"length", n, i>>
      BY <1>2, <1>3, <1>5
    <2> QED
      BY <2>1 DEF StegoInv, LengthsTrue
  <1>9. Running = {c} /\ Running' = {}
    <2>1. Running = {c}
      BY <1>1 DEF StegoInv, Alone
    <2> QED
      BY <1>1, <1>4, <2>1 DEF Running, Final, StegoInv, Types
  <1> QED
    BY <1>6, <1>7, <1>8, <1>9 DEF StegoInv, Alone, AddersTrue, ClearersTrue

LEMMA StegoStep == Orderly /\ StegoInv /\ [Next]_vars => StegoInv'
  <1> SUFFICES ASSUME Orderly, StegoInv, [Next]_vars PROVE StegoInv'
    OBVIOUS
  <1>1. CASE UNCHANGED vars
    BY <1>1 DEF vars, StegoInv, Types, Alone, Running, OriginalKept,
                LengthsTrue, AddersTrue, ClearersTrue, Payload
  <1> QED
    BY <1>1, StartStep, CrashStep, FileSizeStep, ReadMagicStep, ReadLengthStep,
       SeekEndStep, WriteSteps, ReadPayloadStep, FileSizeAgainStep, TruncateStep
       DEF Next, HasTrailer, Add, Clear

-----------------------------------------------------------------------------
(***************************************************************************)
(* What --clear undoes and --read prints.  The signature, the length field *)
(* and the whole trailer at the end of the first pos cells of s.           *)
(***************************************************************************)
MagicAt(s, pos) ==
  /\ pos >= MAGIC_LEN
  /\ \A i \in 1 .. MAGIC_LEN : s[pos - MAGIC_LEN + i] = <<"magic", i>>

LengthAt(s, pos, n) ==
  /\ pos >= MAGIC_LEN + LEN
  /\ \A i \in 1 .. LEN : s[pos - MAGIC_LEN - LEN + i] = <<"length", n, i>>

TrailerAt(s, pos, n) ==
  pos - MAGIC_LEN - LEN - n >= 2 /\ MagicAt(s, pos) /\ LengthAt(s, pos, n)

FitsAt(s, pos) == \E n \in Nat : TrailerAt(s, pos, n)

\* The file ends with the trailer that was added last, or with no signature
\* since then; what that trailer was added to had none that fits.
LastTrue ==
  /\ \/ last.adder = {} /\ (file = last.before \/ ~ MagicAt(file, Len(file)))
     \/ \E a \in Adders : last.adder = {a} /\ file = last.before \o Trailer(a)
  /\ ~ FitsAt(last.before, Len(last.before))

\* What a run has found out is still so, or it has looked at a file that was
\* shorter and had no trailer there.
RunTrue(x) ==
  /\ pc[x] \in {"tail", "lenbuf"} =>
       /\ sz[x] >= MAGIC_LEN + LEN /\ sz[x] <= Len(file)
       /\ sz[x] = Len(file) \/ (x \notin Adders /\ ~ FitsAt(file, sz[x]))
  /\ pc[x] = "lenbuf" => MagicAt(file, sz[x])
  /\ pc[x] = "lseek" => ~ FitsAt(file, Len(file))
  /\ pc[x] \in Appending => last.adder = {}
  /\ pc[x] = "pread" => x \in Readers /\ sz[x] = Len(file)
  /\ pc[x] \in {"refstat", "ftruncate"} => x \in Clearers
  /\ pc[x] \in {"pread", "refstat", "ftruncate"} =>
       TrailerAt(file, Len(file), len[x])
  /\ pc[x] \in Appending \cup {"lseek"} => x \in Adders

TrailerInv == LastTrue /\ \A x \in Running : RunTrue(x)

LEMMA Widths == LEN \in Nat \ {0} /\ MAGIC_LEN \in Nat \ {0}
  BY StegoAssumption

\* Cells(pos, n) are the cells of s if they are one by one.
LEMMA CellsAre ==
  ASSUME file \in Seq(Cell), NEW pos \in Nat, NEW n \in Nat,
         pos + n <= Len(file), NEW s \in Seq(Cell), Len(s) = n
  PROVE  /\ Cells(pos, n) = s <=> \A i \in 1 .. n : file[pos + i] = s[i]
         /\ Len(Cells(pos, n)) = n
  <1> DEFINE t == SubSeq(file, pos + 1, pos + n)
  <1>1. Cells(pos, n) = t
    BY DEF Cells
  <1>2. \A i \in pos + 1 .. pos + n : file[i] \in Cell
    BY ElementOfSeq
  <1>3. /\ t \in Seq(Cell)
        /\ Len(t) = IF pos + 1 <= pos + n THEN (pos + n) - (pos + 1) + 1 ELSE 0
        /\ \A i \in 1 .. (pos + n) - (pos + 1) + 1 : t[i] = file[(pos + 1) + i - 1]
    <2> HIDE DEF t
    <2>1. pos + 1 \in Int /\ pos + n \in Int
      OBVIOUS
    <2> QED
      BY <1>2, <2>1, SubSeqProperties DEF t
  <1> HIDE DEF t
  <1>4. Len(t) = n /\ \A i \in 1 .. n : t[i] = file[pos + i]
    <2>1. (pos + n) - (pos + 1) + 1 = n
          /\ \A i \in 1 .. n : (pos + 1) + i - 1 = pos + i
      OBVIOUS
    <2>2. (pos + 1 <= pos + n) <=> n # 0
      OBVIOUS
    <2> QED
      BY <1>3, <2>1, <2>2
  <1>5. ASSUME \A i \in 1 .. n : file[pos + i] = s[i]
        PROVE  t = s
    BY <1>3, <1>4, <1>5, SeqEqual
  <1>6. t = s => \A i \in 1 .. n : file[pos + i] = s[i]
    BY <1>4
  <1> QED
    BY <1>1, <1>4, <1>5, <1>6

LEMMA MagicSeen ==
  ASSUME file \in Seq(Cell), NEW pos \in Nat, pos >= MAGIC_LEN, pos <= Len(file)
  PROVE  Cells(pos - MAGIC_LEN, MAGIC_LEN) = MAGIC <=> MagicAt(file, pos)
  <1>1. /\ MAGIC \in Seq(Cell) /\ Len(MAGIC) = MAGIC_LEN
        /\ \A i \in 1 .. MAGIC_LEN : MAGIC[i] = <<"magic", i>>
    <2>1. \A i \in 1 .. MAGIC_LEN : <<"magic", i>> \in Cell
      BY Widths DEF Cell
    <2> QED
      BY <2>1, Widths DEF MAGIC
  <1>2. pos - MAGIC_LEN \in Nat /\ (pos - MAGIC_LEN) + MAGIC_LEN <= Len(file)
    BY Widths
  <1>3. Cells(pos - MAGIC_LEN, MAGIC_LEN) = MAGIC
          <=> \A i \in 1 .. MAGIC_LEN : file[(pos - MAGIC_LEN) + i] = MAGIC[i]
    <2>1. PICK p \in Nat : p = pos - MAGIC_LEN
      BY <1>2
    <2>2. PICK s \in Seq(Cell) : s = MAGIC
      BY <1>1
    <2>3. p + MAGIC_LEN <= Len(file) /\ Len(s) = MAGIC_LEN /\ MAGIC_LEN \in Nat
      BY <1>1, <1>2, <2>1, <2>2, Widths
    <2>4. Cells(p, MAGIC_LEN) = s <=> \A i \in 1 .. MAGIC_LEN : file[p + i] = s[i]
      BY ZenonT(60), <2>3, CellsAre
    <2> QED
      BY <2>1, <2>2, <2>4
  <1> QED
    BY <1>1, <1>3 DEF MagicAt

LEMMA LengthIsSeen ==
  ASSUME file \in Seq(Cell), NEW pos \in Nat, pos >= MAGIC_LEN + LEN,
         pos <= Len(file), NEW n \in Nat
  PROVE  Cells(pos - MAGIC_LEN - LEN, LEN) = Length(n) <=> LengthAt(file, pos, n)
  <1>1. /\ Length(n) \in Seq(Cell) /\ Len(Length(n)) = LEN
        /\ \A i \in 1 .. LEN : Length(n)[i] = <<"length", n, i>>
    <2>1. \A i \in 1 .. LEN : <<"length", n, i>> \in Cell
      BY Widths DEF Cell
    <2> QED
      BY <2>1, Widths DEF Length
  <1>2. /\ pos - MAGIC_LEN - LEN \in Nat
        /\ (pos - MAGIC_LEN - LEN) + LEN <= Len(file)
    BY Widths
  <1>3. Cells(pos - MAGIC_LEN - LEN, LEN) = Length(n)
          <=> \A i \in 1 .. LEN : file[(pos - MAGIC_LEN - LEN) + i] = Length(n)[i]
    <2>1. PICK p \in Nat : p = pos - MAGIC_LEN - LEN
      BY <1>2
    <2>2. PICK s \in Seq(Cell) : s = Length(n)
      BY <1>1
    <2>3. p + LEN <= Len(file) /\ Len(s) = LEN /\ LEN \in Nat
      BY <1>1, <1>2, <2>1, <2>2, Widths
    <2>4. Cells(p, LEN) = s <=> \A i \in 1 .. LEN : file[p + i] = s[i]
      BY <2>3, CellsAre
    <2> QED
      BY <2>1, <2>2, <2>4
  <1> QED
    BY <1>1, <1>3 DEF LengthAt

\* A trailer in cells that do not change stays, and no other appears there.
LEMMA SamePrefix ==
  ASSUME NEW s, NEW t, NEW pos \in Nat, \A i \in 1 .. pos : s[i] = t[i]
  PROVE  /\ MagicAt(s, pos) <=> MagicAt(t, pos)
         /\ \A n \in Nat : TrailerAt(s, pos, n) <=> TrailerAt(t, pos, n)
         /\ FitsAt(s, pos) <=> FitsAt(t, pos)
  <1>1. pos >= MAGIC_LEN => \A i \in 1 .. MAGIC_LEN : pos - MAGIC_LEN + i \in 1 .. pos
    BY Widths
  <1>2. pos >= MAGIC_LEN + LEN =>
          \A i \in 1 .. LEN : pos - MAGIC_LEN - LEN + i \in 1 .. pos
    BY Widths
  <1>3. MagicAt(s, pos) <=> MagicAt(t, pos)
    BY <1>1 DEF MagicAt
  <1>4. \A n \in Nat : LengthAt(s, pos, n) <=> LengthAt(t, pos, n)
    BY <1>2 DEF LengthAt
  <1>5. \A n \in Nat : TrailerAt(s, pos, n) <=> TrailerAt(t, pos, n)
    BY <1>3, <1>4 DEF TrailerAt
  <1> QED
    BY <1>3, <1>5 DEF FitsAt

LEMMA Joined ==
  ASSUME NEW r \in Seq(Cell), NEW t \in Seq(Cell)
  PROVE  /\ r \o t \in Seq(Cell) /\ Len(r \o t) = Len(r) + Len(t)
         /\ \A i \in 1 .. Len(r) : (r \o t)[i] = r[i]
         /\ \A i \in 1 .. Len(t) : (r \o t)[Len(r) + i] = t[i]
  <1>1. /\ r \o t \in Seq(Cell) /\ Len(r \o t) = Len(r) + Len(t)
        /\ \A i \in 1 .. Len(r) + Len(t) :
             (r \o t)[i] = IF i <= Len(r) THEN r[i] ELSE t[i - Len(r)]
    BY ConcatProperties
  <1>2. Len(r) \in Nat /\ Len(t) \in Nat
    OBVIOUS
  <1>3. ASSUME NEW i \in 1 .. Len(r)
        PROVE  (r \o t)[i] = r[i]
    <2>1. i \in 1 .. Len(r) + Len(t) /\ i <= Len(r)
      BY <1>2
    <2> QED
      BY <1>1, <2>1
  <1>4. ASSUME NEW i \in 1 .. Len(t)
        PROVE  (r \o t)[Len(r) + i] = t[i]
    <2>1. /\ Len(r) + i \in 1 .. Len(r) + Len(t)
          /\ ~ (Len(r) + i <= Len(r)) /\ (Len(r) + i) - Len(r) = i
      BY <1>2
    <2> QED
      BY <1>1, <2>1
  <1> QED
    BY <1>1, <1>3, <1>4

\* The end of a file to which a trailer was added.
LEMMA TrailerEnds ==
  ASSUME NEW b \in Seq(Cell), NEW a \in Adders,
         NEW s \in Seq(Cell), s = b \o Trailer(a)
  PROVE  /\ MsgLen[a] \in Nat
         /\ Len(s) = Len(b) + MsgLen[a] + LEN + MAGIC_LEN
         /\ \A i \in 1 .. Len(b) : s[i] = b[i]
         /\ \A i \in 1 .. MsgLen[a] : s[Len(b) + i] = Message(a)[i]
         /\ MagicAt(s, Len(s)) /\ LengthAt(s, Len(s), MsgLen[a])
         /\ \A n \in Nat : LengthAt(s, Len(s), n) => n = MsgLen[a]
  <1>1. /\ Message(a) \in Seq(Cell) /\ Len(Message(a)) = MsgLen[a]
        /\ Length(MsgLen[a]) \in Seq(Cell) /\ Len(Length(MsgLen[a])) = LEN
        /\ MAGIC \in Seq(Cell) /\ Len(MAGIC) = MAGIC_LEN
        /\ MsgLen[a] \in Nat
    BY Trailers
  <1>2. /\ \A i \in 1 .. LEN : Length(MsgLen[a])[i] = <<"length", MsgLen[a], i>>
        /\ \A i \in 1 .. MAGIC_LEN : MAGIC[i] = <<"magic", i>>
    BY DEF Length, MAGIC
  <1>3. Len(b) \in Nat /\ LEN \in Nat \ {0} /\ MAGIC_LEN \in Nat \ {0}
    BY Widths
  <1>4. PICK n : n = MsgLen[a]
    OBVIOUS
  <1>5. PICK m : m = Message(a)
    OBVIOUS
  <1>6. PICK l : l = Length(n)
    OBVIOUS
  <1>7. PICK ml : ml = m \o l
    OBVIOUS
  <1>8. PICK t : t = ml \o MAGIC
    OBVIOUS
  <1>9. s = b \o t
    BY <1>4, <1>5, <1>6, <1>7, <1>8 DEF Trailer
  <1>10. /\ ml \in Seq(Cell) /\ Len(ml) = n + LEN /\ n \in Nat
         /\ \A i \in 1 .. n : ml[i] = m[i]
         /\ \A i \in 1 .. LEN : ml[n + i] = l[i]
    <2>1. m \in Seq(Cell) /\ Len(m) = n /\ l \in Seq(Cell) /\ Len(l) = LEN
      BY <1>1, <1>4, <1>5, <1>6
    <2>2. /\ m \o l \in Seq(Cell) /\ Len(m \o l) = Len(m) + Len(l)
          /\ \A i \in 1 .. Len(m) : (m \o l)[i] = m[i]
          /\ \A i \in 1 .. Len(l) : (m \o l)[Len(m) + i] = l[i]
      BY <2>1, Joined, Zenon
    <2>3. n \in Nat
      BY <1>1, <1>4
    <2> QED
      BY <1>7, <2>1, <2>2, <2>3
  <1>11. /\ t \in Seq(Cell) /\ Len(t) = n + LEN + MAGIC_LEN
         /\ \A i \in 1 .. n + LEN : t[i] = ml[i]
         /\ \A i \in 1 .. MAGIC_LEN : t[n + LEN + i] = MAGIC[i]
    <2>1. /\ ml \o MAGIC \in Seq(Cell) /\ Len(ml \o MAGIC) = Len(ml) + Len(MAGIC)
          /\ \A i \in 1 .. Len(ml) : (ml \o MAGIC)[i] = ml[i]
          /\ \A i \in 1 .. Len(MAGIC) : (ml \o MAGIC)[Len(ml) + i] = MAGIC[i]
      BY <1>1, <1>10, Joined, Zenon
    <2> QED
      BY <1>1, <1>8, <1>10, <2>1
  <1>12. /\ s \in Seq(Cell) /\ Len(s) = Len(b) + Len(t)
         /\ \A i \in 1 .. Len(b) : s[i] = b[i]
         /\ \A i \in 1 .. Len(t) : s[Len(b) + i] = t[i]
    <2>1. /\ b \o t \in Seq(Cell) /\ Len(b \o t) = Len(b) + Len(t)
          /\ \A i \in 1 .. Len(b) : (b \o t)[i] = b[i]
          /\ \A i \in 1 .. Len(t) : (b \o t)[Len(b) + i] = t[i]
      BY <1>11, Joined, Zenon
    <2> QED
      BY <1>9, <2>1
  <1>13. /\ Len(s) = Len(b) + n + LEN + MAGIC_LEN
         /\ Len(s) >= MAGIC_LEN + LEN
         /\ Len(s) - MAGIC_LEN = Len(b) + (n + LEN)
         /\ Len(s) - MAGIC_LEN - LEN = Len(b) + n
    <2>1. Len(s) = Len(b) + Len(t) /\ Len(t) = n + LEN + MAGIC_LEN /\ n \in Nat
      BY <1>10, <1>11, <1>12
    <2> QED
      BY <1>3, <2>1
  <1>14. \A i \in 1 .. n : s[Len(b) + i] = m[i]
    <2>1. \A i \in 1 .. n : i \in 1 .. n + LEN /\ i \in 1 .. n + LEN + MAGIC_LEN
      BY <1>3, <1>10
    <2> QED
      BY <1>10, <1>11, <1>12, <2>1
  <1>15. \A i \in 1 .. LEN : s[Len(b) + n + i] = <<"length", n, i>>
    <2> TAKE i \in 1 .. LEN
    <2>1. /\ n + i \in 1 .. n + LEN /\ n + i \in 1 .. n + LEN + MAGIC_LEN
          /\ Len(b) + n + i = Len(b) + (n + i)
      BY <1>3, <1>10
    <2>2. s[Len(b) + (n + i)] = l[i]
      BY <1>10, <1>11, <1>12, <2>1
    <2> QED
      BY <1>2, <1>4, <1>6, <2>1, <2>2
  <1>16. \A i \in 1 .. MAGIC_LEN : s[Len(b) + (n + LEN) + i] = <<"magic", i>>
    <2> TAKE i \in 1 .. MAGIC_LEN
    <2>1. /\ n + LEN + i \in 1 .. n + LEN + MAGIC_LEN
          /\ Len(b) + (n + LEN) + i = Len(b) + (n + LEN + i)
      BY <1>3, <1>10
    <2>2. s[Len(b) + (n + LEN + i)] = MAGIC[i]
      BY <1>11, <1>12, <2>1
    <2> QED
      BY <1>2, <2>1, <2>2
  <1>17. MagicAt(s, Len(s))
    <2>1. Len(s) >= MAGIC_LEN
      BY <1>3, <1>13
    <2>2. \A i \in 1 .. MAGIC_LEN : s[Len(s) - MAGIC_LEN + i] = <<"magic", i>>
      BY <1>13, <1>16
    <2> QED
      BY <2>1, <2>2 DEF MagicAt
  <1>18. \A i \in 1 .. LEN :
            s[Len(s) - MAGIC_LEN - LEN + i] = <<"length", n, i>>
    BY <1>13, <1>15
  <1>19. LengthAt(s, Len(s), n)
    BY <1>13, <1>18 DEF LengthAt
  <1>20. ASSUME NEW k \in Nat, LengthAt(s, Len(s), k)
         PROVE  k = n
    <2>1. 1 \in 1 .. LEN
      BY <1>3
    <2>2. s[Len(s) - MAGIC_LEN - LEN + 1] = <<"length", k, 1>>
      BY <1>20, <2>1 DEF LengthAt
    <2>3. s[Len(s) - MAGIC_LEN - LEN + 1] = <<"length", n, 1>>
      BY <1>18, <2>1
    <2>4. <<"length", k, 1>> = <<"length", n, 1>>
      BY <2>2, <2>3
    <2> QED
      BY <2>4
  <1> QED
    BY <1>4, <1>5, <1>10, <1>12, <1>13, <1>14, <1>17, <1>19, <1>20

\* A trailer that fits at the end of the file is the one that was added last.
LEMMA TrailerIsLast ==
  ASSUME StegoInv, LastTrue, NEW n \in Nat, TrailerAt(file, Len(file), n)
  PROVE  \E a \in Adders :
           /\ last.adder = {a} /\ file = last.before \o Trailer(a)
           /\ n = MsgLen[a] /\ Len(file) = Len(last.before) + n + LEN + MAGIC_LEN
  <1>1. FitsAt(file, Len(file)) /\ MagicAt(file, Len(file))
        /\ LengthAt(file, Len(file), n)
    BY DEF FitsAt, TrailerAt
  <1>2. PICK a \in Adders :
           last.adder = {a} /\ file = last.before \o Trailer(a)
    BY <1>1 DEF LastTrue
  <1>3. last.before \in Seq(Cell) /\ file \in Seq(Cell)
    BY DEF StegoInv, Types
  <1>4. /\ Len(file) = Len(last.before) + MsgLen[a] + LEN + MAGIC_LEN
        /\ \A k \in Nat : LengthAt(file, Len(file), k) => k = MsgLen[a]
    <2>1. file = last.before \o Trailer(a)
      BY <1>2
    <2>2. PICK b \in Seq(Cell), s \in Seq(Cell) : b = last.before /\ s = file
      BY <1>3
    <2>3. /\ Len(s) = Len(b) + MsgLen[a] + LEN + MAGIC_LEN
          /\ \A k \in Nat : LengthAt(s, Len(s), k) => k = MsgLen[a]
      BY <2>1, <2>2, TrailerEnds, ZenonT(60)
    <2> QED
      BY <2>2, <2>3
  <1> QED
    BY <1>1, <1>2, <1>4

\* Between two trailers there is none that fits.
LEMMA NoTrailerBetween ==
  ASSUME LastTrue, last.adder = {}
  PROVE  ~ FitsAt(file, Len(file))
  BY DEF LastTrue, FitsAt, TrailerAt

\* A step of x that leaves the file alone, and the history of it.
LEMMA QuietTrailer ==
  ASSUME TrailerInv, NEW x \in Procs, UNCHANGED <<file, last>>,
         Running' \subseteq Running \cup {x},
         \A y \in Procs : y # x =>
            pc'[y] = pc[y] /\ sz'[y] = sz[y] /\ len'[y] = len[y],
         x \in Running' => RunTrue(x)'
  PROVE  TrailerInv'
  <1>1. LastTrue'
    BY DEF TrailerInv, LastTrue
  <1>2. ASSUME NEW y \in Running'
        PROVE  RunTrue(y)'
    <2>1. CASE y = x
      BY <2>1
    <2>2. CASE y # x
      <3>1. y \in Running /\ y \in Procs /\ RunTrue(y)
        BY <2>2 DEF TrailerInv, Running
      <3>2. pc'[y] = pc[y] /\ sz'[y] = sz[y] /\ len'[y] = len[y]
        BY <2>2, <3>1
      <3> QED
        BY <3>1, <3>2 DEF RunTrue
    <2> QED
      BY <2>1, <2>2
  <1> QED
    BY <1>1, <1>2 DEF TrailerInv

LEMMA TrailerStart ==
  ASSUME StegoInv, TrailerInv, NEW x \in Procs, Start(x)
  PROVE  TrailerInv'
  <1>1. /\ UNCHANGED <<file, crashed, sz, len, last>>
        /\ \A y \in Procs : pc'[y] = IF y = x THEN "fstat" ELSE pc[y]
    BY DEF Start, StegoInv, Types
  <1>2. Running' \subseteq Running \cup {x}
    BY <1>1 DEF Running
  <1>3. RunTrue(x)'
    BY <1>1 DEF RunTrue, Appending
  <1> QED
    BY <1>1, <1>2, <1>3, QuietTrailer

LEMMA TrailerCrash ==
  ASSUME StegoInv, TrailerInv, NEW x \in Procs, Crash(x)
  PROVE  TrailerInv'
  <1>1. UNCHANGED <<file, pc, sz, len, last>> /\ Running' \subseteq Running \ {x}
    BY DEF Crash, Running
  <1> QED
    BY <1>1, QuietTrailer

\* What a call of x that has its result in `to` leaves alone.
LEMMA Goes ==
  ASSUME StegoInv, NEW x \in Procs, NEW from, NEW to, Go(x, from, to),
         from \notin Final \cup {"off"}
  PROVE  /\ pc[x] = from /\ x \in Running /\ pc'[x] = to
         /\ Running' \subseteq Running /\ UNCHANGED crashed
         /\ x \in Running' => to \notin Final
         /\ \A y \in Procs : y # x => pc'[y] = pc[y]
  BY DEF Go, Running, Final, StegoInv, Types

LEMMA TrailerFileSize ==
  ASSUME StegoInv, TrailerInv, NEW x \in Procs, FileSize(x)
  PROVE  TrailerInv'
  <1>1. PICK to : /\ to = IF Len(file) < MAGIC_LEN + LEN THEN NotFound(x)
                                                         ELSE "tail"
                  /\ Go(x, "fstat", to)
    BY DEF FileSize
  <1>2. /\ UNCHANGED <<file, len, last>> /\ sz' = [sz EXCEPT ![x] = Len(file)]
        /\ sz'[x] = Len(file) /\ Len(file) \in Nat
        /\ \A y \in Procs : y # x => sz'[y] = sz[y]
    BY DEF FileSize, StegoInv, Types
  <1>3. /\ pc'[x] = to /\ Running' \subseteq Running
        /\ x \in Running' => to \notin Final
        /\ \A y \in Procs : y # x => pc'[y] = pc[y]
    <2>1. "fstat" \notin Final \cup {"off"}
      BY DEF Final
    <2> QED
      BY <1>1, <2>1, Goes
  <1>4. ASSUME x \in Running' PROVE RunTrue(x)'
    <2>1. CASE Len(file) < MAGIC_LEN + LEN
      <3>1. to = "lseek" /\ x \in Adders
        BY <1>1, <1>3, <1>4, <2>1 DEF NotFound, Final
      <3>2. ~ FitsAt(file, Len(file))
        BY <1>2, <2>1, Widths DEF FitsAt, TrailerAt, LengthAt
      <3> QED
        BY <1>2, <1>3, <3>1, <3>2 DEF RunTrue, Appending
    <2>2. CASE ~ (Len(file) < MAGIC_LEN + LEN)
      <3>1. to = "tail" /\ Len(file) >= MAGIC_LEN + LEN
        BY <1>1, <1>2, <2>2, Widths
      <3> QED
        BY <1>2, <1>3, <3>1 DEF RunTrue, Appending
    <2> QED
      BY <2>1, <2>2
  <1> QED
    BY <1>2, <1>3, <1>4, QuietTrailer

LEMMA TrailerReadMagic ==
  ASSUME StegoInv, TrailerInv, NEW x \in Procs, ReadMagic(x)
  PROVE  TrailerInv'
  <1>1. PICK to : /\ to = IF Cells(sz[x] - MAGIC_LEN, MAGIC_LEN) = MAGIC
                          THEN "lenbuf" ELSE NotFound(x)
                  /\ Go(x, "tail", to)
    BY DEF ReadMagic
  <1>2. UNCHANGED <<file, sz, len, last>> /\ Len(file) \in Nat /\ sz[x] \in Nat
    BY DEF ReadMagic, StegoInv, Types
  <1>3. /\ pc[x] = "tail" /\ x \in Running
        /\ pc'[x] = to /\ Running' \subseteq Running
        /\ x \in Running' => to \notin Final
        /\ \A y \in Procs : y # x => pc'[y] = pc[y]
    <2>1. "tail" \notin Final \cup {"off"}
      BY DEF Final
    <2> QED
      BY <1>1, <2>1, Goes
  <1>4. /\ sz[x] >= MAGIC_LEN + LEN /\ sz[x] <= Len(file)
        /\ sz[x] = Len(file) \/ (x \notin Adders /\ ~ FitsAt(file, sz[x]))
    BY <1>3 DEF TrailerInv, RunTrue
  <1>5. Cells(sz[x] - MAGIC_LEN, MAGIC_LEN) = MAGIC <=> MagicAt(file, sz[x])
    <2>1. sz[x] >= MAGIC_LEN /\ file \in Seq(Cell)
      BY <1>2, <1>4, Widths DEF StegoInv, Types
    <2> QED
      BY <1>2, <1>4, <2>1, MagicSeen
  <1>6. ASSUME x \in Running' PROVE RunTrue(x)'
    <2>1. CASE MagicAt(file, sz[x])
      BY <1>1, <1>2, <1>3, <1>4, <1>5, <2>1 DEF RunTrue, Appending
    <2>2. CASE ~ MagicAt(file, sz[x])
      <3>1. to = "lseek" /\ x \in Adders
        BY <1>1, <1>3, <1>5, <1>6, <2>2 DEF NotFound, Final
      <3>2. ~ FitsAt(file, Len(file))
        BY <1>4, <2>2, <3>1 DEF FitsAt, TrailerAt
      <3> QED
        BY <1>2, <1>3, <3>1, <3>2 DEF RunTrue, Appending
    <2> QED
      BY <2>1, <2>2
  <1> QED
    BY <1>2, <1>3, <1>6, QuietTrailer

\* A length that x reads from where it has seen a signature is one that fits.
LEMMA FitsSeen ==
  ASSUME StegoInv, NEW x \in Procs, sz[x] >= MAGIC_LEN + LEN,
         sz[x] <= Len(file), MagicAt(file, sz[x]), NEW n \in Nat
  PROVE  n \in Lengths(x) /\ Payload(x, n) >= 2 <=> TrailerAt(file, sz[x], n)
  <1>1. sz[x] \in Nat /\ file \in Seq(Cell) /\ Len(file) \in Nat
    BY DEF StegoInv, Types
  <1>2. Cells(sz[x] - MAGIC_LEN - LEN, LEN) = Length(n) <=> LengthAt(file, sz[x], n)
    BY <1>1, LengthIsSeen
  <1>3. Payload(x, n) = sz[x] - MAGIC_LEN - LEN - n
    BY DEF Payload
  <1>4. Payload(x, n) >= 2 => n \in 0 .. sz[x]
    BY <1>1, <1>3, Widths
  <1> QED
    BY <1>2, <1>3, <1>4 DEF Lengths, TrailerAt

LEMMA TrailerReadLength ==
  ASSUME StegoInv, TrailerInv, NEW x \in Procs, ReadLength(x)
  PROVE  TrailerInv'
  <1>1. PICK to : Go(x, "lenbuf", to)
    BY DEF ReadLength
  <1>2. /\ UNCHANGED <<file, sz, last>> /\ Len(file) \in Nat /\ sz[x] \in Nat
        /\ \A n \in Lengths(x) : n \in Nat
    BY DEF ReadLength, StegoInv, Types, Lengths
  <1>3. /\ pc[x] = "lenbuf" /\ x \in Running
        /\ pc'[x] = to /\ Running' \subseteq Running
        /\ x \in Running' => to \notin Final
        /\ \A y \in Procs : y # x => pc'[y] = pc[y]
    <2>1. "lenbuf" \notin Final \cup {"off"}
      BY DEF Final
    <2> QED
      BY <1>1, <2>1, Goes
  <1>4. /\ sz[x] >= MAGIC_LEN + LEN /\ sz[x] <= Len(file)
        /\ sz[x] = Len(file) \/ (x \notin Adders /\ ~ FitsAt(file, sz[x]))
        /\ MagicAt(file, sz[x])
    BY <1>3 DEF TrailerInv, RunTrue
  <1>5. \A n \in Nat : n \in Lengths(x) /\ Payload(x, n) >= 2
                         <=> TrailerAt(file, sz[x], n)
    BY <1>4, FitsSeen
  <1>6. CASE \E n \in Lengths(x) : /\ Payload(x, n) >= 2
                                   /\ Go(x, "lenbuf", Found(x))
                                   /\ len' = [len EXCEPT ![x] = n]
    <2>1. PICK n \in Lengths(x) : /\ Payload(x, n) >= 2
                                  /\ Go(x, "lenbuf", Found(x))
                                  /\ len' = [len EXCEPT ![x] = n]
      BY <1>6
    <2>2. to = Found(x)
      BY <1>1, <2>1, <1>3 DEF Go, StegoInv, Types
    <2>3. /\ len'[x] = n /\ \A y \in Procs : y # x => len'[y] = len[y]
      BY <2>1 DEF StegoInv, Types
    <2>4. TrailerAt(file, sz[x], n) /\ n \in Nat
      BY <1>2, <1>5, <2>1
    <2>5. sz[x] = Len(file)
      BY <1>4, <2>4 DEF FitsAt
    <2>6. ASSUME x \in Running' PROVE RunTrue(x)'
      <3>1. \/ x \in Readers /\ to = "pread"
            \/ x \in Clearers /\ to = "refstat"
        BY <1>3, <2>2, <2>6 DEF Found, Final, Procs
      <3> QED
        BY <1>2, <1>3, <2>3, <2>4, <2>5, <3>1 DEF RunTrue, Appending
    <2> QED
      BY <1>2, <1>3, <2>3, <2>6, QuietTrailer
  <1>7. CASE /\ \A n \in Lengths(x) : ~ Payload(x, n) >= 2
             /\ Go(x, "lenbuf", NotFound(x)) /\ UNCHANGED len
    <2>1. to = NotFound(x)
      BY <1>1, <1>7, <1>3 DEF Go, StegoInv, Types
    <2>2. ASSUME x \in Running' PROVE RunTrue(x)'
      <3>1. x \in Adders /\ to = "lseek"
        BY <1>3, <2>1, <2>2 DEF NotFound, Final
      <3>2. ~ FitsAt(file, Len(file))
        BY <1>4, <1>5, <1>7, <3>1 DEF FitsAt
      <3> QED
        BY <1>2, <1>3, <3>1, <3>2 DEF RunTrue, Appending
    <2> QED
      BY <1>2, <1>3, <1>7, <2>2, QuietTrailer
  <1> QED
    BY <1>6, <1>7 DEF ReadLength

LEMMA TrailerReadPayload ==
  ASSUME StegoInv, TrailerInv, NEW r \in Readers, ReadPayload(r)
  PROVE  TrailerInv'
  <1>1. PICK to \in Final : Go(r, "pread", to)
    BY DEF ReadPayload, Final
  <1>2. UNCHANGED <<file, sz, len, last>> /\ r \in Procs
    BY DEF ReadPayload, Procs
  <1>3. /\ Running' \subseteq Running /\ r \notin Running'
        /\ \A y \in Procs : y # r => pc'[y] = pc[y]
    <2>1. "pread" \notin Final \cup {"off"}
      BY DEF Final
    <2> QED
      BY <1>1, <1>2, <2>1, Goes
  <1> QED
    BY <1>2, <1>3, QuietTrailer

LEMMA TrailerFileSizeAgain ==
  ASSUME StegoInv, TrailerInv, NEW c \in Clearers, FileSizeAgain(c)
  PROVE  TrailerInv'
  <1>1. /\ UNCHANGED <<file, len, last>> /\ sz' = [sz EXCEPT ![c] = Len(file)]
        /\ c \in Procs /\ \A y \in Procs : y # c => sz'[y] = sz[y]
    BY DEF FileSizeAgain, StegoInv, Types, Procs
  <1>2. /\ pc[c] = "refstat" /\ c \in Running /\ pc'[c] = "ftruncate"
        /\ Running' \subseteq Running
        /\ \A y \in Procs : y # c => pc'[y] = pc[y]
    <2>1. "refstat" \notin Final \cup {"off"} /\ Go(c, "refstat", "ftruncate")
      BY DEF Final, FileSizeAgain
    <2> QED
      BY <1>1, <2>1, Goes
  <1>3. TrailerAt(file, Len(file), len[c])
    BY <1>2 DEF TrailerInv, RunTrue
  <1>4. RunTrue(c)'
    BY <1>1, <1>2, <1>3 DEF RunTrue, Appending
  <1> QED
    BY <1>1, <1>2, <1>4, QuietTrailer

\* From here a failed --add is in the history by the file it leaves.
LEMMA TrailerSeekEnd ==
  ASSUME StegoInv, TrailerInv, NEW a \in Adders, SeekEnd(a)
  PROVE  TrailerInv'
  <1>1. /\ UNCHANGED <<file, sz, len>> /\ last' = [adder |-> {}, before |-> file]
        /\ a \in Procs
    BY DEF SeekEnd, Procs
  <1>2. /\ pc[a] = "lseek" /\ a \in Running /\ pc'[a] = "write_payload"
        /\ Running' \subseteq Running
        /\ \A y \in Procs : y # a => pc'[y] = pc[y]
    <2>1. "lseek" \notin Final \cup {"off"} /\ Go(a, "lseek", "write_payload")
      BY DEF Final, SeekEnd
    <2> QED
      BY <1>1, <2>1, Goes
  <1>3. ~ FitsAt(file, Len(file))
    BY <1>2 DEF TrailerInv, RunTrue
  <1>4. LastTrue'
    BY <1>1, <1>3 DEF LastTrue
  <1>5. ASSUME NEW y \in Running'
        PROVE  RunTrue(y)'
    <2>1. CASE y = a
      BY <1>1, <1>2, <2>1 DEF RunTrue, Appending
    <2>2. CASE y # a
      <3>1. y \in Running /\ y \in Procs /\ pc'[y] = pc[y] /\ RunTrue(y)
        BY <1>2, <2>2 DEF TrailerInv, Running
      <3>2. y \notin Adders
        BY <1>2, <2>2, <3>1, OnlyWriter
      <3> QED
        BY <1>1, <3>1, <3>2 DEF RunTrue
    <2> QED
      BY <2>1, <2>2
  <1> QED
    BY <1>4, <1>5 DEF TrailerInv

\* What a write of the appending run does to the file.
LEMMA Wrote ==
  ASSUME StegoInv, NEW a \in Adders, NEW s \in Seq(Cell), NEW from \in Appending,
         NEW to \in Steps, Write(a, s, from, to)
  PROVE  \E k \in 0 .. Len(s), t \in Seq(Cell) :
           /\ Go(a, from, IF k = Len(s) THEN to ELSE "failed")
           /\ file' = file \o t /\ Len(t) = k /\ UNCHANGED <<sz, len>>
           /\ k > 0 => t[k] = s[k]
  <1>1. Len(s) \in Nat /\ file \in Seq(Cell) /\ a \in Procs
    BY DEF StegoInv, Types, Procs
  <1>2. PICK k \in IF WritesMayFail THEN 0 .. Len(s) ELSE {Len(s)} :
           /\ Go(a, from, IF k = Len(s) THEN to ELSE "failed")
           /\ file' = Written(at[a], SubSeq(s, 1, k))
           /\ at' = [at EXCEPT ![a] = @ + k]
           /\ UNCHANGED <<sz, len>>
    BY Zenon DEF Write
  <1>3. k \in 0 .. Len(s)
    BY <1>1
  <1>4. at[a] = Len(file)
    <2>1. a \in Running /\ pc[a] = from
      BY <1>1, <1>2 DEF Go, Running, Final, Appending
    <2> QED
      BY <2>1 DEF StegoInv, AddersTrue, Appending
  <1> DEFINE t == SubSeq(s, 1, k)
  <1>5. /\ t \in Seq(Cell) /\ Len(t) = k
        /\ Written(Len(file), t) = file \o t
    BY <1>1, <1>3, WrittenAtEnd
  <1>6. k > 0 => t[k] = s[k]
    <2>1. \A i \in 1 .. k : s[i] \in Cell
      BY <1>1, <1>3, ElementOfSeq
    <2>2. \A i \in 1 .. k - 1 + 1 : t[i] = s[1 + i - 1]
      BY <1>3, <2>1, SubSeqProperties
    <2> HIDE DEF t
    <2> QED
      BY <1>1, <1>3, <2>2
  <1> HIDE DEF t
  <1>7. file' = file \o t
    BY <1>2, <1>4, <1>5 DEF t
  <1> QED
    BY <1>2, <1>3, <1>5, <1>6, <1>7

\* What is appended is nothing, or does not end like a signature, or makes the
\* trailer whole.
LEMMA TrailerAppend ==
  ASSUME StegoInv, TrailerInv, NEW a \in Adders \cap Running, pc[a] \in Appending,
         NEW t \in Seq(Cell), file' = file \o t, UNCHANGED <<sz, len>>,
         last'.before = last.before,
         \/ last'.adder = last.adder /\ Len(t) = 0
         \/ last'.adder = last.adder /\ t[Len(t)] # <<"magic", MAGIC_LEN>>
         \/ last'.adder = {a} /\ file' = last.before \o Trailer(a),
         Running' \subseteq Running, \A y \in Procs : y # a => pc'[y] = pc[y],
         a \in Running' => pc'[a] \in Appending /\ last'.adder = last.adder
  PROVE  TrailerInv'
  <1>1. /\ file \in Seq(Cell) /\ Len(file) \in Nat /\ a \in Procs
        /\ \A y \in Procs : sz[y] \in Nat /\ len[y] \in Nat
    BY DEF StegoInv, Types, Procs
  <1>2. /\ file' \in Seq(Cell) /\ Len(file') = Len(file) + Len(t)
        /\ Len(t) \in Nat
        /\ \A i \in 1 .. Len(file) : file'[i] = file[i]
        /\ \A i \in 1 .. Len(t) : file'[Len(file) + i] = t[i]
    <2>1. /\ file \o t \in Seq(Cell) /\ Len(file \o t) = Len(file) + Len(t)
          /\ \A i \in 1 .. Len(file) : (file \o t)[i] = file[i]
          /\ \A i \in 1 .. Len(t) : (file \o t)[Len(file) + i] = t[i]
      BY <1>1, Joined, Zenon
    <2> QED
      BY <2>1
  <1>3. last.adder = {} /\ ~ FitsAt(file, Len(file))
    BY NoTrailerBetween DEF TrailerInv, RunTrue
  <1>4. LastTrue'
    <2>1. ~ FitsAt(last'.before, Len(last'.before))
      BY DEF TrailerInv, LastTrue
    <2>2. CASE last'.adder = last.adder /\ Len(t) = 0
      <3>1. file' = file
        BY <1>1, <1>2, <2>2, SeqEqual
      <3> QED
        BY <1>3, <2>1, <2>2, <3>1 DEF TrailerInv, LastTrue
    <2>3. CASE /\ last'.adder = last.adder /\ Len(t) # 0
               /\ t[Len(t)] # <<"magic", MAGIC_LEN>>
      <3>1. file'[Len(file')] # <<"magic", MAGIC_LEN>>
        <4>1. Len(t) \in 1 .. Len(t)
          BY <1>2, <2>3
        <4> QED
          BY <1>2, <2>3, <4>1
      <3>2. ~ MagicAt(file', Len(file'))
        <4>1. MAGIC_LEN \in 1 .. MAGIC_LEN
              /\ Len(file') - MAGIC_LEN + MAGIC_LEN = Len(file')
          BY <1>1, <1>2, Widths
        <4> QED
          BY <3>1, <4>1 DEF MagicAt
      <3> QED
        BY <1>3, <2>1, <2>3, <3>2 DEF LastTrue
    <2>4. CASE last'.adder = {a} /\ file' = last.before \o Trailer(a)
      BY <2>1, <2>4 DEF LastTrue
    <2> QED
      BY <2>2, <2>3, <2>4
  <1>5. ASSUME NEW y \in Running', y # a
        PROVE  RunTrue(y)'
    <2>1. /\ y \in Running /\ y \in Procs /\ pc'[y] = pc[y] /\ RunTrue(y)
          /\ y \in Readers /\ y \notin Adders /\ y \notin Clearers
      BY <1>5, StegoAssumption DEF TrailerInv, Running, StegoInv, Alone
    <2>2. pc[y] # "pread"
      BY <1>1, <1>3, <2>1 DEF RunTrue, FitsAt
    <2>3. pc[y] \notin Appending \cup {"lseek", "refstat", "ftruncate"}
      BY <2>1 DEF RunTrue
    <2>4. CASE pc[y] \in {"tail", "lenbuf"}
      <3>1. /\ sz[y] >= MAGIC_LEN + LEN /\ sz[y] <= Len(file)
            /\ ~ FitsAt(file, sz[y])
            /\ pc[y] = "lenbuf" => MagicAt(file, sz[y])
        BY <1>3, <2>1, <2>4 DEF RunTrue
      <3>2. /\ FitsAt(file, sz[y]) <=> FitsAt(file', sz[y])
            /\ MagicAt(file, sz[y]) <=> MagicAt(file', sz[y])
        <4>1. sz[y] \in Nat /\ \A i \in 1 .. sz[y] : file[i] = file'[i]
          BY <1>1, <1>2, <2>1, <3>1
        <4> QED
          BY <4>1, SamePrefix
      <3>3. sz[y] <= Len(file')
        BY <1>1, <1>2, <2>1, <3>1
      <3> QED
        BY <2>1, <2>2, <2>3, <3>1, <3>2, <3>3 DEF RunTrue
    <2>5. CASE pc[y] \notin {"tail", "lenbuf"}
      BY <2>1, <2>2, <2>3, <2>5 DEF RunTrue
    <2> QED
      BY <2>4, <2>5
  <1>6. a \in Running' => RunTrue(a)'
    BY <1>3 DEF RunTrue, Appending
  <1> QED
    BY <1>4, <1>5, <1>6 DEF TrailerInv

\* The last write of a run of --add that succeeds makes its trailer whole.
LEMMA AddsTrailer ==
  ASSUME StegoInv, NEW a \in Adders, WriteMagic(a), pc'[a] = "done"
  PROVE  last'.before = last.before /\ file' = last.before \o Trailer(a)
  <1>1. /\ pc[a] = "write_magic" /\ last'.before = last.before
        /\ file' = file \o MAGIC
    BY WriteSteps
  <1>2. a \in Running
    BY <1>1 DEF WriteMagic, Write, Go, Running, Final, Procs
  <1>3. file = last.before \o (Message(a) \o Length(MsgLen[a]))
    BY <1>1, <1>2 DEF StegoInv, AddersTrue, Appended
  <1>4. /\ last.before \in Seq(Cell) /\ MAGIC \in Seq(Cell)
        /\ Message(a) \o Length(MsgLen[a]) \in Seq(Cell)
    BY Trailers, ConcatProperties DEF StegoInv, Types
  <1>5. file' = last.before \o ((Message(a) \o Length(MsgLen[a])) \o MAGIC)
    BY <1>1, <1>3, <1>4, Associative
  <1> QED
    BY <1>1, <1>5 DEF Trailer

LEMMA TrailerWrites ==
  ASSUME StegoInv, TrailerInv, NEW a \in Adders,
         WritePayload(a) \/ WriteLength(a) \/ WriteMagic(a)
  PROVE  TrailerInv'
  <1>1. /\ Message(a) \in Seq(Cell) /\ Len(Message(a)) = MsgLen[a]
        /\ Length(MsgLen[a]) \in Seq(Cell) /\ Len(Length(MsgLen[a])) = LEN
        /\ MAGIC \in Seq(Cell) /\ Len(MAGIC) = MAGIC_LEN
        /\ MsgLen[a] \in Nat /\ LEN \in Nat \ {0} /\ MAGIC_LEN \in Nat \ {0}
    BY Trailers, Widths
  <1>2. a \in Procs /\ last \in [adder : SUBSET Adders, before : Seq(Cell)]
        /\ pc \in [Procs -> Steps]
    BY DEF StegoInv, Types, Procs
  <1>3. ASSUME NEW from \in Appending, NEW to \in Appending \cup {"done"}, NEW k,
               NEW n \in Nat, Go(a, from, IF k = n THEN to ELSE "failed")
        PROVE  /\ a \in Adders \cap Running /\ pc[a] \in Appending
               /\ Running' \subseteq Running
               /\ \A y \in Procs : y # a => pc'[y] = pc[y]
               /\ a \in Running' => pc'[a] \in Appending /\ k = n /\ pc'[a] = to
               /\ pc'[a] = "done" => k = n
    <2>1. PICK next : next = IF k = n THEN to ELSE "failed"
      OBVIOUS
    <2>2. from \notin Final \cup {"off"} /\ Go(a, from, next)
      BY <1>3, <2>1 DEF Appending, Final
    <2>3. /\ pc[a] = from /\ a \in Running /\ pc'[a] = next
          /\ Running' \subseteq Running
          /\ a \in Running' => next \notin Final
          /\ \A y \in Procs : y # a => pc'[y] = pc[y]
      BY <1>2, <2>2, Goes
    <2> QED
      BY <2>1, <2>3 DEF Final
  <1>4. ASSUME WritePayload(a) PROVE TrailerInv'
    <2>1. PICK k \in 0 .. MsgLen[a], t \in Seq(Cell) :
             /\ Go(a, "write_payload",
                   IF k = MsgLen[a] THEN "write_length" ELSE "failed")
             /\ file' = file \o t /\ Len(t) = k /\ UNCHANGED <<sz, len>>
             /\ k > 0 => t[k] = Message(a)[k]
      <3>1. PICK s \in Seq(Cell), from \in Appending, to \in Steps :
               /\ s = Message(a) /\ from = "write_payload" /\ to = "write_length"
               /\ Write(a, s, from, to)
        BY <1>1, <1>4 DEF Appending, Steps, Final, WritePayload
      <3>2. PICK k \in 0 .. Len(s), t \in Seq(Cell) :
               /\ Go(a, from, IF k = Len(s) THEN to ELSE "failed")
               /\ file' = file \o t /\ Len(t) = k /\ UNCHANGED <<sz, len>>
               /\ k > 0 => t[k] = s[k]
        <4>1. Write(a, s, from, to)
          BY <3>1
        <4> QED
          BY <4>1, Wrote
      <3> QED
        BY <1>1, <3>1, <3>2
    <2>2. /\ a \in Adders \cap Running /\ pc[a] \in Appending
          /\ Running' \subseteq Running
          /\ \A y \in Procs : y # a => pc'[y] = pc[y]
          /\ a \in Running' => pc'[a] \in Appending
      <3>1. "write_payload" \in Appending
            /\ "write_length" \in Appending \cup {"done"}
        BY DEF Appending
      <3> QED
        BY <1>1, <1>3, <2>1, <3>1
    <2>3. last' = last
      BY <1>4 DEF WritePayload
    <2>4. Len(t) = 0 \/ t[Len(t)] # <<"magic", MAGIC_LEN>>
      BY <1>1, <2>1 DEF Message
    <2> QED
      BY <2>1, <2>2, <2>3, <2>4, TrailerAppend
  <1>5. ASSUME WriteLength(a) PROVE TrailerInv'
    <2>1. PICK k \in 0 .. LEN, t \in Seq(Cell) :
             /\ Go(a, "write_length",
                   IF k = LEN THEN "write_magic" ELSE "failed")
             /\ file' = file \o t /\ Len(t) = k /\ UNCHANGED <<sz, len>>
             /\ k > 0 => t[k] = Length(MsgLen[a])[k]
      <3>1. PICK s \in Seq(Cell), from \in Appending, to \in Steps :
               /\ s = Length(MsgLen[a]) /\ from = "write_length" /\ to = "write_magic"
               /\ Write(a, s, from, to)
        BY <1>1, <1>5 DEF Appending, Steps, Final, WriteLength
      <3>2. PICK k \in 0 .. Len(s), t \in Seq(Cell) :
               /\ Go(a, from, IF k = Len(s) THEN to ELSE "failed")
               /\ file' = file \o t /\ Len(t) = k /\ UNCHANGED <<sz, len>>
               /\ k > 0 => t[k] = s[k]
        <4>1. Write(a, s, from, to)
          BY <3>1
        <4> QED
          BY <4>1, Wrote
      <3> QED
        BY <1>1, <3>1, <3>2
    <2>2. /\ a \in Adders \cap Running /\ pc[a] \in Appending
          /\ Running' \subseteq Running
          /\ \A y \in Procs : y # a => pc'[y] = pc[y]
          /\ a \in Running' => pc'[a] \in Appending
      <3>1. "write_length" \in Appending
            /\ "write_magic" \in Appending \cup {"done"}
        BY DEF Appending
      <3> QED
        BY <1>1, <1>3, <2>1, <3>1
    <2>3. last' = last
      BY <1>5 DEF WriteLength
    <2>4. Len(t) = 0 \/ t[Len(t)] # <<"magic", MAGIC_LEN>>
      BY <1>1, <2>1 DEF Length
    <2> QED
      BY <2>1, <2>2, <2>3, <2>4, TrailerAppend
  <1>6. ASSUME WriteMagic(a) PROVE TrailerInv'
    <2>1. PICK k \in 0 .. MAGIC_LEN, t \in Seq(Cell) :
             /\ Go(a, "write_magic", IF k = MAGIC_LEN THEN "done" ELSE "failed")
             /\ file' = file \o t /\ Len(t) = k /\ UNCHANGED <<sz, len>>
             /\ k > 0 => t[k] = MAGIC[k]
      <3>1. PICK s \in Seq(Cell), from \in Appending, to \in Steps :
               /\ s = MAGIC /\ from = "write_magic" /\ to = "done"
               /\ Write(a, s, from, to)
        BY <1>1, <1>6 DEF Appending, Steps, Final, WriteMagic
      <3>2. PICK k \in 0 .. Len(s), t \in Seq(Cell) :
               /\ Go(a, from, IF k = Len(s) THEN to ELSE "failed")
               /\ file' = file \o t /\ Len(t) = k /\ UNCHANGED <<sz, len>>
               /\ k > 0 => t[k] = s[k]
        <4>1. Write(a, s, from, to)
          BY <3>1
        <4> QED
          BY <4>1, Wrote
      <3> QED
        BY <1>1, <3>1, <3>2
    <2>2. /\ a \in Adders \cap Running /\ pc[a] \in Appending
          /\ Running' \subseteq Running
          /\ \A y \in Procs : y # a => pc'[y] = pc[y]
          /\ a \in Running' => pc'[a] \in Appending /\ pc'[a] = "done"
      <3>1. "write_magic" \in Appending /\ "done" \in Appending \cup {"done"}
        BY DEF Appending
      <3> QED
        BY <1>1, <1>3, <2>1, <3>1
    <2>3. a \notin Running'
      BY <2>2 DEF Appending
    <2>4. CASE k = MAGIC_LEN
      <3>1. pc'[a] = "done"
        BY <1>2, <2>1, <2>4 DEF Go
      <3>2. last'.adder = {a}
        BY <1>2, <1>6, <3>1 DEF WriteMagic
      <3>3. last'.before = last.before /\ file' = last.before \o Trailer(a)
        BY <1>6, <3>1, AddsTrailer
      <3> QED
        BY <2>1, <2>2, <2>3, <3>2, <3>3, TrailerAppend
    <2>5. CASE k # MAGIC_LEN
      <3>1. pc'[a] # "done"
        BY <1>2, <2>1, <2>5 DEF Go
      <3>2. last' = last
        BY <1>6, <3>1 DEF WriteMagic
      <3>3. Len(t) = 0 \/ t[Len(t)] # <<"magic", MAGIC_LEN>>
        BY <1>1, <2>1, <2>5 DEF MAGIC
      <3> QED
        BY <2>1, <2>2, <2>3, <3>2, <3>3, TrailerAppend
    <2> QED
      BY <2>4, <2>5
  <1> QED
    BY <1>4, <1>5, <1>6

\* --clear cuts off what was added last, and nothing else.
LEMMA CutsTrailer ==
  ASSUME StegoInv, TrailerInv, NEW c \in Clearers, Truncate(c)
  PROVE  /\ last.adder # {} /\ last'.adder = {} /\ last'.before = last.before
         /\ file' = last.before /\ pc'[c] = "done" /\ Running' = {}
  <1>1. /\ c \in Procs /\ c \in Running /\ pc[c] = "ftruncate"
        /\ sz[c] = Len(file) /\ TrailerAt(file, Len(file), len[c])
    <2>1. c \in Procs /\ c \in Running /\ pc[c] = "ftruncate"
      BY DEF Truncate, Go, Running, Final, Procs
    <2> QED
      BY <2>1 DEF TrailerInv, RunTrue, StegoInv, ClearersTrue
  <1>2. /\ len[c] \in Nat /\ file \in Seq(Cell) /\ last.before \in Seq(Cell)
        /\ last \in [adder : SUBSET Adders, before : Seq(Cell)]
        /\ Len(file) \in Nat /\ Len(last.before) \in Nat
    BY <1>1 DEF StegoInv, Types
  <1>3. PICK a \in Adders :
           /\ last.adder = {a} /\ file = last.before \o Trailer(a)
           /\ Len(file) = Len(last.before) + len[c] + LEN + MAGIC_LEN
    BY <1>1, <1>2, TrailerIsLast DEF TrailerInv
  <1>4. Payload(c, len[c]) = Len(last.before) /\ Len(last.before) <= Len(file)
    BY <1>1, <1>2, <1>3, Widths DEF Payload
  <1>5. /\ pc'[c] = "done" /\ last' = [last EXCEPT !.adder = {}]
        /\ pc' = [pc EXCEPT ![c] = "done"] /\ UNCHANGED crashed
        /\ file' = [i \in 1 .. Len(last.before) |->
                      IF i <= Len(file) THEN file[i] ELSE Zero]
    BY <1>1, <1>2, <1>4 DEF Truncate, Go, StegoInv, Types
  <1>6. \A i \in 1 .. Len(last.before) : file[i] = last.before[i]
    <2>1. PICK b \in Seq(Cell) : b = last.before
      BY <1>2
    <2>2. file = b \o Trailer(a)
      BY <1>3, <2>1
    <2>3. \A i \in 1 .. Len(b) : file[i] = b[i]
      BY <1>2, <2>2, TrailerEnds
    <2> QED
      BY <2>1, <2>3
  <1>7. file' = last.before
    <2>1. \A i \in 1 .. Len(last.before) : file'[i] = last.before[i]
      BY <1>2, <1>4, <1>5, <1>6
    <2>2. \A i \in 1 .. Len(last.before) : last.before[i] \in Cell
      BY <1>2, ElementOfSeq
    <2>3. file' \in Seq(Cell) /\ Len(file') = Len(last.before)
      BY <1>2, <1>5, <2>1, <2>2
    <2> QED
      BY <1>2, <2>1, <2>3, SeqEqual
  <1>8. Running' = {}
    <2>1. Running = {c}
      BY <1>1 DEF StegoInv, Alone
    <2> QED
      BY <1>1, <1>5, <2>1 DEF Running, Final, StegoInv, Types
  <1> QED
    BY <1>2, <1>3, <1>5, <1>7, <1>8

LEMMA TrailerTruncate ==
  ASSUME StegoInv, TrailerInv, NEW c \in Clearers, Truncate(c)
  PROVE  TrailerInv'
  <1>1. /\ last'.adder = {} /\ last'.before = last.before
        /\ file' = last.before /\ Running' = {}
    BY CutsTrailer
  <1> QED
    BY <1>1 DEF TrailerInv, LastTrue

LEMMA TrailerStep == StegoInv /\ TrailerInv /\ [Next]_vars => TrailerInv'
  <1> SUFFICES ASSUME StegoInv, TrailerInv, [Next]_vars PROVE TrailerInv'
    OBVIOUS
  <1>1. CASE UNCHANGED vars
    BY <1>1 DEF vars, TrailerInv, LastTrue, RunTrue, Running
  <1> QED
    BY <1>1, TrailerStart, TrailerCrash, TrailerFileSize, TrailerReadMagic,
       TrailerReadLength, TrailerSeekEnd, TrailerWrites, TrailerReadPayload,
       TrailerFileSizeAgain, TrailerTruncate
       DEF Next, HasTrailer, Add, Clear

LEMMA TrailerInit == Init => TrailerInv
  <1> SUFFICES ASSUME Init PROVE TrailerInv
    OBVIOUS
  <1>1. StegoInv
    BY StegoInit
  <1>2. Running = {}
    BY DEF Init, Running
  <1>3. file = picture /\ last.before = picture /\ last.adder = {}
    BY DEF Init
  <1>4. PICK n \in Nat : picture = [i \in 1 .. n |-> <<"picture", i>>]
    BY StegoAssumption DEF Init, Pic
  <1>5. ~ MagicAt(picture, Len(picture))
    <2>1. Len(picture) = n /\ \A i \in 1 .. n : picture[i] = <<"picture", i>>
      BY <1>4
    <2>2. n >= MAGIC_LEN => n - MAGIC_LEN + 1 \in 1 .. n /\ 1 \in 1 .. MAGIC_LEN
      BY Widths
    <2> QED
      BY <2>1, <2>2 DEF MagicAt
  <1> QED
    BY <1>2, <1>3, <1>5 DEF TrailerInv, LastTrue, FitsAt, TrailerAt

\* Of the steps, those of a run itself, and what they say of its success.
LEMMA ClearerDone ==
  ASSUME StegoInv, Next, NEW c \in Clearers, Becomes(c, "done")
  PROVE  Truncate(c)
  <1>1. /\ c \in Procs /\ pc \in [Procs -> Steps]
        /\ c \notin Readers /\ c \notin Adders
        /\ pc[c] # "done" /\ pc'[c] = "done"
    BY StegoAssumption DEF StegoInv, Types, Procs, Becomes
  <1>2. ASSUME NEW x \in Procs PROVE ~ Start(x) /\ ~ Crash(x)
    BY <1>1 DEF Start, Crash
  <1>3. ASSUME NEW x \in Procs PROVE ~ HasTrailer(x)
    BY <1>1 DEF HasTrailer, FileSize, ReadMagic, ReadLength, Found, NotFound, Go
  <1>4. ASSUME NEW a \in Adders PROVE ~ Add(a)
    BY <1>1 DEF Add, SeekEnd, WritePayload, WriteLength, WriteMagic, Write, Go
  <1>5. ASSUME NEW r \in Readers PROVE ~ ReadPayload(r)
    BY <1>1 DEF ReadPayload, Go
  <1>6. ASSUME NEW d \in Clearers, Clear(d) PROVE Truncate(c)
    BY <1>1, <1>6 DEF Clear, FileSizeAgain, Truncate, Go
  <1> QED
    BY <1>2, <1>3, <1>4, <1>5, <1>6 DEF Next

LEMMA ReaderEnds ==
  ASSUME StegoInv, Next, NEW r \in Readers, NEW to \in Final, Becomes(r, to)
  PROVE  /\ (HasTrailer(r) /\ to = "failed") \/ ReadPayload(r)
         /\ r \in Running
  <1>1. /\ r \in Procs /\ pc \in [Procs -> Steps]
        /\ \A c \in Clearers : c # r /\ \A a \in Adders : a # r
    BY StegoAssumption DEF StegoInv, Types, Procs
  <1> QED
    BY <1>1, StegoAssumption
       DEF Becomes, Next, Start, Crash, HasTrailer, FileSize, ReadMagic,
           ReadLength, Found, NotFound, Go, Add, SeekEnd, WritePayload,
           WriteLength, WriteMagic, Write, ReadPayload, Clear, FileSizeAgain,
           Truncate, Final, Running

\* What a reader finds where the trailer is, it prints whole.
LEMMA PrintsMessage ==
  ASSUME StegoInv, TrailerInv, NEW r \in Readers, ReadPayload(r),
         DOMAIN out = Readers
  PROVE  /\ pc'[r] = "done"
         /\ \E a \in last.adder : out'[r] = Message(a)
  <1>1. /\ r \in Procs /\ r \in Running /\ pc[r] = "pread"
        /\ sz[r] = Len(file) /\ TrailerAt(file, Len(file), len[r])
    <2>1. r \in Procs /\ r \in Running /\ pc[r] = "pread"
      BY DEF ReadPayload, Go, Running, Final, Procs
    <2> QED
      BY <2>1 DEF TrailerInv, RunTrue
  <1>2. /\ len[r] \in Nat /\ file \in Seq(Cell) /\ Len(file) \in Nat
        /\ last.before \in Seq(Cell) /\ pc \in [Procs -> Steps]
    BY <1>1 DEF StegoInv, Types
  <1>3. PICK a \in Adders, b \in Seq(Cell), n \in Nat :
           /\ last.adder = {a} /\ b = last.before /\ n = len[r]
           /\ file = b \o Trailer(a) /\ n = MsgLen[a]
           /\ Len(file) = Len(b) + n + LEN + MAGIC_LEN
    <2>1. PICK n \in Nat : n = len[r] /\ TrailerAt(file, Len(file), n)
      BY <1>1, <1>2
    <2>2. PICK a \in Adders :
             /\ last.adder = {a} /\ file = last.before \o Trailer(a)
             /\ n = MsgLen[a]
             /\ Len(file) = Len(last.before) + n + LEN + MAGIC_LEN
      BY <2>1, TrailerIsLast DEF TrailerInv
    <2> QED
      BY <1>2, <2>1, <2>2
  <1>4. \A i \in 1 .. MsgLen[a] : file[Len(b) + i] = Message(a)[i]
    <2>1. \A s \in Seq(Cell) : s = b \o Trailer(a) =>
             \A i \in 1 .. MsgLen[a] : s[Len(b) + i] = Message(a)[i]
      BY TrailerEnds
    <2> QED
      BY <1>2, <1>3, <2>1
  <1>5. /\ Payload(r, n) = Len(b) /\ Len(b) \in Nat /\ Len(b) + n <= Len(file)
    <2>1. /\ sz[r] = Len(b) + n + LEN + MAGIC_LEN /\ Len(b) \in Nat
          /\ Len(file) = Len(b) + n + LEN + MAGIC_LEN
      BY <1>1, <1>3
    <2> QED
      BY <2>1, Widths DEF Payload
  <1>6. Message(a) \in Seq(Cell) /\ Len(Message(a)) = n
    BY <1>3, Trailers
  <1>7. Cells(Len(b), n) = Message(a) /\ Len(Cells(Len(b), n)) = n
    <2>1. /\ \A i \in 1 .. n : file[Len(b) + i] = Message(a)[i]
          /\ file \in Seq(Cell) /\ Len(b) \in Nat /\ Len(b) + n <= Len(file)
      BY <1>2, <1>3, <1>4, <1>5
    <2>2. PICK pos \in Nat, m \in Seq(Cell) : pos = Len(b) /\ m = Message(a)
      BY <1>6, <2>1
    <2>3. /\ Len(m) = n /\ pos + n <= Len(file)
          /\ \A i \in 1 .. n : file[pos + i] = m[i]
      BY <1>6, <2>1, <2>2
    <2>4. Cells(pos, n) = m /\ Len(Cells(pos, n)) = n
      BY <2>1, <2>3, CellsAre
    <2> QED
      BY <2>2, <2>4
  <1>8. /\ pc' = [pc EXCEPT ![r] = "done"]
        /\ out' = [out EXCEPT ![r] = Message(a)]
    BY <1>3, <1>5, <1>7 DEF ReadPayload, Go
  <1> QED
    BY <1>1, <1>2, <1>3, <1>8

\* Whose trailer is missed.
LEMMA MissesTrailer ==
  ASSUME StegoInv, TrailerInv, NEW r \in Readers, r \in Running,
         HasTrailer(r), pc'[r] = "failed"
  PROVE  last.adder = {} \/ Len(last.before) < 2 \/ sz'[r] # Len(file)
  <1> SUFFICES ASSUME last.adder # {}, Len(last.before) >= 2, sz'[r] = Len(file)
               PROVE  FALSE
    BY DEF StegoInv, Types
  <1>1. /\ r \in Procs /\ file \in Seq(Cell) /\ Len(file) \in Nat
        /\ last.before \in Seq(Cell) /\ sz \in [Procs -> Nat]
        /\ pc \in [Procs -> Steps] /\ Len(last.before) \in Nat
    BY DEF StegoInv, Types, Procs
  <1>2. PICK a \in Adders :
           last.adder = {a} /\ file = last.before \o Trailer(a)
    BY DEF TrailerInv, LastTrue
  <1>3. /\ MsgLen[a] \in Nat
        /\ Len(file) = Len(last.before) + MsgLen[a] + LEN + MAGIC_LEN
        /\ MagicAt(file, Len(file)) /\ LengthAt(file, Len(file), MsgLen[a])
    <2>1. \A b \in Seq(Cell), s \in Seq(Cell) : s = b \o Trailer(a) =>
             /\ MsgLen[a] \in Nat /\ Len(s) = Len(b) + MsgLen[a] + LEN + MAGIC_LEN
             /\ MagicAt(s, Len(s)) /\ LengthAt(s, Len(s), MsgLen[a])
      BY TrailerEnds
    <2> QED
      BY <1>1, <1>2, <2>1
  <1>4. TrailerAt(file, Len(file), MsgLen[a]) /\ Len(file) >= MAGIC_LEN + LEN
    <2>1. Len(file) - MAGIC_LEN - LEN - MsgLen[a] = Len(last.before)
      BY <1>1, <1>3, Widths
    <2> QED
      BY <1>1, <1>3, <2>1, Widths DEF TrailerAt
  <1>5. CASE FileSize(r)
    <2>1. pc'[r] = "tail"
      BY <1>1, <1>4, <1>5, Widths DEF FileSize, Go
    <2> QED
      BY <2>1
  <1>6. CASE ReadMagic(r)
    <2>1. /\ pc[r] = "tail" /\ sz[r] = Len(file)
          /\ Cells(sz[r] - MAGIC_LEN, MAGIC_LEN) # MAGIC
      BY <1>1, <1>6 DEF ReadMagic, Go
    <2>2. sz[r] \in Nat /\ sz[r] >= MAGIC_LEN
      BY <1>1, <1>4, <2>1, Widths
    <2>3. ~ MagicAt(file, sz[r])
      BY <1>1, <2>1, <2>2, MagicSeen
    <2> QED
      BY <1>3, <2>1, <2>3
  <1>7. CASE ReadLength(r)
    <2>1. pc[r] = "lenbuf" /\ sz[r] = Len(file)
      BY <1>7 DEF ReadLength
    <2>2. MagicAt(file, sz[r]) /\ sz[r] >= MAGIC_LEN + LEN /\ sz[r] <= Len(file)
      BY <1>1, <2>1 DEF TrailerInv, RunTrue
    <2>3. MsgLen[a] \in Lengths(r) /\ Payload(r, MsgLen[a]) >= 2
      BY <1>1, <1>3, <1>4, <2>1, <2>2, FitsSeen
    <2>4. pc'[r] = Found(r)
      BY <1>1, <1>7, <2>3 DEF ReadLength, Go
    <2> QED
      BY <2>4, StegoAssumption DEF Found
  <1> QED
    BY <1>5, <1>6, <1>7 DEF HasTrailer

OutTyped == DOMAIN out = Readers

LEMMA OutStep == OutTyped /\ [Next]_vars => OutTyped'
  BY DEF OutTyped, Next, vars, Start, Crash, HasTrailer, FileSize, ReadMagic, ReadLength,
         Add, SeekEnd, WritePayload, WriteLength, WriteMagic, Write, ReadPayload,
         Clear, FileSizeAgain, Truncate

-----------------------------------------------------------------------------
\* Runs of stego that do not write at the same time leave the picture as it
\* is, however many of them fall short or are killed.
THEOREM OriginalKeptCorrect ==
  ASSUME Orderly PROVE Spec => []OriginalKept
  <1>1. StegoInv => OriginalKept
    BY DEF StegoInv
  <1>2. StegoInv /\ [Next]_vars => StegoInv'
    BY StegoStep
  <1> QED
    BY <1>1, <1>2, StegoInit, PTL DEF Spec

\* A run of --add that reports success has added exactly its trailer.
THEOREM AddCorrect ==
  ASSUME Orderly PROVE Spec => AddReportsTrue
  <1>1. ASSUME StegoInv, [Next]_vars
        PROVE  [\A a \in Adders : Becomes(a, "done") =>
                  file' = last'.before \o Trailer(a)]_vars
    <2> SUFFICES ASSUME Next, NEW a \in Adders, pc[a] # "done", pc'[a] = "done"
                 PROVE  file' = last'.before \o Trailer(a)
      BY <1>1 DEF Becomes
    <2>1. /\ a \in Procs /\ pc \in [Procs -> Steps]
          /\ \A r \in Readers : r # a /\ \A c \in Clearers : c # a
      BY <1>1, StegoAssumption DEF StegoInv, Types, Procs
    <2>2. WritePayload(a) \/ WriteLength(a) \/ WriteMagic(a)
      BY <2>1, StegoAssumption
         DEF Next, Start, Crash, HasTrailer, FileSize, ReadMagic, ReadLength,
             Found, NotFound, Go, Add, SeekEnd, WritePayload, WriteLength,
             WriteMagic, Write, ReadPayload, Clear, FileSizeAgain, Truncate
    <2>3. /\ pc[a] = "write_magic" /\ last'.before = last.before
          /\ file' = file \o MAGIC
      BY <1>1, <2>2, WriteSteps
    <2>4. WriteMagic(a)
      BY <2>2, <2>3 DEF WritePayload, WriteLength, Write, Go
    <2> QED
      BY <1>1, <2>3, <2>4, AddsTrailer
  <1>2. StegoInv /\ [Next]_vars => StegoInv'
    BY StegoStep
  <1> QED
    BY <1>1, <1>2, StegoInit, PTL DEF Spec, AddReportsTrue

\* Runs that do not write at the same time report success truthfully: --add
\* has added its trailer, --clear has undone exactly the --add before it.
THEOREM WritersCorrect ==
  ASSUME Orderly PROVE Spec => WritersReportTrue
  <1>1. Spec => AddReportsTrue
    BY AddCorrect
  <1>2. ASSUME StegoInv, TrailerInv, [Next]_vars
        PROVE  [\A c \in Clearers : Becomes(c, "done") =>
                  last.adder # {} /\ file' = last.before]_vars
    <2> SUFFICES ASSUME Next, NEW c \in Clearers, Becomes(c, "done")
                 PROVE  last.adder # {} /\ file' = last.before
      BY <1>2
    <2>1. Truncate(c)
      BY <1>2, ClearerDone
    <2> QED
      BY <1>2, <2>1, CutsTrailer
  <1>3. StegoInv /\ [Next]_vars => StegoInv'
    BY StegoStep
  <1>4. Spec => ClearUndoes
    BY <1>2, <1>3, StegoInit, TrailerInit, TrailerStep, PTL DEF Spec, ClearUndoes
  <1> QED
    BY <1>1, <1>4 DEF WritersReportTrue

\* Beside one writer, --read prints the whole message that was added last, and
\* finds none only if there is none or the file has changed since it looked.
THEOREM ReadersCorrect ==
  ASSUME Orderly PROVE Spec => ReadReportsTrue
  <1>1. ASSUME StegoInv, TrailerInv, OutTyped, [Next]_vars
        PROVE  [\A r \in Readers :
                  /\ Becomes(r, "done") => \E a \in last.adder : out'[r] = Message(a)
                  /\ Becomes(r, "failed") => \/ last.adder = {} \/ Len(last.before) < 2
                                             \/ sz'[r] # Len(file)]_vars
    <2> SUFFICES ASSUME Next, NEW r \in Readers
                 PROVE  /\ Becomes(r, "done") => \E a \in last.adder : out'[r] = Message(a)
                        /\ Becomes(r, "failed") => \/ last.adder = {} \/ Len(last.before) < 2
                                                   \/ sz'[r] # Len(file)
      BY <1>1
    <2>1. ASSUME Becomes(r, "done")
          PROVE  \E a \in last.adder : out'[r] = Message(a)
      <3>1. ReadPayload(r)
        BY <1>1, <2>1, ReaderEnds DEF Final
      <3> QED
        BY <1>1, <3>1, PrintsMessage DEF OutTyped
    <2>2. ASSUME Becomes(r, "failed")
          PROVE  \/ last.adder = {} \/ Len(last.before) < 2
                 \/ sz'[r] # Len(file)
      <3>1. pc'[r] = "failed" /\ r \in Running /\ (HasTrailer(r) \/ ReadPayload(r))
        BY <1>1, <2>2, ReaderEnds DEF Becomes, Final
      <3>2. ~ ReadPayload(r)
        BY <1>1, <3>1, PrintsMessage DEF OutTyped
      <3> QED
        BY <1>1, <3>1, <3>2, MissesTrailer
    <2> QED
      BY <2>1, <2>2
  <1>2. StegoInv /\ [Next]_vars => StegoInv'
    BY StegoStep
  <1>3. Init => OutTyped
    BY DEF Init, OutTyped
  <1> QED
    BY <1>1, <1>2, <1>3, StegoInit, TrailerInit, TrailerStep, OutStep, PTL
       DEF Spec, ReadReportsTrue

=============================================================================
