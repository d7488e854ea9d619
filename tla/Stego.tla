------------------------------- MODULE Stego -------------------------------
(***************************************************************************)
(* stego.cpp: --add appends a message, its length and a signature to a     *)
(* picture, --read prints the message, --clear cuts all of it off again.   *)
(* Any number of runs of the three modes on one file, each action one      *)
(* system call, with short writes and kills.                               *)
(*                                                                         *)
(* Bytes are grouped in cells.  A cell is one of the picture, of the       *)
(* message of a run, of a length field, of a signature, or zero; cells     *)
(* that are no length field, read as a length, make a number beyond the    *)
(* size of the file, as four printable characters do.                      *)
(***************************************************************************)
EXTENDS Integers, Sequences, FiniteSets

CONSTANTS
  Adders, Readers, Clearers,   \* the runs of the modes, each starts once
  MsgLen,          \* adding run -> cells of its message
  LEN, MAGIC_LEN,  \* cells of the length field and of the signature
  Sizes,           \* the sizes of the picture
  LaunchPolicy,    \* which runs may overlap, see MayStart
  MaxCrashes,      \* how many runs may be killed
  WritesMayFail    \* whether a write may be short

ASSUME StegoAssumption ==
  /\ Adders \cap Readers = {} /\ Adders \cap Clearers = {}
  /\ Readers \cap Clearers = {}
  /\ MsgLen \in [Adders -> Nat]
  /\ LEN \in Nat \ {0} /\ MAGIC_LEN \in Nat \ {0} /\ Sizes \subseteq Nat
  /\ LaunchPolicy \in {"serial", "shared", "any"}
  /\ MaxCrashes \in Nat /\ WritesMayFail \in BOOLEAN

Procs == Adders \cup Readers \cup Clearers

VARIABLES
  file,     \* the cells of the file
  pc,       \* run -> its next call
  crashed,  \* the runs that were killed before that call
  sz,       \* run -> the size it has seen
  len,      \* run -> the length it has read
  at,       \* adding run -> the position of its descriptor
  out,      \* reading run -> what it has printed
  picture,  \* history: the file at first
  last      \* history: the run that has added last, and the file before it

vars == <<file, pc, crashed, sz, len, at, out, picture, last>>

Pic(i) == <<"picture", i>>
Zero == <<"zero">>

Message(a) == [i \in 1 .. MsgLen[a] |-> <<"message", a, i>>]
Length(n) == [i \in 1 .. LEN |-> <<"length", n, i>>]
MAGIC == [i \in 1 .. MAGIC_LEN |-> <<"magic", i>>]
Trailer(a) == Message(a) \o Length(MsgLen[a]) \o MAGIC

Init ==
  /\ picture \in {[i \in 1 .. n |-> Pic(i)] : n \in Sizes}
  /\ file = picture
  /\ pc = [x \in Procs |-> "off"] /\ crashed = {}
  /\ sz = [x \in Procs |-> 0] /\ len = [x \in Procs |-> 0]
  /\ at = [a \in Adders |-> 0]
  /\ out = [r \in Readers |-> <<>>]
  /\ last = [adder |-> {}, before |-> picture]

-----------------------------------------------------------------------------
Final == {"done", "failed"}
Running == {x \in Procs : pc[x] \notin {"off"} \cup Final} \ crashed

\* "serial": one run at a time.  "shared": one run that writes at a time,
\* and --clear alone.
MayStart(x) ==
  CASE LaunchPolicy = "any"    -> TRUE
    [] LaunchPolicy = "serial" -> Running = {}
    [] LaunchPolicy = "shared" ->
         CASE x \in Readers  -> Running \cap Clearers = {}
           [] x \in Adders   -> Running \subseteq Readers
           [] x \in Clearers -> Running = {}

Start(x) ==
  /\ pc[x] = "off" /\ MayStart(x)
  /\ pc' = [pc EXCEPT ![x] = "fstat"]
  /\ UNCHANGED <<file, crashed, sz, len, at, out, picture, last>>

Crash(x) ==
  /\ x \in Running /\ Cardinality(crashed) < MaxCrashes
  /\ crashed' = crashed \cup {x}
  /\ UNCHANGED <<file, pc, sz, len, at, out, picture, last>>

-----------------------------------------------------------------------------
Go(x, from, to) ==
  /\ x \notin crashed /\ pc[x] = from
  /\ pc' = [pc EXCEPT ![x] = to]
  /\ UNCHANGED <<crashed, picture>>

\* The n cells behind the first `pos`, as far as there are so many.
Cells(pos, n) ==
  SubSeq(file, pos + 1, IF pos + n <= Len(file) THEN pos + n ELSE Len(file))

(***************************************************************************)
(* has_trailer, in which every mode begins.  For --add a trailer is the    *)
(* end of the run, for the others the lack of one.                         *)
(***************************************************************************)
Found(x)    == IF x \in Adders THEN "failed"
               ELSE IF x \in Readers THEN "pread" ELSE "refstat"
NotFound(x) == IF x \in Adders THEN "lseek" ELSE "failed"

FileSize(x) ==
  /\ Go(x, "fstat", IF Len(file) < MAGIC_LEN + LEN THEN NotFound(x)
                                                   ELSE "tail")
  /\ sz' = [sz EXCEPT ![x] = Len(file)]
  /\ UNCHANGED <<file, len, at, out, last>>

ReadMagic(x) ==
  /\ pc[x] = "tail"
  /\ Go(x, "tail", IF Cells(sz[x] - MAGIC_LEN, MAGIC_LEN) = MAGIC
                   THEN "lenbuf" ELSE NotFound(x))
  /\ UNCHANGED <<file, sz, len, at, out, last>>

Payload(x, n) == sz[x] - MAGIC_LEN - LEN - n

\* The lengths that may be in the field; at most one is.
Lengths(x) == {n \in 0 .. sz[x] : Cells(sz[x] - MAGIC_LEN - LEN, LEN) = Length(n)}

\* Mutant of ReadLength: one cell too many is left for the picture.
Mut_ThreeLeft(x) ==
  /\ pc[x] = "lenbuf"
  /\ LET fits == {n \in Lengths(x) : Payload(x, n) > 2}
     IN \/ \E n \in fits : /\ Go(x, "lenbuf", Found(x))
                           /\ len' = [len EXCEPT ![x] = n]
        \/ fits = {} /\ Go(x, "lenbuf", NotFound(x)) /\ UNCHANGED len
  /\ UNCHANGED <<file, sz, at, out, last>>

\* There is a trailer if its length leaves two cells for the picture.
ReadLength(x) ==
  /\ pc[x] = "lenbuf"
  /\ LET fits == {n \in Lengths(x) : Payload(x, n) >= 2}
     IN \/ \E n \in fits : /\ Go(x, "lenbuf", Found(x))
                           /\ len' = [len EXCEPT ![x] = n]
        \/ fits = {} /\ Go(x, "lenbuf", NotFound(x)) /\ UNCHANGED len
  /\ UNCHANGED <<file, sz, at, out, last>>

HasTrailer(x) == FileSize(x) \/ ReadMagic(x) \/ ReadLength(x)

(***************************************************************************)
(* --add                                                                   *)
(***************************************************************************)
\* Mutant of SeekEnd: the position stays at the beginning.
Mut_NotSought(a) ==
  /\ Go(a, "lseek", "write_payload")
  /\ last' = [adder |-> {}, before |-> file]
  /\ UNCHANGED <<file, sz, len, at, out>>

SeekEnd(a) ==
  /\ Go(a, "lseek", "write_payload")
  /\ at' = [at EXCEPT ![a] = Len(file)]
  /\ last' = [adder |-> {}, before |-> file]
  /\ UNCHANGED <<file, sz, len, out>>

\* The file after s was written at pos; a hole reads as zeros.
Written(pos, s) ==
  [i \in 1 .. (IF pos + Len(s) >= Len(file) THEN pos + Len(s) ELSE Len(file)) |->
     IF i \in pos + 1 .. pos + Len(s) THEN s[i - pos]
     ELSE IF i <= Len(file) THEN file[i] ELSE Zero]

\* A short write is reported, and what was written stays.
Write(a, s, from, to) ==
  \E k \in IF WritesMayFail THEN 0 .. Len(s) ELSE {Len(s)} :
     /\ Go(a, from, IF k = Len(s) THEN to ELSE "failed")
     /\ file' = Written(at[a], SubSeq(s, 1, k))
     /\ at' = [at EXCEPT ![a] = @ + k]
     /\ UNCHANGED <<sz, len, out>>

WritePayload(a) ==
  /\ Write(a, Message(a), "write_payload", "write_length")
  /\ UNCHANGED last

WriteLength(a) ==
  /\ Write(a, Length(MsgLen[a]), "write_length", "write_magic")
  /\ UNCHANGED last

WriteMagic(a) ==
  /\ Write(a, MAGIC, "write_magic", "done")
  /\ last' = IF pc'[a] = "done" THEN [last EXCEPT !.adder = {a}] ELSE last

Add(a) == \/ SeekEnd(a) \/ WritePayload(a) \/ WriteLength(a) \/ WriteMagic(a)

(***************************************************************************)
(* --read and --clear                                                      *)
(***************************************************************************)
\* pread of the message, where the trailer was found.
ReadPayload(r) ==
  /\ pc[r] = "pread"
  /\ LET buf == Cells(Payload(r, len[r]), len[r])
         all == Len(buf) = len[r]
     IN /\ Go(r, "pread", IF all THEN "done" ELSE "failed")
        /\ out' = [out EXCEPT ![r] = IF all THEN buf ELSE <<>>]
  /\ UNCHANGED <<file, sz, len, at, last>>

\* filesize is asked again, after has_trailer.
FileSizeAgain(c) ==
  /\ Go(c, "refstat", "ftruncate")
  /\ sz' = [sz EXCEPT ![c] = Len(file)]
  /\ UNCHANGED <<file, len, at, out, last>>

\* Mutant of Truncate: the length field is not cut off.
Mut_LengthLeft(c) ==
  LET cut == sz[c] - MAGIC_LEN - len[c]
  IN /\ pc[c] = "ftruncate" /\ Go(c, "ftruncate", "done")
     /\ file' = SubSeq(file, 1, cut)
     /\ last' = [last EXCEPT !.adder = {}]
     /\ UNCHANGED <<sz, len, at, out>>

\* ftruncate; a negative length is refused.
Truncate(c) ==
  LET cut == Payload(c, len[c])
  IN /\ Go(c, "ftruncate", IF cut >= 0 THEN "done" ELSE "failed")
     /\ file' = IF cut < 0 THEN file
                ELSE [i \in 1 .. cut |-> IF i <= Len(file) THEN file[i] ELSE Zero]
     /\ last' = IF cut >= 0 THEN [last EXCEPT !.adder = {}] ELSE last
     /\ UNCHANGED <<sz, len, at, out>>

Clear(c) == FileSizeAgain(c) \/ Truncate(c)

-----------------------------------------------------------------------------
Next == \/ \E x \in Procs : Start(x) \/ Crash(x) \/ HasTrailer(x)
        \/ \E a \in Adders : Add(a)
        \/ \E r \in Readers : ReadPayload(r)
        \/ \E c \in Clearers : Clear(c)

Spec == Init /\ [][Next]_vars

-----------------------------------------------------------------------------
(***************************************************************************)
(* Properties.                                                             *)
(***************************************************************************)
Steps == {"off", "fstat", "tail", "lenbuf", "lseek", "write_payload",
          "write_length", "write_magic", "pread", "refstat", "ftruncate"}
           \cup Final

Kinds == {"zero", "picture", "message", "length", "magic"}

\* Every variable stays in its type, and no call is given a negative offset.
TypeOK ==
  /\ Len(file) \in Nat /\ \A i \in 1 .. Len(file) : file[i][1] \in Kinds
  /\ pc \in [Procs -> Steps] /\ crashed \subseteq Procs
  /\ sz \in [Procs -> Nat] /\ len \in [Procs -> Nat] /\ at \in [Adders -> Nat]
  /\ \A x \in Procs :
        /\ pc[x] \in {"tail", "lenbuf"} => sz[x] >= MAGIC_LEN + LEN
        /\ pc[x] = "pread" => Payload(x, len[x]) >= 2

\* stego.cpp:138 promises to restore the original picture.  Whatever was
\* added, cut short or killed, the file begins with all of it.
OriginalKept ==
  /\ Len(file) >= Len(picture)
  /\ \A i \in 1 .. Len(picture) : file[i] = picture[i]

Becomes(x, step) == pc[x] # step /\ pc'[x] = step

\* A run of --add that reports success has added exactly its trailer.
AddReportsTrue ==
  [][\A a \in Adders :
       Becomes(a, "done") => file' = last'.before \o Trailer(a)]_vars

\* A run of --clear that reports success undoes the last --add, whose message
\* was there until now; what earlier runs left half-done stays below.
ClearUndoes ==
  [][\A c \in Clearers :
       Becomes(c, "done") => last.adder # {} /\ file' = last.before]_vars

\* The two modes that change the file report success truthfully.
WritersReportTrue == AddReportsTrue /\ ClearUndoes

\* A run of --read prints the whole message of the last --add; if it finds
\* none then there is none, or the picture is too small, or the file has
\* changed since it looked.
ReadReportsTrue ==
  [][\A r \in Readers :
       /\ Becomes(r, "done") => \E a \in last.adder : out'[r] = Message(a)
       /\ Becomes(r, "failed") => \/ last.adder = {} \/ Len(last.before) < 2
                                  \/ sz'[r] # Len(file)]_vars

=============================================================================
