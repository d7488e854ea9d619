----------------------------- MODULE CatBackend -----------------------------
(***************************************************************************)
(* The upload side of the cat service (cat_backend.cpp): one handler per   *)
(* POST /cat, any number of them at once.  A handler sleeps, names the     *)
(* upload after the current millisecond, and writes the file in two calls, *)
(* the open that truncates and the write.  The clock goes on meanwhile.    *)
(*                                                                         *)
(* The bytes of an upload are a sequence of cells.  The answers to GET     *)
(* /cat change nothing in the service; they are the action Fetched of      *)
(* Collage.                                                                *)
(***************************************************************************)
EXTENDS Naturals, Sequences

CONSTANTS
  Makes,      \* the requests for a collage, each posts at most one archive
  Cells,      \* what an archive consists of
  DiskFull,   \* those whose archive does not fit on the disk any more
  MaxClock    \* the clock stops here, in milliseconds

ASSUME BackendAssumption ==
  /\ DiskFull \subseteq Makes /\ MaxClock \in Nat

VARIABLES
  now,       \* the system clock
  handler,   \* request -> the next step of its POST handler
  body,      \* request -> the archive in the request
  stamp,     \* request -> the millisecond that names its upload
  uploads    \* millisecond -> what upload_<ms>.tar holds

backendVars == <<now, handler, body, stamp, uploads>>

Times == 0 .. MaxClock

BackendInit ==
  /\ now = 0
  /\ handler = [m \in Makes |-> "none"]
  /\ body = [m \in Makes |-> <<>>]
  /\ stamp = [m \in Makes |-> 0]
  /\ uploads = [t \in Times |-> <<>>]

Tick ==
  /\ now < MaxClock /\ now' = now + 1
  /\ UNCHANGED <<handler, body, stamp, uploads>>

\* A POST arrives; its handler begins to sleep.
Receive(m, bytes) ==
  /\ handler[m] = "none"
  /\ handler' = [handler EXCEPT ![m] = "sleep"]
  /\ body' = [body EXCEPT ![m] = bytes]
  /\ UNCHANGED <<now, stamp, uploads>>

HandlerGo(m, from, to) ==
  /\ handler[m] = from
  /\ handler' = [handler EXCEPT ![m] = to]
  /\ UNCHANGED <<now, body>>

\* upload_<ms>: two handlers that wake in one millisecond take one name.
TakeName(m) ==
  /\ HandlerGo(m, "sleep", "open")
  /\ stamp' = [stamp EXCEPT ![m] = now]
  /\ UNCHANGED uploads

OpenUpload(m) ==
  /\ HandlerGo(m, "open", "write")
  /\ uploads' = [uploads EXCEPT ![stamp[m]] = <<>>]
  /\ UNCHANGED stamp

\* What is longer than `bytes` in the file stays behind it.
Overlaid(bytes, old) ==
  IF Len(old) <= Len(bytes) THEN bytes
  ELSE bytes \o SubSeq(old, Len(bytes) + 1, Len(old))

\* Mutant of WriteUpload: the name is taken a second time.
Mut_NameTakenAgain(m) ==
  /\ HandlerGo(m, "write", "reply")
  /\ uploads' = [uploads EXCEPT ![now] = Overlaid(body[m], @)]
  /\ UNCHANGED stamp

\* Nobody checks whether the bytes could be written.
WriteUpload(m) ==
  /\ HandlerGo(m, "write", "reply")
  /\ uploads' = IF m \in DiskFull THEN uploads
                ELSE [uploads EXCEPT ![stamp[m]] = Overlaid(body[m], @)]
  /\ UNCHANGED stamp

\* OK, whatever became of the file.
Reply(m) ==
  /\ HandlerGo(m, "reply", "done")
  /\ UNCHANGED <<stamp, uploads>>

Handler(m) == TakeName(m) \/ OpenUpload(m) \/ WriteUpload(m) \/ Reply(m)

-----------------------------------------------------------------------------
HandlerSteps == {"none", "sleep", "open", "write", "reply", "done"}

\* Every variable of the service stays in its type.
BackendTypeOK ==
  /\ now \in Times
  /\ handler \in [Makes -> HandlerSteps]
  /\ body \in [Makes -> Seq(Cells)]
  /\ stamp \in [Makes -> Times]
  /\ uploads \in [Times -> Seq(Cells)]

Named == {"open", "write", "reply", "done"}

\* An archive that has its millisecond to itself is stored whole before it is
\* acknowledged, and stays so.
LoneNameKept ==
  \A m \in Makes \ DiskFull :
     /\ handler[m] \in {"reply", "done"}
     /\ \A k \in Makes \ {m} : handler[k] \in Named => stamp[k] # stamp[m]
     => uploads[stamp[m]] = body[m]

=============================================================================
