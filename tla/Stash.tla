------------------------------- MODULE Stash -------------------------------
(***************************************************************************)
(* hideStash.cpp: --distort saves the head of a file in .dark/.stash_name  *)
(* and overwrites it with zeros, --restore writes the saved head back and  *)
(* removes the metadata.  Any number of runs of the two modes on one file, *)
(* each action one system call, with short writes, failing unlinks and     *)
(* kills, and a user who edits the file between them.                      *)
(*                                                                         *)
(* Bytes are grouped into cells, HEAD of which make up STASH_BYTES.  A     *)
(* cell holds the version of the user's text that it belongs to, or Zero.  *)
(* The metadata is one directory entry; a run that has opened it keeps the *)
(* file it opened.  A distorting run creates it at most once (O_EXCL), so  *)
(* a metadata file is identified by the run that created it.               *)
(***************************************************************************)
EXTENDS Naturals, Sequences, FiniteSets

CONSTANTS
  Distorters, Restorers,  \* the runs of the two modes, each starts once
  None,                   \* no metadata
  HEAD,                   \* cells that distort saves and overwrites
  Sizes,                  \* the file sizes, in cells
  LaunchPolicy,           \* which runs may overlap, see MayStart
  MaxCrashes,             \* how many runs may be killed
  MaxEdits,               \* how often the user changes the file
  CallsMayFail            \* whether a write may be short, an unlink fail

ASSUME StashAssumption ==
  /\ Distorters \cap Restorers = {} /\ None \notin Distorters
  /\ HEAD \in Nat \ {0} /\ Sizes \subseteq Nat
  /\ LaunchPolicy \in {"serial", "kind", "any"}
  /\ MaxCrashes \in Nat /\ MaxEdits \in Nat /\ CallsMayFail \in BOOLEAN

Procs == Distorters \cup Restorers

VARIABLES
  truth,    \* the version of the user's text: what the file should hold
  file,     \* cell -> the version it holds, or Zero
  meta,     \* the metadata file that .dark/.stash_name stands for, or None
  saved,    \* metadata file -> the cells written into it
  pc,       \* run -> its next call
  crashed,  \* the runs that were killed before that call
  head,     \* run -> its vector `head`
  mfd       \* restoring run -> the metadata file it has opened

vars == <<truth, file, meta, saved, pc, crashed, head, mfd>>

Zero == 0
Version == Nat \ {Zero}
Cells == DOMAIN file
Size == Len(file)

\* n = min(STASH_BYTES, st_size)
HeadLen == IF Size <= HEAD THEN Size ELSE HEAD

Init ==
  /\ truth = 1
  /\ file \in {[i \in 1 .. n |-> truth] : n \in Sizes}
  /\ meta = None /\ saved = [d \in Distorters |-> <<>>]
  /\ pc = [x \in Procs |-> "off"] /\ crashed = {}
  /\ head = [x \in Procs |-> <<>>]
  /\ mfd = [r \in Restorers |-> None]

-----------------------------------------------------------------------------
(***************************************************************************)
(* The user: starting a run, killing one, editing the file.                *)
(***************************************************************************)
\* Success, success with a warning, failure.
Final == {"done", "warned", "failed"}
Running == {x \in Procs : pc[x] \notin {"off"} \cup Final} \ crashed

\* "serial": one run at a time.  "kind": only runs of the same mode overlap.
MayStart(x) ==
  CASE LaunchPolicy = "any"    -> TRUE
    [] LaunchPolicy = "kind"   -> \/ Running \subseteq Distorters /\ x \in Distorters
                                  \/ Running \subseteq Restorers /\ x \in Restorers
    [] LaunchPolicy = "serial" -> Running = {}

Start(x) ==
  /\ pc[x] = "off" /\ MayStart(x)
  /\ pc' = [pc EXCEPT ![x] = IF x \in Distorters THEN "access" ELSE "open_meta"]
  /\ UNCHANGED <<truth, file, meta, saved, crashed, head, mfd>>

Crash(x) ==
  /\ x \in Running /\ Cardinality(crashed) < MaxCrashes
  /\ crashed' = crashed \cup {x}
  /\ UNCHANGED <<truth, file, meta, saved, pc, head, mfd>>

\* The file is rewritten, as long as it looks as it should and every run so
\* far has reported success without a warning.
Edit ==
  /\ Running = {} /\ truth <= MaxEdits
  /\ crashed = {} /\ \A x \in Procs : pc[x] \in {"off", "done"}
  /\ \A i \in Cells : file[i] = truth
  /\ truth' = truth + 1
  /\ file' = [i \in Cells |-> truth']
  /\ UNCHANGED <<meta, saved, pc, crashed, head, mfd>>

-----------------------------------------------------------------------------
Go(x, from, to) ==
  /\ x \notin crashed /\ pc[x] = from
  /\ pc' = [pc EXCEPT ![x] = to]
  /\ UNCHANGED <<truth, crashed>>

\* What write and pwrite of n cells may return.
Counts(n) == IF CallsMayFail THEN 0 .. n ELSE {n}

\* The file after the first k cells of s are written over its beginning.
Overwritten(s, k) == [i \in Cells |-> IF i <= k THEN s[i] ELSE file[i]]

(***************************************************************************)
(* distort                                                                 *)
(***************************************************************************)
\* access(meta, F_OK): somebody has distorted the file already.
CheckMeta(d) ==
  /\ Go(d, "access", IF meta # None THEN "failed" ELSE "pread")
  /\ UNCHANGED <<file, meta, saved, head, mfd>>

\* open, fstat and pread of the head.
ReadHead(d) ==
  /\ Go(d, "pread", "create")
  /\ head' = [head EXCEPT ![d] = SubSeq(file, 1, HeadLen)]
  /\ UNCHANGED <<file, meta, saved, mfd>>

\* Mutant of CreateMeta: O_CREAT without O_EXCL.
Mut_NotExclusive(d) ==
  /\ Go(d, "create", "write_meta")
  /\ meta' = d
  /\ UNCHANGED <<file, saved, head, mfd>>

\* O_CREAT | O_EXCL
CreateMeta(d) ==
  /\ Go(d, "create", IF meta = None THEN "write_meta" ELSE "failed")
  /\ meta' = IF meta = None THEN d ELSE meta
  /\ UNCHANGED <<file, saved, head, mfd>>

\* A short write gives the metadata up.
WriteMeta(d) ==
  \E k \in Counts(Len(head[d])) :
     /\ Go(d, "write_meta", IF k = Len(head[d]) THEN "zero" ELSE "give_up")
     /\ saved' = [saved EXCEPT ![d] = SubSeq(head[d], 1, k)]
     /\ UNCHANGED <<file, meta, head, mfd>>

GiveUp(d) ==
  /\ Go(d, "give_up", "failed")
  /\ \/ meta' = None
     \/ CallsMayFail /\ UNCHANGED meta
  /\ UNCHANGED <<file, saved, head, mfd>>

\* Mutant of ZeroHead: a short write of zeros counts as success.
Mut_ShortZerosIgnored(d) ==
  \E k \in Counts(Len(head[d])) :
     /\ Go(d, "zero", "done")
     /\ file' = Overwritten([i \in DOMAIN head[d] |-> Zero], k)
     /\ UNCHANGED <<meta, saved, head, mfd>>

\* A short write of zeros is reported and the metadata stays.
ZeroHead(d) ==
  \E k \in Counts(Len(head[d])) :
     /\ Go(d, "zero", IF k = Len(head[d]) THEN "done" ELSE "failed")
     /\ file' = Overwritten([i \in DOMAIN head[d] |-> Zero], k)
     /\ UNCHANGED <<meta, saved, head, mfd>>

Distort(d) == \/ CheckMeta(d) \/ ReadHead(d) \/ CreateMeta(d)
              \/ WriteMeta(d) \/ GiveUp(d) \/ ZeroHead(d)

(***************************************************************************)
(* restore                                                                 *)
(***************************************************************************)
OpenMeta(r) ==
  /\ Go(r, "open_meta", IF meta = None THEN "failed" ELSE "read_meta")
  /\ mfd' = [mfd EXCEPT ![r] = meta]
  /\ UNCHANGED <<file, meta, saved, head>>

\* The read loop: everything beyond the file position, until there is
\* nothing.
ReadMeta(r) ==
  LET all == saved[mfd[r]]
  IN /\ Go(r, "read_meta", IF Len(all) = Len(head[r]) THEN "pwrite"
                                                      ELSE "read_meta")
     /\ head' = [head EXCEPT ![r] = all]
     /\ UNCHANGED <<file, meta, saved, mfd>>

\* A short write is reported and the metadata stays.
WriteBack(r) ==
  \E k \in Counts(Len(head[r])) :
     /\ Go(r, "pwrite", IF k = Len(head[r]) THEN "unlink" ELSE "failed")
     /\ file' = Overwritten(head[r], k)
     /\ UNCHANGED <<meta, saved, head, mfd>>

\* Whatever .stash_name stands for by now; a failure is only a warning.
UnlinkMeta(r) ==
  /\ \/ /\ Go(r, "unlink", IF meta # None THEN "done" ELSE "warned")
        /\ meta' = None
     \/ Go(r, "unlink", "warned") /\ CallsMayFail /\ UNCHANGED meta
  /\ UNCHANGED <<file, saved, head, mfd>>

Restore(r) == OpenMeta(r) \/ ReadMeta(r) \/ WriteBack(r) \/ UnlinkMeta(r)

-----------------------------------------------------------------------------
Next == \/ \E x \in Procs : Start(x) \/ Crash(x)
        \/ Edit
        \/ \E d \in Distorters : Distort(d)
        \/ \E r \in Restorers : Restore(r)

Spec == Init /\ [][Next]_vars

-----------------------------------------------------------------------------
(***************************************************************************)
(* Properties.                                                             *)
(***************************************************************************)
DistortSteps == {"access", "pread", "create", "write_meta", "give_up", "zero"}
RestoreSteps == {"open_meta", "read_meta", "pwrite", "unlink"}

Content == UNION {[1 .. n -> Nat] : n \in Nat}

\* Every variable stays in its type: a run takes only the calls of its mode,
\* and nothing longer than the head of the file is ever saved.
TypeOK ==
  /\ truth \in Version
  /\ Size \in Sizes /\ file \in [1 .. Size -> Nat]
  /\ meta \in Distorters \cup {None}
  /\ \A d \in Distorters : saved[d] \in Seq(Nat) /\ Len(saved[d]) <= HeadLen
  /\ \A x \in Procs : head[x] \in Seq(Nat) /\ Len(head[x]) <= HeadLen
  /\ \A d \in Distorters : pc[d] \in DistortSteps \cup Final \cup {"off"}
  /\ \A r \in Restorers :
        /\ pc[r] \in RestoreSteps \cup Final \cup {"off"}
        /\ mfd[r] \in Distorters \cup {None}
        /\ pc[r] = "read_meta" => mfd[r] # None
  /\ crashed \in SUBSET Procs

\* What the file holds after a restore that is run to its end from here; if
\* there is no metadata, restore leaves the file as it is.
AfterRestore(i) ==
  IF meta # None /\ i \in DOMAIN saved[meta] THEN saved[meta][i] ELSE file[i]

\* The user's text is never out of reach: at every moment, whatever was
\* killed or failed half-way before, a restore brings back all of it.
Recoverable == \A i \in Cells : AfterRestore(i) = truth

\* A run of distort that reports success has overwritten the whole head and
\* saved it completely.
DistortReportsTrue ==
  [][\A d \in Distorters :
       pc[d] # "done" /\ pc'[d] = "done" =>
          /\ \A i \in 1 .. HeadLen : file'[i] = Zero
          /\ meta' # None /\ Len(saved'[meta']) = HeadLen]_vars

\* A run of restore that reports success, with a warning or without, leaves
\* the user's text in the file, also when it found the metadata of a run that
\* was killed half-way.
RestoreReportsTrue ==
  [][\A r \in Restorers :
       pc[r] \notin {"done", "warned"} /\ pc'[r] \in {"done", "warned"} =>
          \A i \in Cells : file'[i] = truth']_vars

\* Success is reported truthfully by both modes.
ReportsTrue == DistortReportsTrue /\ RestoreReportsTrue

=============================================================================
