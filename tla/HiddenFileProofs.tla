------------------------- MODULE HiddenFileProofs -------------------------
(***************************************************************************)
(* The two programs that hide files lose none, for instances of any size:  *)
(* hideStash no text of the user, hideFile no file.                        *)
(***************************************************************************)
EXTENDS Stash, Hide, SequenceTheorems, FiniteSetTheorems, TLAPS

-----------------------------------------------------------------------------
(***************************************************************************)
(* No text is lost by hideStash: for any number of runs of distort and     *)
(* restore, any sizes, and any short writes, failing unlinks and kills, as *)
(* long as runs of different modes do not overlap and the file is not      *)
(* edited in between.                                                      *)
(***************************************************************************)
Alive(x, steps) == x \notin crashed /\ pc[x] \in steps

\* The file is what the user wrote; what is saved is a part of it.
Intact == \A i \in Cells : file[i] = truth
OfTruth(s) == \A i \in DOMAIN s : s[i] = truth

Apart == \A d \in Distorters, r \in Restorers : ~ (d \in Running /\ r \in Running)

\* The metadata is complete, or the run that should complete it is gone.
Settled == meta # None /\ ~ Alive(meta, {"write_meta", "give_up"})

DistorterInv(d) ==
  /\ OfTruth(saved[d])
  /\ pc[d] \in {"off", "access", "pread", "create", "write_meta"}
        => saved[d] = <<>>
  /\ Alive(d, {"write_meta", "give_up", "zero"}) => meta = d
  /\ Alive(d, {"create"}) =>
        Len(head[d]) = HeadLen /\ (OfTruth(head[d]) \/ Settled)
  /\ Alive(d, {"write_meta"}) => Len(head[d]) = HeadLen /\ OfTruth(head[d])
  /\ Alive(d, {"give_up"}) => Intact
  /\ Alive(d, {"zero"}) => Len(head[d]) = HeadLen /\ saved[d] = head[d]

RestorerInv(r) ==
  /\ Alive(r, {"read_meta", "pwrite", "unlink"}) => meta \in {None, mfd[r]}
  /\ Alive(r, {"pwrite"}) => mfd[r] # None /\ head[r] = saved[mfd[r]]
  /\ Alive(r, {"unlink"}) => Intact

StashInv ==
  /\ TypeOK /\ Apart /\ Recoverable
  /\ saved \in [Distorters -> Seq(Nat)] /\ head \in [Procs -> Seq(Nat)]
  /\ pc \in [Procs -> DistortSteps \cup RestoreSteps \cup Final \cup {"off"}]
  /\ mfd \in [Restorers -> Distorters \cup {None}]
  /\ \A d \in Distorters : DistorterInv(d)
  /\ \A r \in Restorers : RestorerInv(r)

\* The proofs are about runs that do not overlap runs of the other mode, on
\* a file nobody edits.
Undisturbed == LaunchPolicy \in {"serial", "kind"} /\ MaxEdits = 0

LEMMA FileType ==
  ASSUME TypeOK
  PROVE  /\ Size \in Nat /\ file \in Seq(Nat) /\ Cells = 1 .. Size
         /\ HeadLen \in 0 .. Size
         /\ \A i \in Cells : file[i] \in Nat
  <1>1. Size \in Nat
    BY StashAssumption DEF TypeOK
  <1> QED
    BY <1>1, StashAssumption DEF TypeOK, HeadLen, Cells, Size

LEMMA Prefix ==
  ASSUME NEW s \in Seq(Nat), NEW n \in 0 .. Len(s)
  PROVE  /\ SubSeq(s, 1, n) \in Seq(Nat) /\ Len(SubSeq(s, 1, n)) = n
         /\ DOMAIN SubSeq(s, 1, n) = 1 .. n
         /\ \A i \in 1 .. n : SubSeq(s, 1, n)[i] = s[i]
  BY SubSeqProperties

LEMMA StashInit == Init => StashInv
  <1> SUFFICES ASSUME Init PROVE StashInv
    OBVIOUS
  <1>1. PICK n \in Sizes : file = [i \in 1 .. n |-> truth]
    BY DEF Init
  <1>2. n \in Nat /\ truth = 1
    BY <1>1, StashAssumption DEF Init
  <1>3. Size = n /\ Cells = 1 .. n
    BY <1>1, <1>2 DEF Size, Cells
  <1>4. TypeOK
    BY <1>1, <1>2, <1>3, StashAssumption
       DEF Init, TypeOK, Procs, Version, Zero, HeadLen
  <1> QED
    BY <1>1, <1>2, <1>3, <1>4
       DEF Init, StashInv, Apart, Running, Recoverable, AfterRestore,
           DistorterInv, RestorerInv, Alive, OfTruth, Procs, Final

-----------------------------------------------------------------------------
(***************************************************************************)
(* Starting, killing, editing, and doing nothing.                          *)
(***************************************************************************)
LEMMA StartStep ==
  ASSUME StashInv, Undisturbed, NEW x \in Procs, Start(x)
  PROVE  StashInv'
  <1>1. /\ pc[x] = "off" /\ MayStart(x)
        /\ UNCHANGED <<truth, file, meta, saved, crashed, head, mfd>>
        /\ pc' = [pc EXCEPT ![x] = IF x \in Distorters THEN "access"
                                                      ELSE "open_meta"]
    BY DEF Start
  <1>2. /\ pc' \in [Procs -> DistortSteps \cup RestoreSteps \cup Final \cup {"off"}]
        /\ \A y \in Procs : y # x => pc'[y] = pc[y]
        /\ x \in Distorters => pc'[x] = "access"
        /\ x \in Restorers => pc'[x] = "open_meta"
    BY <1>1, StashAssumption DEF StashInv, DistortSteps, RestoreSteps
  <1>3. TypeOK'
    BY <1>1, <1>2
       DEF StashInv, TypeOK, DistortSteps, RestoreSteps, Procs, Size, HeadLen
  <1>4. Apart'
    <2>1. \A y \in Procs : y # x => (y \in Running' <=> y \in Running)
      BY <1>1, <1>2 DEF Running
    <2>2. \/ Running \subseteq Distorters /\ x \in Distorters
          \/ Running \subseteq Restorers /\ x \in Restorers
      BY <1>1 DEF MayStart, Undisturbed, Procs
    <2> QED
      BY <2>1, <2>2, StashAssumption DEF Apart, StashInv, Procs
  <1>5. Recoverable'
    BY <1>1 DEF StashInv, Recoverable, AfterRestore, Cells
  <1>6. \A y \in Procs :
          /\ Alive(y, {"write_meta", "give_up", "zero"})'
                <=> Alive(y, {"write_meta", "give_up", "zero"})
          /\ Alive(y, {"write_meta", "give_up"})'
                <=> Alive(y, {"write_meta", "give_up"})
          /\ Alive(y, {"write_meta"})' <=> Alive(y, {"write_meta"})
          /\ Alive(y, {"give_up"})' <=> Alive(y, {"give_up"})
          /\ Alive(y, {"zero"})' <=> Alive(y, {"zero"})
          /\ Alive(y, {"create"})' <=> Alive(y, {"create"})
          /\ Alive(y, {"read_meta", "pwrite", "unlink"})'
                <=> Alive(y, {"read_meta", "pwrite", "unlink"})
          /\ Alive(y, {"pwrite"})' <=> Alive(y, {"pwrite"})
          /\ Alive(y, {"unlink"})' <=> Alive(y, {"unlink"})
    BY <1>1, <1>2 DEF Alive, Procs
  <1>7. ASSUME NEW d \in Distorters PROVE DistorterInv(d)'
    <2>1. Settled' <=> Settled
      BY <1>1, <1>6 DEF Settled, StashInv, TypeOK, Procs
    <2>2. pc'[d] \in {"off", "access", "pread", "create", "write_meta"}
            => pc[d] \in {"off", "access", "pread", "create", "write_meta"}
      BY <1>1, <1>2 DEF Procs
    <2>3. DistorterInv(d) /\ d \in Procs
      BY DEF StashInv, Procs
    <2> QED
      BY <1>1, <1>6, <2>1, <2>2, <2>3
         DEF DistorterInv, OfTruth, Intact, HeadLen, Size, Cells
  <1>8. ASSUME NEW r \in Restorers PROVE RestorerInv(r)'
    <2>1. RestorerInv(r) /\ r \in Procs
      BY DEF StashInv, Procs
    <2> QED
      BY <1>1, <1>6, <2>1 DEF RestorerInv, Intact, Cells
  <1> QED
    BY <1>1, <1>2, <1>3, <1>4, <1>5, <1>7, <1>8 DEF StashInv

LEMMA CrashStep ==
  ASSUME StashInv, NEW x \in Procs, Crash(x)
  PROVE  StashInv'
  <1>1. /\ UNCHANGED <<truth, file, meta, saved, pc, head, mfd>>
        /\ crashed' = crashed \cup {x}
    BY DEF Crash
  <1>2. \A y, steps : Alive(y, steps)' => Alive(y, steps)
    BY <1>1 DEF Alive
  <1>3. TypeOK' /\ Apart' /\ Recoverable'
    BY <1>1
       DEF StashInv, TypeOK, Apart, Running, Recoverable, AfterRestore, Procs,
           Size, HeadLen, Cells
  <1>4. Settled => Settled'
    BY <1>1, <1>2 DEF Settled
  <1>5. ASSUME NEW d \in Distorters PROVE DistorterInv(d)'
    BY <1>1, <1>2, <1>4
       DEF StashInv, DistorterInv, OfTruth, Intact, HeadLen, Size, Cells
  <1>6. ASSUME NEW r \in Restorers PROVE RestorerInv(r)'
    BY <1>1, <1>2 DEF StashInv, RestorerInv, Intact, Cells
  <1> QED
    BY <1>1, <1>3, <1>5, <1>6 DEF StashInv

LEMMA NoEdit == StashInv /\ Undisturbed => ~ Edit
  BY DEF StashInv, TypeOK, Undisturbed, Edit, Version, Zero

LEMMA StashStutter == StashInv /\ UNCHANGED vars => StashInv'
  <1> SUFFICES ASSUME StashInv, UNCHANGED vars PROVE StashInv'
    OBVIOUS
  <1>1. UNCHANGED <<truth, file, meta, saved, pc, crashed, head, mfd>>
    BY DEF vars
  <1>2. TypeOK' /\ Apart' /\ Recoverable'
    BY <1>1
       DEF StashInv, TypeOK, Apart, Running, Recoverable, AfterRestore,
           Size, HeadLen, Cells
  <1>3. ASSUME NEW d \in Distorters PROVE DistorterInv(d)'
    BY <1>1
       DEF StashInv, DistorterInv, Alive, OfTruth, Intact, Settled, HeadLen,
           Size, Cells
  <1>4. ASSUME NEW r \in Restorers PROVE RestorerInv(r)'
    BY <1>1 DEF StashInv, RestorerInv, Alive, Intact, Cells
  <1> QED
    BY <1>1, <1>2, <1>3, <1>4 DEF StashInv

-----------------------------------------------------------------------------
(***************************************************************************)
(* What a call does to the processes: the calling run moves on, the other  *)
(* runs stay where they are, and no run of the other mode is at work.      *)
(***************************************************************************)
Steps == DistortSteps \cup RestoreSteps \cup Final \cup {"off"}

LEMMA DistorterMoves ==
  ASSUME StashInv, NEW d \in Distorters, NEW from \in DistortSteps,
         NEW to \in DistortSteps \cup Final, Go(d, from, to)
  PROVE  /\ pc' \in [Procs -> Steps] /\ pc'[d] = to /\ pc[d] = from
         /\ \A y \in Procs : y # d => pc'[y] = pc[y]
         /\ d \notin crashed /\ UNCHANGED <<truth, crashed>>
         /\ \A r \in Restorers : r \notin Running /\ r \notin Running'
         /\ \A r \in Restorers : RestorerInv(r)'
         /\ Apart'
         /\ \A e \in Distorters :
               pc'[e] \in DistortSteps \cup Final \cup {"off"}
         /\ \A r \in Restorers :
               /\ pc'[r] \in RestoreSteps \cup Final \cup {"off"}
               /\ pc'[r] = pc[r]
  <1>1. /\ pc' \in [Procs -> Steps] /\ pc'[d] = to /\ pc[d] = from
        /\ d \notin crashed /\ UNCHANGED <<truth, crashed>>
        /\ \A y \in Procs : y # d => pc'[y] = pc[y]
    BY DEF Go, StashInv, Steps, Procs
  <1>2. d \in Running
    BY <1>1 DEF Running, DistortSteps, Final, Procs
  <1>3. \A r \in Restorers :
           /\ r \in Procs /\ pc'[r] = pc[r] /\ r \notin Running
           /\ r \notin Running'
    BY <1>1, <1>2, StashAssumption DEF StashInv, Apart, Running, Procs
  <1>4. \A r \in Restorers : RestorerInv(r)'
    BY <1>1, <1>3 DEF RestorerInv, Alive, Running, Final
  <1>5. Apart'
    BY <1>3 DEF Apart
  <1>6. /\ \A e \in Distorters :
              pc'[e] \in DistortSteps \cup Final \cup {"off"}
        /\ \A r \in Restorers :
              pc'[r] \in RestoreSteps \cup Final \cup {"off"}
    BY <1>1, <1>3 DEF StashInv, TypeOK, Procs
  <1> QED
    BY <1>1, <1>3, <1>4, <1>5, <1>6

LEMMA RestorerMoves ==
  ASSUME StashInv, NEW r \in Restorers, NEW from \in RestoreSteps,
         NEW to \in RestoreSteps \cup Final, Go(r, from, to)
  PROVE  /\ pc' \in [Procs -> Steps] /\ pc'[r] = to /\ pc[r] = from
         /\ \A y \in Procs : y # r => pc'[y] = pc[y]
         /\ r \notin crashed /\ UNCHANGED <<truth, crashed>>
         /\ \A d \in Distorters :
               /\ ~ Alive(d, DistortSteps) /\ ~ Alive(d, DistortSteps)'
               /\ pc'[d] = pc[d]
         /\ Apart'
         /\ \A d \in Distorters :
               pc'[d] \in DistortSteps \cup Final \cup {"off"}
         /\ \A q \in Restorers :
               pc'[q] \in RestoreSteps \cup Final \cup {"off"}
  <1>1. /\ pc' \in [Procs -> Steps] /\ pc'[r] = to /\ pc[r] = from
        /\ r \notin crashed /\ UNCHANGED <<truth, crashed>>
        /\ \A y \in Procs : y # r => pc'[y] = pc[y]
    BY DEF Go, StashInv, Steps, Procs
  <1>2. r \in Running
    BY <1>1 DEF Running, RestoreSteps, Final, Procs
  <1>3. \A d \in Distorters :
           /\ d \in Procs /\ pc'[d] = pc[d] /\ d \notin Running
           /\ d \notin Running'
    BY <1>1, <1>2, StashAssumption DEF StashInv, Apart, Running, Procs
  <1>4. \A d \in Distorters :
           ~ Alive(d, DistortSteps) /\ ~ Alive(d, DistortSteps)'
    BY <1>1, <1>3 DEF Alive, Running, Final, DistortSteps
  <1>5. Apart'
    BY <1>3 DEF Apart
  <1>6. /\ \A d \in Distorters :
              pc'[d] \in DistortSteps \cup Final \cup {"off"}
        /\ \A q \in Restorers :
              pc'[q] \in RestoreSteps \cup Final \cup {"off"}
    BY <1>1, <1>3 DEF StashInv, TypeOK, Procs
  <1> QED
    BY <1>1, <1>3, <1>4, <1>5, <1>6

\* Without a run of distort at work, all that is asked of one is that what
\* it saved is true.
LEMMA NoDistorter ==
  ASSUME StashInv, NEW d \in Distorters, ~ Alive(d, DistortSteps)',
         UNCHANGED <<truth, saved>>, pc'[d] = pc[d]
  PROVE  DistorterInv(d)'
  BY DEF StashInv, DistorterInv, Alive, DistortSteps, OfTruth

-----------------------------------------------------------------------------
(***************************************************************************)
(* distort                                                                 *)
(***************************************************************************)
LEMMA CheckMetaStep ==
  ASSUME StashInv, NEW d \in Distorters, CheckMeta(d)
  PROVE  StashInv'
  <1>1. PICK to \in {"failed", "pread"} :
          /\ Go(d, "access", to)
          /\ UNCHANGED <<file, meta, saved, head, mfd>>
    BY DEF CheckMeta
  <1> DEFINE Moved ==
        /\ pc' \in [Procs -> Steps] /\ pc'[d] = to /\ pc[d] = "access"
        /\ \A y \in Procs : y # d => pc'[y] = pc[y]
        /\ UNCHANGED <<truth, crashed>>
        /\ \A r \in Restorers : RestorerInv(r)'
        /\ Apart'
        /\ \A e \in Distorters :
              pc'[e] \in DistortSteps \cup Final \cup {"off"}
        /\ \A r \in Restorers :
              /\ pc'[r] \in RestoreSteps \cup Final \cup {"off"}
              /\ pc'[r] = pc[r]
  <1>2. Moved
    BY <1>1, DistorterMoves DEF DistortSteps, Final
  <1>3. TypeOK' /\ Recoverable'
    BY <1>1, <1>2
       DEF StashInv, TypeOK, Recoverable, AfterRestore, HeadLen, Size, Cells
  <1>4. ASSUME NEW e \in Distorters PROVE DistorterInv(e)'
    <2>1. e \in Procs /\ DistorterInv(e)
      BY DEF Procs, StashInv
    <2>2. Settled => Settled'
      BY <1>1, <1>2 DEF Settled, Alive, StashInv, TypeOK, Procs
    <2>3. CASE e = d
      BY <1>1, <1>2, <2>1, <2>3 DEF DistorterInv, Alive, OfTruth
    <2>4. CASE e # d
      BY <1>1, <1>2, <2>1, <2>2, <2>4
         DEF DistorterInv, Alive, OfTruth, Intact, HeadLen, Size, Cells
    <2> QED
      BY <2>3, <2>4
  <1> QED
    BY <1>1, <1>2, <1>3, <1>4 DEF StashInv, Steps

LEMMA ReadHeadStep ==
  ASSUME StashInv, NEW d \in Distorters, ReadHead(d)
  PROVE  StashInv'
  <1> DEFINE h == SubSeq(file, 1, HeadLen)
  <1>1. /\ Go(d, "pread", "create") /\ head' = [head EXCEPT ![d] = h]
        /\ UNCHANGED <<file, meta, saved, mfd>>
    BY DEF ReadHead
  <1>2. /\ pc' \in [Procs -> Steps] /\ pc'[d] = "create" /\ pc[d] = "pread"
        /\ \A y \in Procs : y # d => pc'[y] = pc[y]
        /\ UNCHANGED <<truth, crashed>>
        /\ \A r \in Restorers : RestorerInv(r)'
        /\ Apart'
        /\ \A e \in Distorters :
              pc'[e] \in DistortSteps \cup Final \cup {"off"}
        /\ \A r \in Restorers :
              /\ pc'[r] \in RestoreSteps \cup Final \cup {"off"}
              /\ pc'[r] = pc[r]
    BY <1>1, DistorterMoves DEF DistortSteps
  <1>3. /\ Size \in Nat /\ file \in Seq(Nat) /\ Cells = 1 .. Size
        /\ HeadLen \in 0 .. Size
    BY FileType DEF StashInv
  <1>4. /\ h \in Seq(Nat) /\ Len(h) = HeadLen /\ DOMAIN h = 1 .. HeadLen
        /\ \A i \in 1 .. HeadLen : h[i] = file[i]
    BY <1>3, Prefix, Len(file) = Size DEF Size
  <1>5. /\ head' \in [Procs -> Seq(Nat)] /\ head'[d] = h
        /\ \A y \in Procs : y # d => head'[y] = head[y]
    BY <1>1, <1>4 DEF StashInv, Procs
  <1>6. HeadLen' = HeadLen /\ Size' = Size /\ Cells' = Cells
    BY <1>1 DEF HeadLen, Size, Cells
  <1>7. TypeOK'
    <2>1. ASSUME NEW x \in Procs
          PROVE  head'[x] \in Seq(Nat) /\ Len(head'[x]) <= HeadLen
      <3>1. CASE x = d
        BY <1>3, <1>4, <1>5, <3>1
      <3>2. CASE x # d
        BY <1>5, <3>2 DEF StashInv, TypeOK
      <3> QED
        BY <3>1, <3>2
    <2> QED
      BY <1>1, <1>2, <1>6, <2>1 DEF StashInv, TypeOK
  <1>8. Recoverable'
    BY <1>1, <1>2, <1>6 DEF StashInv, Recoverable, AfterRestore
  <1>9. Intact \/ Settled
    <2> SUFFICES ASSUME ~ Settled PROVE Intact
      OBVIOUS
    <2>1. CASE meta = None
      BY <2>1 DEF StashInv, Recoverable, AfterRestore, Intact
    <2>2. CASE meta # None
      <3>1. meta \in Distorters /\ Alive(meta, {"write_meta", "give_up"})
        BY <2>2 DEF StashInv, TypeOK, Settled
      <3>2. CASE pc[meta] = "give_up"
        BY <3>1, <3>2 DEF StashInv, DistorterInv, Alive
      <3>3. CASE pc[meta] = "write_meta"
        <4>1. saved[meta] = <<>>
          BY <3>1, <3>3 DEF StashInv, DistorterInv
        <4> QED
          BY <4>1 DEF StashInv, Recoverable, AfterRestore, Intact
      <3> QED
        BY <3>1, <3>2, <3>3 DEF Alive
    <2> QED
      BY <2>1, <2>2
  <1>10. Settled' <=> Settled
    BY <1>1, <1>2 DEF Settled, Alive, StashInv, TypeOK, Procs
  <1>11. ASSUME NEW e \in Distorters PROVE DistorterInv(e)'
    <2>1. e \in Procs /\ DistorterInv(e)
      BY DEF Procs, StashInv
    <2>2. CASE e = d
      <3>1. Intact => OfTruth(h)
        BY <1>3, <1>4 DEF Intact, OfTruth
      <3>2. OfTruth(h) \/ Settled'
        BY <1>9, <1>10, <3>1
      <3> QED
        BY <1>1, <1>2, <1>4, <1>5, <1>6, <2>1, <2>2, <3>2
           DEF DistorterInv, Alive, OfTruth
    <2>3. CASE e # d
      BY <1>1, <1>2, <1>5, <1>6, <1>10, <2>1, <2>3
         DEF DistorterInv, Alive, OfTruth, Intact
    <2> QED
      BY <2>2, <2>3
  <1> QED
    BY <1>1, <1>2, <1>5, <1>7, <1>8, <1>11 DEF StashInv, Steps

LEMMA CreateMetaStep ==
  ASSUME StashInv, NEW d \in Distorters, CreateMeta(d)
  PROVE  StashInv'
  <1>1. PICK to \in {"write_meta", "failed"} :
          /\ Go(d, "create", to)
          /\ to = "write_meta" <=> meta = None
          /\ meta' = IF meta = None THEN d ELSE meta
          /\ UNCHANGED <<file, saved, head, mfd>>
    BY DEF CreateMeta
  <1>2. /\ pc' \in [Procs -> Steps] /\ pc'[d] = to /\ pc[d] = "create"
        /\ \A y \in Procs : y # d => pc'[y] = pc[y]
        /\ d \notin crashed /\ UNCHANGED <<truth, crashed>>
        /\ \A r \in Restorers : RestorerInv(r)'
        /\ Apart'
        /\ \A e \in Distorters :
              pc'[e] \in DistortSteps \cup Final \cup {"off"}
        /\ \A r \in Restorers :
              /\ pc'[r] \in RestoreSteps \cup Final \cup {"off"}
              /\ pc'[r] = pc[r]
    BY <1>1, DistorterMoves DEF DistortSteps, Final
  <1>3. HeadLen' = HeadLen /\ Size' = Size /\ Cells' = Cells
    BY <1>1 DEF HeadLen, Size, Cells
  <1>4. DistorterInv(d) /\ d \in Procs /\ d # None /\ saved[d] = <<>>
    BY <1>2, StashAssumption DEF StashInv, Procs, DistorterInv
  <1>5. TypeOK'
    BY <1>1, <1>2, <1>3 DEF StashInv, TypeOK
  <1>6. Recoverable'
    BY <1>1, <1>2, <1>3, <1>4 DEF StashInv, Recoverable, AfterRestore
  <1>7. ASSUME NEW e \in Distorters PROVE DistorterInv(e)'
    <2>1. e \in Procs /\ DistorterInv(e)
      BY DEF Procs, StashInv
    <2>2. CASE meta = None
      <3>1. ~ Settled
        BY <2>2 DEF Settled
      <3>2. CASE e = d
        BY <1>1, <1>2, <1>3, <1>4, <2>1, <2>2, <3>1, <3>2
           DEF DistorterInv, Alive, OfTruth
      <3>3. CASE e # d
        <4>1. ~ Alive(e, {"write_meta", "give_up", "zero"})
          BY <2>1, <2>2, StashAssumption DEF DistorterInv
        <4> QED
          BY <1>1, <1>2, <1>3, <2>1, <3>1, <3>3, <4>1
             DEF DistorterInv, Alive, OfTruth
      <3> QED
        BY <3>2, <3>3
    <2>3. CASE meta # None
      <3>1. Settled => Settled'
        BY <1>1, <1>2, <2>3 DEF Settled, Alive, StashInv, TypeOK, Procs
      <3>2. CASE e = d
        BY <1>1, <1>2, <1>3, <2>1, <2>3, <3>2 DEF DistorterInv, Alive, OfTruth
      <3>3. CASE e # d
        BY <1>1, <1>2, <1>3, <2>1, <2>3, <3>1, <3>3
           DEF DistorterInv, Alive, OfTruth, Intact
      <3> QED
        BY <3>2, <3>3
    <2> QED
      BY <2>2, <2>3
  <1> QED
    BY <1>1, <1>2, <1>5, <1>6, <1>7 DEF StashInv, Steps

LEMMA WriteMetaStep ==
  ASSUME StashInv, NEW d \in Distorters, WriteMeta(d)
  PROVE  StashInv'
  <1>0. DistorterInv(d) /\ d \in Procs /\ head[d] \in Seq(Nat)
    BY DEF StashInv, Procs
  <1>1. PICK k \in Counts(Len(head[d])) :
          /\ Go(d, "write_meta",
                IF k = Len(head[d]) THEN "zero" ELSE "give_up")
          /\ saved' = [saved EXCEPT ![d] = SubSeq(head[d], 1, k)]
          /\ UNCHANGED <<file, meta, head, mfd>>
    BY DEF WriteMeta
  <1>2. PICK to \in {"zero", "give_up"} :
          Go(d, "write_meta", to) /\ (to = "zero" => k = Len(head[d]))
    BY <1>1
  <1> DEFINE s == SubSeq(head[d], 1, k)
  <1>3. /\ pc' \in [Procs -> Steps] /\ pc'[d] = to /\ pc[d] = "write_meta"
        /\ \A y \in Procs : y # d => pc'[y] = pc[y]
        /\ d \notin crashed /\ UNCHANGED <<truth, crashed>>
        /\ \A r \in Restorers : RestorerInv(r)'
        /\ Apart'
        /\ \A e \in Distorters :
              pc'[e] \in DistortSteps \cup Final \cup {"off"}
        /\ \A r \in Restorers :
              /\ pc'[r] \in RestoreSteps \cup Final \cup {"off"}
              /\ pc'[r] = pc[r]
    BY <1>2, DistorterMoves DEF DistortSteps, Final
  <1>4. k \in 0 .. Len(head[d]) /\ k \in Nat
    BY <1>0, <1>1 DEF Counts
  <1>5. /\ s \in Seq(Nat) /\ Len(s) = k /\ DOMAIN s = 1 .. k
        /\ \A i \in 1 .. k : s[i] = head[d][i]
    BY <1>0, <1>4, Prefix
  <1>6. /\ saved' \in [Distorters -> Seq(Nat)] /\ saved'[d] = s
        /\ \A e \in Distorters : e # d => saved'[e] = saved[e]
    BY <1>1, <1>5 DEF StashInv
  <1>7. HeadLen' = HeadLen /\ Size' = Size /\ Cells' = Cells
    BY <1>1 DEF HeadLen, Size, Cells
  <1>8. /\ Len(head[d]) = HeadLen /\ OfTruth(head[d]) /\ saved[d] = <<>>
        /\ meta = d /\ d # None
    BY <1>0, <1>3, StashAssumption DEF DistorterInv, Alive
  <1>9. Intact /\ OfTruth(s)
    <2>1. Intact
      BY <1>8 DEF StashInv, Recoverable, AfterRestore, Intact
    <2>2. DOMAIN head[d] = 1 .. Len(head[d])
      BY <1>0
    <2> QED
      BY <1>4, <1>5, <1>8, <2>1, <2>2 DEF OfTruth
  <1>10. TypeOK'
    <2>1. ASSUME NEW e \in Distorters
          PROVE  saved'[e] \in Seq(Nat) /\ Len(saved'[e]) <= HeadLen
      <3>1. CASE e = d
        BY <1>0, <1>4, <1>5, <1>6, <1>8, <3>1
      <3>2. CASE e # d
        BY <1>6, <3>2 DEF StashInv, TypeOK
      <3> QED
        BY <3>1, <3>2
    <2> QED
      BY <1>1, <1>3, <1>7, <2>1 DEF StashInv, TypeOK
  <1>11. Recoverable'
    BY <1>1, <1>3, <1>6, <1>7, <1>8, <1>9
       DEF Recoverable, AfterRestore, Intact, OfTruth
  <1>12. ASSUME NEW e \in Distorters PROVE DistorterInv(e)'
    <2>1. e \in Procs /\ DistorterInv(e)
      BY DEF Procs, StashInv
    <2>2. CASE e = d
      <3>1. pc'[d] = "zero" => saved'[d] = head'[d]
        <4> SUFFICES ASSUME pc'[d] = "zero" PROVE s = head[d]
          BY <1>1, <1>6
        <4>1. Len(s) = Len(head[d])
          BY <1>2, <1>3, <1>5
        <4> QED
          BY <1>0, <1>5, <4>1, SeqEqual
      <3> QED
        BY <1>1, <1>3, <1>6, <1>7, <1>8, <1>9, <2>1, <2>2, <3>1
           DEF DistorterInv, Alive, OfTruth, Intact
    <2>3. CASE e # d
      <3>1. ~ Settled
        BY <1>3, <1>8 DEF Settled, Alive
      <3> QED
        BY <1>1, <1>3, <1>6, <1>7, <2>1, <2>3, <3>1
           DEF DistorterInv, Alive, OfTruth, Intact
    <2> QED
      BY <2>2, <2>3
  <1> QED
    BY <1>1, <1>3, <1>6, <1>10, <1>11, <1>12 DEF StashInv, Steps

LEMMA GiveUpStep ==
  ASSUME StashInv, NEW d \in Distorters, GiveUp(d)
  PROVE  StashInv'
  <1>1. /\ Go(d, "give_up", "failed")
        /\ meta' \in {None, meta} /\ UNCHANGED <<file, saved, head, mfd>>
    BY DEF GiveUp
  <1>2. /\ pc' \in [Procs -> Steps] /\ pc'[d] = "failed" /\ pc[d] = "give_up"
        /\ \A y \in Procs : y # d => pc'[y] = pc[y]
        /\ d \notin crashed /\ UNCHANGED <<truth, crashed>>
        /\ \A r \in Restorers : RestorerInv(r)'
        /\ Apart'
        /\ \A e \in Distorters :
              pc'[e] \in DistortSteps \cup Final \cup {"off"}
        /\ \A r \in Restorers :
              /\ pc'[r] \in RestoreSteps \cup Final \cup {"off"}
              /\ pc'[r] = pc[r]
    BY <1>1, DistorterMoves DEF DistortSteps, Final
  <1>3. HeadLen' = HeadLen /\ Size' = Size /\ Cells' = Cells
    BY <1>1 DEF HeadLen, Size, Cells
  <1>4. Intact /\ meta = d /\ d \in Procs
    BY <1>2 DEF StashInv, DistorterInv, Alive, Procs
  <1>5. TypeOK'
    BY <1>1, <1>2, <1>3 DEF StashInv, TypeOK
  <1>6. Recoverable'
    BY <1>1, <1>2, <1>3, <1>4 DEF StashInv, Recoverable, AfterRestore, Intact
  <1>7. ASSUME NEW e \in Distorters PROVE DistorterInv(e)'
    <2>1. e \in Procs /\ DistorterInv(e)
      BY DEF Procs, StashInv
    <2>2. ~ Settled
      BY <1>2, <1>4 DEF Settled, Alive
    <2>3. CASE e = d
      BY <1>1, <1>2, <2>1, <2>3 DEF DistorterInv, Alive, OfTruth
    <2>4. CASE e # d
      BY <1>1, <1>2, <1>3, <1>4, <2>1, <2>2, <2>4
         DEF DistorterInv, Alive, OfTruth, Intact
    <2> QED
      BY <2>3, <2>4
  <1> QED
    BY <1>1, <1>2, <1>5, <1>6, <1>7 DEF StashInv, Steps

\* The file after the first k cells of s are written over its beginning.
LEMMA OverwrittenType ==
  ASSUME TypeOK, NEW s \in Seq(Nat), NEW k \in 0 .. Len(s), Len(s) <= HeadLen,
         file' = Overwritten(s, k)
  PROVE  /\ file' \in [1 .. Size -> Nat] /\ Size' = Size
         /\ Cells' = Cells /\ HeadLen' = HeadLen
         /\ \A i \in Cells : file'[i] = IF i <= k THEN s[i] ELSE file[i]
  <1>1. /\ Size \in Nat /\ Cells = 1 .. Size
        /\ \A i \in Cells : file[i] \in Nat
    BY FileType
  <1>2. \A i \in Cells : i <= k => s[i] \in Nat
    BY <1>1
  <1>3. file' \in [1 .. Size -> Nat]
    BY <1>1, <1>2 DEF Overwritten
  <1>4. Len(file') = Size
    BY <1>1, <1>3
  <1> QED
    BY <1>1, <1>3, <1>4 DEF Overwritten, Size, Cells, HeadLen

LEMMA ZeroHeadStep ==
  ASSUME StashInv, NEW d \in Distorters, ZeroHead(d)
  PROVE  StashInv'
  <1>0. DistorterInv(d) /\ d \in Procs /\ head[d] \in Seq(Nat)
    BY DEF StashInv, Procs
  <1> DEFINE zeros == [i \in DOMAIN head[d] |-> Zero]
  <1>1. PICK k \in Counts(Len(head[d])) :
          /\ Go(d, "zero", IF k = Len(head[d]) THEN "done" ELSE "failed")
          /\ file' = Overwritten(zeros, k)
          /\ UNCHANGED <<meta, saved, head, mfd>>
    BY DEF ZeroHead
  <1>2. PICK to \in {"done", "failed"} : Go(d, "zero", to)
    BY <1>1
  <1>3. /\ pc' \in [Procs -> Steps] /\ pc'[d] = to /\ pc[d] = "zero"
        /\ \A y \in Procs : y # d => pc'[y] = pc[y]
        /\ d \notin crashed /\ UNCHANGED <<truth, crashed>>
        /\ \A r \in Restorers : RestorerInv(r)'
        /\ Apart'
        /\ \A e \in Distorters :
              pc'[e] \in DistortSteps \cup Final \cup {"off"}
        /\ \A r \in Restorers :
              /\ pc'[r] \in RestoreSteps \cup Final \cup {"off"}
              /\ pc'[r] = pc[r]
    BY <1>2, DistorterMoves DEF DistortSteps, Final
  <1>4. /\ meta = d /\ d # None /\ Len(head[d]) = HeadLen
        /\ saved[d] = head[d] /\ OfTruth(saved[d])
    BY <1>0, <1>3, StashAssumption DEF DistorterInv, Alive
  <1>5. k \in 0 .. Len(head[d])
    BY <1>0, <1>1 DEF Counts
  <1>6. zeros \in Seq(Nat) /\ Len(zeros) = Len(head[d])
    BY <1>0 DEF Zero
  <1>7. /\ file' \in [1 .. Size -> Nat] /\ Size' = Size
        /\ Cells' = Cells /\ HeadLen' = HeadLen
        /\ \A i \in Cells : file'[i] = IF i <= k THEN zeros[i] ELSE file[i]
    <2>1. TypeOK /\ k \in 0 .. Len(zeros) /\ Len(zeros) <= HeadLen
      BY <1>4, <1>5, <1>6, FileType DEF StashInv
    <2> QED
      BY <1>1, <1>6, <2>1, OverwrittenType
  <1>8. TypeOK'
    BY <1>1, <1>3, <1>7 DEF StashInv, TypeOK
  <1>9. Recoverable'
    <2> SUFFICES ASSUME NEW i \in Cells PROVE AfterRestore(i)' = truth
      BY <1>3, <1>7 DEF Recoverable
    <2>1. Cells = 1 .. Size /\ Size \in Nat
      BY FileType DEF StashInv
    <2>2. DOMAIN saved[d] = 1 .. HeadLen
      BY <1>0, <1>4
    <2>3. CASE i <= HeadLen
      BY <1>1, <1>4, <2>1, <2>2, <2>3 DEF AfterRestore, OfTruth
    <2>4. CASE ~ i <= HeadLen
      <3>1. file'[i] = file[i]
        BY <1>4, <1>5, <1>7, <2>1, <2>4, FileType DEF StashInv
      <3>2. i \notin DOMAIN saved[d]
        BY <2>2, <2>4
      <3> QED
        BY <1>1, <1>4, <3>1, <3>2 DEF AfterRestore, StashInv, Recoverable
    <2> QED
      BY <2>3, <2>4
  <1>10. ASSUME NEW e \in Distorters PROVE DistorterInv(e)'
    <2>1. e \in Procs /\ DistorterInv(e)
      BY DEF Procs, StashInv
    <2>2. Settled'
      BY <1>1, <1>3, <1>4 DEF Settled, Alive
    <2>3. CASE e = d
      BY <1>1, <1>3, <2>1, <2>3 DEF DistorterInv, Alive, OfTruth
    <2>4. CASE e # d
      <3>1. ~ Alive(e, {"write_meta", "give_up", "zero"})
        BY <1>4, <2>1, <2>4 DEF DistorterInv
      <3> QED
        BY <1>1, <1>3, <1>7, <2>1, <2>2, <2>4, <3>1
           DEF DistorterInv, Alive, OfTruth
    <2> QED
      BY <2>3, <2>4
  <1> QED
    BY <1>1, <1>3, <1>8, <1>9, <1>10 DEF StashInv, Steps

-----------------------------------------------------------------------------
(***************************************************************************)
(* restore                                                                 *)
(***************************************************************************)
LEMMA OpenMetaStep ==
  ASSUME StashInv, NEW r \in Restorers, OpenMeta(r)
  PROVE  StashInv'
  <1>0. RestorerInv(r) /\ r \in Procs
    BY DEF StashInv, Procs
  <1>1. PICK to \in {"failed", "read_meta"} :
          /\ Go(r, "open_meta", to) /\ (to = "read_meta" => meta # None)
          /\ mfd' = [mfd EXCEPT ![r] = meta]
          /\ UNCHANGED <<file, meta, saved, head>>
    BY DEF OpenMeta
  <1>2. /\ pc' \in [Procs -> Steps] /\ pc'[r] = to /\ pc[r] = "open_meta"
        /\ \A y \in Procs : y # r => pc'[y] = pc[y]
        /\ r \notin crashed /\ UNCHANGED <<truth, crashed>>
        /\ \A d \in Distorters :
              /\ ~ Alive(d, DistortSteps) /\ ~ Alive(d, DistortSteps)'
              /\ pc'[d] = pc[d]
        /\ Apart'
        /\ \A d \in Distorters :
              pc'[d] \in DistortSteps \cup Final \cup {"off"}
        /\ \A q \in Restorers :
              pc'[q] \in RestoreSteps \cup Final \cup {"off"}
    BY <1>1, RestorerMoves DEF RestoreSteps, Final
  <1>3. /\ mfd' \in [Restorers -> Distorters \cup {None}] /\ mfd'[r] = meta
        /\ \A q \in Restorers : q # r => mfd'[q] = mfd[q]
    BY <1>1 DEF StashInv, TypeOK
  <1>4. HeadLen' = HeadLen /\ Size' = Size /\ Cells' = Cells
    BY <1>1 DEF HeadLen, Size, Cells
  <1>5. TypeOK'
    <2>1. \A q \in Restorers : pc'[q] = "read_meta" => mfd'[q] # None
      BY <1>1, <1>2, <1>3 DEF StashInv, TypeOK, Procs
    <2> QED
      BY <1>1, <1>2, <1>3, <1>4, <2>1 DEF StashInv, TypeOK
  <1>6. Recoverable'
    BY <1>1, <1>2, <1>4 DEF StashInv, Recoverable, AfterRestore
  <1>7. \A d \in Distorters : DistorterInv(d)'
    BY <1>1, <1>2, NoDistorter
  <1>8. ASSUME NEW q \in Restorers PROVE RestorerInv(q)'
    <2>1. q \in Procs /\ RestorerInv(q)
      BY DEF Procs, StashInv
    <2>2. CASE q = r
      BY <1>1, <1>2, <1>3, <2>2 DEF RestorerInv, Alive
    <2>3. CASE q # r
      BY <1>1, <1>2, <1>3, <1>4, <2>1, <2>3 DEF RestorerInv, Alive, Intact
    <2> QED
      BY <2>2, <2>3
  <1> QED
    BY <1>1, <1>2, <1>3, <1>5, <1>6, <1>7, <1>8 DEF StashInv, Steps

LEMMA ReadMetaStep ==
  ASSUME StashInv, NEW r \in Restorers, ReadMeta(r)
  PROVE  StashInv'
  <1>0. RestorerInv(r) /\ r \in Procs
    BY DEF StashInv, Procs
  <1> DEFINE all == saved[mfd[r]]
  <1>1. PICK to \in {"pwrite", "read_meta"} :
          /\ Go(r, "read_meta", to)
          /\ head' = [head EXCEPT ![r] = all]
          /\ UNCHANGED <<file, meta, saved, mfd>>
    BY DEF ReadMeta
  <1>2. /\ pc' \in [Procs -> Steps] /\ pc'[r] = to /\ pc[r] = "read_meta"
        /\ \A y \in Procs : y # r => pc'[y] = pc[y]
        /\ r \notin crashed /\ UNCHANGED <<truth, crashed>>
        /\ \A d \in Distorters :
              /\ ~ Alive(d, DistortSteps) /\ ~ Alive(d, DistortSteps)'
              /\ pc'[d] = pc[d]
        /\ Apart'
        /\ \A d \in Distorters :
              pc'[d] \in DistortSteps \cup Final \cup {"off"}
        /\ \A q \in Restorers :
              pc'[q] \in RestoreSteps \cup Final \cup {"off"}
    BY <1>1, RestorerMoves DEF RestoreSteps, Final
  <1>3. mfd[r] \in Distorters /\ mfd[r] # None
    BY <1>2 DEF StashInv, TypeOK
  <1>4. all \in Seq(Nat) /\ Len(all) <= HeadLen
    BY <1>3 DEF StashInv, TypeOK
  <1>5. /\ head' \in [Procs -> Seq(Nat)] /\ head'[r] = all
        /\ \A y \in Procs : y # r => head'[y] = head[y]
    BY <1>0, <1>1, <1>4 DEF StashInv
  <1>6. HeadLen' = HeadLen /\ Size' = Size /\ Cells' = Cells
    BY <1>1 DEF HeadLen, Size, Cells
  <1>7. TypeOK'
    <2>1. \A q \in Restorers : pc'[q] = "read_meta" => mfd[q] # None
      BY <1>2, <1>3 DEF StashInv, TypeOK, Procs
    <2>2. ASSUME NEW x \in Procs
          PROVE  head'[x] \in Seq(Nat) /\ Len(head'[x]) <= HeadLen
      <3>1. CASE x = r
        BY <1>4, <1>5, <3>1
      <3>2. CASE x # r
        BY <1>5, <3>2 DEF StashInv, TypeOK
      <3> QED
        BY <3>1, <3>2
    <2> QED
      BY <1>1, <1>2, <1>6, <2>1, <2>2 DEF StashInv, TypeOK
  <1>8. Recoverable'
    BY <1>1, <1>2, <1>6 DEF StashInv, Recoverable, AfterRestore
  <1>9. \A d \in Distorters : DistorterInv(d)'
    BY <1>1, <1>2, NoDistorter
  <1>10. ASSUME NEW q \in Restorers PROVE RestorerInv(q)'
    <2>1. q \in Procs /\ RestorerInv(q)
      BY DEF Procs, StashInv
    <2>2. CASE q = r
      BY <1>1, <1>2, <1>3, <1>5, <2>1, <2>2 DEF RestorerInv, Alive
    <2>3. CASE q # r
      BY <1>1, <1>2, <1>5, <1>6, <2>1, <2>3 DEF RestorerInv, Alive, Intact
    <2> QED
      BY <2>2, <2>3
  <1> QED
    BY <1>1, <1>2, <1>5, <1>7, <1>8, <1>9, <1>10 DEF StashInv, Steps

LEMMA WriteBackStep ==
  ASSUME StashInv, NEW r \in Restorers, WriteBack(r)
  PROVE  StashInv'
  <1>0. RestorerInv(r) /\ r \in Procs /\ head[r] \in Seq(Nat)
    BY DEF StashInv, Procs
  <1>1. PICK k \in Counts(Len(head[r])) :
          /\ Go(r, "pwrite", IF k = Len(head[r]) THEN "unlink" ELSE "failed")
          /\ file' = Overwritten(head[r], k)
          /\ UNCHANGED <<meta, saved, head, mfd>>
    BY DEF WriteBack
  <1>2. PICK to \in {"unlink", "failed"} :
          Go(r, "pwrite", to) /\ (to = "unlink" => k = Len(head[r]))
    BY <1>1
  <1>3. /\ pc' \in [Procs -> Steps] /\ pc'[r] = to /\ pc[r] = "pwrite"
        /\ \A y \in Procs : y # r => pc'[y] = pc[y]
        /\ r \notin crashed /\ UNCHANGED <<truth, crashed>>
        /\ \A d \in Distorters :
              /\ ~ Alive(d, DistortSteps) /\ ~ Alive(d, DistortSteps)'
              /\ pc'[d] = pc[d]
        /\ Apart'
        /\ \A d \in Distorters :
              pc'[d] \in DistortSteps \cup Final \cup {"off"}
        /\ \A q \in Restorers :
              pc'[q] \in RestoreSteps \cup Final \cup {"off"}
    BY <1>2, RestorerMoves DEF RestoreSteps, Final
  <1>4. /\ mfd[r] \in Distorters /\ head[r] = saved[mfd[r]]
        /\ meta \in {None, mfd[r]} /\ OfTruth(head[r])
    BY <1>0, <1>3 DEF RestorerInv, Alive, StashInv, DistorterInv
  <1>5. k \in 0 .. Len(head[r]) /\ DOMAIN head[r] = 1 .. Len(head[r])
    BY <1>0, <1>1 DEF Counts
  <1>6. /\ file' \in [1 .. Size -> Nat] /\ Size' = Size
        /\ Cells' = Cells /\ HeadLen' = HeadLen
        /\ \A i \in Cells : file'[i] = IF i <= k THEN head[r][i] ELSE file[i]
    <2>1. TypeOK /\ Len(head[r]) <= HeadLen
      BY <1>0 DEF StashInv, TypeOK
    <2> QED
      BY <1>0, <1>1, <1>5, <2>1, OverwrittenType
  <1>7. \A i \in Cells : file'[i] \in {truth, file[i]}
    <2>1. Cells = 1 .. Size /\ Size \in Nat
      BY FileType DEF StashInv
    <2> QED
      BY <1>4, <1>5, <1>6, <2>1 DEF OfTruth
  <1>8. TypeOK'
    <2>1. \A q \in Restorers : pc'[q] = "read_meta" => mfd[q] # None
      BY <1>3 DEF StashInv, TypeOK, Procs
    <2> QED
      BY <1>1, <1>3, <1>6, <2>1 DEF StashInv, TypeOK
  <1>9. Recoverable'
    BY <1>1, <1>3, <1>6, <1>7 DEF StashInv, Recoverable, AfterRestore
  <1>10. Intact => Intact'
    BY <1>3, <1>6, <1>7 DEF Intact
  <1>11. to = "unlink" => Intact'
    <2> SUFFICES ASSUME k = Len(head[r]), NEW i \in Cells
                 PROVE  file'[i] = truth
      BY <1>2, <1>3, <1>6 DEF Intact
    <2>1. i \in 1 .. Size /\ Size \in Nat
      BY FileType DEF StashInv
    <2>2. CASE i \in DOMAIN head[r]
      BY <1>4, <1>5, <1>6, <2>2 DEF OfTruth
    <2>3. CASE i \notin DOMAIN head[r]
      <3>1. file'[i] = file[i]
        BY <1>5, <1>6, <2>1, <2>3
      <3>2. AfterRestore(i) = file[i]
        BY <1>4, <2>3 DEF AfterRestore
      <3> QED
        BY <3>1, <3>2 DEF StashInv, Recoverable
    <2> QED
      BY <2>2, <2>3
  <1>12. \A d \in Distorters : DistorterInv(d)'
    BY <1>1, <1>3, NoDistorter
  <1>13. ASSUME NEW q \in Restorers PROVE RestorerInv(q)'
    <2>1. q \in Procs /\ RestorerInv(q)
      BY DEF Procs, StashInv
    <2>2. CASE q = r
      BY <1>1, <1>3, <1>4, <1>11, <2>2 DEF RestorerInv, Alive
    <2>3. CASE q # r
      BY <1>1, <1>3, <1>10, <2>1, <2>3 DEF RestorerInv, Alive
    <2> QED
      BY <2>2, <2>3
  <1> QED
    BY <1>1, <1>3, <1>8, <1>9, <1>12, <1>13 DEF StashInv, Steps

LEMMA UnlinkMetaStep ==
  ASSUME StashInv, NEW r \in Restorers, UnlinkMeta(r)
  PROVE  StashInv'
  <1>1. PICK to \in {"done", "warned"} :
          /\ Go(r, "unlink", to)
          /\ meta' \in {None, meta} /\ UNCHANGED <<file, saved, head, mfd>>
    BY DEF UnlinkMeta
  <1>2. /\ pc' \in [Procs -> Steps] /\ pc'[r] = to /\ pc[r] = "unlink"
        /\ \A y \in Procs : y # r => pc'[y] = pc[y]
        /\ r \notin crashed /\ UNCHANGED <<truth, crashed>>
        /\ \A d \in Distorters :
              /\ ~ Alive(d, DistortSteps) /\ ~ Alive(d, DistortSteps)'
              /\ pc'[d] = pc[d]
        /\ Apart'
        /\ \A d \in Distorters :
              pc'[d] \in DistortSteps \cup Final \cup {"off"}
        /\ \A q \in Restorers :
              pc'[q] \in RestoreSteps \cup Final \cup {"off"}
    BY <1>1, RestorerMoves DEF RestoreSteps, Final
  <1>3. HeadLen' = HeadLen /\ Size' = Size /\ Cells' = Cells
    BY <1>1 DEF HeadLen, Size, Cells
  <1>4. Intact
    BY <1>2 DEF StashInv, RestorerInv, Alive
  <1>5. TypeOK'
    <2>1. \A q \in Restorers : pc'[q] = "read_meta" => mfd[q] # None
      BY <1>2 DEF StashInv, TypeOK, Procs
    <2> QED
      BY <1>1, <1>2, <1>3, <2>1 DEF StashInv, TypeOK
  <1>6. Recoverable'
    BY <1>1, <1>2, <1>3, <1>4 DEF StashInv, Recoverable, AfterRestore, Intact
  <1>7. \A d \in Distorters : DistorterInv(d)'
    BY <1>1, <1>2, NoDistorter
  <1>8. ASSUME NEW q \in Restorers PROVE RestorerInv(q)'
    <2>1. q \in Procs /\ RestorerInv(q)
      BY DEF Procs, StashInv
    <2>2. CASE q = r
      BY <1>1, <1>2, <2>2 DEF RestorerInv, Alive
    <2>3. CASE q # r
      BY <1>1, <1>2, <1>3, <2>1, <2>3 DEF RestorerInv, Alive, Intact
    <2> QED
      BY <2>2, <2>3
  <1> QED
    BY <1>1, <1>2, <1>5, <1>6, <1>7, <1>8 DEF StashInv, Steps

-----------------------------------------------------------------------------
LEMMA StashStep ==
  ASSUME Undisturbed, StashInv, [Next]_vars
  PROVE  StashInv'
  <1>1. CASE UNCHANGED vars
    BY <1>1, StashStutter
  <1>2. CASE \E x \in Procs : Start(x) \/ Crash(x)
    BY <1>2, StartStep, CrashStep
  <1>3. CASE Edit
    BY <1>3, NoEdit
  <1>4. CASE \E d \in Distorters : Distort(d)
    BY <1>4, CheckMetaStep, ReadHeadStep, CreateMetaStep, WriteMetaStep,
       GiveUpStep, ZeroHeadStep DEF Distort
  <1>5. CASE \E r \in Restorers : Restore(r)
    BY <1>5, OpenMetaStep, ReadMetaStep, WriteBackStep, UnlinkMetaStep
       DEF Restore
  <1> QED
    BY <1>1, <1>2, <1>3, <1>4, <1>5 DEF Next

\* The user's text is never out of reach of a restore, whatever was killed,
\* cut short or failed on the way: Recoverable and the type invariant.
THEOREM RecoverableCorrect ==
  ASSUME Undisturbed PROVE Spec => [](TypeOK /\ Recoverable)
  <1>1. StashInv /\ [Next]_vars => StashInv'
    BY StashStep
  <1> QED
    BY <1>1, StashInit, PTL DEF Spec, StashInv

\* A run of restore that reports success leaves the user's text in the file.
LEMMA RestoreCorrect ==
  ASSUME Undisturbed PROVE Spec => RestoreReportsTrue
  <1>1. StashInv /\ [Next]_vars =>
          [\A r \in Restorers :
             pc[r] \notin {"done", "warned"}
             /\ pc'[r] \in {"done", "warned"} =>
                \A i \in Cells : file'[i] = truth']_vars
    <2> SUFFICES ASSUME StashInv, Next, NEW r \in Restorers,
                        pc[r] \notin {"done", "warned"},
                        pc'[r] \in {"done", "warned"}, NEW i \in Cells
                 PROVE  file'[i] = truth'
      OBVIOUS
    <2>1. r \in Procs /\ r \notin Distorters
      BY StashAssumption DEF Procs
    <2>2. UnlinkMeta(r)
      <3>2. CASE \E x \in Procs : Start(x) \/ Crash(x)
        BY <2>1, <3>2 DEF Start, Crash, StashInv, Procs
      <3>3. CASE Edit
        BY <3>3 DEF Edit
      <3>4. CASE \E d \in Distorters : Distort(d)
        <4>1. PICK d \in Distorters : Distort(d)
          BY <3>4
        <4>2. PICK from, to : Go(d, from, to)
          BY <4>1
             DEF Distort, CheckMeta, ReadHead, CreateMeta, WriteMeta, GiveUp,
                 ZeroHead
        <4> QED
          BY <2>1, <4>2, StashAssumption DEF Go, StashInv, Procs
      <3>5. CASE \E q \in Restorers : Restore(q)
        <4>1. PICK q \in Restorers : Restore(q)
          BY <3>5
        <4>2. PICK from, to : Go(q, from, to)
          BY <4>1 DEF Restore, OpenMeta, ReadMeta, WriteBack, UnlinkMeta
        <4>3. q = r
          BY <2>1, <4>2 DEF Go, StashInv
        <4>4. ~ OpenMeta(r) /\ ~ ReadMeta(r) /\ ~ WriteBack(r)
          BY <2>1 DEF OpenMeta, ReadMeta, WriteBack, Go, StashInv
        <4> QED
          BY <4>1, <4>3, <4>4 DEF Restore
      <3> QED
        BY <3>2, <3>3, <3>4, <3>5 DEF Next
    <2> QED
      BY <2>2 DEF UnlinkMeta, Go, StashInv, RestorerInv, Alive, Intact
  <1>2. StashInv /\ [Next]_vars => StashInv'
    BY StashStep
  <1> QED
    BY <1>1, <1>2, StashInit, PTL DEF Spec, RestoreReportsTrue

\* A run of distort that reports success has overwritten the whole head and
\* saved it completely.
LEMMA DistortCorrect ==
  ASSUME Undisturbed PROVE Spec => DistortReportsTrue
  <1>1. StashInv /\ [Next]_vars =>
          [\A d \in Distorters :
             pc[d] # "done" /\ pc'[d] = "done" =>
                /\ \A i \in 1 .. HeadLen : file'[i] = Zero
                /\ meta' # None /\ Len(saved'[meta']) = HeadLen]_vars
    <2> SUFFICES ASSUME StashInv, Next, NEW d \in Distorters,
                        pc[d] # "done", pc'[d] = "done"
                 PROVE  /\ \A i \in 1 .. HeadLen : file'[i] = Zero
                        /\ meta' # None /\ Len(saved'[meta']) = HeadLen
      OBVIOUS
    <2>1. d \in Procs /\ d \notin Restorers
      BY StashAssumption DEF Procs
    <2>2. ZeroHead(d)
      <3>2. CASE \E x \in Procs : Start(x) \/ Crash(x)
        BY <2>1, <3>2 DEF Start, Crash, StashInv, Procs
      <3>3. CASE Edit
        BY <3>3 DEF Edit
      <3>4. CASE \E e \in Distorters : Distort(e)
        <4>1. PICK e \in Distorters : Distort(e)
          BY <3>4
        <4>2. PICK from, to : Go(e, from, to)
          BY <4>1
             DEF Distort, CheckMeta, ReadHead, CreateMeta, WriteMeta, GiveUp,
                 ZeroHead
        <4>3. e = d
          BY <2>1, <4>2 DEF Go, StashInv
        <4>4. /\ ~ CheckMeta(d) /\ ~ ReadHead(d) /\ ~ CreateMeta(d)
              /\ ~ WriteMeta(d) /\ ~ GiveUp(d)
          BY <2>1
             DEF CheckMeta, ReadHead, CreateMeta, WriteMeta, GiveUp, Go, StashInv
        <4> QED
          BY <4>1, <4>3, <4>4 DEF Distort
      <3>5. CASE \E r \in Restorers : Restore(r)
        <4>1. PICK r \in Restorers : Restore(r)
          BY <3>5
        <4>2. PICK from, to : Go(r, from, to)
          BY <4>1 DEF Restore, OpenMeta, ReadMeta, WriteBack, UnlinkMeta
        <4> QED
          BY <2>1, <4>2, StashAssumption DEF Go, StashInv, Procs
      <3> QED
        BY <3>2, <3>3, <3>4, <3>5 DEF Next
    <2> DEFINE zeros == [i \in DOMAIN head[d] |-> Zero]
    <2>3. PICK k \in Counts(Len(head[d])) :
            /\ Go(d, "zero", IF k = Len(head[d]) THEN "done" ELSE "failed")
            /\ file' = Overwritten(zeros, k)
            /\ UNCHANGED <<meta, saved, head, mfd>>
      BY <2>2 DEF ZeroHead
    <2>4. k = Len(head[d]) /\ pc[d] = "zero" /\ d \notin crashed
      BY <2>1, <2>3 DEF Go, StashInv
    <2>5. /\ meta = d /\ d # None /\ Len(head[d]) = HeadLen
          /\ saved[d] = head[d] /\ head[d] \in Seq(Nat)
      BY <2>1, <2>4, StashAssumption DEF StashInv, DistorterInv, Alive
    <2>6. \A i \in 1 .. HeadLen : i \in Cells /\ i \in DOMAIN head[d]
      BY <2>5, FileType DEF StashInv
    <2> QED
      BY <2>3, <2>4, <2>5, <2>6 DEF Overwritten
  <1>2. StashInv /\ [Next]_vars => StashInv'
    BY StashStep
  <1> QED
    BY <1>1, <1>2, StashInit, PTL DEF Spec, DistortReportsTrue

\* Both modes of hideStash report success truthfully.
THEOREM ReportsCorrect ==
  ASSUME Undisturbed PROVE Spec => ReportsTrue
  BY DistortCorrect, RestoreCorrect DEF ReportsTrue

-----------------------------------------------------------------------------
(***************************************************************************)
(* hideFile never loses a file that is no link: for any number of runs     *)
(* that overlap and are killed anyhow, as long as the user creates files   *)
(* only between the runs.                                                  *)
(***************************************************************************)
CreatedBetween == CreatePolicy = "idle"

Replaceable == Links \cup {NoFile}

\* The rename of x replaces nothing but a link, or has lost its source.
Safe(x) ==
  LET n == NameOf(x)
  IN /\ job[x][1] = "hide" => cur[n] = NoFile \/ dark[n] \in Replaceable
     /\ job[x][1] = "unhide" => dark[n] = NoFile \/ cur[n] \in Replaceable

\* Each file but a link is somewhere, nothing that was not created is
\* anywhere, and nothing is in two places.
EachInOnePlace ==
  /\ \A f \in created \ Links : \E n \in Names : cur[n] = f \/ dark[n] = f
  /\ \A n \in Names : cur[n] \in created \cup {NoFile}
                      /\ dark[n] \in created \cup {NoFile}
  /\ \A m, n \in Names :
        /\ cur[m] = cur[n] /\ cur[m] # NoFile => m = n
        /\ dark[m] = dark[n] /\ dark[m] # NoFile => m = n
        /\ cur[m] # NoFile => cur[m] # dark[n]

\* A run that is about to rename has checked that no file is there that it
\* would replace, links excepted; other runs since then may have moved the
\* source there, but have not brought a second file.
OneOfTheName ==
  \A x \in Active : call[x] = "rename" => Safe(x)

HideInv ==
  /\ created \subseteq Files
  /\ call \in [Runs -> {"off", "lstat", "mkdir", "access", "rename", "chmod"}
                       \cup Over]
  /\ job \in [Runs -> Jobs]
  /\ cur \in [Names -> Files \cup {NoFile}]
  /\ dark \in [Names -> Files \cup {NoFile}]
  /\ EachInOnePlace /\ OneOfTheName

LEMMA HideInvInit == HideInit => HideInv
  BY DEF HideInit, HideInv, EachInOnePlace, OneOfTheName, Active, Over

LEMMA CreateStep ==
  ASSUME HideInv, CreatedBetween, NEW f \in Files, NEW n \in Names, Create(f, n)
  PROVE  HideInv'
  <1>1. /\ Active = {} /\ f \notin created /\ cur[n] = NoFile /\ f # NoFile
        /\ cur' = [cur EXCEPT ![n] = f] /\ created' = created \cup {f}
        /\ UNCHANGED <<dark, call, job, killed>>
    BY HideAssumption DEF Create, CreatedBetween
  <1>2. cur' \in [Names -> Files \cup {NoFile}] /\ created' \subseteq Files
    BY <1>1 DEF HideInv
  <1>3. OneOfTheName'
    BY <1>1 DEF OneOfTheName, Active
  <1>4. EachInOnePlace'
    <2>1. \A m \in Names : cur'[m] = IF m = n THEN f ELSE cur[m]
      BY <1>1 DEF HideInv
    <2>2. \A m \in Names : cur[m] # f /\ dark[m] # f
      BY <1>1 DEF HideInv, EachInOnePlace
    <2>3. \A g \in created' \ Links : \E m \in Names : cur'[m] = g \/ dark'[m] = g
      <3> SUFFICES ASSUME NEW g \in (created \cup {f}) \ Links
                   PROVE  \E m \in Names : cur'[m] = g \/ dark'[m] = g
        BY <1>1
      <3>1. CASE g = f
        BY <3>1, <2>1
      <3>2. CASE g \in created \ Links
        <4>1. PICK m \in Names : cur[m] = g \/ dark[m] = g
          BY <3>2 DEF HideInv, EachInOnePlace
        <4>2. g # NoFile /\ dark'[m] = dark[m]
          BY <3>2, <1>1, HideAssumption DEF HideInv
        <4> QED
          BY <4>1, <4>2, <2>1, <1>1
      <3> QED
        BY <3>1, <3>2
    <2>4. \A m \in Names : /\ cur'[m] \in created' \cup {NoFile}
                           /\ dark'[m] \in created' \cup {NoFile}
      BY <1>1, <2>1 DEF HideInv, EachInOnePlace
    <2>5. \A m, k \in Names :
             /\ cur'[m] = cur'[k] /\ cur'[m] # NoFile => m = k
             /\ dark'[m] = dark'[k] /\ dark'[m] # NoFile => m = k
             /\ cur'[m] # NoFile => cur'[m] # dark'[k]
      BY <1>1, <2>1, <2>2 DEF HideInv, EachInOnePlace
    <2> QED
      BY <2>3, <2>4, <2>5 DEF EachInOnePlace
  <1> QED
    BY <1>1, <1>2, <1>3, <1>4 DEF HideInv

\* A step of a run that leaves the files where they are.
LEMMA FilesStay ==
  ASSUME HideInv, NEW x \in Runs, UNCHANGED <<cur, dark, created, job>>,
         call' \in [Runs -> {"off", "lstat", "mkdir", "access", "rename",
                           "chmod"} \cup Over],
         killed \subseteq killed',
         \A y \in Runs : y # x => call'[y] = call[y],
         call'[x] = "rename" => Safe(x) \/ call[x] = "rename"
  PROVE  HideInv'
  <1>1. EachInOnePlace'
    BY DEF HideInv, EachInOnePlace
  <1>2. OneOfTheName'
    <2> SUFFICES ASSUME NEW y \in Active', call'[y] = "rename"
                 PROVE  Safe(y)
      BY DEF OneOfTheName, Safe, NameOf
    <2>1. y \in Runs /\ y \notin killed
      BY DEF Active
    <2>2. call[y] = "rename" => y \in Active
      BY <2>1 DEF Active, Over
    <2> QED
      BY <2>1, <2>2 DEF HideInv, OneOfTheName
  <1> QED
    BY <1>1, <1>2 DEF HideInv

LEMMA RenameStep ==
  ASSUME HideInv, NEW x \in Runs, Rename(x)
  PROVE  HideInv'
  <1> DEFINE n == NameOf(x)
  <1>1. /\ n \in Names /\ x \in Active /\ call[x] = "rename"
        /\ UNCHANGED <<created, job, killed>>
    BY DEF Rename, Call, Active, Over, HideInv, NameOf, Jobs
  <1>2. /\ call' \in [Runs -> {"off", "lstat", "mkdir", "access", "rename",
                             "chmod"} \cup Over]
        /\ \A y \in Runs : y # x => call'[y] = call[y]
        /\ call'[x] # "rename"
    BY DEF Rename, Call, HideInv, Over
  <1>3. Safe(x)
    BY <1>1 DEF HideInv, OneOfTheName
  <1>4. \/ UNCHANGED <<cur, dark>>
        \/ /\ cur[n] # NoFile /\ dark[n] \in Replaceable
           /\ dark' = [dark EXCEPT ![n] = cur[n]]
           /\ cur' = [cur EXCEPT ![n] = NoFile]
        \/ /\ dark[n] # NoFile /\ cur[n] \in Replaceable
           /\ cur' = [cur EXCEPT ![n] = dark[n]]
           /\ dark' = [dark EXCEPT ![n] = NoFile]
    BY <1>3 DEF Rename, Call, Safe
  <1>5. CASE UNCHANGED <<cur, dark>>
    BY <1>1, <1>2, <1>5, FilesStay
  <1>6. CASE /\ cur[n] # NoFile /\ dark[n] \in Replaceable
             /\ dark' = [dark EXCEPT ![n] = cur[n]]
             /\ cur' = [cur EXCEPT ![n] = NoFile]
    <2>1. /\ \A m \in Names : cur'[m] = IF m = n THEN NoFile ELSE cur[m]
          /\ \A m \in Names : dark'[m] = IF m = n THEN cur[n] ELSE dark[m]
          /\ cur' \in [Names -> Files \cup {NoFile}]
          /\ dark' \in [Names -> Files \cup {NoFile}]
      BY <1>1, <1>6 DEF HideInv
    <2>2. EachInOnePlace'
      BY <1>1, <1>6, <2>1 DEF HideInv, EachInOnePlace, Replaceable
    <2>3. OneOfTheName'
      BY <1>1, <1>2, <2>1
         DEF HideInv, OneOfTheName, Safe, Replaceable, Active, NameOf, Jobs
    <2> QED
      BY <1>1, <1>2, <2>1, <2>2, <2>3 DEF HideInv
  <1>7. CASE /\ dark[n] # NoFile /\ cur[n] \in Replaceable
             /\ cur' = [cur EXCEPT ![n] = dark[n]]
             /\ dark' = [dark EXCEPT ![n] = NoFile]
    <2>1. /\ \A m \in Names : dark'[m] = IF m = n THEN NoFile ELSE dark[m]
          /\ \A m \in Names : cur'[m] = IF m = n THEN dark[n] ELSE cur[m]
          /\ cur' \in [Names -> Files \cup {NoFile}]
          /\ dark' \in [Names -> Files \cup {NoFile}]
      BY <1>1, <1>7 DEF HideInv
    <2>2. EachInOnePlace'
      BY <1>1, <1>7, <2>1 DEF HideInv, EachInOnePlace, Replaceable
    <2>3. OneOfTheName'
      BY <1>1, <1>2, <2>1
         DEF HideInv, OneOfTheName, Safe, Replaceable, Active, NameOf, Jobs
    <2> QED
      BY <1>1, <1>2, <2>1, <2>2, <2>3 DEF HideInv
  <1> QED
    BY <1>4, <1>5, <1>6, <1>7

LEMMA HideInvStep ==
  ASSUME HideInv, CreatedBetween, [HideNext]_hideVars
  PROVE  HideInv'
  <1>1. CASE UNCHANGED hideVars
    BY <1>1
       DEF hideVars, HideInv, EachInOnePlace, OneOfTheName, Safe, Active, NameOf
  <1>2. CASE \E f \in Files, n \in Names : Create(f, n)
    BY <1>2, CreateStep
  <1>3. ASSUME NEW x \in Runs, Begin(x) \/ Kill(x)
        PROVE  HideInv'
    BY <1>3, FilesStay DEF Begin, Kill, HideInv
  <1>4. ASSUME NEW x \in Runs, FindSource(x) \/ MakeDark(x) \/ SetFinalMode(x)
        PROVE  HideInv'
    BY <1>4, FilesStay
       DEF FindSource, MakeDark, SetFinalMode, Call, HideInv, Over
  <1>5. ASSUME NEW x \in Runs, CheckDestination(x)
        PROVE  HideInv'
    <2>1. NameOf(x) \in Names
      BY DEF HideInv, NameOf, Jobs
    <2>2. call'[x] = "rename" => Safe(x)
      BY <1>5, <2>1
         DEF CheckDestination, Call, Accessible, Safe, Replaceable, HideInv, Over
    <2> QED
      BY <1>5, <2>2, FilesStay DEF CheckDestination, Call, HideInv, Over
  <1> QED
    BY <1>1, <1>2, <1>3, <1>4, <1>5, RenameStep DEF HideNext, Run

\* Overlapping and killed runs of --hide and --unhide neither lose a file,
\* links excepted, nor make two of one.
THEOREM NothingLostCorrect ==
  ASSUME CreatedBetween PROVE HideSpec => []NothingLost
  <1>1. HideInv => NothingLost
    <2> SUFFICES ASSUME HideInv, NEW f \in created \ Links
                 PROVE  Cardinality(Places(f)) = 1
      BY DEF NothingLost
    <2>1. f # NoFile
      BY HideAssumption DEF HideInv
    <2>2. PICK n \in Names : cur[n] = f \/ dark[n] = f
      BY DEF HideInv, EachInOnePlace
    <2>3. CASE cur[n] = f
      <3>1. Places(f) = {<<n, "cur">>}
        BY <2>1, <2>3 DEF Places, HideInv, EachInOnePlace
      <3> QED
        BY <3>1, FS_Singleton
    <2>4. CASE dark[n] = f
      <3>1. Places(f) = {<<n, "dark">>}
        BY <2>1, <2>4 DEF Places, HideInv, EachInOnePlace
      <3> QED
        BY <3>1, FS_Singleton
    <2> QED
      BY <2>2, <2>3, <2>4
  <1>2. HideInv /\ [HideNext]_hideVars => HideInv'
    BY HideInvStep
  <1> QED
    BY <1>1, <1>2, HideInvInit, PTL DEF HideSpec

\* A run of --hide that is past its mkdir has its directory.
DarkThere ==
  \A x \in Runs :
    job[x][1] = "hide" /\ call[x] \in {"access", "rename", "chmod"}
      => darkMode # "absent"

HideTypes == HideTypeOK /\ DarkThere

LEMMA HideTypesStep ==
  ASSUME HideTypes, [HideNext]_hideVars
  PROVE  HideTypes'
  <1>1. CASE UNCHANGED hideVars
    BY <1>1 DEF hideVars, HideTypes, HideTypeOK, DarkThere
  <1>2. ASSUME NEW f \in Files, NEW n \in Names, Create(f, n)
        PROVE  HideTypes'
    BY <1>2 DEF Create, HideTypes, HideTypeOK, DarkThere
  <1>3. ASSUME NEW x \in Runs, Begin(x) \/ Kill(x)
        PROVE  HideTypes'
    BY <1>3 DEF Begin, Kill, Active, HideTypes, HideTypeOK, DarkThere, Over
  <1>4. ASSUME NEW x \in Runs, FindSource(x)
        PROVE  HideTypes'
    BY <1>4 DEF FindSource, Call, HideTypes, HideTypeOK, DarkThere, Over
  <1>5. ASSUME NEW x \in Runs, MakeDark(x)
        PROVE  HideTypes'
    <2>1. darkMode' # "absent" /\ darkMode' \in {"create", "final"}
      BY <1>5 DEF MakeDark, HideTypes, HideTypeOK
    <2> QED
      BY <1>5, <2>1 DEF MakeDark, Call, HideTypes, HideTypeOK, DarkThere, Over
  <1>6. ASSUME NEW x \in Runs, CheckDestination(x)
        PROVE  HideTypes'
    BY <1>6 DEF CheckDestination, Call, HideTypes, HideTypeOK, DarkThere, Over
  <1>7. ASSUME NEW x \in Runs, SetFinalMode(x)
        PROVE  HideTypes'
    BY <1>7 DEF SetFinalMode, Call, HideTypes, HideTypeOK, DarkThere, Over
  <1>8. ASSUME NEW x \in Runs, Rename(x)
        PROVE  HideTypes'
    <2>1. NameOf(x) \in Names
      BY DEF HideTypes, HideTypeOK, NameOf, Jobs
    <2>2. /\ call' \in [Runs -> {"off", "lstat", "mkdir", "access", "rename",
                                 "chmod"} \cup Over]
          /\ \A y \in Runs : y # x => call'[y] = call[y]
          /\ UNCHANGED <<created, job, killed, darkMode>>
          /\ call[x] = "rename"
      BY <1>8 DEF Rename, Call, HideTypes, HideTypeOK, Over
    <2>3. DarkThere'
      BY <2>2 DEF HideTypes, DarkThere
    <2>4. /\ cur' \in [Names -> Files \cup {NoFile}]
          /\ dark' \in [Names -> Files \cup {NoFile}]
      BY <1>8, <2>1 DEF Rename, HideTypes, HideTypeOK
    <2>5. ASSUME darkMode = "absent", NEW n \in Names
          PROVE  dark'[n] = NoFile
      <3>1. job[x][1] # "hide" /\ \A m \in Names : dark[m] = NoFile
        BY <2>2, <2>5 DEF HideTypes, HideTypeOK, DarkThere
      <3> QED
        BY <1>8, <2>1, <3>1 DEF Rename, Call, HideTypes, HideTypeOK
    <2> QED
      BY <2>2, <2>3, <2>4, <2>5 DEF HideTypes, HideTypeOK
  <1> QED
    BY <1>1, <1>2, <1>3, <1>4, <1>5, <1>6, <1>7, <1>8 DEF HideNext, Run

\* Whatever the policies are: the variables keep their types, and nothing is
\* hidden before there is a directory to hide it in.
THEOREM HideTypesCorrect == HideSpec => []HideTypeOK
  <1>1. HideInit => HideTypes
    BY DEF HideInit, HideTypes, HideTypeOK, DarkThere, Over
  <1>2. HideTypes /\ [HideNext]_hideVars => HideTypes'
    BY HideTypesStep
  <1>3. HideTypes => HideTypeOK
    BY DEF HideTypes
  <1> QED
    BY <1>1, <1>2, <1>3, PTL DEF HideSpec

=============================================================================
