----------------------- MODULE TransferProcessProofs -----------------------
(***************************************************************************)
(* Two proofs about processes of one machine: what the shared segment of   *)
(* 1shmem does to the files that cross it, and what launcher, nohup2, dup2 *)
(* and the daemons make of the process that they start.                    *)
(***************************************************************************)
EXTENDS ShmTransfer, Processes, TLAPS

-----------------------------------------------------------------------------
(***************************************************************************)
(* One session of the 1shmem programs, for every ring size, every slot     *)
(* size and every set of input directories.                                *)
(***************************************************************************)

(***************************************************************************)
(* The semaphores.  Neither the bounds of TypeOK nor the two counting      *)
(* equations are inductive alone: a post keeps a semaphore in its range    *)
(* only because the equations say that the poster held a unit.             *)
(***************************************************************************)
SemInv == TypeOK /\ MutualExclusion /\ SlotConservation

LEMMA InputType ==
  ASSUME NEW d \in Inputs
  PROVE  /\ d \in Seq(DirEntry)
         /\ Len(d) \in Nat
         /\ \A j \in 1 .. Len(d) : d[j] \in DirEntry
  BY TransferAssumption

LEMMA SlotForType ==
  ASSUME NEW e \in DirEntry
  PROVE  SlotFor(e) \in FileSlot /\ ~ SlotFor(e).eof
  BY BufferAssumption DEF SlotFor, FileSlot, DirEntry

LEMMA ConstantSlots == ZeroSlot \in FileSlot /\ EofSlot \in FileSlot
  BY BufferAssumption DEF ZeroSlot, EofSlot, FileSlot

LEMMA AdvanceValue ==
  ASSUME NEW i \in SlotIdx
  PROVE  /\ Advance(i) \in SlotIdx
         /\ Advance(i) = IF i + 1 < MAX_FILES THEN i + 1 ELSE 0
  BY BufferAssumption, SMT DEF SlotIdx, Advance

LEMMA SemInit == Init => SemInv
  BY BufferAssumption, TransferAssumption, ConstantSlots, InputType
     DEF Init, SemInv, TypeOK, MutualExclusion, SlotConservation, SlotIdx,
         ProducerSteps, ConsumerSteps, ProducerInside, ConsumerInside,
         ProducerHolds, ConsumerHolds, Critical, Count, Absent

LEMMA SemProducer == SemInv /\ Producer => SemInv'
  <1> SUFFICES ASSUME SemInv, Producer PROVE SemInv'
    OBVIOUS
  <1> USE BufferAssumption
      DEF SemInv, TypeOK, MutualExclusion, SlotConservation, ProducerInside,
          ConsumerInside, ProducerHolds, ConsumerHolds, Critical, Count, PGo,
          ProducerSteps, dirVars, consVars, ringVars, semVars, histVars
  <1>0. input \in Seq(DirEntry) /\ Len(input) \in Nat
    BY InputType
  <1>1. CASE SkipEntry
    BY <1>0, <1>1 DEF SkipEntry
  <1>2. CASE ReadEntry
    <2>1. input[pos] \in DirEntry
      BY <1>0, <1>2, InputType DEF ReadEntry
    <2> QED
      BY <1>0, <1>2, <2>1, SlotForType DEF ReadEntry
  <1>3. CASE PrepareEof
    BY <1>3, ConstantSlots DEF PrepareEof
  <1>4. CASE ProducerWaitEmpty
    BY <1>4 DEF ProducerWaitEmpty
  <1>5. CASE ProducerWaitMutex
    BY <1>5 DEF ProducerWaitMutex
  <1>6. CASE StoreSlot
    BY <1>6 DEF StoreSlot
  <1>7. CASE AdvanceWrite
    BY <1>7, AdvanceValue DEF AdvanceWrite
  <1>8. CASE ProducerPostMutex
    BY <1>8 DEF ProducerPostMutex
  <1>9. CASE ProducerPostFull
    BY <1>9 DEF ProducerPostFull
  <1> QED
    BY <1>1, <1>2, <1>3, <1>4, <1>5, <1>6, <1>7, <1>8, <1>9 DEF Producer

LEMMA SemConsumer == SemInv /\ Consumer => SemInv'
  <1> SUFFICES ASSUME SemInv, Consumer PROVE SemInv'
    OBVIOUS
  <1> USE BufferAssumption
      DEF SemInv, TypeOK, MutualExclusion, SlotConservation, ProducerInside,
          ConsumerInside, ProducerHolds, ConsumerHolds, Critical, Count, CGo,
          ConsumerSteps, dirVars, prodVars, ringVars, semVars, histVars
  <1>1. CASE ConsumerWaitFull
    BY <1>1 DEF ConsumerWaitFull
  <1>2. CASE ConsumerWaitMutex
    BY <1>2 DEF ConsumerWaitMutex
  <1>3. CASE LoadSlot
    BY <1>3 DEF LoadSlot
  <1>4. CASE AdvanceRead
    BY <1>4, AdvanceValue DEF AdvanceRead
  <1>5. CASE ConsumerPostMutex
    BY <1>5 DEF ConsumerPostMutex
  <1>6. CASE ConsumerPostEmpty
    BY <1>6 DEF ConsumerPostEmpty
  <1>7. CASE WriteFile
    <2>1. cslot.data_len \in 0 .. Absent
          /\ cslot.filename \in Names \cup {NoName}
      BY DEF FileSlot, Absent
    <2>2. output' \in [Names -> 0 .. Absent]
      BY <1>7, <2>1 DEF WriteFile
    <2>3. log' \in Seq(Names \cup {NoName})
      BY <1>7, <2>1 DEF WriteFile
    <2> QED
      BY <1>7, <2>2, <2>3 DEF WriteFile
  <1>8. CASE Cleanup
    BY <1>8 DEF Cleanup
  <1> QED
    BY <1>1, <1>2, <1>3, <1>4, <1>5, <1>6, <1>7, <1>8 DEF Consumer

LEMMA SemStutter == SemInv /\ UNCHANGED vars => SemInv'
  BY DEF SemInv, TypeOK, MutualExclusion, SlotConservation, ProducerInside,
         ConsumerInside, ProducerHolds, ConsumerHolds, vars, dirVars,
         prodVars, consVars, ringVars, semVars, histVars

\* Every reachable state of a session is well typed, the mutex excludes, and
\* the counting semaphores account for every slot of the ring.
THEOREM SemCorrect == Spec => [](TypeOK /\ MutualExclusion /\ SlotConservation)
  <1>1. SemInv /\ [Next]_vars => SemInv'
    BY SemProducer, SemConsumer, SemStutter DEF Next
  <1>2. Spec => []SemInv
    BY SemInit, <1>1, PTL DEF Spec
  <1>3. SemInv => TypeOK /\ MutualExclusion /\ SlotConservation
    BY DEF SemInv
  <1> QED
    BY <1>2, <1>3, PTL

-----------------------------------------------------------------------------
(***************************************************************************)
(* The ring.  What is in transit are the slots from R to W, where R and W  *)
(* are the indices once the advances under way are done; they hold, in     *)
(* order, what was sent and not yet received, and the semaphore sem_full   *)
(* together with the processes' hands says how many they are.              *)
(***************************************************************************)
InTransit == Len(sent) - Len(received)

W == IF ppc = "advance" THEN Advance(write_idx) ELSE write_idx
R == IF cpc = "advance" THEN Advance(read_idx) ELSE read_idx

Wrap(i) == IF i < MAX_FILES THEN i ELSE i - MAX_FILES

ProducerOwes == ppc \in {"advance", "post_mutex", "post_full"}
ConsumerOwes == cpc \in {"wait_mutex", "load"}

RingInv ==
  /\ InTransit = sem_full + Count(ProducerOwes) + Count(ConsumerOwes)
  /\ W = Wrap(R + InTransit)
  /\ \A k \in 0 .. InTransit - 1 :
        slots[Wrap(R + k)] = sent[Len(received) + 1 + k]
  /\ \A i \in 1 .. Len(received) : received[i] = sent[i]

\* The next slot to be written is none of those in transit.
LEMMA WrapDistinct ==
  ASSUME NEW r \in SlotIdx, NEW n \in 0 .. MAX_FILES - 1, NEW k \in 0 .. n - 1
  PROVE  /\ Wrap(r + k) \in SlotIdx
         /\ Wrap(r + n) \in SlotIdx
         /\ Wrap(r + k) # Wrap(r + n)
  BY BufferAssumption DEF Wrap, SlotIdx

LEMMA WrapAdvance ==
  ASSUME NEW r \in SlotIdx, NEW n \in 0 .. MAX_FILES
  PROVE  /\ n < MAX_FILES => Advance(Wrap(r + n)) = Wrap(r + n + 1)
         /\ Wrap(r) = r
         /\ n > 0 => Wrap(Advance(r) + n - 1) = Wrap(r + n)
  <1>1. Advance(r) = IF r + 1 < MAX_FILES THEN r + 1 ELSE 0
    BY AdvanceValue
  <1>2. n < MAX_FILES => Wrap(r + n) \in SlotIdx
    BY BufferAssumption DEF Wrap, SlotIdx
  <1>3. n < MAX_FILES =>
          Advance(Wrap(r + n)) = IF Wrap(r + n) + 1 < MAX_FILES
                                 THEN Wrap(r + n) + 1 ELSE 0
    BY <1>2, AdvanceValue
  <1> QED
    BY <1>1, <1>3, BufferAssumption DEF Wrap, SlotIdx

LEMMA RingInit == Init => RingInv
  BY BufferAssumption
     DEF Init, RingInv, InTransit, W, R, Wrap, ProducerOwes, ConsumerOwes,
         Count

LEMMA RingStore == SemInv /\ RingInv /\ StoreSlot => RingInv'
  <1> SUFFICES ASSUME SemInv, RingInv, StoreSlot PROVE RingInv'
    OBVIOUS
  <1> DEFINE n == InTransit
  <1>1. /\ ppc = "store" /\ ppc' = "advance" /\ cpc' = cpc
        /\ slots' = [slots EXCEPT ![write_idx] = pslot]
        /\ sent' = Append(sent, pslot) /\ received' = received
        /\ write_idx' = write_idx /\ read_idx' = read_idx
        /\ sem_full' = sem_full
    BY DEF StoreSlot, PGo, dirVars, consVars, semVars
  <1>2. /\ sent \in Seq(FileSlot) /\ received \in Seq(FileSlot)
        /\ pslot \in FileSlot /\ slots \in [SlotIdx -> FileSlot]
        /\ write_idx \in SlotIdx /\ read_idx \in SlotIdx
        /\ sem_full \in Nat /\ sem_empty \in Nat
    BY DEF SemInv, TypeOK
  <1>3. n \in 0 .. MAX_FILES - 1
    BY <1>1, <1>2, BufferAssumption
       DEF SemInv, SlotConservation, RingInv, InTransit, ProducerOwes,
           ConsumerOwes, ProducerHolds, ConsumerHolds, ProducerInside,
           ConsumerInside, Critical, Count
  <1>4. InTransit' = n + 1
    BY <1>1, <1>2 DEF InTransit
  <1>5. R' = R /\ R \in SlotIdx
    BY <1>1, <1>2, AdvanceValue DEF R
  <1>6. W = write_idx /\ W' = Advance(write_idx) /\ write_idx = Wrap(R + n)
    BY <1>1 DEF W, RingInv
  <1>7. InTransit' = sem_full' + Count(ProducerOwes') + Count(ConsumerOwes')
    BY <1>1, <1>2, <1>3, <1>4
       DEF RingInv, ProducerOwes, ConsumerOwes, Count
  <1>8. W' = Wrap(R' + InTransit')
    <2>1. n \in 0 .. MAX_FILES /\ n < MAX_FILES
      BY <1>3, BufferAssumption
    <2>2. Advance(Wrap(R + n)) = Wrap(R + n + 1)
      BY <2>1, <1>5, WrapAdvance
    <2>3. R' + InTransit' = R + n + 1
      BY <1>3, <1>4, <1>5 DEF SlotIdx
    <2> HIDE DEF n
    <2> QED
      BY <2>2, <2>3, <1>6
  <1>9. \A k \in 0 .. InTransit' - 1 :
          slots'[Wrap(R' + k)] = sent'[Len(received') + 1 + k]
    <2>0. InTransit' - 1 = n /\ received' = received /\ R' = R
      BY <1>1, <1>3, <1>4, <1>5
    <2> SUFFICES ASSUME NEW k \in 0 .. n
                 PROVE  slots'[Wrap(R + k)] = sent'[Len(received) + 1 + k]
      BY <2>0 DEF Wrap
    <2>1. CASE k = n
      <3>1. Len(received) + 1 + k = Len(sent) + 1
        BY <2>1, <1>2 DEF InTransit
      <3> QED
        BY <3>1, <2>1, <1>1, <1>2, <1>6
    <2>2. CASE k < n
      <3>1. Wrap(R + k) \in SlotIdx /\ Wrap(R + k) # write_idx
        BY <2>2, <1>3, <1>5, <1>6, WrapDistinct
      <3>2. Len(received) + 1 + k \in 1 .. Len(sent)
        BY <2>2, <1>2, <1>3 DEF InTransit
      <3>3. slots[Wrap(R + k)] = sent[Len(received) + 1 + k]
        BY <2>2, <1>3 DEF RingInv
      <3> QED
        BY <3>1, <3>2, <3>3, <1>1, <1>2
    <2> QED
      BY <2>1, <2>2, <1>3
  <1>10. \A i \in 1 .. Len(received') : received'[i] = sent'[i]
    BY <1>1, <1>2, <1>3 DEF RingInv, InTransit
  <1> QED
    BY <1>7, <1>8, <1>9, <1>10 DEF RingInv

LEMMA RingLoad == SemInv /\ RingInv /\ LoadSlot => RingInv'
  <1> SUFFICES ASSUME SemInv, RingInv, LoadSlot PROVE RingInv'
    OBVIOUS
  <1> DEFINE n == InTransit
  <1>1. /\ cpc = "load" /\ cpc' = "advance" /\ ppc' = ppc
        /\ cslot' = slots[read_idx] /\ slots' = slots
        /\ received' = Append(received, slots[read_idx]) /\ sent' = sent
        /\ write_idx' = write_idx /\ read_idx' = read_idx
        /\ sem_full' = sem_full
    BY DEF LoadSlot, CGo, dirVars, prodVars, ringVars, semVars
  <1>2. /\ sent \in Seq(FileSlot) /\ received \in Seq(FileSlot)
        /\ slots \in [SlotIdx -> FileSlot]
        /\ write_idx \in SlotIdx /\ read_idx \in SlotIdx
        /\ sem_full \in Nat /\ sem_empty \in Nat
    BY DEF SemInv, TypeOK
  <1>3. n \in 1 .. MAX_FILES
    BY <1>1, <1>2, BufferAssumption
       DEF SemInv, SlotConservation, RingInv, InTransit, ProducerOwes,
           ConsumerOwes, ProducerHolds, ConsumerHolds, ProducerInside,
           ConsumerInside, Critical, Count
  <1>4. InTransit' = n - 1 /\ Len(received') = Len(received) + 1
    BY <1>1, <1>2 DEF InTransit
  <1>5. R = read_idx /\ R' = Advance(read_idx) /\ R' \in SlotIdx
    BY <1>1, <1>2, AdvanceValue DEF R
  <1>6. W' = W
    BY <1>1 DEF W
  <1>7. InTransit' = sem_full' + Count(ProducerOwes') + Count(ConsumerOwes')
    BY <1>1, <1>2, <1>3, <1>4
       DEF RingInv, ProducerOwes, ConsumerOwes, Count
  <1>8. W' = Wrap(R' + InTransit')
    <2>1. Wrap(Advance(read_idx) + n - 1) = Wrap(read_idx + n)
      BY <1>2, <1>3, WrapAdvance
    <2>2. Advance(read_idx) + n - 1 = R' + InTransit'
      BY <1>2, <1>3, <1>4, <1>5, AdvanceValue DEF SlotIdx
    <2> QED
      BY <2>1, <2>2, <1>5, <1>6 DEF RingInv
  <1>9. \A k \in 0 .. InTransit' - 1 :
          slots'[Wrap(R' + k)] = sent'[Len(received') + 1 + k]
    <2> SUFFICES ASSUME NEW k \in 0 .. n - 2
                 PROVE  slots[Wrap(R' + k)] = sent[Len(received) + 2 + k]
      BY <1>1, <1>2, <1>3, <1>4 DEF Wrap
    <2>1. Wrap(R' + k) = Wrap(R + (k + 1))
      <3>1. k + 1 \in 0 .. MAX_FILES /\ k + 1 > 0
        BY <1>3, BufferAssumption
      <3>2. Wrap(Advance(read_idx) + (k + 1) - 1) = Wrap(read_idx + (k + 1))
        BY <3>1, <1>2, WrapAdvance
      <3> QED
        BY <3>2, <1>2, <1>5, AdvanceValue DEF SlotIdx
    <2>2. k + 1 \in 0 .. n - 1
      BY <1>3
    <2>3. slots[Wrap(R + (k + 1))] = sent[Len(received) + 1 + (k + 1)]
      BY <2>2 DEF RingInv
    <2> QED
      BY <2>1, <2>3, <1>2
  <1>10. \A i \in 1 .. Len(received') : received'[i] = sent'[i]
    <2>1. slots[read_idx] = sent[Len(received) + 1]
      <3>1. Wrap(R + 0) = read_idx
        BY <1>2, <1>5, BufferAssumption DEF Wrap, SlotIdx
      <3>2. slots[Wrap(R + 0)] = sent[Len(received) + 1 + 0]
        BY <1>3 DEF RingInv
      <3> QED
        BY <3>1, <3>2, <1>2
    <2>2. \A i \in 1 .. Len(received) : received[i] = sent[i]
      BY DEF RingInv
    <2> QED
      BY <2>1, <2>2, <1>1, <1>2
  <1> QED
    BY <1>7, <1>8, <1>9, <1>10 DEF RingInv

\* The remaining steps move a unit between a semaphore and a hand, or finish
\* an advance that W and R have already counted.
LEMMA RingOther ==
  ASSUME SemInv, RingInv,
         [Next]_vars, ~ StoreSlot, ~ LoadSlot
  PROVE  RingInv'
  <1>1. SUFFICES
          /\ UNCHANGED <<slots, sent, received>>
          /\ W' = W /\ R' = R
          /\ sem_full' + Count(ProducerOwes') + Count(ConsumerOwes')
               = sem_full + Count(ProducerOwes) + Count(ConsumerOwes)
    BY DEF RingInv, InTransit, Wrap
  <1> USE DEF W, R, ProducerOwes, ConsumerOwes, Count, PGo, CGo, dirVars,
              prodVars, consVars, ringVars, semVars, histVars
  <1>2. sem_full \in Nat
    BY DEF SemInv, TypeOK
  <1>3. CASE SkipEntry \/ ReadEntry \/ PrepareEof
    BY <1>2, <1>3 DEF SkipEntry, ReadEntry, PrepareEof
  <1>4. CASE ProducerWaitEmpty \/ ProducerWaitMutex
    BY <1>2, <1>4 DEF ProducerWaitEmpty, ProducerWaitMutex
  <1>5. CASE AdvanceWrite
    BY <1>2, <1>5 DEF AdvanceWrite
  <1>6. CASE ProducerPostMutex \/ ProducerPostFull
    BY <1>2, <1>6 DEF ProducerPostMutex, ProducerPostFull
  <1>7. CASE ConsumerWaitFull \/ ConsumerWaitMutex
    BY <1>2, <1>7 DEF ConsumerWaitFull, ConsumerWaitMutex
  <1>8. CASE AdvanceRead
    BY <1>2, <1>8 DEF AdvanceRead
  <1>9. CASE ConsumerPostMutex \/ ConsumerPostEmpty
    BY <1>2, <1>9 DEF ConsumerPostMutex, ConsumerPostEmpty
  <1>10. CASE WriteFile \/ Cleanup
    BY <1>2, <1>10 DEF WriteFile, Cleanup
  <1>11. CASE UNCHANGED vars
    BY <1>2, <1>11 DEF vars
  <1> QED
    BY <1>3, <1>4, <1>5, <1>6, <1>7, <1>8, <1>9, <1>10, <1>11
       DEF Next, Producer, Consumer

LEMMA RingBound == SemInv /\ RingInv => FifoDelivery
  BY BufferAssumption
     DEF SemInv, TypeOK, SlotConservation, RingInv, InTransit, FifoDelivery,
         ProducerOwes, ConsumerOwes, ProducerHolds, ConsumerHolds,
         ProducerInside, ConsumerInside, Critical, Count

LEMMA RingCorrect == Spec => [](SemInv /\ RingInv)
  <1>1. Spec => []SemInv
    BY SemCorrect, PTL DEF SemInv
  <1>2. SemInv /\ RingInv /\ [Next]_vars => RingInv'
    BY RingStore, RingLoad, RingOther
  <1> QED
    BY <1>1, <1>2, RingInit, PTL DEF Spec

\* Whatever the interleaving, the consumer reads the slots that the producer
\* stored, in order, each once and unharmed, and at most MAX_FILES of them
\* are in transit.
THEOREM FifoCorrect == Spec => []FifoDelivery
  BY RingCorrect, RingBound, PTL

-----------------------------------------------------------------------------
(***************************************************************************)
(* The end marker.  It is the last slot the producer stores, and the steps *)
(* of the two processes tell on which side of the ring it is.              *)
(***************************************************************************)
EofInv ==
  /\ ppc \in {"wait_empty", "wait_mutex", "store"} =>
        (pslot.eof => pos = Len(input) + 1)
  /\ ppc \in {"advance", "post_mutex", "post_full"} =>
        sent # <<>> /\ sent[Len(sent)] = pslot
  /\ ppc = "done" => sent # <<>> /\ sent[Len(sent)].eof
  /\ \A i \in 1 .. Len(sent) :
        sent[i].eof => /\ i = Len(sent)
                       /\ ppc \in {"advance", "post_mutex", "post_full", "done"}
                       /\ pos = Len(input) + 1
  /\ cpc \in {"advance", "post_mutex", "post_empty", "write"} =>
        received # <<>> /\ received[Len(received)] = cslot
  /\ cpc = "write" => ~ cslot.eof
  /\ cpc \in {"cleanup", "done"} =>
        received # <<>> /\ received[Len(received)].eof
  /\ \A i \in 1 .. Len(received) :
        received[i].eof => /\ i = Len(received)
                           /\ cpc \notin {"wait_full", "wait_mutex", "load",
                                          "write"}

LEMMA EofInit == Init => EofInv
  BY DEF Init, EofInv

LEMMA EofProducer ==
  SemInv /\ RingInv /\ FifoDelivery /\ EofInv /\ Producer => EofInv'
  <1> SUFFICES ASSUME SemInv, RingInv, FifoDelivery, EofInv, Producer
               PROVE  EofInv'
    OBVIOUS
  <1>0. /\ sent \in Seq(FileSlot) /\ received \in Seq(FileSlot)
        /\ pslot \in FileSlot /\ pos \in 1 .. Len(input) + 1
        /\ Len(input) \in Nat
    BY InputType DEF SemInv, TypeOK
  <1> USE DEF EofInv, PGo, dirVars, consVars, ringVars, semVars, histVars
  <1>1. CASE SkipEntry
    BY <1>0, <1>1 DEF SkipEntry
  <1>2. CASE ReadEntry
    <2>1. ~ SlotFor(input[pos]).eof
      BY DEF SlotFor
    <2> QED
      BY <1>0, <1>2, <2>1 DEF ReadEntry
  <1>3. CASE PrepareEof
    BY <1>0, <1>3 DEF PrepareEof
  <1>4. CASE ProducerWaitEmpty \/ ProducerWaitMutex
    BY <1>0, <1>4 DEF ProducerWaitEmpty, ProducerWaitMutex
  <1>5. CASE StoreSlot
    <2>1. \A i \in 1 .. Len(sent) : ~ sent[i].eof
      BY <1>5 DEF StoreSlot
    <2>2. \A i \in 1 .. Len(received) : ~ received[i].eof
      BY <2>1, <1>0 DEF FifoDelivery
    <2>3. /\ ppc = "store" /\ ppc' = "advance" /\ sent' = Append(sent, pslot)
          /\ UNCHANGED <<input, pos, pslot, cpc, cslot, received>>
      BY <1>5 DEF StoreSlot
    <2>4. /\ Len(sent') = Len(sent) + 1 /\ sent' # <<>>
          /\ sent'[Len(sent')] = pslot
          /\ \A i \in 1 .. Len(sent) : sent'[i] = sent[i]
      BY <1>0, <2>3
    <2>5. \A i \in 1 .. Len(sent') :
            sent'[i].eof => i = Len(sent') /\ pos = Len(input) + 1
      <3> SUFFICES ASSUME NEW i \in 1 .. Len(sent'), sent'[i].eof
                   PROVE  i = Len(sent') /\ pos = Len(input) + 1
        OBVIOUS
      <3>1. i = Len(sent')
        BY <1>0, <2>1, <2>4
      <3> QED
        BY <2>3, <2>4, <3>1
    <2> QED
      BY <2>2, <2>3, <2>4, <2>5
  <1>6. CASE AdvanceWrite \/ ProducerPostMutex
    BY <1>0, <1>6 DEF AdvanceWrite, ProducerPostMutex
  <1>7. CASE ProducerPostFull
    BY <1>0, <1>7 DEF ProducerPostFull
  <1> QED
    BY <1>1, <1>2, <1>3, <1>4, <1>5, <1>6, <1>7 DEF Producer

LEMMA EofConsumer ==
  SemInv /\ RingInv /\ FifoDelivery /\ EofInv /\ Consumer => EofInv'
  <1> SUFFICES ASSUME SemInv, RingInv, FifoDelivery, EofInv, Consumer
               PROVE  EofInv'
    OBVIOUS
  <1>0. /\ sent \in Seq(FileSlot) /\ received \in Seq(FileSlot)
        /\ slots \in [SlotIdx -> FileSlot] /\ read_idx \in SlotIdx
    BY DEF SemInv, TypeOK
  <1> USE DEF EofInv, CGo, dirVars, prodVars, ringVars, semVars, histVars
  <1>1. CASE ConsumerWaitFull \/ ConsumerWaitMutex
    BY <1>0, <1>1 DEF ConsumerWaitFull, ConsumerWaitMutex
  <1>2. CASE LoadSlot
    BY <1>0, <1>2 DEF LoadSlot
  <1>3. CASE AdvanceRead \/ ConsumerPostMutex
    BY <1>0, <1>3 DEF AdvanceRead, ConsumerPostMutex
  <1>4. CASE ConsumerPostEmpty
    BY <1>0, <1>4 DEF ConsumerPostEmpty
  <1>5. CASE WriteFile
    BY <1>0, <1>5 DEF WriteFile
  <1>6. CASE Cleanup
    BY <1>0, <1>6 DEF Cleanup
  <1> QED
    BY <1>1, <1>2, <1>3, <1>4, <1>5, <1>6 DEF Consumer

LEMMA EofStutter == EofInv /\ UNCHANGED vars => EofInv'
  BY DEF EofInv, vars, dirVars, prodVars, consVars, ringVars, semVars, histVars

LEMMA EofDrained ==
  SemInv /\ RingInv /\ FifoDelivery /\ EofInv => NothingLeftBehind
  <1> SUFFICES ASSUME SemInv, RingInv, FifoDelivery, EofInv,
                      cpc \in {"cleanup", "done"}
               PROVE  Len(received) = Len(sent) /\ ppc = "done" /\ sem_full = 0
    BY DEF NothingLeftBehind
  <1>1. sent \in Seq(FileSlot) /\ received \in Seq(FileSlot) /\ sem_full \in Nat
    BY DEF SemInv, TypeOK
  <1>2. Len(received) \in 1 .. Len(received) /\ received[Len(received)].eof
    BY <1>1 DEF EofInv
  <1>3. Len(received) \in 1 .. Len(sent) /\ sent[Len(received)].eof
    BY <1>1, <1>2 DEF FifoDelivery
  <1>4. /\ Len(received) = Len(sent)
        /\ ppc \in {"advance", "post_mutex", "post_full", "done"}
    BY <1>3 DEF EofInv
  <1> QED
    BY <1>1, <1>4 DEF RingInv, InTransit, ProducerOwes, ConsumerOwes, Count

LEMMA EofCorrect == Spec => []EofInv
  <1>1. SemInv /\ RingInv /\ FifoDelivery /\ EofInv /\ [Next]_vars => EofInv'
    BY EofProducer, EofConsumer, EofStutter DEF Next
  <1> QED
    BY <1>1, RingCorrect, EofInit, FifoCorrect, PTL DEF Spec

\* A consumer that goes on to unlink the objects has taken every slot the
\* producer stored, and the producer is through with them.
THEOREM DrainedCorrect == Spec => []NothingLeftBehind
  BY RingCorrect, FifoCorrect, EofCorrect, EofDrained, PTL

-----------------------------------------------------------------------------
(***************************************************************************)
(* The files.  Every slot is the head of a file of the directory, every    *)
(* file up to the directory position has been sent or is in the producer's *)
(* hands, and what the consumer is through with is in the output           *)
(* directory; names differ, so no later file overwrites an earlier one.    *)
(***************************************************************************)
FromInput(dir, slot) ==
  \E j \in 1 .. Len(dir) : Sendable(dir[j]) /\ slot = SlotFor(dir[j])

InHand == ppc \in {"wait_empty", "wait_mutex", "store"}

SourceInv ==
  /\ InHand /\ ~ pslot.eof => FromInput(input, pslot)
  /\ \A i \in 1 .. Len(sent) : ~ sent[i].eof => FromInput(input, sent[i])
  /\ \A j \in 1 .. pos - 1 : Sendable(input[j]) =>
        \/ InHand /\ pslot = SlotFor(input[j])
        \/ \E i \in 1 .. Len(sent) : sent[i] = SlotFor(input[j])

\* The last slot received is not yet dealt with.
Unwritten == cpc \in {"advance", "post_mutex", "post_empty", "write"}

OutputInv ==
  \A i \in 1 .. Len(received) :
     /\ ~ received[i].eof /\ ~ (i = Len(received) /\ Unwritten)
     /\ received[i].filename \notin Refused
     => output[received[i].filename] = received[i].data_len

\* What the output directory holds came from the input directory.
NothingElse ==
  \A n \in Names : output[n] # Absent =>
     /\ n \notin Refused
     /\ \E j \in 1 .. Len(input) : Sendable(input[j]) /\ input[j].name = n

LEMMA SameName ==
  ASSUME SemInv, NEW s, NEW t, FromInput(input, s), FromInput(input, t),
         s.filename = t.filename
  PROVE  s = t /\ s.filename \in Names
  <1>1. PICK i \in 1 .. Len(input) : s = SlotFor(input[i])
    BY DEF FromInput
  <1>2. PICK j \in 1 .. Len(input) : t = SlotFor(input[j])
    BY DEF FromInput
  <1>3. input \in Inputs
    BY DEF SemInv, TypeOK
  <1>4. input[i].name = input[j].name
    BY <1>1, <1>2 DEF SlotFor
  <1>5. i = j
    BY <1>3, <1>4, TransferAssumption
  <1>6. input[i] \in DirEntry
    BY <1>3, InputType
  <1> QED
    BY <1>1, <1>2, <1>5, <1>6 DEF SlotFor, DirEntry

LEMMA SourceStep ==
  SemInv /\ EofInv /\ SourceInv /\ [Next]_vars => SourceInv'
  <1> SUFFICES ASSUME SemInv, EofInv, SourceInv, [Next]_vars
               PROVE  SourceInv'
    OBVIOUS
  <1>0. /\ sent \in Seq(FileSlot) /\ pslot \in FileSlot
        /\ pos \in 1 .. Len(input) + 1 /\ Len(input) \in Nat
    BY InputType DEF SemInv, TypeOK
  <1>1. CASE SkipEntry
    BY <1>0, <1>1 DEF SkipEntry, PGo, SourceInv, InHand, FromInput, histVars
  <1>2. CASE ReadEntry
    <2>1. /\ pos \in 1 .. Len(input) /\ Sendable(input[pos])
          /\ ppc = "readdir" /\ InHand'
          /\ pslot' = SlotFor(input[pos]) /\ pos' = pos + 1
          /\ UNCHANGED <<input, sent>>
      BY <1>0, <1>2 DEF ReadEntry, PGo, InHand, histVars
    <2>2. FromInput(input', pslot')
      BY <2>1 DEF FromInput
    <2>3. \A i \in 1 .. Len(sent) : ~ sent[i].eof => FromInput(input, sent[i])
      BY DEF SourceInv
    <2>4. ASSUME NEW j \in 1 .. pos, Sendable(input[j])
          PROVE  \/ pslot' = SlotFor(input[j])
                 \/ \E i \in 1 .. Len(sent) : sent[i] = SlotFor(input[j])
      BY <1>0, <2>1, <2>4 DEF SourceInv, InHand
    <2> QED
      BY <1>0, <2>1, <2>2, <2>3, <2>4 DEF SourceInv
  <1>3. CASE PrepareEof
    BY <1>0, <1>3
       DEF PrepareEof, PGo, SourceInv, InHand, FromInput, EofSlot, dirVars,
           histVars
  <1>4. CASE ProducerWaitEmpty \/ ProducerWaitMutex
    <2>1. InHand /\ InHand' /\ UNCHANGED <<input, pos, pslot, sent>>
      BY <1>4
         DEF ProducerWaitEmpty, ProducerWaitMutex, PGo, InHand, dirVars,
             histVars
    <2> QED
      BY <2>1 DEF SourceInv
  <1>5. CASE StoreSlot
    <2>1. /\ InHand /\ ~ InHand' /\ sent' = Append(sent, pslot)
          /\ UNCHANGED <<input, pos, pslot>>
      BY <1>5 DEF StoreSlot, PGo, InHand, dirVars
    <2>2. ASSUME NEW i \in 1 .. Len(sent'), ~ sent'[i].eof
          PROVE  FromInput(input, sent'[i])
      <3>1. \/ i \in 1 .. Len(sent) /\ sent'[i] = sent[i]
            \/ sent'[i] = pslot
        BY <1>0, <2>1
      <3> QED
        BY <2>1, <2>2, <3>1 DEF SourceInv
    <2>3. ASSUME NEW j \in 1 .. pos - 1, Sendable(input[j])
          PROVE  \E i \in 1 .. Len(sent') : sent'[i] = SlotFor(input[j])
      <3>1. CASE pslot = SlotFor(input[j])
        <4>1. Len(sent') \in 1 .. Len(sent') /\ sent'[Len(sent')] = pslot
          BY <1>0, <2>1
        <4> QED
          BY <3>1, <4>1
      <3>2. CASE pslot # SlotFor(input[j])
        <4>1. PICK i \in 1 .. Len(sent) : sent[i] = SlotFor(input[j])
          BY <2>3, <3>2 DEF SourceInv
        <4>2. i \in 1 .. Len(sent') /\ sent'[i] = sent[i]
          BY <1>0, <2>1
        <4> QED
          BY <4>1, <4>2
      <3> QED
        BY <3>1, <3>2
    <2> QED
      BY <2>1, <2>2, <2>3 DEF SourceInv
  <1>6. CASE AdvanceWrite \/ ProducerPostMutex \/ ProducerPostFull
    <2>1. ~ InHand /\ ~ InHand' /\ UNCHANGED <<input, pos, pslot, sent>>
      BY <1>6
         DEF AdvanceWrite, ProducerPostMutex, ProducerPostFull, PGo, InHand,
             dirVars, histVars
    <2> QED
      BY <2>1 DEF SourceInv
  <1>7. CASE Consumer \/ UNCHANGED vars
    <2>1. UNCHANGED <<input, pos, ppc, pslot, sent>>
      BY <1>7
         DEF Consumer, ConsumerWaitFull, ConsumerWaitMutex, LoadSlot,
             AdvanceRead, ConsumerPostMutex, ConsumerPostEmpty, WriteFile,
             Cleanup, vars, dirVars, prodVars, histVars
    <2> QED
      BY <2>1 DEF SourceInv, InHand, FromInput
  <1> QED
    BY <1>1, <1>2, <1>3, <1>4, <1>5, <1>6, <1>7 DEF Next, Producer

LEMMA OutputStep ==
  SemInv /\ FifoDelivery /\ EofInv /\ SourceInv /\ OutputInv /\ [Next]_vars
     => OutputInv'
  <1> SUFFICES ASSUME SemInv, FifoDelivery, EofInv, SourceInv, OutputInv,
                      [Next]_vars
               PROVE  OutputInv'
    BY DEF OutputInv
  <1>0. /\ sent \in Seq(FileSlot) /\ received \in Seq(FileSlot)
        /\ slots \in [SlotIdx -> FileSlot] /\ read_idx \in SlotIdx
        /\ output \in [Names -> 0 .. Absent]
    BY DEF SemInv, TypeOK
  <1>1. CASE Producer \/ UNCHANGED vars
    <2>1. UNCHANGED <<cpc, output, received>>
      BY <1>1
         DEF Producer, SkipEntry, ReadEntry, PrepareEof, ProducerWaitEmpty,
             ProducerWaitMutex, StoreSlot, AdvanceWrite, ProducerPostMutex,
             ProducerPostFull, vars, consVars, histVars
    <2> QED
      BY <2>1 DEF OutputInv, Unwritten
  <1>2. CASE ConsumerWaitFull \/ ConsumerWaitMutex \/ AdvanceRead
               \/ ConsumerPostMutex \/ Cleanup
    BY <1>0, <1>2
       DEF ConsumerWaitFull, ConsumerWaitMutex, AdvanceRead,
           ConsumerPostMutex, Cleanup, CGo, OutputInv, Unwritten, histVars
  <1>3. CASE LoadSlot
    BY <1>0, <1>3 DEF LoadSlot, CGo, OutputInv, Unwritten
  <1>4. CASE ConsumerPostEmpty
    <2>1. cslot.eof => received[Len(received)].eof
      BY <1>4 DEF ConsumerPostEmpty, CGo, EofInv
    <2> QED
      BY <1>0, <1>4, <2>1
         DEF ConsumerPostEmpty, CGo, OutputInv, Unwritten, histVars
  <1>5. CASE WriteFile
    <2>1. /\ cpc = "write" /\ UNCHANGED received
          /\ output' = IF cslot.filename \in Refused THEN output
                       ELSE [output EXCEPT ![cslot.filename] = cslot.data_len]
      BY <1>5 DEF WriteFile, CGo, histVars
    <2>2. /\ received # <<>> /\ received[Len(received)] = cslot /\ ~ cslot.eof
      BY <2>1 DEF EofInv
    <2> SUFFICES ASSUME NEW i \in 1 .. Len(received), ~ received[i].eof,
                        received[i].filename \notin Refused
                 PROVE  output'[received[i].filename] = received[i].data_len
      BY <2>1 DEF OutputInv
    <2>3. FromInput(input, received[i]) /\ FromInput(input, cslot)
      <3>1. \A k \in 1 .. Len(received) :
              k \in 1 .. Len(sent) /\ received[k] = sent[k]
        BY <1>0 DEF FifoDelivery
      <3>2. Len(received) \in 1 .. Len(received)
        BY <1>0, <2>2
      <3> QED
        BY <2>2, <3>1, <3>2 DEF SourceInv
    <2>4. received[i].filename \in Names
      BY <2>3, SameName
    <2>5. CASE received[i].filename = cslot.filename
      <3>1. received[i] = cslot
        BY <2>3, <2>5, SameName
      <3> QED
        BY <1>0, <2>1, <2>4, <3>1
    <2>6. CASE received[i].filename # cslot.filename
      <3>1. i # Len(received)
        BY <2>2, <2>6
      <3>2. output[received[i].filename] = received[i].data_len
        BY <3>1 DEF OutputInv
      <3> QED
        BY <1>0, <2>1, <2>4, <2>6, <3>2
    <2> QED
      BY <2>5, <2>6
  <1> QED
    BY <1>1, <1>2, <1>3, <1>4, <1>5 DEF Next, Consumer

LEMMA NothingElseStep ==
  SemInv /\ FifoDelivery /\ EofInv /\ SourceInv /\ NothingElse /\ [Next]_vars
     => NothingElse'
  <1> SUFFICES ASSUME SemInv, FifoDelivery, EofInv, SourceInv, NothingElse,
                      [Next]_vars
               PROVE  NothingElse'
    OBVIOUS
  <1>1. CASE WriteFile
    <2>1. /\ cpc = "write" /\ UNCHANGED input
          /\ output' = IF cslot.filename \in Refused THEN output
                       ELSE [output EXCEPT ![cslot.filename] = cslot.data_len]
      BY <1>1 DEF WriteFile, CGo, dirVars
    <2>2. FromInput(input, cslot)
      <3>1. sent \in Seq(FileSlot) /\ received \in Seq(FileSlot)
        BY DEF SemInv, TypeOK
      <3>2. received # <<>> /\ received[Len(received)] = cslot /\ ~ cslot.eof
        BY <2>1 DEF EofInv
      <3>3. Len(received) \in 1 .. Len(sent) /\ sent[Len(received)] = cslot
        BY <3>1, <3>2 DEF FifoDelivery
      <3> QED
        BY <3>2, <3>3 DEF SourceInv
    <2>3. PICK j \in 1 .. Len(input) :
            Sendable(input[j]) /\ cslot.filename = input[j].name
      BY <2>2 DEF FromInput, SlotFor
    <2>4. output \in [Names -> 0 .. Absent]
      BY DEF SemInv, TypeOK
    <2> SUFFICES ASSUME NEW n \in Names, output'[n] # Absent
                 PROVE  /\ n \notin Refused
                        /\ \E k \in 1 .. Len(input) :
                              Sendable(input[k]) /\ input[k].name = n
      BY <2>1 DEF NothingElse
    <2>5. output[n] # Absent \/ (n = cslot.filename /\ n \notin Refused)
      BY <2>1, <2>4
    <2> QED
      BY <2>3, <2>5 DEF NothingElse
  <1>2. CASE ~ WriteFile
    <2>1. UNCHANGED <<input, output>>
      BY <1>2
         DEF Next, Producer, SkipEntry, ReadEntry, PrepareEof,
             ProducerWaitEmpty, ProducerWaitMutex, StoreSlot, AdvanceWrite,
             ProducerPostMutex, ProducerPostFull, Consumer, ConsumerWaitFull,
             ConsumerWaitMutex, LoadSlot, AdvanceRead, ConsumerPostMutex,
             ConsumerPostEmpty, Cleanup, vars, dirVars, prodVars, consVars,
             histVars
    <2> QED
      BY <2>1 DEF NothingElse
  <1> QED
    BY <1>1, <1>2

LEMMA Delivered ==
  ASSUME SemInv, FifoDelivery, EofInv, NothingLeftBehind, SourceInv, OutputInv,
         NothingElse
  PROVE  CompleteDelivery
  <1> SUFFICES ASSUME cpc \in {"cleanup", "done"},
                      NEW j \in 1 .. Len(input), Sendable(input[j]),
                      input[j].name \notin Refused
               PROVE  output[input[j].name] = SlotFor(input[j]).data_len
    BY DEF CompleteDelivery, NothingElse
  <1>0. /\ sent \in Seq(FileSlot) /\ received \in Seq(FileSlot)
        /\ Len(input) \in Nat
    BY InputType DEF SemInv, TypeOK
  <1>1. ppc = "done" /\ Len(received) = Len(sent)
    BY DEF NothingLeftBehind
  <1>2. pos = Len(input) + 1
    <2>1. Len(sent) \in 1 .. Len(sent) /\ sent[Len(sent)].eof
      BY <1>0, <1>1 DEF EofInv
    <2> QED
      BY <2>1 DEF EofInv
  <1>3. PICK i \in 1 .. Len(sent) : sent[i] = SlotFor(input[j])
    BY <1>0, <1>1, <1>2 DEF SourceInv, InHand
  <1>4. i \in 1 .. Len(received) /\ received[i] = SlotFor(input[j])
    BY <1>0, <1>1, <1>3 DEF FifoDelivery
  <1>5. ~ SlotFor(input[j]).eof /\ SlotFor(input[j]).filename = input[j].name
    BY DEF SlotFor
  <1> QED
    BY <1>4, <1>5 DEF OutputInv, Unwritten

\* The session stores regular, readable files of the input directory and
\* nothing else; and when the consumer is through, each of them that the
\* output directory takes is there, up to the capacity of a slot.
THEOREM DeliveryCorrect == Spec => []CompleteDelivery
  <1>1. Init => SourceInv /\ OutputInv /\ NothingElse
    BY DEF Init, SourceInv, OutputInv, NothingElse, InHand
  <1>2. Spec => []SourceInv
    BY <1>1, SourceStep, RingCorrect, EofCorrect, PTL DEF Spec
  <1>3. Spec => []OutputInv
    BY <1>1, <1>2, OutputStep, RingCorrect, FifoCorrect, EofCorrect, PTL
       DEF Spec
  <1>4. Spec => []NothingElse
    BY <1>1, <1>2, NothingElseStep, RingCorrect, FifoCorrect, EofCorrect, PTL
       DEF Spec
  <1> QED
    BY <1>2, <1>3, <1>4, Delivered, RingCorrect, FifoCorrect, EofCorrect,
       DrainedCorrect, PTL

-----------------------------------------------------------------------------
(***************************************************************************)
(* The session implements the bounded channel: storing a slot is a send,   *)
(* loading one is a receive, and every other step is a stutter.            *)
(***************************************************************************)
LEMMA ChannelStep ==
  SemInv /\ RingInv /\ FifoDelivery /\ EofInv /\ [Next]_vars
     => [Channel!Next]_(Channel!vars)
  <1> SUFFICES ASSUME SemInv, RingInv, FifoDelivery, EofInv, [Next]_vars
               PROVE  [Channel!Next]_(Channel!vars)
    OBVIOUS
  <1>0. /\ sent \in Seq(FileSlot) /\ received \in Seq(FileSlot)
        /\ slots \in [SlotIdx -> FileSlot] /\ read_idx \in SlotIdx
        /\ pslot \in FileSlot
    BY DEF SemInv, TypeOK
  <1>1. CASE StoreSlot
    <2>1. /\ ppc = "store" /\ UNCHANGED received
          /\ sent' = Append(sent, pslot)
      BY <1>1 DEF StoreSlot, PGo
    <2>2. ~ Channel!Closed(sent)
      <3> SUFFICES ASSUME sent # <<>>, sent[Len(sent)] = EofSlot
                   PROVE  FALSE
        BY DEF Channel!Closed
      <3>1. Len(sent) \in 1 .. Len(sent) /\ sent[Len(sent)].eof
        BY <1>0 DEF EofSlot
      <3> QED
        BY <2>1, <3>1 DEF EofInv
    <2>3. RingInv'
      BY <1>1, RingStore
    <2>4. SemInv'
      BY <1>1, SemProducer DEF Producer
    <2>4a. FifoDelivery'
      BY <2>3, <2>4, RingBound, PTL
    <2>5. Channel!InTransit < MAX_FILES
      BY <1>0, <2>1, <2>4a, BufferAssumption DEF Channel!InTransit, FifoDelivery
    <2>6. Channel!Send(pslot)
      BY <2>1, <2>2, <2>5 DEF Channel!Send
    <2> QED
      BY <1>0, <2>6 DEF Channel!Next
  <1>2. CASE LoadSlot
    <2>1. /\ cpc = "load" /\ UNCHANGED sent
          /\ received' = Append(received, slots[read_idx])
      BY <1>2 DEF LoadSlot, CGo
    <2>2. ~ Channel!Closed(received)
      <3> SUFFICES ASSUME received # <<>>, received[Len(received)] = EofSlot
                   PROVE  FALSE
        BY DEF Channel!Closed
      <3>1. Len(received) \in 1 .. Len(received) /\ received[Len(received)].eof
        BY <1>0 DEF EofSlot
      <3> QED
        BY <2>1, <3>1 DEF EofInv
    <2>3. RingInv'
      BY <1>2, RingLoad
    <2>4. SemInv'
      BY <1>2, SemConsumer DEF Consumer
    <2>4a. FifoDelivery'
      BY <2>3, <2>4, RingBound, PTL
    <2>5. /\ Len(received') = Len(received) + 1
          /\ received'[Len(received) + 1] = slots[read_idx]
          /\ Len(received) + 1 \in 1 .. Len(received')
      BY <1>0, <2>1
    <2>6. /\ Len(received) + 1 <= Len(sent)
          /\ slots[read_idx] = sent[Len(received) + 1]
      BY <2>1, <2>4a, <2>5 DEF FifoDelivery
    <2>7. Channel!Receive
      BY <1>0, <2>1, <2>2, <2>6 DEF Channel!Receive, Channel!InTransit
    <2> QED
      BY <2>7 DEF Channel!Next
  <1>3. CASE ~ StoreSlot /\ ~ LoadSlot
    BY <1>3
       DEF Next, Producer, Consumer, SkipEntry, ReadEntry, PrepareEof,
           ProducerWaitEmpty, ProducerWaitMutex, AdvanceWrite,
           ProducerPostMutex, ProducerPostFull, ConsumerWaitFull,
           ConsumerWaitMutex, AdvanceRead, ConsumerPostMutex,
           ConsumerPostEmpty, WriteFile, Cleanup, vars, histVars, Channel!vars
  <1> QED
    BY <1>1, <1>2, <1>3

\* The code's semaphores, indices and slots implement a bounded first-in
\* first-out channel that the end marker closes.
THEOREM ChannelRefinement == Spec => Channel!Safety
  <1>1. Init => Channel!Init
    BY DEF Init, Channel!Init
  <1> QED
    BY <1>1, ChannelStep, RingCorrect, FifoCorrect, EofCorrect, PTL
       DEF Spec, Channel!Safety

-----------------------------------------------------------------------------
(***************************************************************************)
(* What launcher, nohup2, dup2 and the daemons run, for every limit of the *)
(* number of descriptors, any of the first three open at the start, and a  *)
(* hangup, a signal or a failed call at any time.  The two properties say  *)
(* what holds at the end; the invariant, what holds before each call.      *)
(***************************************************************************)
\* Some of the first three are open when a program is started.
OpenAtStart(map) ==
  \E open \in SUBSET (0 .. 2) :
     map = [n \in Fds |-> IF n \in open THEN "tty" ELSE Closed]

\* n is the lowest descriptor that was closed at first.
FirstClosed(n) ==
  n \in Fds /\ start.fds[n] = Closed /\ \A m \in 0 .. n - 1 : start.fds[m] # Closed

Signs == {HUP, TERM}

ProcessTypes ==
  /\ program \in Programs
  /\ start.pidfile \in {"none", "stale"} /\ OpenAtStart(start.fds)
  /\ pc \in [Procs -> Nat \ {0}]
  /\ state \in [Procs -> {"off", "on", "target", "exited", "killed"}]
  /\ status \in [Procs -> Nat]
  /\ fds \in [Procs -> [Fds -> FileNames \cup {"tty", Closed}]]
  /\ opened \in [Procs -> [FileNames -> Fds]]
  /\ session \in [Procs -> {"login", "own"}]
  /\ signals \in [Procs -> SUBSET Signs]
  /\ pidfile \in {"none", "stale", "empty", "written"}
  /\ unchecked \in BOOLEAN

\* Where the processes of a program are: one that goes on has a call to make,
\* and a child is not there before the fork.
Length(p) ==
  CASE program = "launcher" -> IF p = "first" THEN 2 ELSE IF p = "second" THEN 7 ELSE 0
    [] program = "nohup2" -> IF p = "first" THEN 2 ELSE IF p = "second" THEN 3 ELSE 7
    [] program = "dup2" -> IF p = "first" THEN 4 ELSE 0
    [] OTHER -> IF p = "first" THEN 2 ELSE IF p = "second" THEN 5
                ELSE IF program = "daemon" THEN 8 ELSE 9

Forks(p) == 
  CASE p = "first" /\ program # "dup2" -> 1
    [] p = "second" /\ program \in {"nohup2"} \cup Daemons -> 2
    [] OTHER -> 0

\* The process that runs what was to be started, or works on.
Worker ==
  CASE program = "launcher" -> "second" [] program = "dup2" -> "first"
    [] OTHER -> "third"

Placed ==
  /\ \A p \in Procs :
       /\ state[p] \in {"on", "target"} => pc[p] <= Length(p)
       /\ state[p] = "target" => p = Worker /\ pc[p] = Length(p)
       /\ state[p] = "off" => pc[p] = 1
  /\ pc["first"] <= Forks("first") => state["second"] = "off"
  /\ pc["second"] <= Forks("second") => state["third"] = "off"
  /\ Forks("first") = 0 => state["second"] = "off"
  /\ Forks("second") = 0 => state["third"] = "off"

\* Who has not opened anything, and who is out of reach of a hangup.
Inherited ==
  /\ \A p \in Procs : p # Worker \/ pc[p] = 1 => fds[p] = start.fds
  /\ pc["second"] > 1 /\ Worker = "third" => session["second"] = "own"
  /\ state["third"] # "off" => session["third"] = "own"

OutFd == opened["second"]["out.txt"]
ErrFd == opened["second"]["err.txt"]

LauncherInv ==
  LET k == pc["second"]
  IN program = "launcher" /\ state["second"] \in {"on", "target"} =>
    /\ k > 1 => FirstClosed(OutFd)
    /\ k > 2 => start.fds[ErrFd] = Closed /\ ErrFd # OutFd
    /\ k <= 3 \/ StartedWith({1, 2}) =>
      \A n \in Fds :
        fds["second"][n] =
          IF n = 1 /\ k > 3 THEN "out.txt"
          ELSE IF n = 2 /\ k > 4 THEN "err.txt"
          ELSE IF k \in 2 .. 5 /\ n = OutFd THEN "out.txt"
          ELSE IF k \in 3 .. 6 /\ n = ErrFd THEN "err.txt"
          ELSE start.fds[n]

Dup2Inv ==
  LET k == pc["first"]
      f == opened["first"]["foo"]
  IN program = "dup2" /\ state["first"] \in {"on", "target"} =>
    /\ k > 1 => FirstClosed(f)
    /\ k <= 2 \/ StartedWith({1}) =>
      \A n \in Fds :
        fds["first"][n] = IF (n = 1 /\ k > 2) \/ (n = f /\ k \in 2 .. 3) THEN "foo"
                          ELSE start.fds[n]

NohupInv ==
  LET k == pc["third"]
      f == opened["third"]["null"]
  IN program = "nohup2" /\ state["third"] \in {"on", "target"} =>
    /\ k > 2 => FirstClosed(f)
    /\ k > 1 => HUP \in signals["third"]
    /\ \A n \in Fds :
        fds["third"][n] =
          IF (n < k - 3 /\ n <= 2) \/ (n = f /\ k \in 3 .. 6) THEN "null"
          ELSE start.fds[n]

DaemonInv ==
  LET k == pc["third"]
      f == opened["third"]["alive"]
  IN program \in Daemons /\ state["third"] \in {"on", "target"} =>
    /\ k > 1 => FirstClosed(f)
    /\ \A n \in Fds : k < 5 \/ n > 2 =>
         fds["third"][n] = IF n <= 2 /\ n < k - 2 THEN Closed
                           ELSE IF n = f /\ k > 1 THEN "alive" ELSE start.fds[n]
    /\ \A n \in 0 .. 2 :
         /\ k > 4 /\ n >= k - 5 => fds["third"][n] = Closed
         /\ n < k - 5 /\ ~ unchecked => fds["third"][n] = "null"

\* The second process of a daemon and the pid file.
PidFileInv ==
  program \in Daemons =>
    /\ start.pidfile = "none" /\ pidfile # "none" => pc["second"] > 3
    /\ pc["second"] > 3 /\ Alive("third") => pidfile # "none"
    /\ pc["second"] > 4 /\ Alive("third") /\ ~ unchecked => pidfile = "written"
    /\ state["second"] = "exited" /\ status["second"] = 0 => pc["second"] > 4
    /\ state["third"] = "exited" /\ TERM \in signals["third"]
         /\ start.pidfile = "none"
       => status["third"] = 1 \/ (pidfile = "none" /\ pc["second"] > 3)

ProcessesInv ==
  /\ ProcessTypes /\ Placed /\ Inherited
  /\ LauncherInv /\ Dup2Inv /\ NohupInv /\ DaemonInv /\ PidFileInv

-----------------------------------------------------------------------------
(***************************************************************************)
(* The scripts: which call is made where.                                  *)
(***************************************************************************)
LEMMA LauncherScript ==
  ASSUME program = "launcher", ProcessTypes, Placed
  PROVE  /\ state["first"] = "on" =>
              \/ pc["first"] = 1 /\ Now("first") = Call("fork")
              \/ pc["first"] = 2 /\ Now("first") = Call("wait")
         /\ state["second"] = "on" =>
              \/ pc["second"] = 1 /\ Now("second") = Open("out.txt")
              \/ pc["second"] = 2 /\ Now("second") = Open("err.txt")
              \/ pc["second"] = 3 /\ Now("second") = Dup2("out.txt", 1)
              \/ pc["second"] = 4 /\ Now("second") = Dup2("err.txt", 2)
              \/ pc["second"] = 5 /\ Now("second") = Close("out.txt")
              \/ pc["second"] = 6 /\ Now("second") = Close("err.txt")
              \/ pc["second"] = 7 /\ Now("second") = Call("exec")
         /\ state["third"] \notin {"on", "target"}
  <1>1. /\ Script("first") = <<Call("fork"), Call("wait")>>
        /\ Script("second") =
             <<Open("out.txt"), Open("err.txt"), Dup2("out.txt", 1),
               Dup2("err.txt", 2), Close("out.txt"), Close("err.txt"),
               Call("exec")>>
    BY DEF Script, launcher
  <1>2. \A p \in Procs : pc[p] \in Nat \ {0}
    BY DEF ProcessTypes
  <1>3. /\ state["first"] = "on" => pc["first"] <= 2
        /\ state["second"] = "on" => pc["second"] <= 7
        /\ state["third"] \in {"on", "target"} => pc["third"] <= 0
    BY DEF Placed, Length, Procs
  <1>4. state["first"] = "on" => pc["first"] \in {1, 2}
    BY <1>2, <1>3 DEF Procs
  <1>5. state["second"] = "on" => pc["second"] \in {1, 2, 3, 4, 5, 6, 7}
    BY <1>2, <1>3 DEF Procs
  <1>6. state["third"] \notin {"on", "target"}
    BY <1>2, <1>3 DEF Procs
  <1> QED
    BY <1>1, <1>4, <1>5, <1>6 DEF Now

LEMMA Nohup2Script ==
  ASSUME program = "nohup2", ProcessTypes, Placed
  PROVE  /\ state["first"] = "on" =>
              \/ pc["first"] = 1 /\ Now("first") = Call("fork")
              \/ pc["first"] = 2 /\ Now("first") = Call("exit")
         /\ state["second"] = "on" =>
              \/ pc["second"] = 1 /\ Now("second") = Call("setsid")
              \/ pc["second"] = 2 /\ Now("second") = Call("fork")
              \/ pc["second"] = 3 /\ Now("second") = Call("exit")
         /\ state["third"] = "on" =>
              \/ pc["third"] = 1 /\ Now("third") = Call("ignore")
              \/ pc["third"] = 2 /\ Now("third") = Open("null")
              \/ pc["third"] = 3 /\ Now("third") = Dup2("null", 0)
              \/ pc["third"] = 4 /\ Now("third") = Dup2("null", 1)
              \/ pc["third"] = 5 /\ Now("third") = Dup2("null", 2)
              \/ pc["third"] = 6 /\ Now("third") = CloseAbove2("null")
              \/ pc["third"] = 7 /\ Now("third") = Call("exec")
  <1>1. /\ Script("first") = <<Call("fork"), Call("exit")>>
        /\ Script("second") = <<Call("setsid"), Call("fork"), Call("exit")>>
        /\ Script("third") =
             <<Call("ignore"), Open("null"), Dup2("null", 0), Dup2("null", 1),
               Dup2("null", 2), CloseAbove2("null"), Call("exec")>>
    BY DEF Script, nohup2
  <1>2. \A p \in Procs : pc[p] \in Nat \ {0}
    BY DEF ProcessTypes
  <1>3. /\ state["first"] = "on" => pc["first"] <= 2
        /\ state["second"] = "on" => pc["second"] <= 3
        /\ state["third"] = "on" => pc["third"] <= 7
    BY DEF Placed, Length, Procs
  <1>4. state["first"] = "on" => pc["first"] \in {1, 2}
    BY <1>2, <1>3 DEF Procs
  <1>5. state["second"] = "on" => pc["second"] \in {1, 2, 3}
    BY <1>2, <1>3 DEF Procs
  <1>6. state["third"] = "on" => pc["third"] \in {1, 2, 3, 4, 5, 6, 7}
    BY <1>2, <1>3 DEF Procs
  <1> QED
    BY <1>1, <1>4, <1>5, <1>6 DEF Now

LEMMA Dup2Script ==
  ASSUME program = "dup2", ProcessTypes, Placed
  PROVE  /\ state["first"] = "on" =>
              \/ pc["first"] = 1 /\ Now("first") = Open("foo")
              \/ pc["first"] = 2 /\ Now("first") = Dup2("foo", 1)
              \/ pc["first"] = 3 /\ Now("first") = Close("foo")
              \/ pc["first"] = 4 /\ Now("first") = Call("work")
         /\ state["second"] \notin {"on", "target"}
         /\ state["third"] \notin {"on", "target"}
  <1>1. Script("first") = <<Open("foo"), Dup2("foo", 1), Close("foo"), Call("work")>>
    BY DEF Script, dup2
  <1>2. \A p \in Procs : pc[p] \in Nat \ {0}
    BY DEF ProcessTypes
  <1>3. /\ state["first"] = "on" => pc["first"] <= 4
        /\ state["second"] \in {"on", "target"} => pc["second"] <= 0
        /\ state["third"] \in {"on", "target"} => pc["third"] <= 0
    BY DEF Placed, Length, Procs
  <1>4. state["first"] = "on" => pc["first"] \in {1, 2, 3, 4}
    BY <1>2, <1>3 DEF Procs
  <1> QED
    BY <1>1, <1>2, <1>3, <1>4 DEF Now, Procs

\* What stands where when sequences are joined.
LEMMA JoinAt ==
  ASSUME NEW S, NEW s \in Seq(S), NEW t \in Seq(S)
  PROVE  /\ \A i \in 1 .. Len(s) : (s \o t)[i] = s[i]
         /\ \A i \in 1 .. Len(t) : (s \o t)[Len(s) + i] = t[i]
  OBVIOUS

LEMMA StreamsThen ==
  ASSUME NEW S, NEW t \in Seq(S), Open("alive") \in S, CloseFd(0) \in S,
         CloseFd(1) \in S, CloseFd(2) \in S, Call("open_null") \in S
  PROVE  /\ (DaemonStreams \o t)[1] = Open("alive")
         /\ (DaemonStreams \o t)[2] = CloseFd(0)
         /\ (DaemonStreams \o t)[3] = CloseFd(1)
         /\ (DaemonStreams \o t)[4] = CloseFd(2)
         /\ (DaemonStreams \o t)[5] = Call("open_null")
         /\ (DaemonStreams \o t)[6] = Call("open_null")
         /\ (DaemonStreams \o t)[7] = Call("open_null")
         /\ \A i \in 1 .. Len(t) : (DaemonStreams \o t)[7 + i] = t[i]
  <1>1. PICK s : s = DaemonStreams
    OBVIOUS
  <1>2. /\ s[1] = Open("alive") /\ s[2] = CloseFd(0) /\ s[3] = CloseFd(1)
        /\ s[4] = CloseFd(2) /\ s[5] = Call("open_null")
        /\ s[6] = Call("open_null") /\ s[7] = Call("open_null") /\ Len(s) = 7
    BY <1>1 DEF DaemonStreams
  <1>3. s \in Seq(S)
    BY <1>1 DEF DaemonStreams
  <1>4. PICK r : r = s \o t
    OBVIOUS
  <1>5. /\ \A i \in 1 .. 7 : r[i] = s[i]
        /\ \A i \in 1 .. Len(t) : r[7 + i] = t[i]
    <2>1. /\ \A i \in 1 .. Len(s) : (s \o t)[i] = s[i]
          /\ \A i \in 1 .. Len(t) : (s \o t)[Len(s) + i] = t[i]
      BY <1>3, JoinAt
    <2>2. Len(s) = 7
      BY <1>2
    <2> QED
      BY <1>4, <2>1, <2>2, Zenon
  <1>6. /\ r[1] = s[1] /\ r[2] = s[2] /\ r[3] = s[3] /\ r[4] = s[4]
        /\ r[5] = s[5] /\ r[6] = s[6] /\ r[7] = s[7]
    BY <1>5
  <1> QED
    BY <1>1, <1>2, <1>4, <1>5, <1>6

\* The last call of the two daemons is not the same.
LEMMA DaemonScript ==
  ASSUME program \in Daemons, ProcessTypes, Placed
  PROVE  /\ state["first"] = "on" =>
              \/ pc["first"] = 1 /\ Now("first") = Call("fork")
              \/ pc["first"] = 2 /\ Now("first") = Call("exit")
         /\ state["second"] = "on" =>
              \/ pc["second"] = 1 /\ Now("second") = Call("setsid")
              \/ pc["second"] = 2 /\ Now("second") = Call("fork")
              \/ pc["second"] = 3 /\ Now("second") = Call("create_pidfile")
              \/ pc["second"] = 4 /\ Now("second") = Call("write_pidfile")
              \/ pc["second"] = 5 /\ Now("second") = Call("exit")
         /\ state["third"] = "on" =>
              \/ pc["third"] = 1 /\ Now("third") = Open("alive")
              \/ pc["third"] = 2 /\ Now("third") = CloseFd(0)
              \/ pc["third"] = 3 /\ Now("third") = CloseFd(1)
              \/ pc["third"] = 4 /\ Now("third") = CloseFd(2)
              \/ pc["third"] \in {5, 6, 7} /\ Now("third") = Call("open_null")
              \/ pc["third"] = 8 /\ program = "daemon-v2"
                                 /\ Now("third") = Call("sigaction")
              \/ pc["third"] = Length("third") /\ Now("third") = Call("work")
  <1>0. PICK S : S = {Open("alive"), CloseFd(0), CloseFd(1), CloseFd(2),
                      Call("open_null"), Call("sigaction"), Call("work")}
    OBVIOUS
  <1>9. /\ Open("alive") \in S /\ CloseFd(0) \in S /\ CloseFd(1) \in S
        /\ CloseFd(2) \in S /\ Call("open_null") \in S
    BY <1>0
  <1>1. /\ Script("first") = <<Call("fork"), Call("exit")>>
        /\ Script("second") =
             <<Call("setsid"), Call("fork"), Call("create_pidfile"),
               Call("write_pidfile"), Call("exit")>>
    BY DEF Script, daemon, daemon_v2, DaemonParent, Daemons
  <1>2. \A p \in Procs : pc[p] \in Nat \ {0}
    BY DEF ProcessTypes
  <1>3. /\ state["first"] = "on" => pc["first"] <= 2
        /\ state["second"] = "on" => pc["second"] <= 5
        /\ state["third"] = "on" => pc["third"] <= Length("third")
    BY DEF Placed, Length, Procs, Daemons
  <1>4. state["first"] = "on" => pc["first"] \in {1, 2}
    BY <1>2, <1>3 DEF Procs
  <1>5. state["second"] = "on" => pc["second"] \in {1, 2, 3, 4, 5}
    BY <1>2, <1>3 DEF Procs
  <1>6. CASE program = "daemon"
    <2>1. PICK t : t = <<Call("work")>>
      OBVIOUS
    <2>2. Script("third") = DaemonStreams \o t
      <3>1. daemon["third"] = DaemonStreams \o t
        BY <2>1 DEF daemon
      <3>2. Script("third") = daemon["third"]
        BY <1>6 DEF Script
      <3> QED
        BY <3>1, <3>2
    <2>3. t \in Seq(S) /\ Len(t) = 1 /\ t[1] = Call("work")
      BY <1>0, <2>1
    <2>4. Length("third") = 8
      BY <1>6 DEF Length
    <2>5. state["third"] = "on" => pc["third"] \in {1, 2, 3, 4, 5, 6, 7, 8}
      BY <1>2, <1>3, <2>4 DEF Procs
    <2>6. Script("third")[8] = Call("work")
      <3>1. 1 \in 1 .. Len(t) /\ 7 + 1 = 8
        BY <2>3
      <3>2. (DaemonStreams \o t)[7 + 1] = t[1]
        BY <1>9, <2>3, <3>1, StreamsThen, Zenon
      <3> QED
        BY <2>2, <2>3, <3>1, <3>2
    <2>7. PICK r : r = Script("third")
      OBVIOUS
    <2>8. /\ r[1] = Open("alive") /\ r[2] = CloseFd(0) /\ r[3] = CloseFd(1)
          /\ r[4] = CloseFd(2) /\ r[5] = Call("open_null")
          /\ r[6] = Call("open_null") /\ r[7] = Call("open_null")
      BY <1>9, <2>2, <2>3, <2>7, StreamsThen, ZenonT(60)
    <2> QED
      BY <1>1, <1>4, <1>5, <2>4, <2>5, <2>6, <2>7, <2>8 DEF Now
  <1>7. CASE program = "daemon-v2"
    <2>1. PICK t : t = <<Call("sigaction"), Call("work")>>
      OBVIOUS
    <2>2. Script("third") = DaemonStreams \o t
      <3>1. daemon_v2["third"] = DaemonStreams \o t
        BY <2>1 DEF daemon_v2, daemon
      <3>2. Script("third") = daemon_v2["third"]
        BY <1>7 DEF Script
      <3> QED
        BY <3>1, <3>2
    <2>3. /\ t \in Seq(S) /\ Len(t) = 2
          /\ t[1] = Call("sigaction") /\ t[2] = Call("work")
      BY <1>0, <2>1
    <2>4. Length("third") = 9
      BY <1>7 DEF Length
    <2>5. state["third"] = "on" => pc["third"] \in {1, 2, 3, 4, 5, 6, 7, 8, 9}
      BY <1>2, <1>3, <2>4 DEF Procs
    <2>6. Script("third")[8] = Call("sigaction") /\ Script("third")[9] = Call("work")
      <3>1. 1 \in 1 .. Len(t) /\ 2 \in 1 .. Len(t) /\ 7 + 1 = 8 /\ 7 + 2 = 9
        BY <2>3
      <3>2. /\ (DaemonStreams \o t)[7 + 1] = t[1]
            /\ (DaemonStreams \o t)[7 + 2] = t[2]
        BY <1>9, <2>3, <3>1, StreamsThen, Zenon
      <3> QED
        BY <2>2, <2>3, <3>1, <3>2
    <2>7. PICK r : r = Script("third")
      OBVIOUS
    <2>8. /\ r[1] = Open("alive") /\ r[2] = CloseFd(0) /\ r[3] = CloseFd(1)
          /\ r[4] = CloseFd(2) /\ r[5] = Call("open_null")
          /\ r[6] = Call("open_null") /\ r[7] = Call("open_null")
      BY <1>9, <2>2, <2>3, <2>7, StreamsThen, ZenonT(60)
    <2> QED
      BY <1>1, <1>4, <1>5, <1>7, <2>4, <2>5, <2>6, <2>7, <2>8 DEF Now
  <1> QED
    BY <1>6, <1>7 DEF Daemons

\* Each call has an action of its own.
LEMMA CallDoes ==
  ASSUME NEW p \in Procs, Calls(p), state[p] = "on"
  PROVE  /\ Now(p).call = "fork" => Fork(p)
         /\ Now(p).call = "open" => OpenFile(p)
         /\ Now(p).call = "open_null" => OpenNull(p)
         /\ Now(p).call = "dup2" => Duplicate(p)
         /\ Now(p).call \in {"close", "close_above_2"} => CloseOpened(p)
         /\ Now(p).call = "close_fd" => CloseNumber(p)
         /\ Now(p).call \in {"setsid", "ignore", "sigaction"} => Detach(p)
         /\ Now(p).call \in {"create_pidfile", "write_pidfile"} => WritePidfile(p)
         /\ Now(p).call \in {"exec", "work"} => Run(p)
         /\ Now(p).call \in {"exit", "wait"} => Exit(p)
  BY DEF Calls, At, Fork, OpenFile, OpenNull, Duplicate, CloseOpened,
         CloseNumber, Detach, WritePidfile, Run, Exit

\* A process that is not on makes no call, but its target may exit.
LEMMA OffDoes ==
  ASSUME NEW p \in Procs, Calls(p), state[p] # "on"
  PROVE  /\ state[p] = "target" /\ program \notin Daemons
         /\ \E code \in {0, 1} : Ends(p, code)
         /\ UNCHANGED <<fds, opened, session, signals, pidfile, unchecked>>
  BY DEF Calls, At, Fork, OpenFile, OpenNull, Duplicate, CloseOpened,
         CloseNumber, Detach, WritePidfile, Run, Exit

-----------------------------------------------------------------------------
(***************************************************************************)
(* Descriptors, and the steps that leave them alone.                       *)
(***************************************************************************)
LEMMA StartFds ==
  ASSUME ProcessTypes
  PROVE  /\ start.fds \in [Fds -> {"tty", Closed}]
         /\ \A n \in Fds : n > 2 => start.fds[n] = Closed
  <1>1. PICK open \in SUBSET (0 .. 2) :
          start.fds = [n \in Fds |-> IF n \in open THEN "tty" ELSE Closed]
    BY DEF ProcessTypes, OpenAtStart
  <1>2. \A n \in Fds : n > 2 => n \notin open
    BY ProcessesAssumption DEF Fds
  <1> QED
    BY <1>1, <1>2

\* There is a lowest free descriptor.
LEMMA LowestIs ==
  ASSUME NEW p \in Procs, NEW n \in 0 .. 4, fds[p][n] = Closed
  PROVE  /\ Lowest(p) \in 0 .. 4 /\ fds[p][Lowest(p)] = Closed
         /\ \A m \in 0 .. Lowest(p) - 1 : fds[p][m] # Closed
  <1>1. PICK k \in 0 .. 4 :
          fds[p][k] = Closed /\ \A m \in 0 .. k - 1 : fds[p][m] # Closed
    <2>1. \A m \in 0 .. 4 : m = 0 \/ m = 1 \/ m = 2 \/ m = 3 \/ m = 4
      OBVIOUS
    <2>2. CASE fds[p][0] = Closed
      BY <2>2
    <2>3. CASE fds[p][0] # Closed /\ fds[p][1] = Closed
      BY <2>3
    <2>4. CASE /\ fds[p][0] # Closed /\ fds[p][1] # Closed
               /\ fds[p][2] = Closed
      <3>1. \A m \in 0 .. 2 - 1 : m = 0 \/ m = 1
        OBVIOUS
      <3> QED
        BY <2>4, <3>1
    <2>5. CASE /\ fds[p][0] # Closed /\ fds[p][1] # Closed
               /\ fds[p][2] # Closed /\ fds[p][3] = Closed
      <3>1. \A m \in 0 .. 3 - 1 : m = 0 \/ m = 1 \/ m = 2
        OBVIOUS
      <3> QED
        BY <2>5, <3>1
    <2>6. CASE /\ fds[p][0] # Closed /\ fds[p][1] # Closed
               /\ fds[p][2] # Closed /\ fds[p][3] # Closed
      <3>1. \A m \in 0 .. 4 - 1 : m = 0 \/ m = 1 \/ m = 2 \/ m = 3
        OBVIOUS
      <3>2. fds[p][4] = Closed
        BY <2>1, <2>6
      <3> QED
        BY <2>6, <3>1, <3>2
    <2> QED
      BY <2>2, <2>3, <2>4, <2>5, <2>6
  <1>2. k \in Fds
    BY ProcessesAssumption DEF Fds
  <1>3. /\ Lowest(p) \in Fds /\ fds[p][Lowest(p)] = Closed
        /\ \A m \in 0 .. Lowest(p) - 1 : fds[p][m] # Closed
    BY <1>1, <1>2 DEF Lowest
  <1>4. Lowest(p) <= k
    BY <1>1, <1>3, ProcessesAssumption DEF Fds
  <1> QED
    BY <1>3, <1>4, ProcessesAssumption DEF Fds

\* Steps that leave the descriptors as they are: processes end, or begin what
\* they were started for.
LEMMA ProcessesEnd ==
  ASSUME ProcessesInv, UNCHANGED <<program, start, pc, fds, opened, session>>,
         UNCHANGED <<signals, unchecked>>,
         state' \in [Procs -> {"off", "on", "target", "exited", "killed"}],
         status' \in [Procs -> Nat],
         pidfile' \in {"none", "stale", "empty", "written"},
         \A p \in Procs :
            \/ state'[p] = state[p]
            \/ state'[p] \in {"exited", "killed"} /\ Alive(p)
            \/ state'[p] = "target" /\ state[p] = "on" /\ p = Worker
                 /\ pc[p] = Length(p),
         PidFileInv'
  PROVE  ProcessesInv'
  <1>1. ProcessTypes'
    BY DEF ProcessesInv, ProcessTypes
  <1>2. /\ Worker' = Worker /\ \A p \in Procs : Length(p)' = Length(p)
        /\ \A p \in Procs : Forks(p)' = Forks(p)
    BY DEF Worker, Length, Forks
  <1>3. /\ \A p \in Procs : state'[p] \in {"on", "target"} => Alive(p)
        /\ \A p \in Procs : state'[p] = "off" <=> state[p] = "off"
    BY DEF Alive
  <1>4. Placed'
    <2>1. \A p \in Procs :
             /\ state'[p] \in {"on", "target"} => pc[p] <= Length(p)
             /\ state'[p] = "target" => p = Worker /\ pc[p] = Length(p)
             /\ state'[p] = "off" => pc[p] = 1
      BY <1>3 DEF ProcessesInv, Placed, Alive
    <2> QED
      BY <1>2, <1>3, <2>1 DEF ProcessesInv, Placed, Procs
  <1>5. Inherited'
    BY <1>2, <1>3 DEF ProcessesInv, Inherited, Procs
  <1>6. /\ OutFd' = OutFd /\ ErrFd' = ErrFd
        /\ \A n \in Fds : FirstClosed(n)' <=> FirstClosed(n)
        /\ \A set \in {{1}, {1, 2}} : StartedWith(set)' <=> StartedWith(set)
    BY DEF OutFd, ErrFd, FirstClosed, StartedWith
  <1>7. LauncherInv'
    BY <1>3 DEF ProcessesInv, LauncherInv, Alive, Procs, OutFd, ErrFd,
                FirstClosed, StartedWith
  <1>8. Dup2Inv'
    BY <1>3 DEF ProcessesInv, Dup2Inv, Alive, Procs, FirstClosed, StartedWith
  <1>9. NohupInv'
    BY <1>3 DEF ProcessesInv, NohupInv, Alive, Procs, FirstClosed
  <1>10. DaemonInv'
    BY <1>3 DEF ProcessesInv, DaemonInv, Alive, Procs, FirstClosed
  <1> QED
    BY <1>1, <1>4, <1>5, <1>7, <1>8, <1>9, <1>10 DEF ProcessesInv

\* A call that fails, and an exit of what is no daemon.
LEMMA EndsStep ==
  ASSUME ProcessesInv, Same, NEW p \in Procs, NEW code \in Nat, Ends(p, code),
         state[p] \in {"on", "target"},
         UNCHANGED <<fds, opened, session, signals, pidfile, unchecked>>,
         program \in Daemons /\ p = "third" => code = 1,
         program \in Daemons /\ p = "second" /\ code = 0 => pc["second"] > 4
  PROVE  ProcessesInv'
  <1>1. /\ state' = [state EXCEPT ![p] = "exited"]
        /\ status' = [status EXCEPT ![p] = code] /\ pc' = pc
    BY DEF Ends
  <1>2. /\ state' \in [Procs -> {"off", "on", "target", "exited", "killed"}]
        /\ status' \in [Procs -> Nat]
        /\ \A q \in Procs : q # p => state'[q] = state[q] /\ status'[q] = status[q]
        /\ state'[p] = "exited" /\ status'[p] = code
    BY <1>1 DEF ProcessesInv, ProcessTypes
  <1>3. PidFileInv'
    <2> SUFFICES ASSUME program \in Daemons PROVE PidFileInv'
      BY DEF PidFileInv, Same
    <2>1. Alive("third")' => Alive("third")
      BY <1>2 DEF Alive, Procs
    <2>2. p = "first" \/ p = "second" \/ p = "third"
      BY DEF Procs
    <2> QED
      BY <1>1, <1>2, <2>1, <2>2 DEF ProcessesInv, PidFileInv, Same, Procs
  <1>4. \A q \in Procs :
          \/ state'[q] = state[q]
          \/ state'[q] \in {"exited", "killed"} /\ Alive(q)
    <2>1. Alive(p)
      BY DEF Alive
    <2>2. ASSUME NEW q \in Procs, q = p
          PROVE  state'[q] \in {"exited", "killed"} /\ Alive(q)
      BY <1>2, <2>1, <2>2
    <2>3. ASSUME NEW q \in Procs, q # p PROVE state'[q] = state[q]
      BY <1>2, <2>3
    <2> QED
      BY <2>2, <2>3
  <1> QED
    BY <1>1, <1>2, <1>3, <1>4, ProcessesEnd DEF Same, ProcessesInv, ProcessTypes

LEMMA FailsStep ==
  ASSUME ProcessesInv, Same, NEW p \in Procs, Fails(p), state[p] = "on"
  PROVE  ProcessesInv'
  <1>1. ErrorCode(p) \in Nat /\ ErrorCode(p) # 0
        /\ (program \in Daemons => ErrorCode(p) = 1)
    BY DEF ErrorCode
  <1> QED
    BY <1>1, EndsStep DEF Fails

LEMMA TerminateStep ==
  ASSUME ProcessesInv, NEW p \in Procs, Terminate(p)
  PROVE  ProcessesInv'
  <1>1. Alive(p) /\ (program \in Daemons => p = "third")
    BY DEF Terminate, MayTerminate, Alive
  <1>2. PICK s \in {"exited", "killed"}, n \in Nat :
          /\ state' = [state EXCEPT ![p] = s]
          /\ status' = [status EXCEPT ![p] = n]
          /\ pc' = pc
          /\ \/ /\ s = "exited" /\ TERM \in signals[p] /\ pidfile' = "none"
                /\ n = IF pidfile = "none" THEN 1 ELSE 0
             \/ s = "killed" /\ pidfile' = pidfile
    <2>1. CASE TERM \in signals[p]
      <3>1. PICK n \in Nat : n = IF pidfile = "none" THEN 1 ELSE 0
        OBVIOUS
      <3> QED
        BY <2>1, <3>1 DEF Terminate, Ends
    <2>2. CASE TERM \notin signals[p]
      BY <2>2 DEF Terminate, Killed, TERM
    <2> QED
      BY <2>1, <2>2
  <1>3. /\ state' \in [Procs -> {"off", "on", "target", "exited", "killed"}]
        /\ status' \in [Procs -> Nat]
        /\ \A q \in Procs : q # p => state'[q] = state[q] /\ status'[q] = status[q]
        /\ state'[p] = s /\ status'[p] = n
    BY <1>2 DEF ProcessesInv, ProcessTypes
  <1>4. \A q \in Procs :
          \/ state'[q] = state[q]
          \/ state'[q] \in {"exited", "killed"} /\ Alive(q)
    <2>1. ASSUME NEW q \in Procs, q = p
          PROVE  state'[q] \in {"exited", "killed"} /\ Alive(q)
      BY <1>1, <1>2, <1>3, <2>1
    <2>2. ASSUME NEW q \in Procs, q # p PROVE state'[q] = state[q]
      BY <1>3, <2>2
    <2> QED
      BY <2>1, <2>2
  <1>5. /\ UNCHANGED <<program, start, pc, fds, opened, session>>
        /\ UNCHANGED <<signals, unchecked>>
    BY <1>2 DEF Terminate
  <1>6. pidfile' \in {"none", "stale", "empty", "written"}
    BY <1>2 DEF ProcessesInv, ProcessTypes
  <1>7. PidFileInv'
    <2> SUFFICES ASSUME program \in Daemons PROVE PidFileInv'
      BY <1>5 DEF PidFileInv
    <2>1. p = "third" /\ ~ Alive("third")'
      BY <1>1, <1>2, <1>3 DEF Alive, Procs
    <2>2. state'["second"] = state["second"] /\ status'["second"] = status["second"]
      BY <1>3, <2>1 DEF Procs
    <2>3. start.pidfile = "none" /\ pidfile # "none" => pc["second"] > 3
      BY DEF ProcessesInv, PidFileInv
    <2>4. state'["third"] = "exited" /\ start.pidfile = "none"
            => status'["third"] = 1 \/ (pidfile' = "none" /\ pc["second"] > 3)
      BY <1>2, <1>3, <2>1, <2>3
    <2>5. start.pidfile = "none" /\ pidfile' # "none" => pc["second"] > 3
      BY <1>2, <2>3
    <2> QED
      BY <1>5, <2>1, <2>2, <2>4, <2>5 DEF ProcessesInv, PidFileInv
  <1> QED
    BY <1>3, <1>4, <1>5, <1>6, <1>7, ProcessesEnd

LEMMA HangupStep ==
  ASSUME ProcessesInv, Hangup
  PROVE  ProcessesInv'
  <1>1. PICK hit : hit = {p \in Procs : Alive(p) /\ session[p] = "login"
                                        /\ HUP \notin signals[p]}
    OBVIOUS
  <1>2. /\ state' = [p \in Procs |-> IF p \in hit THEN "killed" ELSE state[p]]
        /\ status' = [p \in Procs |-> IF p \in hit THEN HUP ELSE status[p]]
        /\ UNCHANGED <<program, start, pc, fds, opened, session>>
        /\ UNCHANGED <<signals, unchecked>> /\ pidfile' = pidfile
    BY <1>1 DEF Hangup
  <1>3. /\ state' \in [Procs -> {"off", "on", "target", "exited", "killed"}]
        /\ status' \in [Procs -> Nat]
    BY <1>2 DEF ProcessesInv, ProcessTypes, HUP
  <1>4. \A q \in Procs : \/ state'[q] = state[q] /\ status'[q] = status[q]
                         \/ state'[q] = "killed" /\ Alive(q)
    BY <1>1, <1>2
  <1>5. PidFileInv'
    <2>1. Alive("third")' => Alive("third")
      BY <1>4 DEF Alive, Procs
    <2>2. \A q \in Procs : state'[q] = "exited" =>
                             state[q] = "exited" /\ status'[q] = status[q]
      BY <1>4
    <2> QED
      BY <1>2, <2>1, <2>2 DEF ProcessesInv, PidFileInv, Procs
  <1> QED
    BY <1>2, <1>3, <1>4, <1>5, ProcessesEnd DEF ProcessesInv, ProcessTypes

\* execvp, or the own work of a process.
LEMMA RunStep ==
  ASSUME ProcessesInv, Same, NEW p \in Procs, Run(p), state[p] = "on",
         p = Worker, pc[p] = Length(p)
  PROVE  ProcessesInv'
  <1>1. CASE Fails(p)
    BY <1>1, FailsStep
  <1>2. CASE /\ state' = [state EXCEPT ![p] = "target"]
             /\ UNCHANGED <<pc, status, fds, opened, session, signals, pidfile,
                            unchecked>>
    <2>1. /\ state' \in [Procs -> {"off", "on", "target", "exited", "killed"}]
          /\ \A q \in Procs : q # p => state'[q] = state[q]
          /\ state'[p] = "target"
      BY <1>2 DEF ProcessesInv, ProcessTypes
    <2>2. Alive("third")' <=> Alive("third")
      BY <2>1 DEF Alive, Procs
    <2>3. \A q \in Procs : state'[q] = "exited" => state[q] = "exited"
      BY <2>1
    <2>4. PidFileInv'
      BY <1>2, <2>2, <2>3 DEF ProcessesInv, PidFileInv, Procs, Same
    <2>5. \A q \in Procs :
            \/ state'[q] = state[q]
            \/ state'[q] = "target" /\ state[q] = "on" /\ q = Worker
                 /\ pc[q] = Length(q)
      BY <2>1
    <2> QED
      BY <1>2, <2>1, <2>4, <2>5, ProcessesEnd
         DEF Same, ProcessesInv, ProcessTypes
  <1> QED
    BY <1>1, <1>2 DEF Run

LEMMA ExitStep ==
  ASSUME ProcessesInv, Same, NEW p \in Procs, Exit(p),
         \/ state[p] = "on" /\ (program \in Daemons => p # "third")
              /\ (program \in Daemons /\ p = "second" => pc["second"] > 4)
              /\ (Now(p).call = "wait" => p \in {"first", "second"})
         \/ state[p] = "target"
  PROVE  ProcessesInv'
  <1>1. PICK code \in Nat : Ends(p, code)
    <2>1. CASE At(p, "exit") /\ Ends(p, 0)
      BY <2>1
    <2>2. CASE /\ At(p, "wait")
               /\ Ends(p, IF state[Child[p]] = "exited" THEN status[Child[p]]
                          ELSE 128 + status[Child[p]])
      <3>1. p \in {"first", "second"}
        BY <2>2 DEF At
      <3>2. Child[p] \in Procs
        BY <3>1 DEF Child, Procs
      <3>3. status[Child[p]] \in Nat
        BY <3>2 DEF ProcessesInv, ProcessTypes
      <3>4. PICK n \in Nat :
              n = IF state[Child[p]] = "exited" THEN status[Child[p]]
                  ELSE 128 + status[Child[p]]
        BY <3>3
      <3> QED
        BY <2>2, <3>4
    <2>3. CASE \E code \in {0, 1} : Ends(p, code)
      BY <2>3
    <2> QED
      BY <2>1, <2>2, <2>3 DEF Exit
  <1>2. /\ program \in Daemons => p # "third"
        /\ program \in Daemons /\ p = "second" => pc["second"] > 4
    BY DEF Exit, At
  <1> QED
    BY <1>1, <1>2, EndsStep DEF Exit

-----------------------------------------------------------------------------
(***************************************************************************)
(* A call after which a process goes on.                                   *)
(***************************************************************************)
\* A call of p that is no fork and no exit: the others stay as they are.
AdvanceOf(p) ==
  /\ Same /\ Step(p) /\ state[p] = "on" /\ pc[p] < Length(p) /\ pc[p] # Forks(p)
  /\ fds' \in [Procs -> [Fds -> FileNames \cup {"tty", Closed}]]
  /\ opened' \in [Procs -> [FileNames -> Fds]]
  /\ session' \in [Procs -> {"login", "own"}]
  /\ signals' \in [Procs -> SUBSET Signs]
  /\ pidfile' \in {"none", "stale", "empty", "written"}
  /\ unchecked' \in BOOLEAN /\ (unchecked => unchecked')
  /\ \A q \in Procs : q # p => fds'[q] = fds[q] /\ opened'[q] = opened[q]
                               /\ signals'[q] = signals[q]
  /\ \A q \in Procs : session'[q] = session[q] \/ session'[q] = "own"
  /\ p # Worker => fds'[p] = fds[p]
  /\ p = "second" /\ pc[p] = 1 /\ Worker = "third" => session'[p] = "own"

LEMMA Constants ==
  ASSUME Same
  PROVE  /\ Worker' = Worker /\ \A p \in Procs : Length(p)' = Length(p)
         /\ \A p \in Procs : Forks(p)' = Forks(p)
  BY DEF Same, Worker, Length, Forks

LEMMA AdvancePc ==
  ASSUME ProcessesInv, NEW p \in Procs, Step(p)
  PROVE  /\ pc' \in [Procs -> Nat \ {0}] /\ pc'[p] = pc[p] + 1
         /\ \A q \in Procs : q # p => pc'[q] = pc[q]
         /\ state' = state /\ status' = status /\ pc[p] \in Nat \ {0}
  BY DEF ProcessesInv, ProcessTypes, Step

LEMMA AdvancePlaced ==
  ASSUME ProcessesInv, NEW p \in Procs, AdvanceOf(p)
  PROVE  Placed'
  <1>1. /\ pc' \in [Procs -> Nat \ {0}] /\ pc'[p] = pc[p] + 1
        /\ \A q \in Procs : q # p => pc'[q] = pc[q]
        /\ state' = state /\ pc[p] \in Nat \ {0}
    BY AdvancePc DEF AdvanceOf
  <1>2. /\ Worker' = Worker /\ \A q \in Procs : Length(q)' = Length(q)
        /\ \A q \in Procs : Forks(q)' = Forks(q)
    BY Constants DEF AdvanceOf
  <1>3. \A q \in Procs : Length(q) \in Nat /\ Forks(q) \in {0, 1, 2}
    BY DEF Length, Forks
  <1>4. state[p] = "on" /\ pc[p] < Length(p) /\ pc[p] # Forks(p)
    BY DEF AdvanceOf
  <1>5. ASSUME NEW q \in Procs
        PROVE  /\ state[q] \in {"on", "target"} => pc'[q] <= Length(q)
               /\ state[q] = "target" => q = Worker /\ pc'[q] = Length(q)
               /\ state[q] = "off" => pc'[q] = 1
    <2>1. CASE q = p
      BY <1>1, <1>3, <1>4, <2>1
    <2>2. CASE q # p
      BY <1>1, <2>2 DEF ProcessesInv, Placed
    <2> QED
      BY <2>1, <2>2
  <1>6. \A q \in {"first", "second"} : pc'[q] <= Forks(q) => pc[q] <= Forks(q)
    BY <1>1, <1>3 DEF Procs
  <1>7. /\ pc'["first"] <= Forks("first") => state["second"] = "off"
        /\ pc'["second"] <= Forks("second") => state["third"] = "off"
    BY <1>6 DEF ProcessesInv, Placed
  <1> QED
    BY <1>1, <1>2, <1>5, <1>7 DEF ProcessesInv, Placed, Procs

LEMMA AdvanceInherited ==
  ASSUME ProcessesInv, NEW p \in Procs, AdvanceOf(p)
  PROVE  Inherited'
  <1>1. /\ pc'[p] = pc[p] + 1 /\ state' = state /\ pc[p] \in Nat \ {0}
        /\ \A q \in Procs : q # p => pc'[q] = pc[q]
    BY AdvancePc DEF AdvanceOf
  <1>2. Worker' = Worker /\ start' = start
    BY Constants DEF AdvanceOf, Same
  <1>3. ASSUME NEW q \in Procs, q # Worker \/ pc'[q] = 1
        PROVE  fds'[q] = start.fds
    <2>1. CASE q = p
      <3>1. q # Worker
        BY <1>1, <1>3, <2>1
      <3> QED
        BY <2>1, <3>1 DEF AdvanceOf, ProcessesInv, Inherited
    <2>2. CASE q # p
      BY <1>1, <1>3, <2>2 DEF AdvanceOf, ProcessesInv, Inherited
    <2> QED
      BY <2>1, <2>2
  <1>4. pc'["second"] > 1 /\ Worker = "third" => session'["second"] = "own"
    <2>1. CASE p = "second"
      BY <1>1, <2>1 DEF AdvanceOf, ProcessesInv, Inherited, Procs
    <2>2. CASE p # "second"
      BY <1>1, <2>2 DEF AdvanceOf, ProcessesInv, Inherited, Procs
    <2> QED
      BY <2>1, <2>2
  <1>5. state["third"] # "off" => session'["third"] = "own"
    BY DEF AdvanceOf, ProcessesInv, Inherited, Procs
  <1> QED
    BY <1>1, <1>2, <1>3, <1>4, <1>5 DEF Inherited

LEMMA AdvanceTypes ==
  ASSUME ProcessesInv, NEW p \in Procs, AdvanceOf(p)
  PROVE  ProcessTypes'
  BY AdvancePc DEF AdvanceOf, ProcessesInv, ProcessTypes, Same

\* What is said of the descriptors of one process is kept by the others.
LEMMA AdvanceFds ==
  ASSUME ProcessesInv, NEW p \in Procs, AdvanceOf(p)
  PROVE  /\ p # "second" => LauncherInv'
         /\ p # "first" => Dup2Inv'
         /\ p # "third" => NohupInv' /\ DaemonInv'
  <1>1. /\ \A q \in Procs : q # p => pc'[q] = pc[q]
        /\ state' = state /\ program' = program /\ start' = start
    BY AdvancePc DEF AdvanceOf, Same
  <1>2. \A q \in Procs : q # p => fds'[q] = fds[q] /\ opened'[q] = opened[q]
                                  /\ signals'[q] = signals[q]
    BY DEF AdvanceOf
  <1>3. ASSUME p # "second" PROVE LauncherInv'
    BY <1>1, <1>2, <1>3
       DEF ProcessesInv, LauncherInv, FirstClosed, StartedWith, OutFd, ErrFd, Procs
  <1>4. ASSUME p # "first" PROVE Dup2Inv'
    BY <1>1, <1>2, <1>4
       DEF ProcessesInv, Dup2Inv, FirstClosed, StartedWith, Procs
  <1>5. ASSUME p # "third" PROVE NohupInv'
    BY <1>1, <1>2, <1>5 DEF ProcessesInv, NohupInv, FirstClosed, Procs
  <1>6. ASSUME p # "third" PROVE DaemonInv'
    <2>1. unchecked => unchecked'
      BY DEF AdvanceOf
    <2> QED
      BY <1>1, <1>2, <1>6, <2>1 DEF ProcessesInv, DaemonInv, FirstClosed, Procs
  <1> QED
    BY <1>3, <1>4, <1>5, <1>6

\* A call that leaves the descriptors alone.
LEMMA AdvanceElse ==
  ASSUME ProcessesInv, NEW p \in Procs, AdvanceOf(p), p # Worker, PidFileInv'
  PROVE  ProcessesInv'
  <1>1. /\ p # "second" => LauncherInv'
        /\ p # "first" => Dup2Inv'
        /\ p # "third" => NohupInv' /\ DaemonInv'
    BY AdvanceFds
  <1>2. program' = program
    BY DEF AdvanceOf, Same
  <1>3. LauncherInv' /\ Dup2Inv' /\ NohupInv' /\ DaemonInv'
    BY <1>1, <1>2 DEF LauncherInv, Dup2Inv, NohupInv, DaemonInv, Worker, Daemons
  <1> QED
    BY <1>3, AdvanceTypes, AdvancePlaced, AdvanceInherited DEF ProcessesInv

\* setsid of a second process.
LEMMA SetsidStep ==
  ASSUME ProcessesInv, Same, Detach("second"), Now("second").call = "setsid",
         Worker = "third", pc["second"] = 1, state["second"] = "on"
  PROVE  ProcessesInv'
  <1>1. /\ session' = [session EXCEPT !["second"] = "own"] /\ signals' = signals
        /\ Step("second") /\ UNCHANGED <<fds, opened, pidfile, unchecked>>
    BY DEF Detach, At
  <1>2. /\ session' \in [Procs -> {"login", "own"}]
        /\ session'["second"] = "own"
        /\ \A q \in Procs : q # "second" => session'[q] = session[q]
    BY <1>1 DEF ProcessesInv, ProcessTypes, Procs
  <1>3. 1 < Length("second") /\ 1 # Forks("second") /\ "second" \in Procs
    BY DEF Worker, Length, Forks, ProcessesInv, ProcessTypes, Programs, Daemons, Procs
  <1>4. AdvanceOf("second")
    <2>1. \A q \in Procs : session'[q] = session[q] \/ session'[q] = "own"
      BY <1>2
    <2> QED
      BY <1>1, <1>2, <1>3, <2>1 DEF AdvanceOf, ProcessesInv, ProcessTypes
  <1>5. PidFileInv'
    <2>1. /\ pc'["second"] = 2 /\ pc'["third"] = pc["third"]
          /\ state' = state /\ status' = status
      BY <1>1, <1>3, AdvancePc DEF Procs
    <2> QED
      BY <1>1, <2>1 DEF ProcessesInv, PidFileInv, Same, Alive
  <1> QED
    BY <1>3, <1>4, <1>5, AdvanceElse

-----------------------------------------------------------------------------
(***************************************************************************)
(* The forks and the pid file of a daemon.                                 *)
(***************************************************************************)
\* A fork: the child has what its parent has, which has opened nothing.
LEMMA ForkStep ==
  ASSUME ProcessesInv, Same, NEW p \in {"first", "second"}, Fork(p),
         state[p] = "on", pc[p] = Forks(p), p # Worker, pc[p] < Length(p)
  PROVE  ProcessesInv'
  <1>1. CASE Fails(p)
    BY <1>1, FailsStep DEF Procs
  <1>2. CASE /\ pc' = [pc EXCEPT ![p] = @ + 1]
             /\ state' = [state EXCEPT ![Child[p]] = "on"]
             /\ fds' = [fds EXCEPT ![Child[p]] = fds[p]]
             /\ session' = [session EXCEPT ![Child[p]] = session[p]]
             /\ UNCHANGED <<status, opened, signals, pidfile, unchecked>>
    <2>1. PICK c \in {"second", "third"} :
            /\ c = Child[p] /\ (p = "first" <=> c = "second")
      BY DEF Child
    <2>2. p \in Procs /\ c \in Procs /\ c # p
      BY <2>1 DEF Procs
    <2>3. state[c] = "off" /\ pc[c] = 1
      <3>1. pc[p] \in Nat
        BY <2>2 DEF ProcessesInv, ProcessTypes
      <3>2. p = "first" => pc["first"] <= Forks("first")
        BY <3>1
      <3>3. p = "second" => pc["second"] <= Forks("second")
        BY <3>1
      <3>4. p = "first" => state["second"] = "off"
        BY <3>2 DEF ProcessesInv, Placed
      <3>5. p = "second" => state["third"] = "off"
        BY <3>3 DEF ProcessesInv, Placed
      <3>6. state[c] = "off"
        BY <2>1, <3>4, <3>5
      <3> QED
        BY <2>2, <3>6 DEF ProcessesInv, Placed
    <2>4. /\ pc' \in [Procs -> Nat \ {0}] /\ pc'[p] = pc[p] + 1
          /\ \A q \in Procs : q # p => pc'[q] = pc[q]
          /\ pc[p] \in Nat \ {0}
      BY <1>2, <2>2 DEF ProcessesInv, ProcessTypes
    <2>5. /\ state' \in [Procs -> {"off", "on", "target", "exited", "killed"}]
          /\ state'[c] = "on" /\ \A q \in Procs : q # c => state'[q] = state[q]
      BY <1>2, <2>1, <2>2 DEF ProcessesInv, ProcessTypes
    <2>6. /\ fds' \in [Procs -> [Fds -> FileNames \cup {"tty", Closed}]]
          /\ fds'[c] = fds[p] /\ \A q \in Procs : q # c => fds'[q] = fds[q]
      BY <1>2, <2>1, <2>2 DEF ProcessesInv, ProcessTypes
    <2>7. /\ session' \in [Procs -> {"login", "own"}]
          /\ session'[c] = session[p]
          /\ \A q \in Procs : q # c => session'[q] = session[q]
      BY <1>2, <2>1, <2>2 DEF ProcessesInv, ProcessTypes
    <2>8. fds[p] = start.fds
      BY <2>2 DEF ProcessesInv, Inherited
    <2>9. /\ Worker' = Worker /\ \A q \in Procs : Length(q)' = Length(q)
          /\ \A q \in Procs : Forks(q)' = Forks(q)
      BY Constants
    <2>10. ProcessTypes'
      BY <1>2, <2>4, <2>5, <2>6, <2>7 DEF ProcessesInv, ProcessTypes, Same
    <2>11. Length(c) >= 1 /\ Length(p) \in Nat /\ Forks(p) \in Nat \ {0}
           /\ Forks(c) \in {0, 1, 2}
      <3>1. program # "dup2" /\ (p = "second" => program # "launcher")
        BY <2>4 DEF Forks, Daemons
      <3> QED
        BY <2>1, <2>4, <3>1 DEF Length, Forks
    <2>12. Placed'
      <3>1. ASSUME NEW q \in Procs
            PROVE  /\ state'[q] \in {"on", "target"} => pc'[q] <= Length(q)
                   /\ state'[q] = "target" => q = Worker /\ pc'[q] = Length(q)
                   /\ state'[q] = "off" => pc'[q] = 1
        <4>1. CASE q = p
          BY <2>2, <2>4, <2>5, <2>11, <4>1 DEF ProcessesInv, Placed
        <4>2. CASE q = c
          BY <2>2, <2>3, <2>4, <2>5, <2>11, <4>2
        <4>3. CASE q # p /\ q # c
          BY <2>4, <2>5, <4>3 DEF ProcessesInv, Placed
        <4> QED
          BY <4>1, <4>2, <4>3
      <3>2. ~ (pc'[p] <= Forks(p))
        BY <2>4, <2>11
      <3>3. p = "first" => state'["third"] = "off"
        <4>1. p = "first" => state["second"] = "off" /\ pc["second"] = 1
          BY <2>1, <2>3
        <4>2. p = "first" => state["third"] = "off"
          <5>1. Forks("second") = 0 \/ Forks("second") = 2
            BY DEF Forks
          <5> QED
            BY <4>1, <5>1 DEF ProcessesInv, Placed
        <4> QED
          BY <2>1, <2>5, <4>2 DEF Procs
      <3>4. p = "second" => state'["second"] = "on"
        BY <2>1, <2>5 DEF Procs
      <3>5. /\ pc'["first"] <= Forks("first") => state'["second"] = "off"
            /\ pc'["second"] <= Forks("second") => state'["third"] = "off"
            /\ Forks("first") = 0 => state'["second"] = "off"
            /\ Forks("second") = 0 => state'["third"] = "off"
        <4>1. CASE p = "first"
          BY <2>11, <3>2, <3>3, <4>1
        <4>2. CASE p = "second"
          <5>1. ~ (pc["first"] <= Forks("first")) /\ Forks("first") # 0
            BY <4>2 DEF ProcessesInv, Placed
          <5>2. pc'["first"] = pc["first"]
            BY <2>4, <4>2 DEF Procs
          <5> QED
            BY <2>11, <3>2, <4>2, <5>1, <5>2
        <4> QED
          BY <4>1, <4>2
      <3> QED
        BY <2>9, <3>1, <3>5 DEF Placed, Procs
    <2>13. Inherited'
      <3>1. \A q \in Procs : q # Worker \/ pc'[q] = 1 => fds'[q] = start.fds
        <4>1. ASSUME NEW q \in Procs, q # Worker \/ pc'[q] = 1
              PROVE  fds'[q] = start.fds
          <5>1. CASE q = c
            BY <2>6, <2>8, <5>1
          <5>2. CASE q # c
            BY <2>4, <2>6, <2>8, <4>1, <5>2 DEF ProcessesInv, Inherited
          <5> QED
            BY <5>1, <5>2
        <4> QED
          BY <4>1
      <3>2. pc'["second"] > 1 /\ Worker = "third" => session'["second"] = "own"
        <4>1. CASE p = "first"
          BY <2>1, <2>2, <2>3, <2>4, <4>1
        <4>2. CASE p = "second"
          <5>1. pc["second"] = 2
            BY <2>4, <4>2 DEF Forks
          <5> QED
            BY <2>1, <2>2, <2>7, <4>2, <5>1 DEF ProcessesInv, Inherited
        <4> QED
          BY <4>1, <4>2
      <3>3. state'["third"] # "off" => session'["third"] = "own"
        <4>1. CASE p = "first"
          BY <2>1, <2>5, <2>7, <4>1 DEF ProcessesInv, Inherited, Procs
        <4>2. CASE p = "second"
          <5>1. pc["second"] = 2 /\ Worker = "third"
            BY <2>4, <4>2 DEF Forks, Worker, Daemons
          <5> QED
            BY <2>1, <2>7, <4>2, <5>1 DEF ProcessesInv, Inherited
        <4> QED
          BY <4>1, <4>2
      <3> QED
        BY <2>9, <3>1, <3>2, <3>3 DEF Inherited, Same
    <2>14. LauncherInv'
      <3>1. CASE c = "second"
        BY <1>2, <2>2, <2>3, <2>4, <2>6, <2>8, <3>1
           DEF LauncherInv, Same, FirstClosed, OutFd, ErrFd
      <3>2. CASE c # "second" /\ p = "second"
        BY <2>4, <3>2 DEF Forks, LauncherInv, Same, Daemons
      <3> QED
        BY <2>1, <3>1, <3>2
    <2>15. Dup2Inv'
      <3>1. program # "dup2"
        BY <2>4 DEF Forks, Daemons
      <3> QED
        BY <3>1 DEF Dup2Inv, Same
    <2>16. NohupInv' /\ DaemonInv'
      <3>1. CASE c = "third"
        <4>1. pc'["third"] = 1
          BY <2>2, <2>3, <2>4, <3>1
        <4>2. \A n \in Fds : ~ (n < 1 - 3) /\ ~ (n < 1 - 2)
          BY ProcessesAssumption DEF Fds
        <4> QED
          BY <2>6, <2>8, <3>1, <4>1, <4>2 DEF NohupInv, DaemonInv, Same
      <3>2. CASE c # "third" /\ p # "third"
        <4>1. /\ pc'["third"] = pc["third"] /\ state'["third"] = state["third"]
              /\ fds'["third"] = fds["third"]
          BY <2>4, <2>5, <2>6, <3>2 DEF Procs
        <4> QED
          BY <1>2, <4>1 DEF ProcessesInv, NohupInv, DaemonInv, Same, FirstClosed
      <3> QED
        BY <2>1, <3>1, <3>2
    <2>17. PidFileInv'
      <3>1. p = "second" => pc'["second"] = 3
        BY <2>2, <2>4 DEF Forks
      <3>2. p = "first" => pc'["second"] = pc["second"] /\ pc["second"] = 1
        BY <2>1, <2>2, <2>3, <2>4
      <3>3. \A q \in Procs : state'[q] = "exited" => state[q] = "exited"
        BY <2>5
      <3>4. p = "second" => state["second"] # "exited"
        OBVIOUS
      <3>5. pc["second"] \in Nat
        BY DEF ProcessesInv, ProcessTypes, Procs
      <3>6. state'["second"] = "exited" => p = "first" /\ state["second"] = "exited"
        BY <2>1, <2>5, <3>3, <3>4 DEF Procs
      <3>7. pc'["second"] <= 3 /\ pc["second"] <= 3
        BY <2>2, <2>4, <3>1, <3>2, <3>5
      <3>8. state'["third"] = "exited" => state["third"] = "exited"
        BY <3>3 DEF Procs
      <3>9. pc'["second"] \in Nat
        BY <2>4 DEF Procs
      <3> QED
        BY <1>2, <3>6, <3>7, <3>8, <3>9, <3>5, <2>1, <2>3 DEF ProcessesInv, PidFileInv, Same
    <2> QED
      BY <2>10, <2>12, <2>13, <2>14, <2>15, <2>16, <2>17 DEF ProcessesInv
  <1> QED
    BY <1>1, <1>2 DEF Fork

\* The second process of a daemon writes the pid file.
LEMMA PidfileStep ==
  ASSUME ProcessesInv, Same, program \in Daemons, WritePidfile("second"),
         state["second"] = "on",
         \/ Now("second").call = "create_pidfile" /\ pc["second"] = 3
         \/ Now("second").call = "write_pidfile" /\ pc["second"] = 4
  PROVE  ProcessesInv'
  <1>0. "second" \in Procs /\ Worker = "third" /\ Length("second") = 5
        /\ Forks("second") = 2
    BY DEF Procs, Worker, Length, Forks, Daemons
  <1>1. CASE Fails("second")
    BY <1>0, <1>1, FailsStep
  <1>2. CASE /\ \/ At("second", "create_pidfile") /\ pidfile' = "empty"
                   /\ UNCHANGED unchecked
                \/ /\ At("second", "write_pidfile") /\ UNCHANGED unchecked
                   /\ pidfile' = IF pidfile = "none" THEN "none" ELSE "written"
                \/ At("second", "write_pidfile") /\ UNCHANGED pidfile
                   /\ unchecked' = TRUE
             /\ Step("second")
             /\ UNCHANGED <<fds, opened, session, signals>>
    <2>1. AdvanceOf("second")
      <3>4. unchecked' = unchecked \/ unchecked' = TRUE
        BY <1>2
      <3>5. unchecked \in BOOLEAN
        BY DEF ProcessesInv, ProcessTypes
      <3>1. unchecked' \in BOOLEAN /\ (unchecked => unchecked')
        <4>1. CASE unchecked' = unchecked
          BY <3>5, <4>1, Zenon
        <4>2. CASE unchecked' = TRUE
          BY <4>2, Zenon
        <4> QED
          BY <3>4, <4>1, <4>2
      <3>2. pidfile' \in {"none", "stale", "empty", "written"}
        BY <1>2 DEF ProcessesInv, ProcessTypes
      <3>3. pc["second"] < 5 /\ pc["second"] # 2 /\ pc["second"] # 1
        OBVIOUS
      <3> QED
        BY <1>0, <1>2, <3>1, <3>2, <3>3
           DEF AdvanceOf, ProcessesInv, ProcessTypes
    <2>2. /\ pc'["second"] = pc["second"] + 1
          /\ state' = state /\ status' = status
      BY <1>0, <1>2, AdvancePc
    <2>3. PidFileInv'
      <3>1. CASE pc["second"] = 3
        <4>1. pidfile' = "empty" /\ pc'["second"] = 4 /\ unchecked' = unchecked
          BY <1>2, <2>2, <3>1 DEF At
        <4> QED
          BY <1>2, <2>2, <3>1, <4>1
             DEF ProcessesInv, PidFileInv, Same, Alive
      <3>2. CASE pc["second"] = 4
        <4>1. /\ pc'["second"] = 5
              /\ \/ pidfile' = pidfile /\ unchecked'
                 \/ pidfile' = "none" /\ pidfile = "none"
                 \/ pidfile' = "written" /\ pidfile # "none"
          BY <1>2, <2>2, <3>2 DEF At
        <4>2. Alive("third")' <=> Alive("third")
          BY <2>2 DEF Alive
        <4> QED
          BY <1>2, <2>2, <3>2, <4>1, <4>2
             DEF ProcessesInv, PidFileInv, Same
      <3> QED
        BY <3>1, <3>2
    <2> QED
      BY <1>0, <2>1, <2>3, AdvanceElse
  <1> QED
    BY <1>1, <1>2 DEF WritePidfile

-----------------------------------------------------------------------------
(***************************************************************************)
(* The calls of the process that runs what was to be started.              *)
(***************************************************************************)
Files == FileNames \cup {"tty", Closed}

LEMMA TypesAre ==
  ASSUME ProcessesInv, NEW p \in Procs
  PROVE  /\ fds \in [Procs -> [Fds -> Files]] /\ fds[p] \in [Fds -> Files]
         /\ opened \in [Procs -> [FileNames -> Fds]]
         /\ opened[p] \in [FileNames -> Fds]
         /\ session \in [Procs -> {"login", "own"}]
         /\ signals \in [Procs -> SUBSET Signs]
         /\ pidfile \in {"none", "stale", "empty", "written"}
         /\ unchecked \in BOOLEAN
         /\ pc[p] \in Nat \ {0}
  BY DEF ProcessesInv, ProcessTypes, Files

LEMMA NoFork ==
  ASSUME ProcessesInv
  PROVE  Worker \in Procs /\ Forks(Worker) = 0
  BY DEF Worker, Forks, Procs, Daemons, ProcessesInv, ProcessTypes, Programs

\* A call of the worker that puts a file at a descriptor.
LEMMA SetFdStep ==
  ASSUME ProcessesInv, Same, NEW p \in Procs, p = Worker, state[p] = "on",
         pc[p] < Length(p), NEW n \in Fds, NEW file \in Files, SetFd(p, n, file)
  PROVE  /\ AdvanceOf(p) /\ UNCHANGED <<opened, signals, pidfile, unchecked>>
         /\ fds'[p][n] = file
         /\ \A m \in Fds : m # n => fds'[p][m] = fds[p][m]
  <1>1. /\ Step(p) /\ fds' = [fds EXCEPT ![p][n] = file]
        /\ UNCHANGED <<opened, session, signals, pidfile, unchecked>>
    BY DEF SetFd
  <1>2. /\ fds \in [Procs -> [Fds -> Files]] /\ fds[p] \in [Fds -> Files]
        /\ opened \in [Procs -> [FileNames -> Fds]]
        /\ session \in [Procs -> {"login", "own"}]
        /\ signals \in [Procs -> SUBSET Signs]
        /\ pidfile \in {"none", "stale", "empty", "written"}
        /\ unchecked \in BOOLEAN /\ pc[p] \in Nat \ {0}
    BY TypesAre
  <1>3. /\ fds' \in [Procs -> [Fds -> Files]]
        /\ \A q \in Procs : q # p => fds'[q] = fds[q]
        /\ fds'[p][n] = file /\ \A m \in Fds : m # n => fds'[p][m] = fds[p][m]
    BY <1>1, <1>2
  <1>4. pc[p] # Forks(p)
    BY <1>2, NoFork
  <1>5. p = "second" => Worker # "third"
    OBVIOUS
  <1>6. unchecked' \in BOOLEAN /\ (unchecked => unchecked')
    BY <1>1, <1>2
  <1> QED
    BY <1>1, <1>2, <1>3, <1>4, <1>5, <1>6 DEF AdvanceOf, Files

\* An open that does not fail.
LEMMA OpenStep ==
  ASSUME ProcessesInv, Same, NEW p \in Procs, p = Worker, state[p] = "on",
         pc[p] < Length(p), NEW file \in FileNames, Now(p).file = file,
         NEW n \in 0 .. 4, fds[p][n] = Closed, OpenFile(p), ~ Fails(p)
  PROVE  /\ AdvanceOf(p) /\ UNCHANGED <<signals, pidfile, unchecked>>
         /\ opened'[p][file] \in Fds /\ fds[p][opened'[p][file]] = Closed
         /\ \A m \in 0 .. opened'[p][file] - 1 : fds[p][m] # Closed
         /\ fds'[p][opened'[p][file]] = file
         /\ \A m \in Fds : m # opened'[p][file] => fds'[p][m] = fds[p][m]
         /\ \A f \in FileNames : f # file => opened'[p][f] = opened[p][f]
  <1>0. PICK l : l = Lowest(p)
    OBVIOUS
  <1>1. /\ Step(p) /\ fds' = [fds EXCEPT ![p][l] = file]
        /\ opened' = [opened EXCEPT ![p][file] = l]
        /\ UNCHANGED <<session, signals, pidfile, unchecked>>
    BY <1>0 DEF OpenFile
  <1>2. /\ fds \in [Procs -> [Fds -> Files]] /\ fds[p] \in [Fds -> Files]
        /\ opened \in [Procs -> [FileNames -> Fds]]
        /\ opened[p] \in [FileNames -> Fds]
        /\ session \in [Procs -> {"login", "own"}]
        /\ signals \in [Procs -> SUBSET Signs]
        /\ pidfile \in {"none", "stale", "empty", "written"}
        /\ unchecked \in BOOLEAN /\ pc[p] \in Nat \ {0}
    BY TypesAre
  <1>3. /\ l \in 0 .. 4 /\ fds[p][l] = Closed
        /\ \A m \in 0 .. l - 1 : fds[p][m] # Closed
    BY <1>0, LowestIs
  <1>4. l \in Fds /\ file \in Files
    BY <1>3, ProcessesAssumption DEF Fds, Files
  <1>5. /\ fds' \in [Procs -> [Fds -> Files]]
        /\ \A q \in Procs : q # p => fds'[q] = fds[q]
        /\ fds'[p][l] = file /\ \A m \in Fds : m # l => fds'[p][m] = fds[p][m]
    BY <1>1, <1>2, <1>4
  <1>6. /\ opened' \in [Procs -> [FileNames -> Fds]]
        /\ \A q \in Procs : q # p => opened'[q] = opened[q]
        /\ opened'[p][file] = l
        /\ \A f \in FileNames : f # file => opened'[p][f] = opened[p][f]
    BY <1>1, <1>2, <1>4
  <1>7. pc[p] # Forks(p)
    BY <1>2, NoFork
  <1>8. p = "second" => Worker # "third"
    OBVIOUS
  <1>9. unchecked' \in BOOLEAN /\ (unchecked => unchecked')
    BY <1>1, <1>2
  <1>10. AdvanceOf(p)
    BY <1>1, <1>2, <1>5, <1>6, <1>7, <1>8, <1>9 DEF AdvanceOf, Files
  <1> QED
    BY <1>1, <1>3, <1>4, <1>5, <1>6, <1>10

\* What remains to be shown of a call of the worker.
LEMMA WorkerStep ==
  ASSUME ProcessesInv, NEW p \in Procs, AdvanceOf(p), p = Worker,
         LauncherInv', Dup2Inv', NohupInv', DaemonInv', pidfile' = pidfile
  PROVE  ProcessesInv'
  <1>1. PidFileInv'
    <2>1. CASE program \in Daemons
      <3>1. p = "third"
        BY <2>1 DEF Worker, Daemons
      <3>2. /\ \A q \in Procs : q # p => pc'[q] = pc[q]
            /\ state' = state /\ status' = status
        BY AdvancePc DEF AdvanceOf
      <3>3. pc'["second"] = pc["second"] /\ state'["third"] = "on"
        BY <3>1, <3>2 DEF Procs, AdvanceOf
      <3>4. unchecked => unchecked'
        BY DEF AdvanceOf
      <3>5. Alive("third")' <=> Alive("third")
        BY <3>2 DEF Alive
      <3>6. start' = start /\ program' = program
        BY DEF AdvanceOf, Same
      <3> QED
        BY <3>2, <3>3, <3>4, <3>5, <3>6 DEF ProcessesInv, PidFileInv
    <2>2. CASE program \notin Daemons
      BY <2>2 DEF PidFileInv, AdvanceOf, Same
    <2> QED
      BY <2>1, <2>2
  <1> QED
    BY <1>1, AdvanceTypes, AdvancePlaced, AdvanceInherited DEF ProcessesInv

-----------------------------------------------------------------------------
(***************************************************************************)
(* launcher                                                                *)
(***************************************************************************)
\* The other programs have nothing to say of a launcher, and so on.
LEMMA OneProgram ==
  ASSUME Same
  PROVE  /\ program # "launcher" => LauncherInv'
         /\ program # "dup2" => Dup2Inv'
         /\ program # "nohup2" => NohupInv'
         /\ program \notin Daemons => DaemonInv'
  BY DEF Same, LauncherInv, Dup2Inv, NohupInv, DaemonInv

LEMMA CallIs ==
  ASSUME NEW c
  PROVE  Call(c).call = c
  BY DEF Call

\* Of launcher: out.txt, then err.txt.
LEMMA LauncherOpens ==
  ASSUME ProcessesInv, Same, program = "launcher", OpenFile("second"),
         ~ Fails("second"), state["second"] = "on",
         \/ pc["second"] = 1 /\ Now("second") = Open("out.txt")
         \/ pc["second"] = 2 /\ Now("second") = Open("err.txt")
  PROVE  AdvanceOf("second") /\ LauncherInv' /\ pidfile' = pidfile
  <1>0. /\ "second" \in Procs /\ Worker = "second" /\ Length("second") = 7
        /\ "out.txt" \in FileNames /\ "err.txt" \in FileNames
        /\ Now("second").file = IF pc["second"] = 1 THEN "out.txt" ELSE "err.txt"
    BY DEF Procs, Worker, Length, FileNames, Open
  <1>1. PICK f \in FileNames :
          f = IF pc["second"] = 1 THEN "out.txt" ELSE "err.txt"
    BY <1>0
  <1>2. /\ 3 \in Fds /\ 4 \in Fds /\ start.fds[3] = Closed /\ start.fds[4] = Closed
    BY StartFds, ProcessesAssumption DEF Fds, ProcessesInv
  <1>3. pc["second"] = 1 => fds["second"] = start.fds
    BY <1>0 DEF ProcessesInv, Inherited
  <1>4. pc["second"] = 2 =>
          /\ FirstClosed(OutFd)
          /\ \A n \in Fds : fds["second"][n] = IF n = OutFd THEN "out.txt"
                                               ELSE start.fds[n]
    BY DEF ProcessesInv, LauncherInv
  <1>5. PICK n \in 0 .. 4 : fds["second"][n] = Closed
    BY <1>2, <1>3, <1>4
  <1>6. PICK l : l = opened'["second"][f]
    OBVIOUS
  <1>7. /\ AdvanceOf("second") /\ UNCHANGED <<signals, pidfile, unchecked>>
        /\ l \in Fds /\ fds["second"][l] = Closed
        /\ \A m \in 0 .. l - 1 : fds["second"][m] # Closed
        /\ fds'["second"][l] = f
        /\ \A m \in Fds : m # l => fds'["second"][m] = fds["second"][m]
        /\ \A g \in FileNames : g # f => opened'["second"][g] = opened["second"][g]
    BY <1>0, <1>1, <1>5, <1>6, OpenStep
  <1>8. pc'["second"] = pc["second"] + 1 /\ start' = start
    BY <1>0, <1>7, AdvancePc DEF AdvanceOf, Same
  <1>9. CASE pc["second"] = 1
    <2>1. FirstClosed(l) /\ OutFd' = l /\ f = "out.txt"
      BY <1>1, <1>3, <1>6, <1>7, <1>9 DEF FirstClosed, OutFd
    <2>2. FirstClosed(OutFd)'
      BY <1>8, <2>1 DEF FirstClosed
    <2>3. \A m \in Fds : fds'["second"][m] = IF m = OutFd' THEN "out.txt"
                                             ELSE start.fds[m]
      BY <1>3, <1>7, <1>9, <2>1
    <2> QED
      BY <1>7, <1>8, <1>9, <2>2, <2>3 DEF LauncherInv
  <1>10. CASE pc["second"] = 2
    <2>1. OutFd' = OutFd /\ ErrFd' = l /\ f = "err.txt"
      BY <1>0, <1>1, <1>6, <1>7, <1>10 DEF OutFd, ErrFd
    <2>2. l # OutFd /\ start.fds[l] = Closed
      BY <1>4, <1>7, <1>10 DEF Closed
    <2>3. FirstClosed(OutFd)'
      BY <1>4, <1>8, <1>10, <2>1 DEF FirstClosed
    <2>4. \A m \in Fds : fds'["second"][m] = IF m = OutFd' THEN "out.txt"
                                             ELSE IF m = ErrFd' THEN "err.txt"
                                             ELSE start.fds[m]
      BY <1>4, <1>7, <1>10, <2>1, <2>2
    <2> QED
      BY <1>7, <1>8, <1>10, <2>1, <2>2, <2>3, <2>4 DEF LauncherInv
  <1> QED
    BY <1>7, <1>9, <1>10

\* Standard output and standard error are replaced, the rest is closed.
LEMMA LauncherMoves ==
  ASSUME ProcessesInv, Same, program = "launcher", state["second"] = "on",
         Duplicate("second") \/ CloseOpened("second"),
         \/ pc["second"] = 3 /\ Now("second") = Dup2("out.txt", 1)
         \/ pc["second"] = 4 /\ Now("second") = Dup2("err.txt", 2)
         \/ pc["second"] = 5 /\ Now("second") = Close("out.txt")
         \/ pc["second"] = 6 /\ Now("second") = Close("err.txt")
  PROVE  AdvanceOf("second") /\ LauncherInv' /\ pidfile' = pidfile
  <1>0. /\ "second" \in Procs /\ Worker = "second" /\ Length("second") = 7
        /\ "out.txt" \in FileNames /\ "err.txt" \in FileNames
        /\ 1 \in Fds /\ 2 \in Fds /\ pc["second"] < 7
    BY ProcessesAssumption DEF Procs, Worker, Length, FileNames, Fds
  <1>1. OutFd \in Fds /\ ErrFd \in Fds /\ fds["second"] \in [Fds -> Files]
    BY <1>0, TypesAre DEF OutFd, ErrFd
  <1>2. PICK n \in Fds, file \in Files :
          /\ SetFd("second", n, file)
          /\ pc["second"] = 3 => n = 1 /\ file = fds["second"][OutFd]
          /\ pc["second"] = 4 => n = 2 /\ file = fds["second"][ErrFd]
          /\ pc["second"] = 5 => n = OutFd /\ file = Closed
          /\ pc["second"] = 6 => n = ErrFd /\ file = Closed
    <2>1. CASE pc["second"] = 3 /\ Now("second") = Dup2("out.txt", 1)
      <3>1. SetFd("second", 1, fds["second"][OutFd])
        BY <2>1 DEF Duplicate, CloseOpened, At, Dup2, OutFd
      <3>2. fds["second"][OutFd] \in Files
        BY <1>1
      <3> QED
        BY <1>0, <2>1, <3>1, <3>2
    <2>2. CASE pc["second"] = 4 /\ Now("second") = Dup2("err.txt", 2)
      <3>1. SetFd("second", 2, fds["second"][ErrFd])
        BY <2>2 DEF Duplicate, CloseOpened, At, Dup2, ErrFd
      <3>2. fds["second"][ErrFd] \in Files
        BY <1>1
      <3> QED
        BY <1>0, <2>2, <3>1, <3>2
    <2>3. CASE pc["second"] = 5 /\ Now("second") = Close("out.txt")
      <3>1. SetFd("second", OutFd, Closed)
        BY <2>3 DEF Duplicate, CloseOpened, At, Close, OutFd
      <3>2. Closed \in Files
        BY DEF Files
      <3> QED
        BY <1>1, <2>3, <3>1, <3>2
    <2>4. CASE pc["second"] = 6 /\ Now("second") = Close("err.txt")
      <3>1. SetFd("second", ErrFd, Closed)
        BY <2>4 DEF Duplicate, CloseOpened, At, Close, ErrFd
      <3>2. Closed \in Files
        BY DEF Files
      <3> QED
        BY <1>1, <2>4, <3>1, <3>2
    <2> QED
      BY <2>1, <2>2, <2>3, <2>4
  <1>3. /\ AdvanceOf("second") /\ UNCHANGED <<opened, signals, pidfile, unchecked>>
        /\ fds'["second"][n] = file
        /\ \A m \in Fds : m # n => fds'["second"][m] = fds["second"][m]
    BY <1>0, <1>2, SetFdStep
  <1>4. pc'["second"] = pc["second"] + 1 /\ start' = start /\ program' = program
    BY <1>0, <1>3, AdvancePc DEF AdvanceOf, Same
  <1>5. OutFd' = OutFd /\ ErrFd' = ErrFd
    BY <1>3 DEF OutFd, ErrFd
  <1>6. /\ FirstClosed(OutFd) /\ start.fds[OutFd] = Closed
        /\ start.fds[ErrFd] = Closed /\ ErrFd # OutFd
    BY DEF ProcessesInv, LauncherInv, FirstClosed
  <1>7. FirstClosed(OutFd)'
    BY <1>4, <1>5, <1>6 DEF FirstClosed
  <1>8. ASSUME StartedWith({1, 2}), NEW m \in Fds
        PROVE  fds'["second"][m] =
                 IF m = 1 THEN "out.txt"
                 ELSE IF m = 2 /\ pc["second"] > 3 THEN "err.txt"
                 ELSE IF pc["second"] < 5 /\ m = OutFd THEN "out.txt"
                 ELSE IF pc["second"] < 6 /\ m = ErrFd THEN "err.txt"
                 ELSE start.fds[m]
    <2>1. /\ OutFd # 1 /\ OutFd # 2 /\ ErrFd # 1 /\ ErrFd # 2
      BY <1>6, <1>8 DEF StartedWith
    <2>2. \A k \in Fds : fds["second"][k] =
             IF k = 1 /\ pc["second"] > 3 THEN "out.txt"
             ELSE IF k = 2 /\ pc["second"] > 4 THEN "err.txt"
             ELSE IF pc["second"] < 6 /\ k = OutFd THEN "out.txt"
             ELSE IF k = ErrFd THEN "err.txt"
             ELSE start.fds[k]
      BY <1>0, <1>8 DEF ProcessesInv, LauncherInv
    <2>3. CASE pc["second"] = 3
      BY <1>0, <1>1, <1>2, <1>3, <1>6, <2>1, <2>2, <2>3
    <2>4. CASE pc["second"] = 4
      BY <1>0, <1>1, <1>2, <1>3, <1>6, <2>1, <2>2, <2>4
    <2>5. CASE pc["second"] = 5
      BY <1>0, <1>1, <1>2, <1>3, <1>6, <2>1, <2>2, <2>5
    <2>6. CASE pc["second"] = 6
      BY <1>0, <1>1, <1>2, <1>3, <1>6, <2>1, <2>2, <2>6
    <2> QED
      BY <2>3, <2>4, <2>5, <2>6
  <1>9. StartedWith({1, 2})' <=> StartedWith({1, 2})
    BY <1>4 DEF StartedWith
  <1>10. LauncherInv'
    BY <1>4, <1>5, <1>6, <1>7, <1>8, <1>9 DEF LauncherInv
  <1> QED
    BY <1>3, <1>10

LEMMA LauncherStep ==
  ASSUME ProcessesInv, Same, program = "launcher", NEW p \in Procs, Calls(p),
         state[p] = "on"
  PROVE  ProcessesInv'
  <1>0. /\ Worker = "second" /\ Length("second") = 7 /\ Forks("first") = 1
        /\ Length("first") = 2 /\ program \notin Daemons
        /\ ProcessTypes /\ Placed
    BY DEF Worker, Length, Forks, Daemons, ProcessesInv
  <1>1. Dup2Inv' /\ NohupInv' /\ DaemonInv'
    BY <1>0, OneProgram
  <1>2. CASE p = "first"
    <2>1. CASE pc["first"] = 1 /\ Now("first") = Call("fork")
      <3>0. Now(p).call = "fork"
        BY <1>2, <2>1, CallIs
      <3>1. Fork("first")
        BY <1>2, <3>0, CallDoes
      <3> QED
        BY <1>0, <1>2, <2>1, <3>1, ForkStep
    <2>2. CASE pc["first"] = 2 /\ Now("first") = Call("wait")
      <3>0. Now(p).call = "wait"
        BY <1>2, <2>2, CallIs
      <3>1. Exit("first")
        BY <1>2, <3>0, CallDoes
      <3> QED
        BY <1>0, <1>2, <3>1, ExitStep
    <2> QED
      BY <1>0, <1>2, <2>1, <2>2, LauncherScript
  <1>3. CASE p = "second"
    <2>1. CASE \/ pc["second"] = 1 /\ Now("second") = Open("out.txt")
               \/ pc["second"] = 2 /\ Now("second") = Open("err.txt")
      <3>1. OpenFile("second")
        BY <1>3, <2>1, CallDoes DEF Open
      <3>2. CASE Fails("second")
        BY <1>3, <3>2, FailsStep
      <3>3. CASE ~ Fails("second")
        <4>1. AdvanceOf("second") /\ LauncherInv' /\ pidfile' = pidfile
          BY <1>3, <2>1, <3>1, <3>3, LauncherOpens
        <4> QED
          BY <1>0, <1>1, <1>3, <4>1, WorkerStep
      <3> QED
        BY <3>2, <3>3
    <2>2. CASE \/ pc["second"] = 3 /\ Now("second") = Dup2("out.txt", 1)
               \/ pc["second"] = 4 /\ Now("second") = Dup2("err.txt", 2)
               \/ pc["second"] = 5 /\ Now("second") = Close("out.txt")
               \/ pc["second"] = 6 /\ Now("second") = Close("err.txt")
      <3>1. Duplicate("second") \/ CloseOpened("second")
        BY <1>3, <2>2, CallDoes DEF Dup2, Close
      <3>2. AdvanceOf("second") /\ LauncherInv' /\ pidfile' = pidfile
        BY <1>3, <2>2, <3>1, LauncherMoves
      <3> QED
        BY <1>0, <1>1, <1>3, <3>2, WorkerStep
    <2>3. CASE pc["second"] = 7 /\ Now("second") = Call("exec")
      <3>0. Now(p).call = "exec"
        BY <1>3, <2>3, CallIs
      <3>1. Run("second")
        BY <1>3, <3>0, CallDoes
      <3> QED
        BY <1>0, <1>3, <2>3, <3>1, RunStep
    <2> QED
      BY <1>0, <1>3, <2>1, <2>2, <2>3, LauncherScript
  <1>4. p # "third"
    BY <1>0, LauncherScript
  <1> QED
    BY <1>2, <1>3, <1>4 DEF Procs

-----------------------------------------------------------------------------
(***************************************************************************)
(* dup2                                                                    *)
(***************************************************************************)
LEMMA Dup2Opens ==
  ASSUME ProcessesInv, Same, program = "dup2", OpenFile("first"),
         ~ Fails("first"), state["first"] = "on", pc["first"] = 1,
         Now("first") = Open("foo")
  PROVE  AdvanceOf("first") /\ Dup2Inv' /\ pidfile' = pidfile
  <1>0. /\ "first" \in Procs /\ Worker = "first" /\ Length("first") = 4
        /\ "foo" \in FileNames /\ Now("first").file = "foo"
    BY DEF Procs, Worker, Length, FileNames, Open
  <1>1. fds["first"] = start.fds
    BY <1>0 DEF ProcessesInv, Inherited
  <1>2. PICK n \in 0 .. 4 : fds["first"][n] = Closed
    BY <1>1, StartFds, ProcessesAssumption DEF Fds, ProcessesInv
  <1>3. PICK l : l = opened'["first"]["foo"]
    OBVIOUS
  <1>4. /\ AdvanceOf("first") /\ UNCHANGED <<signals, pidfile, unchecked>>
        /\ l \in Fds /\ fds["first"][l] = Closed
        /\ \A m \in 0 .. l - 1 : fds["first"][m] # Closed
        /\ fds'["first"][l] = "foo"
        /\ \A m \in Fds : m # l => fds'["first"][m] = fds["first"][m]
    BY <1>0, <1>2, <1>3, OpenStep
  <1>5. pc'["first"] = 2 /\ start' = start
    BY <1>0, <1>4, AdvancePc DEF AdvanceOf, Same
  <1>6. FirstClosed(l)'
    BY <1>1, <1>4, <1>5 DEF FirstClosed
  <1>7. \A m \in Fds : fds'["first"][m] = IF m = l THEN "foo" ELSE start.fds[m]
    BY <1>1, <1>4
  <1> QED
    BY <1>3, <1>4, <1>5, <1>6, <1>7 DEF Dup2Inv

LEMMA Dup2Moves ==
  ASSUME ProcessesInv, Same, program = "dup2", state["first"] = "on",
         Duplicate("first") \/ CloseOpened("first"),
         \/ pc["first"] = 2 /\ Now("first") = Dup2("foo", 1)
         \/ pc["first"] = 3 /\ Now("first") = Close("foo")
  PROVE  AdvanceOf("first") /\ Dup2Inv' /\ pidfile' = pidfile
  <1>0. /\ "first" \in Procs /\ Worker = "first" /\ Length("first") = 4
        /\ "foo" \in FileNames /\ 1 \in Fds /\ pc["first"] < 4
    BY ProcessesAssumption DEF Procs, Worker, Length, FileNames, Fds
  <1>1. PICK f : f = opened["first"]["foo"]
    OBVIOUS
  <1>2. f \in Fds /\ fds["first"] \in [Fds -> Files]
    BY <1>0, <1>1, TypesAre
  <1>3. PICK n \in Fds, file \in Files :
          /\ SetFd("first", n, file)
          /\ pc["first"] = 2 => n = 1 /\ file = fds["first"][f]
          /\ pc["first"] = 3 => n = f /\ file = Closed
    <2>1. CASE pc["first"] = 2 /\ Now("first") = Dup2("foo", 1)
      <3>1. SetFd("first", 1, fds["first"][f])
        BY <1>1, <2>1 DEF Duplicate, CloseOpened, At, Dup2
      <3>2. fds["first"][f] \in Files
        BY <1>2
      <3> QED
        BY <1>0, <2>1, <3>1, <3>2
    <2>2. CASE pc["first"] = 3 /\ Now("first") = Close("foo")
      <3>1. SetFd("first", f, Closed)
        BY <1>1, <2>2 DEF Duplicate, CloseOpened, At, Close
      <3>2. Closed \in Files
        BY DEF Files
      <3> QED
        BY <1>2, <2>2, <3>1, <3>2
    <2> QED
      BY <2>1, <2>2
  <1>4. /\ AdvanceOf("first") /\ UNCHANGED <<opened, signals, pidfile, unchecked>>
        /\ fds'["first"][n] = file
        /\ \A m \in Fds : m # n => fds'["first"][m] = fds["first"][m]
    BY <1>0, <1>3, SetFdStep
  <1>5. pc'["first"] = pc["first"] + 1 /\ start' = start /\ program' = program
    BY <1>0, <1>4, AdvancePc DEF AdvanceOf, Same
  <1>6. opened'["first"]["foo"] = f
    BY <1>1, <1>4
  <1>7. FirstClosed(f) /\ start.fds[f] = Closed
    BY <1>1 DEF ProcessesInv, Dup2Inv, FirstClosed
  <1>8. FirstClosed(f)'
    BY <1>5, <1>7 DEF FirstClosed
  <1>9. ASSUME StartedWith({1}), NEW m \in Fds
        PROVE  fds'["first"][m] =
                 IF m = 1 \/ (m = f /\ pc["first"] = 2) THEN "foo"
                 ELSE start.fds[m]
    <2>1. f # 1
      BY <1>7, <1>9 DEF StartedWith
    <2>2. \A k \in Fds : fds["first"][k] =
             IF (k = 1 /\ pc["first"] > 2) \/ k = f THEN "foo"
             ELSE start.fds[k]
      BY <1>0, <1>1, <1>9 DEF ProcessesInv, Dup2Inv
    <2>3. CASE pc["first"] = 2
      BY <1>0, <1>2, <1>3, <1>4, <1>7, <2>1, <2>2, <2>3
    <2>4. CASE pc["first"] = 3
      BY <1>0, <1>2, <1>3, <1>4, <1>7, <2>1, <2>2, <2>4
    <2> QED
      BY <2>3, <2>4
  <1>10. StartedWith({1})' <=> StartedWith({1})
    BY <1>5 DEF StartedWith
  <1>11. Dup2Inv'
    BY <1>5, <1>6, <1>8, <1>9, <1>10 DEF Dup2Inv
  <1> QED
    BY <1>4, <1>11

LEMMA Dup2Step ==
  ASSUME ProcessesInv, Same, program = "dup2", NEW p \in Procs, Calls(p),
         state[p] = "on"
  PROVE  ProcessesInv'
  <1>0. /\ Worker = "first" /\ Length("first") = 4 /\ program \notin Daemons
        /\ ProcessTypes /\ Placed
    BY DEF Worker, Length, Daemons, ProcessesInv
  <1>1. LauncherInv' /\ NohupInv' /\ DaemonInv'
    BY <1>0, OneProgram
  <1>2. p = "first"
    BY <1>0, Dup2Script DEF Procs
  <1>3. CASE pc["first"] = 1 /\ Now("first") = Open("foo")
    <2>1. OpenFile("first")
      BY <1>2, <1>3, CallDoes DEF Open
    <2>2. CASE Fails("first")
      BY <1>2, <2>2, FailsStep
    <2>3. CASE ~ Fails("first")
      <3>1. AdvanceOf("first") /\ Dup2Inv' /\ pidfile' = pidfile
        BY <1>2, <1>3, <2>1, <2>3, Dup2Opens
      <3> QED
        BY <1>0, <1>1, <1>2, <3>1, WorkerStep
    <2> QED
      BY <2>2, <2>3
  <1>4. CASE \/ pc["first"] = 2 /\ Now("first") = Dup2("foo", 1)
             \/ pc["first"] = 3 /\ Now("first") = Close("foo")
    <2>1. Duplicate("first") \/ CloseOpened("first")
      BY <1>2, <1>4, CallDoes DEF Dup2, Close
    <2>2. AdvanceOf("first") /\ Dup2Inv' /\ pidfile' = pidfile
      BY <1>2, <1>4, <2>1, Dup2Moves
    <2> QED
      BY <1>0, <1>1, <1>2, <2>2, WorkerStep
  <1>5. CASE pc["first"] = 4 /\ Now("first") = Call("work")
    <2>1. Now(p).call = "work"
      BY <1>2, <1>5, CallIs
    <2>2. Run("first")
      BY <1>2, <2>1, CallDoes
    <2> QED
      BY <1>0, <1>2, <1>5, <2>2, RunStep
  <1> QED
    BY <1>0, <1>2, <1>3, <1>4, <1>5, Dup2Script

-----------------------------------------------------------------------------
(***************************************************************************)
(* nohup2                                                                  *)
(***************************************************************************)
\* The third process ignores or handles one more signal.
LEMMA SignalStep ==
  ASSUME ProcessesInv, Same, Worker = "third", state["third"] = "on",
         pc["third"] < Length("third"), NEW sig \in Signs, Step("third"),
         signals' = [signals EXCEPT !["third"] = @ \cup {sig}],
         UNCHANGED <<session, fds, opened, pidfile, unchecked>>
  PROVE  /\ AdvanceOf("third")
         /\ signals'["third"] = signals["third"] \cup {sig}
  <1>0. "third" \in Procs /\ "second" # "third"
    BY DEF Procs
  <1>1. /\ fds \in [Procs -> [Fds -> Files]]
        /\ opened \in [Procs -> [FileNames -> Fds]]
        /\ session \in [Procs -> {"login", "own"}]
        /\ signals \in [Procs -> SUBSET Signs]
        /\ pidfile \in {"none", "stale", "empty", "written"}
        /\ unchecked \in BOOLEAN /\ pc["third"] \in Nat \ {0}
    BY <1>0, TypesAre
  <1>2. pc["third"] # Forks("third")
    BY <1>1, NoFork
  <1>3. /\ signals' \in [Procs -> SUBSET Signs]
        /\ signals'["third"] = signals["third"] \cup {sig}
        /\ \A q \in Procs : q # "third" => signals'[q] = signals[q]
    BY <1>0, <1>1
  <1>4. unchecked' \in BOOLEAN /\ (unchecked => unchecked')
    BY <1>1
  <1> QED
    BY <1>0, <1>1, <1>2, <1>3, <1>4 DEF AdvanceOf, Files

LEMMA NohupIgnores ==
  ASSUME ProcessesInv, Same, program = "nohup2", state["third"] = "on",
         Detach("third"), pc["third"] = 1, Now("third").call = "ignore"
  PROVE  AdvanceOf("third") /\ NohupInv' /\ pidfile' = pidfile
  <1>0. Worker = "third" /\ Length("third") = 7 /\ "third" \in Procs /\ HUP \in Signs
    BY DEF Worker, Length, Procs, Signs
  <1>1. /\ signals' = [signals EXCEPT !["third"] = @ \cup {HUP}]
        /\ Step("third") /\ UNCHANGED <<session, fds, opened, pidfile, unchecked>>
    BY DEF Detach, At
  <1>2. AdvanceOf("third") /\ signals'["third"] = signals["third"] \cup {HUP}
    <2>1. pc["third"] < Length("third")
      BY <1>0
    <2>2. PICK sig \in Signs : sig = HUP
      BY <1>0
    <2>3. signals' = [signals EXCEPT !["third"] = @ \cup {sig}]
      BY <1>1, <2>2
    <2>4. AdvanceOf("third") /\ signals'["third"] = signals["third"] \cup {sig}
      BY <1>0, <1>1, <2>1, <2>3, SignalStep
    <2> QED
      BY <2>2, <2>4
  <1>3. pc'["third"] = 2
    BY <1>0, <1>1, AdvancePc
  <1>4. fds'["third"] = start.fds /\ start' = start
    BY <1>0, <1>1 DEF ProcessesInv, Inherited, Same
  <1>5. \A n \in Fds : ~ (n < 2 - 3)
    BY ProcessesAssumption DEF Fds
  <1> QED
    BY <1>1, <1>2, <1>3, <1>4, <1>5 DEF NohupInv

LEMMA NohupOpens ==
  ASSUME ProcessesInv, Same, program = "nohup2", OpenFile("third"),
         ~ Fails("third"), state["third"] = "on", pc["third"] = 2,
         Now("third") = Open("null")
  PROVE  AdvanceOf("third") /\ NohupInv' /\ pidfile' = pidfile
  <1>0. /\ "third" \in Procs /\ Worker = "third" /\ Length("third") = 7
        /\ "null" \in FileNames /\ Now("third").file = "null"
    BY DEF Procs, Worker, Length, FileNames, Open
  <1>1. \A n \in Fds : fds["third"][n] = start.fds[n]
    <2>1. \A n \in Fds : ~ (n < 2 - 3)
      BY ProcessesAssumption DEF Fds
    <2> QED
      BY <2>1 DEF ProcessesInv, NohupInv
  <1>2. PICK n \in 0 .. 4 : fds["third"][n] = Closed
    BY <1>1, StartFds, ProcessesAssumption DEF Fds, ProcessesInv
  <1>3. PICK l : l = opened'["third"]["null"]
    OBVIOUS
  <1>4. /\ AdvanceOf("third") /\ UNCHANGED <<signals, pidfile, unchecked>>
        /\ l \in Fds /\ fds["third"][l] = Closed
        /\ \A m \in 0 .. l - 1 : fds["third"][m] # Closed
        /\ fds'["third"][l] = "null"
        /\ \A m \in Fds : m # l => fds'["third"][m] = fds["third"][m]
    BY <1>0, <1>2, <1>3, OpenStep
  <1>5. pc'["third"] = 3 /\ start' = start
    BY <1>0, <1>4, AdvancePc DEF AdvanceOf, Same
  <1>6. FirstClosed(l)'
    <2>1. \A m \in 0 .. l - 1 : m \in Fds
      BY <1>4, ProcessesAssumption DEF Fds
    <2> QED
      BY <1>1, <1>4, <1>5, <2>1 DEF FirstClosed
  <1>7. \A m \in Fds : fds'["third"][m] = IF m = l THEN "null" ELSE start.fds[m]
    BY <1>1, <1>4
  <1>8. HUP \in signals'["third"]
    BY <1>4 DEF ProcessesInv, NohupInv
  <1>9. \A n1 \in Fds : ~ (n1 < 3 - 3)
    BY ProcessesAssumption DEF Fds
  <1> QED
    BY <1>3, <1>4, <1>5, <1>6, <1>7, <1>8, <1>9 DEF NohupInv

LEMMA NohupMoves ==
  ASSUME ProcessesInv, Same, program = "nohup2", state["third"] = "on",
         Duplicate("third") \/ CloseOpened("third"),
         \/ pc["third"] = 3 /\ Now("third") = Dup2("null", 0)
         \/ pc["third"] = 4 /\ Now("third") = Dup2("null", 1)
         \/ pc["third"] = 5 /\ Now("third") = Dup2("null", 2)
         \/ pc["third"] = 6 /\ Now("third") = CloseAbove2("null")
  PROVE  AdvanceOf("third") /\ NohupInv' /\ pidfile' = pidfile
  <1>0. /\ "third" \in Procs /\ Worker = "third" /\ Length("third") = 7
        /\ "null" \in FileNames /\ 0 \in Fds /\ 1 \in Fds /\ 2 \in Fds
        /\ pc["third"] \in {3, 4, 5, 6}
    BY ProcessesAssumption DEF Procs, Worker, Length, FileNames, Fds
  <1>1. PICK f : f = opened["third"]["null"]
    OBVIOUS
  <1>2. f \in Fds /\ fds["third"] \in [Fds -> Files]
    BY <1>0, <1>1, TypesAre
  <1>3. PICK n \in Fds, file \in Files :
          /\ SetFd("third", n, file)
          /\ pc["third"] < 6 => n = pc["third"] - 3 /\ file = fds["third"][f]
          /\ pc["third"] = 6 =>
               n = f /\ file = IF f > 2 THEN Closed ELSE fds["third"][f]
    <2>0. fds["third"][f] \in Files /\ Closed \in Files
      BY <1>2 DEF Files
    <2>1. CASE pc["third"] = 3 /\ Now("third") = Dup2("null", 0)
      <3>1. SetFd("third", 0, fds["third"][f])
        BY <1>1, <2>1 DEF Duplicate, CloseOpened, At, Dup2
      <3> QED
        BY <1>0, <2>0, <2>1, <3>1
    <2>2. CASE pc["third"] = 4 /\ Now("third") = Dup2("null", 1)
      <3>1. SetFd("third", 1, fds["third"][f])
        BY <1>1, <2>2 DEF Duplicate, CloseOpened, At, Dup2
      <3> QED
        BY <1>0, <2>0, <2>2, <3>1
    <2>3. CASE pc["third"] = 5 /\ Now("third") = Dup2("null", 2)
      <3>1. SetFd("third", 2, fds["third"][f])
        BY <1>1, <2>3 DEF Duplicate, CloseOpened, At, Dup2
      <3> QED
        BY <1>0, <2>0, <2>3, <3>1
    <2>4. CASE pc["third"] = 6 /\ Now("third") = CloseAbove2("null")
      <3>1. SetFd("third", f, IF f > 2 THEN Closed ELSE fds["third"][f])
        BY <1>1, <2>4 DEF Duplicate, CloseOpened, At, CloseAbove2
      <3>2. PICK file : file = IF f > 2 THEN Closed ELSE fds["third"][f]
        OBVIOUS
      <3>3. file \in Files
        BY <2>0, <3>2
      <3> QED
        BY <1>2, <2>4, <3>1, <3>2, <3>3
    <2> QED
      BY <2>1, <2>2, <2>3, <2>4
  <1>4. /\ AdvanceOf("third") /\ UNCHANGED <<opened, signals, pidfile, unchecked>>
        /\ fds'["third"][n] = file
        /\ \A m \in Fds : m # n => fds'["third"][m] = fds["third"][m]
    <2>1. pc["third"] < Length("third")
      BY <1>0
    <2> QED
      BY <1>0, <1>3, <2>1, SetFdStep
  <1>5. pc'["third"] = pc["third"] + 1 /\ start' = start /\ program' = program
    BY <1>0, <1>4, AdvancePc DEF AdvanceOf, Same
  <1>6. opened'["third"]["null"] = f
    BY <1>1, <1>4
  <1>7. FirstClosed(f) /\ start.fds[f] = Closed
    BY <1>0, <1>1 DEF ProcessesInv, NohupInv, FirstClosed
  <1>8. FirstClosed(f)'
    BY <1>5, <1>7 DEF FirstClosed
  <1>9. \A k \in Fds : fds["third"][k] =
          IF (k < pc["third"] - 3 /\ k <= 2) \/ k = f THEN "null"
          ELSE start.fds[k]
    BY <1>0, <1>1 DEF ProcessesInv, NohupInv
  <1>10. ASSUME NEW m \in Fds
         PROVE  fds'["third"][m] =
                  IF (m < pc["third"] - 2 /\ m <= 2) \/ (m = f /\ pc["third"] < 6)
                  THEN "null" ELSE start.fds[m]
    <2>0. m \in Nat /\ n \in Nat /\ f \in Nat
      BY <1>2, ProcessesAssumption DEF Fds
    <2>1. CASE pc["third"] = 3
      BY <1>2, <1>3, <1>4, <1>9, <2>0, <2>1
    <2>2. CASE pc["third"] = 4
      BY <1>2, <1>3, <1>4, <1>9, <2>0, <2>2
    <2>3. CASE pc["third"] = 5
      BY <1>2, <1>3, <1>4, <1>9, <2>0, <2>3
    <2>4. CASE pc["third"] = 6
      BY <1>2, <1>3, <1>4, <1>7, <1>9, <2>0, <2>4
    <2> QED
      BY <1>0, <2>1, <2>2, <2>3, <2>4
  <1>11. HUP \in signals'["third"]
    BY <1>0, <1>4 DEF ProcessesInv, NohupInv
  <1>12. \A m \in Fds : fds'["third"][m] =
           IF (m < pc'["third"] - 3 /\ m <= 2) \/ (m = f /\ pc'["third"] \in 3 .. 6)
           THEN "null" ELSE start.fds[m]
    <2>1. pc'["third"] - 3 = pc["third"] - 2
      BY <1>0, <1>5
    <2>2. pc'["third"] \in 3 .. 6 <=> pc["third"] < 6
      BY <1>0, <1>5
    <2> QED
      BY <1>10, <2>1, <2>2
  <1>13. NohupInv'
    BY <1>5, <1>6, <1>8, <1>11, <1>12 DEF NohupInv
  <1> QED
    BY <1>4, <1>13

LEMMA Nohup2Step ==
  ASSUME ProcessesInv, Same, program = "nohup2", NEW p \in Procs, Calls(p),
         state[p] = "on"
  PROVE  ProcessesInv'
  <1>0. /\ Worker = "third" /\ Length("third") = 7 /\ Length("first") = 2
        /\ Length("second") = 3 /\ Forks("first") = 1 /\ Forks("second") = 2
        /\ program \notin Daemons /\ ProcessTypes /\ Placed
    BY DEF Worker, Length, Forks, Daemons, ProcessesInv
  <1>1. LauncherInv' /\ Dup2Inv' /\ DaemonInv'
    BY <1>0, OneProgram
  <1>2. CASE p = "first"
    <2>1. CASE pc["first"] = 1 /\ Now("first") = Call("fork")
      <3>0. Now(p).call = "fork"
        BY <1>2, <2>1, CallIs
      <3>1. Fork("first")
        BY <1>2, <3>0, CallDoes
      <3> QED
        BY <1>0, <1>2, <2>1, <3>1, ForkStep
    <2>2. CASE pc["first"] = 2 /\ Now("first") = Call("exit")
      <3>0. Now(p).call = "exit"
        BY <1>2, <2>2, CallIs
      <3>1. Exit("first")
        BY <1>2, <3>0, CallDoes
      <3> QED
        BY <1>0, <1>2, <3>1, ExitStep
    <2> QED
      BY <1>0, <1>2, <2>1, <2>2, Nohup2Script
  <1>3. CASE p = "second"
    <2>1. CASE pc["second"] = 1 /\ Now("second") = Call("setsid")
      <3>0. Now(p).call = "setsid"
        BY <1>3, <2>1, CallIs
      <3>1. Detach("second")
        BY <1>3, <3>0, CallDoes
      <3> QED
        BY <1>0, <1>3, <2>1, <3>0, <3>1, SetsidStep
    <2>2. CASE pc["second"] = 2 /\ Now("second") = Call("fork")
      <3>0. Now(p).call = "fork"
        BY <1>3, <2>2, CallIs
      <3>1. Fork("second")
        BY <1>3, <3>0, CallDoes
      <3> QED
        BY <1>0, <1>3, <2>2, <3>1, ForkStep
    <2>3. CASE pc["second"] = 3 /\ Now("second") = Call("exit")
      <3>0. Now(p).call = "exit"
        BY <1>3, <2>3, CallIs
      <3>1. Exit("second")
        BY <1>3, <3>0, CallDoes
      <3> QED
        BY <1>0, <1>3, <3>1, ExitStep
    <2> QED
      BY <1>0, <1>3, <2>1, <2>2, <2>3, Nohup2Script
  <1>4. CASE p = "third"
    <2>1. CASE pc["third"] = 1 /\ Now("third") = Call("ignore")
      <3>0. Now(p).call = "ignore"
        BY <1>4, <2>1, CallIs
      <3>1. Detach("third")
        BY <1>4, <3>0, CallDoes
      <3>2. AdvanceOf("third") /\ NohupInv' /\ pidfile' = pidfile
        BY <1>4, <2>1, <3>0, <3>1, NohupIgnores
      <3> QED
        BY <1>0, <1>1, <1>4, <3>2, WorkerStep
    <2>2. CASE pc["third"] = 2 /\ Now("third") = Open("null")
      <3>1. OpenFile("third")
        BY <1>4, <2>2, CallDoes DEF Open
      <3>2. CASE Fails("third")
        BY <1>4, <3>2, FailsStep
      <3>3. CASE ~ Fails("third")
        <4>1. AdvanceOf("third") /\ NohupInv' /\ pidfile' = pidfile
          BY <1>4, <2>2, <3>1, <3>3, NohupOpens
        <4> QED
          BY <1>0, <1>1, <1>4, <4>1, WorkerStep
      <3> QED
        BY <3>2, <3>3
    <2>3. CASE \/ pc["third"] = 3 /\ Now("third") = Dup2("null", 0)
               \/ pc["third"] = 4 /\ Now("third") = Dup2("null", 1)
               \/ pc["third"] = 5 /\ Now("third") = Dup2("null", 2)
               \/ pc["third"] = 6 /\ Now("third") = CloseAbove2("null")
      <3>1. Duplicate("third") \/ CloseOpened("third")
        BY <1>4, <2>3, CallDoes DEF Dup2, CloseAbove2
      <3>2. AdvanceOf("third") /\ NohupInv' /\ pidfile' = pidfile
        BY <1>4, <2>3, <3>1, NohupMoves
      <3> QED
        BY <1>0, <1>1, <1>4, <3>2, WorkerStep
    <2>4. CASE pc["third"] = 7 /\ Now("third") = Call("exec")
      <3>0. Now(p).call = "exec"
        BY <1>4, <2>4, CallIs
      <3>1. Run("third")
        BY <1>4, <3>0, CallDoes
      <3> QED
        BY <1>0, <1>4, <2>4, <3>1, RunStep
    <2> QED
      BY <1>0, <1>4, <2>1, <2>2, <2>3, <2>4, Nohup2Script
  <1> QED
    BY <1>2, <1>3, <1>4 DEF Procs

-----------------------------------------------------------------------------
(***************************************************************************)
(* daemon and daemon-v2                                                    *)
(***************************************************************************)
LEMMA CloseFdIs ==
  ASSUME NEW n
  PROVE  CloseFd(n).call = "close_fd" /\ CloseFd(n).fd = n
  BY DEF CloseFd

LEMMA DaemonOpens ==
  ASSUME ProcessesInv, Same, program \in Daemons, OpenFile("third"),
         ~ Fails("third"), state["third"] = "on", pc["third"] = 1,
         Now("third") = Open("alive")
  PROVE  AdvanceOf("third") /\ DaemonInv' /\ pidfile' = pidfile
  <1>0. /\ "third" \in Procs /\ Worker = "third" /\ 1 < Length("third")
        /\ "alive" \in FileNames /\ Now("third").file = "alive"
    BY DEF Procs, Worker, Length, FileNames, Open, Daemons
  <1>1. fds["third"] = start.fds
    BY <1>0 DEF ProcessesInv, Inherited
  <1>2. PICK n \in 0 .. 4 : fds["third"][n] = Closed
    BY <1>1, StartFds, ProcessesAssumption DEF Fds, ProcessesInv
  <1>3. PICK l : l = opened'["third"]["alive"]
    OBVIOUS
  <1>4. /\ AdvanceOf("third") /\ UNCHANGED <<signals, pidfile, unchecked>>
        /\ l \in Fds /\ fds["third"][l] = Closed
        /\ \A m \in 0 .. l - 1 : fds["third"][m] # Closed
        /\ fds'["third"][l] = "alive"
        /\ \A m \in Fds : m # l => fds'["third"][m] = fds["third"][m]
    BY <1>0, <1>2, <1>3, OpenStep
  <1>5. pc'["third"] = 2 /\ start' = start
    BY <1>0, <1>4, AdvancePc DEF AdvanceOf, Same
  <1>6. FirstClosed(l)'
    BY <1>1, <1>4, <1>5 DEF FirstClosed
  <1>7. \A m \in Fds : fds'["third"][m] = IF m = l THEN "alive" ELSE start.fds[m]
    BY <1>1, <1>4
  <1>8. \A m \in Fds : ~ (m < 2 - 2)
    BY ProcessesAssumption DEF Fds
  <1>9. \A m \in 0 .. 2 : ~ (m < 2 - 5)
    OBVIOUS
  <1> QED
    BY <1>3, <1>4, <1>5, <1>6, <1>7, <1>8, <1>9 DEF DaemonInv

\* Standard input, output and error are closed.
LEMMA DaemonCloses ==
  ASSUME ProcessesInv, Same, program \in Daemons, CloseNumber("third"),
         state["third"] = "on",
         \/ pc["third"] = 2 /\ Now("third") = CloseFd(0)
         \/ pc["third"] = 3 /\ Now("third") = CloseFd(1)
         \/ pc["third"] = 4 /\ Now("third") = CloseFd(2)
  PROVE  AdvanceOf("third") /\ DaemonInv' /\ pidfile' = pidfile
  <1>0. /\ "third" \in Procs /\ Worker = "third" /\ 4 < Length("third")
        /\ Length("third") \in Nat /\ pc["third"] \in {2, 3, 4}
        /\ "alive" \in FileNames /\ Closed \in Files
        /\ 0 \in Fds /\ 1 \in Fds /\ 2 \in Fds
    BY ProcessesAssumption
       DEF Procs, Worker, Length, FileNames, Daemons, Files, Fds
  <1>1. PICK f : f = opened["third"]["alive"]
    OBVIOUS
  <1>2. f \in Fds /\ fds["third"] \in [Fds -> Files]
    BY <1>0, <1>1, TypesAre
  <1>3. PICK n \in Fds : SetFd("third", n, Closed) /\ n = pc["third"] - 2
    <2>1. Now("third").fd = pc["third"] - 2
      BY CloseFdIs
    <2>2. PICK n \in Fds : n = pc["third"] - 2
      BY <1>0
    <2>3. SetFd("third", n, Closed)
      BY <2>1, <2>2 DEF CloseNumber
    <2> QED
      BY <2>2, <2>3
  <1>4. /\ AdvanceOf("third") /\ UNCHANGED <<opened, signals, pidfile, unchecked>>
        /\ fds'["third"][n] = Closed
        /\ \A m \in Fds : m # n => fds'["third"][m] = fds["third"][m]
    <2>1. pc["third"] < Length("third")
      BY <1>0
    <2> QED
      BY <1>0, <1>3, <2>1, SetFdStep
  <1>5. pc'["third"] = pc["third"] + 1 /\ start' = start
    BY <1>0, <1>4, AdvancePc DEF AdvanceOf, Same
  <1>6. opened'["third"]["alive"] = f /\ FirstClosed(f)
    BY <1>0, <1>1, <1>4 DEF ProcessesInv, DaemonInv
  <1>7. FirstClosed(f)'
    BY <1>5, <1>6 DEF FirstClosed
  <1>8. \A k \in Fds : fds["third"][k] =
          IF k <= 2 /\ k < pc["third"] - 2 THEN Closed
          ELSE IF k = f THEN "alive" ELSE start.fds[k]
    BY <1>0, <1>1 DEF ProcessesInv, DaemonInv
  <1>9. ASSUME NEW m \in Fds
        PROVE  fds'["third"][m] =
                 IF m <= 2 /\ m < pc["third"] - 1 THEN Closed
                 ELSE IF m = f THEN "alive" ELSE start.fds[m]
    <2>0. m \in Nat /\ n \in Nat
      BY ProcessesAssumption DEF Fds
    <2>1. CASE m = n
      BY <1>0, <1>3, <1>4, <2>0, <2>1
    <2>2. CASE m # n
      BY <1>0, <1>3, <1>4, <1>8, <2>0, <2>2
    <2> QED
      BY <2>1, <2>2
  <1>10. /\ pc'["third"] - 2 = pc["third"] - 1 /\ pc'["third"] > 1
         /\ \A m \in 0 .. 2 : ~ (m < pc'["third"] - 5)
         /\ \A m \in 0 .. 2 : pc'["third"] > 4 => m < pc["third"] - 1
         /\ \A m \in 0 .. 2 : m \in Fds /\ m <= 2
    BY <1>0, <1>5, ProcessesAssumption DEF Fds
  <1>11. \A m \in 0 .. 2 : pc'["third"] > 4 => fds'["third"][m] = Closed
    BY <1>9, <1>10
  <1>12. DaemonInv'
    BY <1>5, <1>6, <1>7, <1>9, <1>10, <1>11 DEF DaemonInv
  <1> QED
    BY <1>4, <1>12

\* /dev/null takes the lowest place, unless it could not be opened.
LEMMA DaemonOpensNull ==
  ASSUME ProcessesInv, Same, program \in Daemons, OpenNull("third"),
         state["third"] = "on", pc["third"] \in {5, 6, 7}
  PROVE  AdvanceOf("third") /\ DaemonInv' /\ pidfile' = pidfile
  <1>0. /\ "third" \in Procs /\ Worker = "third" /\ pc["third"] < Length("third")
        /\ "null" \in Files /\ "second" # "third"
    BY DEF Procs, Worker, Length, FileNames, Daemons, Files
  <1>1. PICK f : f = opened["third"]["alive"]
    OBVIOUS
  <1>2. PICK i \in 0 .. 2 : i = pc["third"] - 5
    OBVIOUS
  <1>3. /\ FirstClosed(f)
        /\ \A k \in Fds : k > 2 =>
             fds["third"][k] = IF k = f THEN "alive" ELSE start.fds[k]
        /\ \A k \in 0 .. 2 :
             /\ k >= i => fds["third"][k] = Closed
             /\ k < i /\ ~ unchecked => fds["third"][k] = "null"
    <2>1. FirstClosed(f)
      BY <1>1 DEF ProcessesInv, DaemonInv
    <2>2. \A k \in Fds : k > 2 =>
             fds["third"][k] = IF k = f THEN "alive" ELSE start.fds[k]
      BY <1>1, ProcessesAssumption DEF ProcessesInv, DaemonInv, Fds
    <2>3. \A k \in 0 .. 2 :
             /\ k >= pc["third"] - 5 => fds["third"][k] = Closed
             /\ k < pc["third"] - 5 /\ ~ unchecked => fds["third"][k] = "null"
      BY DEF ProcessesInv, DaemonInv
    <2> QED
      BY <1>2, <2>1, <2>2, <2>3
  <1>4. PICK l : l = Lowest("third")
    OBVIOUS
  <1>5. /\ l \in 0 .. 4 /\ fds["third"][l] = Closed
        /\ \A m \in 0 .. l - 1 : fds["third"][m] # Closed
    <2>1. fds["third"][i] = Closed /\ i \in 0 .. 4
      BY <1>3
    <2> QED
      BY <1>0, <1>4, <2>1, LowestIs
  <1>6. /\ l <= i /\ l \in Fds /\ l \in 0 .. 2
        /\ (~ unchecked => l = i)
    <2>1. l <= i
      BY <1>3, <1>5
    <2>2. "null" # Closed
      BY DEF Closed
    <2>3. ~ unchecked => l = i
      BY <1>3, <1>5, <2>1, <2>2
    <2> QED
      BY <1>5, <2>1, <2>3, ProcessesAssumption DEF Fds
  <1>7. /\ Step("third") /\ UNCHANGED <<opened, session, signals, pidfile>>
        /\ \/ /\ fds' = [fds EXCEPT !["third"][l] = "null"]
              /\ unchecked' = unchecked
           \/ fds' = fds /\ unchecked' = TRUE
    BY <1>4 DEF OpenNull
  <1>8. /\ fds \in [Procs -> [Fds -> Files]] /\ fds["third"] \in [Fds -> Files]
        /\ opened \in [Procs -> [FileNames -> Fds]]
        /\ session \in [Procs -> {"login", "own"}]
        /\ signals \in [Procs -> SUBSET Signs]
        /\ pidfile \in {"none", "stale", "empty", "written"}
        /\ unchecked \in BOOLEAN /\ pc["third"] \in Nat \ {0}
    BY <1>0, TypesAre
  <1>9. /\ fds' \in [Procs -> [Fds -> Files]]
        /\ \A q \in Procs : q # "third" => fds'[q] = fds[q]
        /\ \A m \in Fds : m # l => fds'["third"][m] = fds["third"][m]
    <2>1. CASE fds' = [fds EXCEPT !["third"][l] = "null"]
      BY <1>0, <1>6, <1>8, <2>1
    <2>2. CASE fds' = fds
      BY <1>8, <2>2
    <2> QED
      BY <1>7, <2>1, <2>2
  <1>10. /\ unchecked' \in BOOLEAN /\ (unchecked => unchecked')
         /\ (~ unchecked' => fds'["third"][l] = "null" /\ ~ unchecked)
    <2>1. CASE /\ fds' = [fds EXCEPT !["third"][l] = "null"]
               /\ unchecked' = unchecked
      <3>1. fds'["third"][l] = "null"
        BY <1>0, <1>6, <1>8, <2>1
      <3> QED
        BY <1>8, <2>1, <3>1, Zenon
    <2>2. CASE fds' = fds /\ unchecked' = TRUE
      BY <2>2, Zenon
    <2> QED
      BY <1>7, <2>1, <2>2
  <1>11. AdvanceOf("third")
    <2>1. pc["third"] # Forks("third")
      BY <1>0, <1>8, NoFork
    <2> QED
      BY <1>0, <1>7, <1>8, <1>9, <1>10, <2>1 DEF AdvanceOf, Files
  <1>12. pc'["third"] = pc["third"] + 1 /\ start' = start
    BY <1>0, <1>11, AdvancePc DEF AdvanceOf, Same
  <1>13. opened'["third"]["alive"] = f /\ FirstClosed(f)'
    BY <1>1, <1>3, <1>7, <1>12 DEF FirstClosed
  <1>14. ASSUME NEW m \in Fds, m > 2
         PROVE  fds'["third"][m] = IF m = f THEN "alive" ELSE start.fds[m]
    <2>1. m # l
      BY <1>6, <1>14
    <2> QED
      BY <1>3, <1>9, <1>14, <2>1
  <1>15. ASSUME NEW m \in 0 .. 2
         PROVE  /\ m >= i + 1 => fds'["third"][m] = Closed
                /\ m < i + 1 /\ ~ unchecked' => fds'["third"][m] = "null"
    <2>0. m \in Fds
      BY ProcessesAssumption DEF Fds
    <2>1. ASSUME m >= i + 1 PROVE fds'["third"][m] = Closed
      <3>1. m # l /\ m >= i
        BY <1>2, <1>6, <2>1
      <3> QED
        BY <1>3, <1>9, <2>0, <3>1
    <2>2. ASSUME m < i + 1, ~ unchecked' PROVE fds'["third"][m] = "null"
      <3>1. ~ unchecked /\ l = i /\ fds'["third"][l] = "null"
        BY <1>6, <1>10, <2>2
      <3>2. m = l \/ m < i
        BY <1>2, <2>2, <3>1
      <3> QED
        BY <1>3, <1>9, <2>0, <3>1, <3>2
    <2> QED
      BY <2>1, <2>2
  <1>16. /\ pc'["third"] - 5 = i + 1 /\ pc'["third"] > 1
         /\ ~ (pc'["third"] < 5)
    BY <1>2, <1>8, <1>12
  <1>17. DaemonInv'
    <2>1. \A m \in Fds : m > 2 => ~ (m <= 2 /\ m < pc'["third"] - 2)
      BY ProcessesAssumption DEF Fds
    <2> QED
      BY <1>12, <1>13, <1>14, <1>15, <1>16, <2>1 DEF DaemonInv
  <1> QED
    BY <1>7, <1>11, <1>17

\* daemon-v2 is ready to be stopped.
LEMMA DaemonHandles ==
  ASSUME ProcessesInv, Same, program = "daemon-v2", state["third"] = "on",
         Detach("third"), pc["third"] = 8, Now("third").call = "sigaction"
  PROVE  AdvanceOf("third") /\ DaemonInv' /\ pidfile' = pidfile
  <1>0. /\ Worker = "third" /\ 8 < Length("third") /\ "third" \in Procs
        /\ program \in Daemons
    BY DEF Worker, Length, Procs, Daemons
  <1>1. /\ signals' = [signals EXCEPT !["third"] = @ \cup {TERM}]
        /\ Step("third") /\ UNCHANGED <<session, fds, opened, pidfile, unchecked>>
    BY DEF Detach, At
  <1>2. AdvanceOf("third")
    <2>1. pc["third"] < Length("third")
      BY <1>0
    <2>2. PICK sig \in Signs : sig = TERM
      BY DEF Signs
    <2>3. signals' = [signals EXCEPT !["third"] = @ \cup {sig}]
      BY <1>1, <2>2
    <2> QED
      BY <1>0, <1>1, <2>1, <2>3, SignalStep
  <1>3. pc'["third"] = 9 /\ start' = start
    BY <1>0, <1>1, AdvancePc DEF Same
  <1>4. PICK f : f = opened["third"]["alive"]
    OBVIOUS
  <1>5. /\ FirstClosed(f)
        /\ \A k \in Fds : k > 2 =>
             fds["third"][k] = IF k = f THEN "alive" ELSE start.fds[k]
        /\ \A k \in 0 .. 2 : ~ unchecked => fds["third"][k] = "null"
    <2>1. FirstClosed(f)
      BY <1>0, <1>4 DEF ProcessesInv, DaemonInv
    <2>2. \A k \in Fds : k > 2 =>
             fds["third"][k] = IF k = f THEN "alive" ELSE start.fds[k]
      BY <1>0, <1>4, ProcessesAssumption DEF ProcessesInv, DaemonInv, Fds
    <2>3. \A k \in 0 .. 2 : k < pc["third"] - 5 /\ ~ unchecked
                              => fds["third"][k] = "null"
      BY <1>0 DEF ProcessesInv, DaemonInv
    <2>4. \A k \in 0 .. 2 : k < pc["third"] - 5
      OBVIOUS
    <2> QED
      BY <2>1, <2>2, <2>3, <2>4
  <1>6. FirstClosed(f)'
    BY <1>3, <1>5 DEF FirstClosed
  <1>7. /\ \A m \in Fds : m > 2 => ~ (m <= 2 /\ m < 9 - 2)
        /\ \A m \in 0 .. 2 : ~ (m >= 9 - 5) /\ m < 9 - 5
    BY ProcessesAssumption DEF Fds
  <1> QED
    BY <1>1, <1>2, <1>3, <1>4, <1>5, <1>6, <1>7 DEF DaemonInv

LEMMA DaemonStep ==
  ASSUME ProcessesInv, Same, program \in Daemons, NEW p \in Procs, Calls(p),
         state[p] = "on"
  PROVE  ProcessesInv'
  <1>0. /\ Worker = "third" /\ Length("first") = 2
        /\ Length("second") = 5 /\ Forks("first") = 1 /\ Forks("second") = 2
        /\ program \notin {"launcher", "dup2", "nohup2"} /\ ProcessTypes /\ Placed
    BY DEF Worker, Length, Forks, Daemons, ProcessesInv
  <1>1. LauncherInv' /\ Dup2Inv' /\ NohupInv'
    BY <1>0, OneProgram
  <1>2. CASE p = "first"
    <2>1. CASE pc["first"] = 1 /\ Now("first") = Call("fork")
      <3>0. Now(p).call = "fork"
        BY <1>2, <2>1, CallIs
      <3>1. Fork("first")
        BY <1>2, <3>0, CallDoes
      <3> QED
        BY <1>0, <1>2, <2>1, <3>1, ForkStep
    <2>2. CASE pc["first"] = 2 /\ Now("first") = Call("exit")
      <3>0. Now(p).call = "exit"
        BY <1>2, <2>2, CallIs
      <3>1. Exit("first")
        BY <1>2, <3>0, CallDoes
      <3> QED
        BY <1>0, <1>2, <3>1, ExitStep
    <2> QED
      BY <1>0, <1>2, <2>1, <2>2, DaemonScript
  <1>3. CASE p = "second"
    <2>1. CASE pc["second"] = 1 /\ Now("second") = Call("setsid")
      <3>0. Now(p).call = "setsid"
        BY <1>3, <2>1, CallIs
      <3>1. Detach("second")
        BY <1>3, <3>0, CallDoes
      <3> QED
        BY <1>0, <1>3, <2>1, <3>0, <3>1, SetsidStep
    <2>2. CASE pc["second"] = 2 /\ Now("second") = Call("fork")
      <3>0. Now(p).call = "fork"
        BY <1>3, <2>2, CallIs
      <3>1. Fork("second")
        BY <1>3, <3>0, CallDoes
      <3> QED
        BY <1>0, <1>3, <2>2, <3>1, ForkStep
    <2>3. CASE pc["second"] = 3 /\ Now("second") = Call("create_pidfile")
      <3>0. Now(p).call = "create_pidfile"
        BY <1>3, <2>3, CallIs
      <3>1. WritePidfile("second")
        BY <1>3, <3>0, CallDoes
      <3> QED
        BY <1>3, <2>3, <3>0, <3>1, PidfileStep
    <2>4. CASE pc["second"] = 4 /\ Now("second") = Call("write_pidfile")
      <3>0. Now(p).call = "write_pidfile"
        BY <1>3, <2>4, CallIs
      <3>1. WritePidfile("second")
        BY <1>3, <3>0, CallDoes
      <3> QED
        BY <1>3, <2>4, <3>0, <3>1, PidfileStep
    <2>5. CASE pc["second"] = 5 /\ Now("second") = Call("exit")
      <3>0. Now(p).call = "exit"
        BY <1>3, <2>5, CallIs
      <3>1. Exit("second")
        BY <1>3, <3>0, CallDoes
      <3> QED
        BY <1>0, <1>3, <2>5, <3>0, <3>1, ExitStep
    <2> QED
      BY <1>0, <1>3, <2>1, <2>2, <2>3, <2>4, <2>5, DaemonScript
  <1>4. CASE p = "third"
    <2>1. CASE pc["third"] = 1 /\ Now("third") = Open("alive")
      <3>1. OpenFile("third")
        BY <1>4, <2>1, CallDoes DEF Open
      <3>2. CASE Fails("third")
        BY <1>4, <3>2, FailsStep
      <3>3. CASE ~ Fails("third")
        <4>1. AdvanceOf("third") /\ DaemonInv' /\ pidfile' = pidfile
          BY <1>4, <2>1, <3>1, <3>3, DaemonOpens
        <4> QED
          BY <1>0, <1>1, <1>4, <4>1, WorkerStep
      <3> QED
        BY <3>2, <3>3
    <2>2. CASE \/ pc["third"] = 2 /\ Now("third") = CloseFd(0)
               \/ pc["third"] = 3 /\ Now("third") = CloseFd(1)
               \/ pc["third"] = 4 /\ Now("third") = CloseFd(2)
      <3>0. Now(p).call = "close_fd"
        BY <1>4, <2>2, CloseFdIs
      <3>1. CloseNumber("third")
        BY <1>4, <3>0, CallDoes
      <3>2. AdvanceOf("third") /\ DaemonInv' /\ pidfile' = pidfile
        BY <1>4, <2>2, <3>1, DaemonCloses
      <3> QED
        BY <1>0, <1>1, <1>4, <3>2, WorkerStep
    <2>3. CASE pc["third"] \in {5, 6, 7} /\ Now("third") = Call("open_null")
      <3>0. Now(p).call = "open_null"
        BY <1>4, <2>3, CallIs
      <3>1. OpenNull("third")
        BY <1>4, <3>0, CallDoes
      <3>2. AdvanceOf("third") /\ DaemonInv' /\ pidfile' = pidfile
        BY <1>4, <2>3, <3>1, DaemonOpensNull
      <3> QED
        BY <1>0, <1>1, <1>4, <3>2, WorkerStep
    <2>4. CASE /\ pc["third"] = 8 /\ program = "daemon-v2"
               /\ Now("third") = Call("sigaction")
      <3>0. Now(p).call = "sigaction"
        BY <1>4, <2>4, CallIs
      <3>1. Detach("third")
        BY <1>4, <3>0, CallDoes
      <3>2. AdvanceOf("third") /\ DaemonInv' /\ pidfile' = pidfile
        BY <1>4, <2>4, <3>0, <3>1, DaemonHandles
      <3> QED
        BY <1>0, <1>1, <1>4, <3>2, WorkerStep
    <2>5. CASE pc["third"] = Length("third") /\ Now("third") = Call("work")
      <3>0. Now(p).call = "work"
        BY <1>4, <2>5, CallIs
      <3>1. Run("third")
        BY <1>4, <3>0, CallDoes
      <3> QED
        BY <1>0, <1>4, <2>5, <3>1, RunStep
    <2> QED
      BY <1>0, <1>4, <2>1, <2>2, <2>3, <2>4, <2>5, DaemonScript
  <1> QED
    BY <1>2, <1>3, <1>4 DEF Procs

-----------------------------------------------------------------------------
(***************************************************************************)
(* The invariant of the five programs, and what follows from it.           *)
(***************************************************************************)
LEMMA ProcessesStart ==
  ASSUME ProcessesInit
  PROVE  ProcessesInv
  <1>1. /\ program \in Programs /\ start.pidfile \in {"none", "stale"}
        /\ pc = [p \in Procs |-> 1]
        /\ state = [p \in Procs |-> IF p = "first" THEN "on" ELSE "off"]
        /\ status = [p \in Procs |-> 0]
        /\ fds = [p \in Procs |-> start.fds]
        /\ opened = [p \in Procs |-> [f \in FileNames |-> 0]]
        /\ session = [p \in Procs |-> "login"]
        /\ signals = [p \in Procs |-> {}]
        /\ pidfile = start.pidfile /\ unchecked = FALSE
    BY DEF ProcessesInit
  <1>2. OpenAtStart(start.fds)
    BY DEF ProcessesInit, OpenAtStart
  <1>3. start.fds \in [Fds -> FileNames \cup {"tty", Closed}]
    BY <1>2 DEF OpenAtStart
  <1>4. ProcessTypes
    <2>1. unchecked \in BOOLEAN
      BY <1>1, Zenon
    <2>2. opened \in [Procs -> [FileNames -> Fds]]
      BY <1>1, ProcessesAssumption DEF Fds
    <2> QED
      BY <1>1, <1>2, <1>3, <2>1, <2>2 DEF ProcessTypes
  <1>5. /\ pc["first"] = 1 /\ pc["second"] = 1 /\ pc["third"] = 1
        /\ state["first"] = "on" /\ state["second"] = "off"
        /\ state["third"] = "off" /\ fds["first"] = start.fds
    BY <1>1 DEF Procs
  <1>6. Length("first") >= 1 /\ Length("first") \in Nat
    BY DEF Length
  <1>7. Placed
    BY <1>1, <1>5, <1>6 DEF Placed, Procs
  <1>8. Inherited
    BY <1>1, <1>5 DEF Inherited
  <1>9. LauncherInv /\ NohupInv /\ DaemonInv
    BY <1>5 DEF LauncherInv, NohupInv, DaemonInv
  <1>10. Dup2Inv
    BY <1>5 DEF Dup2Inv
  <1>11. PidFileInv
    BY <1>1, <1>5 DEF PidFileInv, Alive
  <1> QED
    BY <1>4, <1>7, <1>8, <1>9, <1>10, <1>11 DEF ProcessesInv

LEMMA ProcessesSame ==
  ASSUME ProcessesInv, UNCHANGED processesVars
  PROVE  ProcessesInv'
  <1>1. /\ UNCHANGED <<program, start, pc, fds, opened, session>>
        /\ UNCHANGED <<signals, unchecked>>
        /\ state' = state /\ status' = status /\ pidfile' = pidfile
    BY DEF processesVars, procVars
  <1>2. PidFileInv'
    BY <1>1 DEF ProcessesInv, PidFileInv, Alive
  <1> QED
    BY <1>1, <1>2, ProcessesEnd DEF ProcessesInv, ProcessTypes

LEMMA ProcessesStep ==
  ASSUME ProcessesInv, [ProcessesNext]_processesVars
  PROVE  ProcessesInv'
  <1>1. ASSUME NEW p \in Procs, Calls(p), Same
        PROVE  ProcessesInv'
    <2>1. CASE state[p] = "on"
      <3>1. \/ program = "launcher" \/ program = "nohup2" \/ program = "dup2"
            \/ program \in Daemons
        BY DEF ProcessesInv, ProcessTypes, Programs, Daemons
      <3> QED
        BY <1>1, <2>1, <3>1, LauncherStep, Nohup2Step, Dup2Step, DaemonStep
    <2>2. CASE state[p] # "on"
      <3>1. PICK code \in {0, 1} : Ends(p, code)
        BY <1>1, <2>2, OffDoes
      <3>2. /\ state[p] = "target" /\ program \notin Daemons
            /\ UNCHANGED <<fds, opened, session, signals, pidfile, unchecked>>
        BY <1>1, <2>2, OffDoes
      <3>3. code \in Nat
        OBVIOUS
      <3> QED
        BY <1>1, <3>1, <3>2, <3>3, EndsStep
    <2> QED
      BY <2>1, <2>2
  <1>2. ASSUME NEW p \in Procs, Terminate(p)
        PROVE  ProcessesInv'
    BY <1>2, TerminateStep
  <1>3. CASE Hangup
    BY <1>3, HangupStep
  <1>4. CASE UNCHANGED processesVars
    BY <1>4, ProcessesSame
  <1> QED
    BY <1>1, <1>2, <1>3, <1>4 DEF ProcessesNext

\* At its last call a process has what TargetsPrepared says.
LEMMA TargetsFollow ==
  ASSUME ProcessesInv
  PROVE  TargetsPrepared
  <1> SUFFICES ASSUME NEW p \in Procs, state[p] = "target"
               PROVE  /\ program = "launcher" /\ StartedWith({1, 2}) =>
                           Has(p, [n \in {1, 2} |-> IF n = 1 THEN "out.txt"
                                                    ELSE "err.txt"])
                      /\ program = "dup2" /\ StartedWith({1}) =>
                           Has(p, [n \in {1} |-> "foo"])
                      /\ program = "nohup2" =>
                           /\ Has(p, [n \in 0 .. 2 |-> "null"])
                           /\ session[p] = "own" /\ HUP \in signals[p]
                      /\ program \in Daemons =>
                           /\ ~ unchecked =>
                                Has(p, [n \in 0 .. 3 |->
                                          IF n < 3 THEN "null"
                                          ELSE IF StartedWith(0 .. 2) THEN "alive"
                                          ELSE Closed])
                           /\ session[p] = "own"
    BY DEF ProcessesInv, ProcessTypes, Programs, Daemons, TargetsPrepared
  <1>1. p = Worker /\ pc[p] = Length(p)
    BY DEF ProcessesInv, Placed
  <1>2. ASSUME program = "launcher", StartedWith({1, 2})
        PROVE  Has(p, [n \in {1, 2} |-> IF n = 1 THEN "out.txt" ELSE "err.txt"])
    <2>1. p = "second" /\ pc["second"] = 7
      BY <1>1, <1>2 DEF Worker, Length
    <2>2. \A n \in Fds : fds["second"][n] = IF n = 1 THEN "out.txt"
                                            ELSE IF n = 2 THEN "err.txt"
                                            ELSE start.fds[n]
      BY <1>2, <2>1 DEF ProcessesInv, LauncherInv
    <2> QED
      BY <2>1, <2>2 DEF Has
  <1>3. ASSUME program = "dup2", StartedWith({1})
        PROVE  Has(p, [n \in {1} |-> "foo"])
    <2>1. p = "first" /\ pc["first"] = 4
      BY <1>1, <1>3 DEF Worker, Length
    <2>2. \A n \in Fds : fds["first"][n] = IF n = 1 THEN "foo" ELSE start.fds[n]
      BY <1>3, <2>1 DEF ProcessesInv, Dup2Inv
    <2> QED
      BY <2>1, <2>2 DEF Has
  <1>4. ASSUME program = "nohup2"
        PROVE  /\ Has(p, [n \in 0 .. 2 |-> "null"])
               /\ session[p] = "own" /\ HUP \in signals[p]
    <2>1. p = "third" /\ pc["third"] = 7
      BY <1>1, <1>4 DEF Worker, Length
    <2>2. /\ HUP \in signals["third"]
          /\ \A n \in Fds : fds["third"][n] = IF n < 7 - 3 /\ n <= 2 THEN "null"
                                              ELSE start.fds[n]
      BY <1>4, <2>1 DEF ProcessesInv, NohupInv
    <2>3. session["third"] = "own"
      BY <2>1 DEF ProcessesInv, Inherited
    <2>4. \A n \in Fds : n \in 0 .. 2 <=> n < 7 - 3 /\ n <= 2
      BY ProcessesAssumption DEF Fds
    <2> QED
      BY <2>1, <2>2, <2>3, <2>4 DEF Has
  <1>5. ASSUME program \in Daemons
        PROVE  /\ ~ unchecked =>
                    Has(p, [n \in 0 .. 3 |->
                              IF n < 3 THEN "null"
                              ELSE IF StartedWith(0 .. 2) THEN "alive" ELSE Closed])
               /\ session[p] = "own"
    <2>1. p = "third" /\ pc["third"] \in {8, 9}
      BY <1>1, <1>5 DEF Worker, Length, Daemons
    <2>2. session["third"] = "own"
      BY <2>1 DEF ProcessesInv, Inherited
    <2>3. PICK f : f = opened["third"]["alive"]
      OBVIOUS
    <2>4. FirstClosed(f)
      BY <1>5, <2>1, <2>3 DEF ProcessesInv, DaemonInv
    <2>5. \A n \in Fds : n > 2 =>
            fds["third"][n] = IF n = f THEN "alive" ELSE start.fds[n]
      BY <1>5, <2>1, <2>3, ProcessesAssumption DEF ProcessesInv, DaemonInv, Fds
    <2>6. ASSUME ~ unchecked, NEW n \in 0 .. 2 PROVE fds["third"][n] = "null"
      <3>1. \A k \in 0 .. 2 : k < pc["third"] - 5 /\ ~ unchecked
                              => fds["third"][k] = "null"
        BY <1>5, <2>1 DEF ProcessesInv, DaemonInv
      <3>2. n < pc["third"] - 5
        BY <2>1
      <3> QED
        BY <2>6, <3>1, <3>2
    <2>7. \A n \in Fds : n > 2 => start.fds[n] = Closed
      BY StartFds DEF ProcessesInv
    <2>8. /\ f \in Nat /\ f <= 3 /\ (StartedWith(0 .. 2) => f = 3)
          /\ (~ StartedWith(0 .. 2) => f # 3)
      <3>1. 3 \in Fds /\ start.fds[3] = Closed
        BY <2>7, ProcessesAssumption DEF Fds
      <3>2. f \in Nat /\ f <= 3
        BY <2>4, <3>1 DEF FirstClosed, Fds
      <3>3. ASSUME StartedWith(0 .. 2) PROVE f = 3
        BY <2>4, <3>2, <3>3 DEF FirstClosed, StartedWith
      <3>4. ASSUME ~ StartedWith(0 .. 2), f = 3 PROVE FALSE
        BY <2>4, <3>4 DEF FirstClosed, StartedWith
      <3> QED
        BY <3>2, <3>3, <3>4
    <2>9. ASSUME ~ unchecked, NEW n \in Fds
          PROVE  fds["third"][n] =
                   IF n \in 0 .. 3
                   THEN IF n < 3 THEN "null"
                        ELSE IF StartedWith(0 .. 2) THEN "alive" ELSE Closed
                   ELSE start.fds[n]
      <3>0. n \in Nat
        BY ProcessesAssumption DEF Fds
      <3>1. CASE n \in 0 .. 2
        BY <2>6, <2>9, <3>1
      <3>2. CASE n = 3
        BY <2>5, <2>7, <2>8, <3>2
      <3>3. CASE n > 3
        BY <2>5, <2>8, <3>0, <3>3
      <3> QED
        BY <3>0, <3>1, <3>2, <3>3
    <2>10. ASSUME ~ unchecked
           PROVE  Has(p, [n \in 0 .. 3 |->
                            IF n < 3 THEN "null"
                            ELSE IF StartedWith(0 .. 2) THEN "alive" ELSE Closed])
      BY <2>1, <2>9, <2>10 DEF Has
    <2> QED
      BY <2>1, <2>2, <2>10
  <1> QED
    BY <1>2, <1>3, <1>4, <1>5

LEMMA PidFileFollows ==
  ASSUME ProcessesInv
  PROVE  PidFileTrue
  <1> SUFFICES ASSUME program \in Daemons PROVE PidFileTrue
    BY DEF PidFileTrue
  <1>1. ASSUME state["second"] = "exited", status["second"] = 0,
               Alive("third"), ~ unchecked
        PROVE  pidfile = "written"
    BY <1>1 DEF ProcessesInv, PidFileInv
  <1>2. ASSUME state["third"] = "exited", TERM \in signals["third"],
               pidfile # "none", start.pidfile = "none"
        PROVE  status["third"] = 1
    BY <1>2 DEF ProcessesInv, PidFileInv
  <1> QED
    BY <1>1, <1>2 DEF PidFileTrue

\* Every reachable state satisfies the invariant.
THEOREM ProcessesInvariant == ProcessesSpec => []ProcessesInv
  <1>1. ProcessesInit => ProcessesInv
    BY ProcessesStart
  <1>2. ProcessesInv /\ [ProcessesNext]_processesVars => ProcessesInv'
    BY ProcessesStep
  <1> QED
    BY <1>1, <1>2, PTL DEF ProcessesSpec

\* What the five programs run has its streams where they belong, no other
\* descriptor, and is out of reach of a hangup where the program promises it.
THEOREM TargetsPreparedCorrect == ProcessesSpec => []TargetsPrepared
  <1>1. ProcessesInv => TargetsPrepared
    BY TargetsFollow
  <1> QED
    BY <1>1, ProcessesInvariant, PTL

\* As long as a daemon lives whose starter reported success, the pid file holds
\* its identifier, unless a write of it failed, which nobody checks.  When
\* sigHandler has stopped a daemon before whose start there was no pid file,
\* the file is gone or the status says so.  Where an earlier daemon left one,
\* the handler can remove that and end with status 0 before fopen makes another.
THEOREM PidFileTrueCorrect == ProcessesSpec => []PidFileTrue
  <1>1. ProcessesInv => PidFileTrue
    BY PidFileFollows
  <1> QED
    BY <1>1, ProcessesInvariant, PTL

=============================================================================
