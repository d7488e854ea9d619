---------------------------- MODULE ShmTransfer ----------------------------
(***************************************************************************)
(* One session of the 1shmem programs: one producer and one consumer that  *)
(* are attached to the same, freshly created segment and semaphores.  Each *)
(* action is one call or one store of the code, so the two processes       *)
(* interleave between any two of them.  How processes find these objects,  *)
(* restart and crash is the subject of ShmLifecycle.                       *)
(***************************************************************************)
EXTENDS ShmBuffer, Sequences

CONSTANTS
  Inputs,         \* the directories a session may be started on
  Refused         \* names the output directory takes no file under

\* readdir lists a directory as a sequence of entries of different names.
ASSUME TransferAssumption ==
  /\ Refused \subseteq Names
  /\ \A d \in Inputs : /\ d \in Seq(DirEntry)
                       /\ \A i, j \in 1 .. Len(d) :
                             d[i].name = d[j].name => i = j

VARIABLES
  input,       \* the entries of the input directory, in readdir's order
  pos,         \* the entry that readdir returns next
  ppc, pslot,  \* the producer's next step, and its local slot
  cpc, cslot,  \* the consumer's next step, and its local slot
  slots, write_idx, read_idx,       \* the shared segment
  sem_empty, sem_full, sem_mutex,   \* the three semaphores
  log,         \* the names the consumer has reported as written
  output,      \* file name -> bytes of it stored in the output directory
  sent,        \* history: the slots the producer has put into the ring
  received     \* history: the slots the consumer has taken from the ring

dirVars  == <<input, pos>>
prodVars == <<ppc, pslot>>
consVars == <<cpc, cslot, log, output>>
ringVars == <<slots, write_idx, read_idx>>
semVars  == <<sem_empty, sem_full, sem_mutex>>
histVars == <<sent, received>>
vars == <<dirVars, prodVars, consVars, ringVars, semVars, histVars>>

ProducerSteps == {"readdir", "wait_empty", "wait_mutex", "store", "advance",
                  "post_mutex", "post_full", "done"}
ConsumerSteps == {"wait_full", "wait_mutex", "load", "advance",
                  "post_mutex", "post_empty", "write", "cleanup", "done"}

\* Nothing of this name is in the output directory.
Absent == MAX_FILESIZE + 1

Init ==
  /\ input \in Inputs /\ pos = 1
  /\ ppc = "readdir" /\ pslot = ZeroSlot
  /\ cpc = "wait_full" /\ cslot = ZeroSlot
  /\ slots = [i \in SlotIdx |-> ZeroSlot] /\ write_idx = 0 /\ read_idx = 0
  /\ sem_empty = MAX_FILES /\ sem_full = 0 /\ sem_mutex = 1
  /\ log = <<>> /\ output = [n \in Names |-> Absent]
  /\ sent = <<>> /\ received = <<>>

-----------------------------------------------------------------------------
(***************************************************************************)
(* The producer: lines 39-78 of producer.cpp.                              *)
(***************************************************************************)
PGo(from, to) == ppc = from /\ ppc' = to

\* An entry that is no regular file, or cannot be opened, is skipped.
SkipEntry ==
  /\ PGo("readdir", "readdir")
  /\ pos <= Len(input) /\ ~ Sendable(input[pos])
  /\ pos' = pos + 1
  /\ UNCHANGED <<input, pslot, consVars, ringVars, semVars, histVars>>

ReadEntry ==
  /\ PGo("readdir", "wait_empty")
  /\ pos <= Len(input) /\ Sendable(input[pos])
  /\ pslot' = SlotFor(input[pos])
  /\ pos' = pos + 1
  /\ UNCHANGED <<input, consVars, ringVars, semVars, histVars>>

\* readdir has returned null: the end marker goes through the same steps.
PrepareEof ==
  /\ PGo("readdir", "wait_empty")
  /\ pos > Len(input)
  /\ pslot' = EofSlot
  /\ UNCHANGED <<dirVars, consVars, ringVars, semVars, histVars>>

ProducerWaitEmpty ==
  /\ PGo("wait_empty", "wait_mutex")
  /\ sem_empty > 0 /\ sem_empty' = sem_empty - 1
  /\ UNCHANGED <<dirVars, pslot, consVars, ringVars, sem_full, sem_mutex,
                 histVars>>

ProducerWaitMutex ==
  /\ PGo("wait_mutex", "store")
  /\ sem_mutex > 0 /\ sem_mutex' = sem_mutex - 1
  /\ UNCHANGED <<dirVars, pslot, consVars, ringVars, sem_empty, sem_full,
                 histVars>>

StoreSlot ==
  /\ PGo("store", "advance")
  /\ slots' = [slots EXCEPT ![write_idx] = pslot]
  /\ sent' = Append(sent, pslot)
  /\ UNCHANGED <<dirVars, pslot, consVars, write_idx, read_idx, semVars,
                 received>>

AdvanceWrite ==
  /\ PGo("advance", "post_mutex")
  /\ write_idx' = Advance(write_idx)
  /\ UNCHANGED <<dirVars, pslot, consVars, slots, read_idx, semVars, histVars>>

\* Mutant of ProducerPostMutex: sem_post(sem_mutex) is forgotten.
Mut_MutexKept ==
  /\ PGo("post_mutex", "post_full")
  /\ UNCHANGED <<dirVars, pslot, consVars, ringVars, semVars, histVars>>

ProducerPostMutex ==
  /\ PGo("post_mutex", "post_full")
  /\ sem_mutex' = sem_mutex + 1
  /\ UNCHANGED <<dirVars, pslot, consVars, ringVars, sem_empty, sem_full,
                 histVars>>

ProducerPostFull ==
  /\ PGo("post_full", IF pslot.eof THEN "done" ELSE "readdir")
  /\ sem_full' = sem_full + 1
  /\ UNCHANGED <<dirVars, pslot, consVars, ringVars, sem_empty, sem_mutex,
                 histVars>>

Producer == \/ SkipEntry \/ ReadEntry \/ PrepareEof
            \/ ProducerWaitEmpty \/ ProducerWaitMutex
            \/ StoreSlot \/ AdvanceWrite
            \/ ProducerPostMutex \/ ProducerPostFull

-----------------------------------------------------------------------------
(***************************************************************************)
(* The consumer: lines 29-53 of consumer.cpp.                              *)
(***************************************************************************)
CGo(from, to) == cpc = from /\ cpc' = to

\* Mutant of ConsumerWaitFull: the consumer does not wait for a slot.
Mut_LoadUnasked ==
  /\ CGo("wait_full", "wait_mutex")
  /\ UNCHANGED <<dirVars, prodVars, cslot, log, output, ringVars, semVars,
                 histVars>>

ConsumerWaitFull ==
  /\ CGo("wait_full", "wait_mutex")
  /\ sem_full > 0 /\ sem_full' = sem_full - 1
  /\ UNCHANGED <<dirVars, prodVars, cslot, log, output, ringVars, sem_empty,
                 sem_mutex, histVars>>

ConsumerWaitMutex ==
  /\ CGo("wait_mutex", "load")
  /\ sem_mutex > 0 /\ sem_mutex' = sem_mutex - 1
  /\ UNCHANGED <<dirVars, prodVars, cslot, log, output, ringVars, sem_empty,
                 sem_full, histVars>>

LoadSlot ==
  /\ CGo("load", "advance")
  /\ cslot' = slots[read_idx]
  /\ received' = Append(received, slots[read_idx])
  /\ UNCHANGED <<dirVars, prodVars, log, output, ringVars, semVars, sent>>

\* Mutant of AdvanceRead: the read index stays.
Mut_ReadIndexKept ==
  /\ CGo("advance", "post_mutex")
  /\ UNCHANGED <<dirVars, prodVars, cslot, log, output, ringVars, semVars,
                 histVars>>

AdvanceRead ==
  /\ CGo("advance", "post_mutex")
  /\ read_idx' = Advance(read_idx)
  /\ UNCHANGED <<dirVars, prodVars, cslot, log, output, slots, write_idx,
                 semVars, histVars>>

ConsumerPostMutex ==
  /\ CGo("post_mutex", "post_empty")
  /\ sem_mutex' = sem_mutex + 1
  /\ UNCHANGED <<dirVars, prodVars, cslot, log, output, ringVars, sem_empty,
                 sem_full, histVars>>

\* Mutant of ConsumerPostEmpty: an empty file is taken for the end marker.
Mut_EmptyFileEnds ==
  /\ CGo("post_empty", IF cslot.data_len = 0 THEN "cleanup" ELSE "write")
  /\ sem_empty' = sem_empty + 1
  /\ UNCHANGED <<dirVars, prodVars, cslot, log, output, ringVars, sem_full,
                 sem_mutex, histVars>>

ConsumerPostEmpty ==
  /\ CGo("post_empty", IF cslot.eof THEN "cleanup" ELSE "write")
  /\ sem_empty' = sem_empty + 1
  /\ UNCHANGED <<dirVars, prodVars, cslot, log, output, ringVars, sem_full,
                 sem_mutex, histVars>>

\* Mutant of WriteFile: the whole data array of the slot is written.
Mut_WriteWholeSlot ==
  /\ CGo("write", "wait_full")
  /\ output' = IF cslot.filename \in Refused THEN output
               ELSE [output EXCEPT ![cslot.filename] = MAX_FILESIZE]
  /\ log' = Append(log, cslot.filename)
  /\ UNCHANGED <<dirVars, prodVars, cslot, ringVars, semVars, histVars>>

\* Neither the ofstream nor its write is checked: the name is reported as
\* written even when nothing could be stored.
WriteFile ==
  /\ CGo("write", "wait_full")
  /\ output' = IF cslot.filename \in Refused THEN output
               ELSE [output EXCEPT ![cslot.filename] = cslot.data_len]
  /\ log' = Append(log, cslot.filename)
  /\ UNCHANGED <<dirVars, prodVars, cslot, ringVars, semVars, histVars>>

\* The names of the segment and the semaphores are removed; the objects
\* live on for a producer that still has them open.
Cleanup ==
  /\ CGo("cleanup", "done")
  /\ UNCHANGED <<dirVars, prodVars, cslot, log, output, ringVars, semVars,
                 histVars>>

Consumer == \/ ConsumerWaitFull \/ ConsumerWaitMutex
            \/ LoadSlot \/ AdvanceRead
            \/ ConsumerPostMutex \/ ConsumerPostEmpty
            \/ WriteFile \/ Cleanup

-----------------------------------------------------------------------------
Next == Producer \/ Consumer

\* The kernel runs a process that is not blocked in sem_wait, eventually.
Fairness == WF_vars(Producer) /\ WF_vars(Consumer)

Spec == Init /\ [][Next]_vars /\ Fairness

-----------------------------------------------------------------------------
(***************************************************************************)
(* Properties.                                                             *)
(***************************************************************************)

\* Every variable stays in its type.
TypeOK ==
  /\ input \in Inputs /\ pos \in 1 .. Len(input) + 1
  /\ ppc \in ProducerSteps /\ pslot \in FileSlot
  /\ cpc \in ConsumerSteps /\ cslot \in FileSlot
  /\ slots \in [SlotIdx -> FileSlot]
  /\ write_idx \in SlotIdx /\ read_idx \in SlotIdx
  /\ sem_empty \in 0 .. MAX_FILES /\ sem_full \in 0 .. MAX_FILES
  /\ sem_mutex \in {0, 1}
  /\ log \in Seq(Names \cup {NoName}) /\ output \in [Names -> 0 .. Absent]
  /\ sent \in Seq(FileSlot) /\ received \in Seq(FileSlot)

Critical == {"advance", "post_mutex"}
ProducerInside == ppc \in {"store"} \cup Critical
ConsumerInside == cpc \in {"load"} \cup Critical

\* The producer holds a slot it took from sem_empty and has not yet given
\* to sem_full; the consumer the other way round.
ProducerHolds == ppc \in {"wait_mutex", "post_full"} \/ ProducerInside
ConsumerHolds == cpc \in {"wait_mutex", "post_empty"} \/ ConsumerInside

Count(b) == IF b THEN 1 ELSE 0

\* The mutex does its work: never are both processes between sem_wait(mutex)
\* and sem_post(mutex), and the semaphore says whether one of them is.
MutualExclusion ==
  sem_mutex + Count(ProducerInside) + Count(ConsumerInside) = 1

\* No slot is lost or created: the two counting semaphores and the slots in
\* the hands of the processes always add up to the ring.
SlotConservation ==
  sem_empty + sem_full + Count(ProducerHolds) + Count(ConsumerHolds)
     = MAX_FILES

\* The consumer reads exactly what the producer stored, in that order, no
\* slot twice, none overwritten before it was read.
FifoDelivery ==
  /\ Len(received) <= Len(sent)
  /\ Len(sent) - Len(received) <= MAX_FILES
  /\ \A i \in 1 .. Len(received) : received[i] = sent[i]

\* When the consumer stops and unlinks the objects, it has taken every slot
\* the producer ever stored, and the producer will store no other.
NothingLeftBehind ==
  cpc \in {"cleanup", "done"} =>
     /\ Len(received) = Len(sent)
     /\ ppc = "done"
     /\ sem_full = 0

\* At no moment has the session stored anything but regular, readable files
\* of the input directory; and a finished consumer has stored each of them
\* that the output directory does not refuse, up to the capacity of a slot.
CompleteDelivery ==
  /\ \A n \in Names : output[n] # Absent =>
        /\ n \notin Refused
        /\ \E j \in 1 .. Len(input) : Sendable(input[j]) /\ input[j].name = n
  /\ cpc \in {"cleanup", "done"} =>
        \A j \in 1 .. Len(input) :
           Sendable(input[j]) /\ input[j].name \notin Refused =>
              output[input[j].name] = SlotFor(input[j]).data_len

\* Both programs finish: neither waits for the other for ever.
Termination == <>(ppc = "done" /\ cpc = "done")

\* The session implements the bounded channel.
Channel == INSTANCE FileChannel
             WITH Capacity <- MAX_FILES, Items <- FileSlot, Eof <- EofSlot
ImplementsChannel == Channel!Spec

=============================================================================
