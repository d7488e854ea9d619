------------------------- MODULE ShmLifecycleProofs -------------------------
(***************************************************************************)
(* A mutex object of 1shmem admits one process at a time, for any number   *)
(* of producers and consumers that are started and killed anyhow, and any  *)
(* number of objects behind the one name.                                  *)
(* Every slot is taken at most once and in order, when one producer is     *)
(* started, with any consumers, killed or not, and in sessions of any      *)
(* number; and a session delivers all files of its producer and leaves no  *)
(* name behind.                                                            *)
(***************************************************************************)
EXTENDS ShmLifecycle, FiniteSetTheorems, TLAPS

\* A process between sem_wait and sem_post of the mutex has opened it, found
\* it free, and has left it taken; nobody else is in there with it.  A name
\* is never bound to, nor opened as, an object no producer created.
LockInv ==
  /\ pc \in [Procs -> Steps]
  /\ bound \in [Objects -> Producers \cup {None}]
  /\ handle \in [Procs -> [Objects -> Producers \cup {None}]]
  /\ sem \in [SemNames -> [Producers -> Nat]]
  /\ \A o \in Producers : sem["mutex"][o] \in {0, 1}
  /\ \A x \in Procs : Inside(x) =>
        /\ handle[x]["mutex"] \in Producers
        /\ sem["mutex"][handle[x]["mutex"]] = 0
  /\ MutexPerObject

LEMMA LockInit == Init => LockInv
  BY LifecycleAssumption
     DEF Init, LockInv, MutexPerObject, Inside, Steps, SemNames, InitialValue,
         Objects

\* What every step of a program but those on the mutex comes to.
LEMMA LockKept ==
  ASSUME LockInv, NEW x \in Procs, NEW from \in Steps, NEW to \in Steps,
         pc[x] = from, pc' = [pc EXCEPT ![x] = to],
         Inside(x)' => Inside(x),
         bound' \in [Objects -> Producers \cup {None}],
         handle' \in [Procs -> [Objects -> Producers \cup {None}]],
         \A y \in Procs : Inside(y) => handle'[y]["mutex"] = handle[y]["mutex"],
         sem' \in [SemNames -> [Producers -> Nat]],
         sem'["mutex"] = sem["mutex"]
  PROVE  LockInv'
  <1>1. pc' \in [Procs -> Steps]
    BY DEF LockInv
  <1>2. \A y \in Procs : Inside(y)' => Inside(y)
    BY DEF LockInv, Inside
  <1> QED
    BY <1>1, <1>2 DEF LockInv, MutexPerObject

\* sem_wait and sem_post of a semaphore other than the mutex.
LEMMA LockCounting ==
  ASSUME LockInv, NEW x \in Procs, NEW s \in {"empty", "full"},
         NEW from \in Steps, NEW to \in Steps,
         Inside(x)' => Inside(x),
         SemWait(x, s, from, to) \/ SemPost(x, s, from, to)
  PROVE  LockInv'
  <1> DEFINE o == handle[x][s]
  <1>1. o \in Producers
    BY DEF SemWait, SemPost, LockInv, Objects, SemNames
  <1>2. PICK v \in Nat : sem' = [sem EXCEPT ![s][o] = v]
    <2>1. sem[s][o] \in Nat
      BY <1>1 DEF LockInv, SemNames
    <2>2. CASE SemWait(x, s, from, to)
      BY <2>1, <2>2, sem[s][o] - 1 \in Nat DEF SemWait, SemAdd
    <2>3. CASE SemPost(x, s, from, to)
      BY <2>1, <2>3, sem[s][o] + 1 \in Nat DEF SemPost, SemAdd
    <2> QED
      BY <2>2, <2>3
  <1>3. /\ sem' \in [SemNames -> [Producers -> Nat]]
        /\ sem'["mutex"] = sem["mutex"]
    BY <1>1, <1>2 DEF LockInv, SemNames
  <1>4. /\ pc[x] = from /\ pc' = [pc EXCEPT ![x] = to]
        /\ UNCHANGED nameVars
    BY DEF SemWait, SemPost, Go
  <1> QED
    BY <1>3, <1>4, LockKept DEF nameVars, LockInv

LEMMA LockWait ==
  ASSUME LockInv, NEW x \in Procs, NEW to \in Steps,
         SemWait(x, "mutex", "wait_mutex", to)
  PROVE  LockInv'
  <1> DEFINE o == handle[x]["mutex"]
  <1>0. o \in Producers /\ sem["mutex"][o] = 1
    BY DEF SemWait, LockInv, Objects, SemNames
  <1>1. /\ sem' = [sem EXCEPT !["mutex"][o] = 0]
        /\ pc' = [pc EXCEPT ![x] = to] /\ handle' = handle /\ bound' = bound
    BY <1>0, 1 - 1 = 0 DEF SemWait, SemAdd, Go, nameVars
  <1>2. \A y \in Procs : Inside(y) => handle[y]["mutex"] # o
    BY <1>0 DEF LockInv
  <1>3. /\ sem' \in [SemNames -> [Producers -> Nat]]
        /\ sem'["mutex"][o] = 0
        /\ \A p \in Producers : p # o => sem'["mutex"][p] = sem["mutex"][p]
    BY <1>0, <1>1 DEF LockInv, SemNames
  <1>4. /\ pc' \in [Procs -> Steps]
        /\ \A y \in Procs : y # x => pc'[y] = pc[y]
    BY <1>1 DEF LockInv
  <1>5. \A y \in Procs : y # x => (Inside(y)' <=> Inside(y))
    BY <1>4 DEF Inside
  <1> QED
    BY <1>0, <1>1, <1>2, <1>3, <1>4, <1>5 DEF LockInv, MutexPerObject

LEMMA LockPost ==
  ASSUME LockInv, NEW x \in Procs, NEW to \in {"post_full", "post_empty"},
         SemPost(x, "mutex", "post_mutex", to)
  PROVE  LockInv'
  <1> DEFINE o == handle[x]["mutex"]
  <1>0. Inside(x) /\ o \in Producers /\ sem["mutex"][o] = 0
    BY DEF SemPost, Go, LockInv, Inside
  <1>1. /\ sem' = [sem EXCEPT !["mutex"][o] = 1]
        /\ pc' = [pc EXCEPT ![x] = to] /\ handle' = handle /\ bound' = bound
    BY <1>0, 0 + 1 = 1 DEF SemPost, SemAdd, Go, nameVars
  <1>2. \A y \in Procs : Inside(y) /\ y # x => handle[y]["mutex"] # o
    BY <1>0 DEF LockInv, MutexPerObject
  <1>3. /\ sem' \in [SemNames -> [Producers -> Nat]]
        /\ sem'["mutex"][o] = 1
        /\ \A p \in Producers : p # o => sem'["mutex"][p] = sem["mutex"][p]
    BY <1>0, <1>1 DEF LockInv, SemNames
  <1>4. /\ pc' \in [Procs -> Steps] /\ pc'[x] = to
        /\ \A y \in Procs : y # x => pc'[y] = pc[y]
    BY <1>1 DEF LockInv, Steps
  <1>5. /\ ~ Inside(x)'
        /\ \A y \in Procs : y # x => (Inside(y)' <=> Inside(y))
    BY <1>4 DEF Inside
  <1> QED
    BY <1>0, <1>1, <1>2, <1>3, <1>4, <1>5 DEF LockInv, MutexPerObject

LEMMA LockProducer ==
  ASSUME LockInv, NEW p \in Producers, Producer(p)
  PROVE  LockInv'
  <1>0. p \in Procs /\ None \notin Producers
    BY LifecycleAssumption DEF Procs
  <1>1. CASE ProducerOpens(p)
    <2>1. PICK o \in Objects, from \in StartUp,
               to \in StartUp \cup {"wait_empty"} :
            OpenOrCreate(p, o, from, to)
      BY <1>1 DEF ProducerOpens, Objects, SemNames, StartUp
    <2>2. /\ from \in Steps /\ to \in Steps
          /\ pc[p] = from /\ pc' = [pc EXCEPT ![p] = to]
          /\ ~ Inside(p) /\ ~ Inside(p)'
      BY <1>0, <2>1 DEF OpenOrCreate, Go, StartUp, Steps, Inside, LockInv
    <2>3. /\ bound' \in [Objects -> Producers \cup {None}]
          /\ handle' = [handle EXCEPT ![p][o] = bound'[o]]
          /\ sem' = sem
      BY <2>1 DEF OpenOrCreate, LockInv
    <2>4. handle' \in [Procs -> [Objects -> Producers \cup {None}]]
      BY <1>0, <2>1, <2>3 DEF LockInv
    <2>5. \A y \in Procs : Inside(y) => handle'[y]["mutex"] = handle[y]["mutex"]
      BY <2>2, <2>3 DEF LockInv
    <2> QED
      BY <1>0, <2>2, <2>3, <2>4, <2>5, LockKept DEF LockInv
  <1>2. CASE ResetWrite(p) \/ ResetRead(p) \/ AdvanceWrite(p) \/ StoreSlot(p)
    <2>1. PICK from \in Steps, to \in Steps : Go(p, from, to)
            /\ from \in {"store", "advance", "reset_write", "reset_read"}
            /\ (to \in {"advance", "post_mutex"} =>
                  from \in {"store", "advance"})
            /\ to \notin {"store", "load"}
      BY <1>2
         DEF ResetWrite, ResetRead, AdvanceWrite, StoreSlot, Steps, StartUp
    <2>2. Inside(p)' => Inside(p)
      BY <1>0, <2>1 DEF Inside, Go, LockInv
    <2>3. UNCHANGED <<bound, handle, sem>>
      BY <1>2 DEF ResetWrite, ResetRead, AdvanceWrite, StoreSlot, nameVars
    <2> QED
      BY <1>0, <2>1, <2>2, <2>3, LockKept DEF Go, LockInv
  <1>3. CASE SemWait(p, "empty", "wait_empty", "wait_mutex")
    <2>1. ~ Inside(p)'
      BY <1>0, <1>3 DEF SemWait, Go, Inside, LockInv
    <2> QED
      BY <1>0, <1>3, <2>1, LockCounting DEF Steps
  <1>4. CASE SemWait(p, "mutex", "wait_mutex", "store")
    BY <1>0, <1>4, LockWait DEF Steps
  <1>5. CASE ProducerPostMutex(p)
    BY <1>0, <1>5, LockPost DEF ProducerPostMutex
  <1>6. CASE ProducerPostFull(p)
    <2> DEFINE o == handle[p]["full"]
    <2>1. PICK to \in {"done", "wait_empty"} : Go(p, "post_full", to)
      BY <1>6 DEF ProducerPostFull
    <2>2. /\ sem' = [sem EXCEPT !["full"][o] = sem["full"][o] + 1]
          /\ UNCHANGED <<bound, handle>>
      BY <1>6 DEF ProducerPostFull, SemAdd, nameVars
    <2>3. /\ sem' \in [SemNames -> [Producers -> Nat]]
          /\ sem'["mutex"] = sem["mutex"]
      <3>1. CASE o \in Producers
        <4>1. sem["full"][o] + 1 \in Nat
          BY <3>1 DEF LockInv, SemNames
        <4> QED
          BY <2>2, <3>1, <4>1 DEF LockInv, SemNames
      <3>2. CASE o \notin Producers
        BY <2>2, <3>2 DEF LockInv, SemNames
      <3> QED
        BY <3>1, <3>2
    <2>4. ~ Inside(p)' /\ to \in Steps /\ "post_full" \in Steps
      BY <1>0, <2>1 DEF Inside, Go, LockInv, Steps
    <2> QED
      BY <1>0, <2>1, <2>2, <2>3, <2>4, LockKept DEF Go, LockInv
  <1> QED
    BY <1>1, <1>2, <1>3, <1>4, <1>5, <1>6 DEF Producer, ProducerWaits

LEMMA LockConsumer ==
  ASSUME LockInv, NEW c \in Consumers, Consumer(c)
  PROVE  LockInv'
  <1>0. c \in Procs
    BY DEF Procs
  <1>1. CASE ConsumerOpens(c)
    <2>1. PICK o \in Objects, from \in StartUp,
               to \in StartUp \cup {"wait_full"} :
            Open(c, o, from, to)
      BY <1>1 DEF ConsumerOpens, Objects, SemNames, StartUp
    <2>2. /\ from \in Steps /\ to \in Steps
          /\ pc[c] = from /\ pc' = [pc EXCEPT ![c] = to]
          /\ ~ Inside(c) /\ ~ Inside(c)'
      BY <1>0, <2>1 DEF Open, Go, StartUp, Steps, Inside, LockInv
    <2>3. /\ bound' = bound /\ sem' = sem
          /\ handle' = [handle EXCEPT ![c][o] = bound[o]]
      BY <2>1 DEF Open
    <2>4. handle' \in [Procs -> [Objects -> Producers \cup {None}]]
      BY <1>0, <2>1, <2>3 DEF LockInv
    <2>5. \A y \in Procs : Inside(y) => handle'[y]["mutex"] = handle[y]["mutex"]
      BY <2>2, <2>3 DEF LockInv
    <2> QED
      BY <1>0, <2>2, <2>3, <2>4, <2>5, LockKept DEF LockInv
  <1>2. CASE LoadSlot(c) \/ AdvanceRead(c) \/ WriteFile(c)
    <2>1. PICK from \in {"load", "advance", "write"},
               to \in {"advance", "post_mutex", "wait_full"} :
            Go(c, from, to) /\ (to # "wait_full" => from # "write")
      BY <1>2 DEF LoadSlot, AdvanceRead, WriteFile
    <2>2. Inside(c)' => Inside(c)
      BY <1>0, <2>1 DEF Inside, Go, LockInv
    <2>3. UNCHANGED <<bound, handle, sem>>
      BY <1>2 DEF LoadSlot, AdvanceRead, WriteFile, nameVars
    <2> QED
      BY <1>0, <2>1, <2>2, <2>3, LockKept DEF Go, LockInv, Steps
  <1>3. CASE \E o \in Objects :
               \E from, to \in {"unlink_shm", "unlink_empty", "unlink_full",
                                "unlink_mutex", "done"} : Unlink(c, o, from, to)
    <2>1. PICK o \in Objects,
               from \in {"unlink_shm", "unlink_empty", "unlink_full",
                         "unlink_mutex", "done"},
               to \in {"unlink_shm", "unlink_empty", "unlink_full",
                       "unlink_mutex", "done"} : Unlink(c, o, from, to)
      BY <1>3
    <2>2. /\ Go(c, from, to) /\ ~ Inside(c)'
          /\ from \in Steps /\ to \in Steps
      BY <1>0, <2>1 DEF Unlink, Go, Inside, LockInv, Steps
    <2>3. /\ bound' \in [Objects -> Producers \cup {None}]
          /\ UNCHANGED <<handle, sem>>
      BY <2>1 DEF Unlink, LockInv
    <2> QED
      BY <1>0, <2>2, <2>3, LockKept DEF Go, LockInv
  <1>4. CASE SemWait(c, "full", "wait_full", "wait_mutex")
    <2>1. ~ Inside(c)'
      BY <1>0, <1>4 DEF SemWait, Go, Inside, LockInv
    <2> QED
      BY <1>0, <1>4, <2>1, LockCounting DEF Steps
  <1>5. CASE SemWait(c, "mutex", "wait_mutex", "load")
    BY <1>0, <1>5, LockWait DEF Steps
  <1>6. CASE SemPost(c, "mutex", "post_mutex", "post_empty")
    BY <1>0, <1>6, LockPost
  <1>7. CASE \E to \in {"unlink_shm", "write"} :
               SemPost(c, "empty", "post_empty", to)
    <2>1. PICK to \in {"unlink_shm", "write"} :
            SemPost(c, "empty", "post_empty", to)
      BY <1>7
    <2>2. ~ Inside(c)'
      BY <1>0, <2>1 DEF SemPost, Go, Inside, LockInv
    <2> QED
      BY <1>0, <2>1, <2>2, LockCounting DEF Steps
  <1>8. CASE Segfault(c)
    <2>1. Go(c, pc[c], "fault") /\ UNCHANGED <<bound, handle, sem>>
      BY <1>8 DEF Segfault, nameVars
    <2>2. ~ Inside(c)' /\ pc[c] \in Steps /\ "fault" \in Steps
      BY <1>0, <2>1 DEF Go, Inside, LockInv, Steps
    <2> QED
      BY <1>0, <2>1, <2>2, LockKept DEF Go, LockInv
  <1> QED
    BY <1>1, <1>2, <1>3, <1>4, <1>5, <1>6, <1>7, <1>8
       DEF Consumer, ConsumerWaits, ConsumerPosts, ConsumerUnlinks, Objects,
           SemNames

LEMMA LockLaunch ==
  ASSUME LockInv, NEW x \in Procs, Start(x) \/ Crash(x) \/ UNCHANGED vars
  PROVE  LockInv'
  <1>1. CASE Start(x)
    <2>1. /\ pc' = [pc EXCEPT ![x] = "open_shm"] /\ "open_shm" \in Steps
          /\ UNCHANGED <<bound, handle, sem>>
      BY <1>1 DEF Start, nameVars, Steps, StartUp
    <2>2. ~ Inside(x)' /\ pc[x] \in Steps
      BY <2>1 DEF Inside, LockInv
    <2> QED
      BY <2>1, <2>2, LockKept DEF LockInv
  <1>2. CASE Crash(x) \/ UNCHANGED vars
    <2>1. UNCHANGED <<pc, bound, handle, sem>>
      BY <1>2 DEF Crash, vars, nameVars
    <2> QED
      BY <2>1 DEF LockInv, MutexPerObject, Inside
  <1> QED
    BY <1>1, <1>2

LEMMA LockStep == LockInv /\ [Next]_vars => LockInv'
  <1> SUFFICES ASSUME LockInv, [Next]_vars PROVE LockInv'
    OBVIOUS
  <1>1. CASE UNCHANGED vars
    BY <1>1 DEF LockInv, MutexPerObject, Inside, vars, nameVars
  <1> QED
    BY <1>1, LockLaunch, LockProducer, LockConsumer DEF Next, Step

\* However many producers and consumers are started, killed and started
\* again, and whatever becomes of the names meanwhile: no two processes are
\* between sem_wait and sem_post of the same mutex object.
THEOREM MutexCorrect == Spec => []MutexPerObject
  BY LockStep, LockInit, PTL DEF Spec, LockInv

-----------------------------------------------------------------------------
\* Every variable stays in its type.

\* The types that LockInv does not name; a producer sends no file after its
\* end marker, and finitely many processes have been started.
RingTypes ==
  /\ windex \in [Producers -> SlotIdx] /\ rindex \in [Producers -> SlotIdx]
  /\ slots \in [Producers -> [SlotIdx -> Slot \cup {Blank}]]
  /\ nr \in [Producers -> Nat]
  /\ \A p \in Producers : nr[p] \in 1 .. FilesOf[p] + 1
  /\ item \in [Consumers -> Slot \cup {Blank}]
  /\ written \in [Consumers -> Seq(Slot \cup {Blank})]
  /\ stored \in [Producers -> Seq(Slot)]
  /\ taken \in [Producers -> Seq(Slot \cup {Blank})]
  /\ user \in Users /\ crashed \in SUBSET Procs
  /\ IsFiniteSet(Started(Procs))

LEMMA AdvanceValue ==
  ASSUME NEW i \in SlotIdx
  PROVE  /\ Advance(i) \in SlotIdx
         /\ Advance(i) = IF i + 1 < MAX_FILES THEN i + 1 ELSE 0
  BY LifecycleAssumption, SMT DEF SlotIdx, Advance

LEMMA TypesInit == Init => RingTypes
  <1> SUFFICES ASSUME Init PROVE RingTypes
    OBVIOUS
  <1>1. /\ 0 \in SlotIdx /\ Blank \in Slot \cup {Blank}
        /\ \A p \in Producers : 1 \in 1 .. FilesOf[p] + 1
    BY LifecycleAssumption DEF SlotIdx
  <1>2. Started(Procs) = {}
    BY DEF Init, Started
  <1>3. IsFiniteSet(Started(Procs))
    BY <1>2, FS_EmptySet
  <1>4. /\ <<>> \in Seq(Slot) /\ <<>> \in Seq(Slot \cup {Blank})
    OBVIOUS
  <1> QED
    BY <1>1, <1>3, <1>4 DEF Init, RingTypes, Procs

\* Only finitely many processes have ever been started.
LEMMA FiniteKept ==
  ASSUME NEW x \in Procs, pc \in [Procs -> Steps], IsFiniteSet(Started(Procs)),
         NEW to, pc' = [pc EXCEPT ![x] = to]
  PROVE  IsFiniteSet(Started(Procs)')
  <1>1. Started(Procs)' \subseteq Started(Procs) \cup {x}
    BY DEF Started
  <1>2. IsFiniteSet(Started(Procs) \cup {x})
    BY FS_AddElement
  <1> QED
    BY <1>1, <1>2, FS_Subset

LEMMA TypesProducer ==
  ASSUME LockInv, RingTypes, NEW p \in Producers, Producer(p), UNCHANGED user
  PROVE  RingTypes'
  <1>0. p \in Procs
    BY DEF Procs
  <1>1. /\ IsFiniteSet(Started(Procs)') /\ crashed' = crashed
    <2>1. PICK from, to : Go(p, from, to)
      BY DEF Producer, ProducerOpens, OpenOrCreate, ResetWrite, ResetRead,
             ProducerWaits, StoreSlot, AdvanceWrite, ProducerPostMutex,
             ProducerPostFull, SemWait, SemPost
    <2> QED
      BY <1>0, <2>1, FiniteKept DEF Go, LockInv, RingTypes
  <1>2. CASE ProducerOpens(p) \/ ProducerWaits(p) \/ ProducerPostMutex(p)
    <2>1. UNCHANGED <<ringVars, workVars, histVars>>
      BY <1>2 DEF ProducerOpens, OpenOrCreate, ProducerWaits, SemWait,
                  ProducerPostMutex, SemPost
    <2> QED
      BY <1>1, <2>1 DEF RingTypes, ringVars, workVars, histVars
  <1>3. CASE ResetWrite(p) \/ ResetRead(p)
    <2>1. 0 \in SlotIdx
      BY LifecycleAssumption DEF SlotIdx
    <2>2. /\ windex' \in [Producers -> SlotIdx]
          /\ rindex' \in [Producers -> SlotIdx]
          /\ UNCHANGED <<slots, workVars, histVars>>
      BY <1>3, <2>1 DEF ResetWrite, ResetRead, RingTypes
    <2> QED
      BY <1>1, <2>2 DEF RingTypes, workVars, histVars
  <1>4. CASE StoreSlot(p)
    <2> DEFINE b == handle[p]["shm"]  s == <<p, nr[p]>>
    <2>1. s \in Slot
      BY DEF RingTypes, Slot
    <2>2. CASE b \in Producers
      <3>1. slots' \in [Producers -> [SlotIdx -> Slot \cup {Blank}]]
        BY <1>4, <2>1, <2>2 DEF StoreSlot, RingTypes
      <3>2. Append(stored[b], s) \in Seq(Slot)
        BY <2>1, <2>2 DEF RingTypes
      <3>3. stored' \in [Producers -> Seq(Slot)]
        BY <1>4, <2>2, <3>2 DEF StoreSlot, RingTypes
      <3> QED
        BY <1>1, <1>4, <3>1, <3>3 DEF StoreSlot, RingTypes, workVars
    <2>3. CASE b \notin Producers
      <3>1. slots' = slots /\ stored' = stored
        BY <1>4, <2>3 DEF StoreSlot, RingTypes
      <3> QED
        BY <1>1, <1>4, <3>1 DEF StoreSlot, RingTypes, workVars
    <2> QED
      BY <2>2, <2>3
  <1>5. CASE AdvanceWrite(p)
    <2> DEFINE b == handle[p]["shm"]
    <2>1. windex' \in [Producers -> SlotIdx]
      <3>1. CASE b \in Producers
        BY <1>5, <3>1, AdvanceValue DEF AdvanceWrite, RingTypes
      <3>2. CASE b \notin Producers
        BY <1>5, <3>2 DEF AdvanceWrite, RingTypes
      <3> QED
        BY <3>1, <3>2
    <2> QED
      BY <1>1, <1>5, <2>1 DEF AdvanceWrite, RingTypes, workVars, histVars
  <1>6. CASE ProducerPostFull(p)
    <2>1. PICK n \in 1 .. FilesOf[p] + 1 : nr' = [nr EXCEPT ![p] = n]
      <3>1. nr[p] \in 1 .. FilesOf[p] + 1 /\ FilesOf[p] \in Nat
        BY LifecycleAssumption DEF RingTypes
      <3>2. IsEof(<<p, nr[p]>>) <=> nr[p] = FilesOf[p] + 1
        BY DEF IsEof
      <3>3. (IF IsEof(<<p, nr[p]>>) THEN nr[p] ELSE nr[p] + 1)
               \in 1 .. FilesOf[p] + 1
        BY <3>1, <3>2
      <3> QED
        BY <1>6, <3>3 DEF ProducerPostFull
    <2>2. UNCHANGED <<ringVars, item, written, histVars>>
      BY <1>6 DEF ProducerPostFull
    <2> QED
      BY <1>1, <2>1, <2>2, LifecycleAssumption DEF RingTypes, ringVars, histVars
  <1> QED
    BY <1>2, <1>3, <1>4, <1>5, <1>6 DEF Producer

LEMMA TypesConsumer ==
  ASSUME LockInv, RingTypes, NEW c \in Consumers, Consumer(c), UNCHANGED user
  PROVE  RingTypes'
  <1>0. c \in Procs
    BY DEF Procs
  <1>1. /\ IsFiniteSet(Started(Procs)') /\ crashed' = crashed
    <2>1. PICK from, to : Go(c, from, to)
      BY DEF Consumer, ConsumerOpens, Open, ConsumerWaits, LoadSlot,
             AdvanceRead, ConsumerPosts, WriteFile, ConsumerUnlinks, Unlink,
             Segfault, SemWait, SemPost
    <2> QED
      BY <1>0, <2>1, FiniteKept DEF Go, LockInv, RingTypes
  <1>2. CASE \/ ConsumerOpens(c) \/ ConsumerWaits(c) \/ ConsumerPosts(c)
             \/ ConsumerUnlinks(c) \/ Segfault(c)
    <2>1. UNCHANGED <<ringVars, workVars, histVars>>
      BY <1>2 DEF ConsumerOpens, Open, ConsumerWaits, SemWait, ConsumerPosts,
                  SemPost, ConsumerUnlinks, Unlink, Segfault
    <2> QED
      BY <1>1, <2>1 DEF RingTypes, ringVars, workVars, histVars
  <1>3. CASE LoadSlot(c)
    <2> DEFINE b == handle[c]["shm"]
    <2>1. b \in Producers
      BY <1>0, <1>3 DEF LoadSlot, LockInv, Objects
    <2>2. PICK s \in Slot \cup {Blank} : s = slots[b][rindex[b]]
      BY <2>1 DEF RingTypes
    <2>3. item' = [item EXCEPT ![c] = s]
      BY <1>3, <2>2 DEF LoadSlot
    <2>4. Append(taken[b], s) \in Seq(Slot \cup {Blank})
      BY <2>1 DEF RingTypes
    <2>5. taken' = [taken EXCEPT ![b] = Append(taken[b], s)]
      BY <1>3, <2>2 DEF LoadSlot
    <2>6. /\ item' \in [Consumers -> Slot \cup {Blank}]
          /\ taken' \in [Producers -> Seq(Slot \cup {Blank})]
      BY <2>1, <2>3, <2>4, <2>5 DEF RingTypes
    <2> QED
      BY <1>1, <1>3, <2>6 DEF LoadSlot, RingTypes, ringVars
  <1>4. CASE AdvanceRead(c)
    <2> DEFINE b == handle[c]["shm"]
    <2>1. rindex' \in [Producers -> SlotIdx]
      <3>1. CASE b \in Producers
        BY <1>4, <3>1, AdvanceValue DEF AdvanceRead, RingTypes
      <3>2. CASE b \notin Producers
        BY <1>4, <3>2 DEF AdvanceRead, RingTypes
      <3> QED
        BY <3>1, <3>2
    <2> QED
      BY <1>1, <1>4, <2>1 DEF AdvanceRead, RingTypes, workVars, histVars
  <1>5. CASE WriteFile(c)
    <2>1. Append(written[c], item[c]) \in Seq(Slot \cup {Blank})
      BY DEF RingTypes
    <2>2. written' \in [Consumers -> Seq(Slot \cup {Blank})]
      BY <1>5, <2>1 DEF WriteFile, RingTypes
    <2> QED
      BY <1>1, <1>5, <2>2 DEF WriteFile, RingTypes, ringVars, histVars
  <1> QED
    BY <1>2, <1>3, <1>4, <1>5 DEF Consumer

LEMMA TypesLaunch ==
  ASSUME LockInv, RingTypes, NEW x \in Procs, Start(x) \/ Crash(x),
         UNCHANGED user
  PROVE  RingTypes'
  <1>1. UNCHANGED <<ringVars, workVars, histVars>>
    BY DEF Start, Crash
  <1>2. CASE Start(x)
    <2>1. IsFiniteSet(Started(Procs)')
      BY <1>2, FiniteKept DEF Start, LockInv, RingTypes
    <2> QED
      BY <1>1, <1>2, <2>1 DEF Start, RingTypes, ringVars, workVars, histVars
  <1>3. CASE Crash(x)
    <2>1. Started(Procs)' = Started(Procs) /\ crashed' \in SUBSET Procs
      BY <1>3 DEF Crash, Started, RingTypes
    <2> QED
      BY <1>1, <2>1 DEF RingTypes, ringVars, workVars, histVars
  <1> QED
    BY <1>2, <1>3

LEMMA TypesStep == LockInv /\ RingTypes /\ [Next]_vars => RingTypes'
  <1> SUFFICES ASSUME LockInv, RingTypes, [Next]_vars PROVE RingTypes'
    OBVIOUS
  <1>1. CASE UNCHANGED vars
    BY <1>1 DEF RingTypes, vars, ringVars, workVars, histVars, Started
  <1> QED
    BY <1>1, TypesLaunch, TypesProducer, TypesConsumer DEF Next, Step

\* Every variable stays in its type, whatever the users do.
THEOREM TypesCorrect == Spec => []TypeOK
  <1>1. LockInv /\ RingTypes => TypeOK
    BY DEF LockInv, RingTypes, TypeOK
  <1> QED
    BY LockStep, TypesStep, <1>1, LockInit, TypesInit, PTL DEF Spec

-----------------------------------------------------------------------------
\* The ring of a producer, as far as it is in the hands of others: semaphores
\* are not robust, so what a killed process was about to do counts as still to
\* be done.

\* The steps at which a process has not opened the name yet.
Before(o) ==
  {"off", "open_shm"}
  \cup (IF o = "shm" THEN {} ELSE {"reset_write", "reset_read", "open_empty"})
  \cup (IF o \in {"full", "mutex"} THEN {"open_full"} ELSE {})
  \cup (IF o = "mutex" THEN {"open_mutex"} ELSE {})

Opened(x, o) == pc[x] \notin Before(o)

\* A producer has opened its own objects only, and a consumer the objects of
\* one producer only.
Apart ==
  /\ \A p \in Producers, o \in Objects :
        handle[p][o] = IF Opened(p, o) THEN p ELSE None
  /\ \A c \in Consumers, o1, o2 \in Objects :
        handle[c][o1] # None /\ handle[c][o2] # None
        => handle[c][o1] = handle[c][o2]

\* Those who have opened an object of b, those of them at a step of W, and
\* how many they are.
Of(b) == {c \in Consumers : \E o \in Objects : handle[c][o] = b}
In(b, W) == {c \in Of(b) : pc[c] \in W}
Count(b, W) == Cardinality(In(b, W))
\* The steps at which a consumer has claimed a filled slot and not yet taken it;
\* at which it has taken one and not yet given the place back; at which a
\* producer has reserved a place, or stored in it and not yet announced it.
Claiming == {"wait_mutex", "load"}
Advancing == {"advance"}
Owing == {"advance", "post_mutex", "post_empty"}
Reserving == {"wait_mutex", "store"}
Posting == {"advance", "post_mutex", "post_full"}

\* What is stored and not taken, and where the first of it and the next place
\* are once an index that is about to be advanced has been.
Held(b) == Len(stored[b]) - Len(taken[b])
Wrap(i) == IF i < MAX_FILES THEN i ELSE i - MAX_FILES
Front(b) == IF In(b, Advancing) # {} THEN Advance(rindex[b]) ELSE rindex[b]
Rear(b) == IF pc[b] = "advance" THEN Advance(windex[b]) ELSE windex[b]

\* The semaphores never promise more than there is: filled slots that can be
\* claimed, and places that can be reserved.
RingCounts(b) ==
  /\ sem["full"][b] + Count(b, Claiming)
       + (IF pc[b] \in Posting THEN 1 ELSE 0) <= Held(b)
  /\ sem["empty"][b] + Count(b, Owing) + Held(b)
       + (IF pc[b] \in Reserving THEN 1 ELSE 0) <= MAX_FILES

\* What is held is in the slots from the front on, in its order.
RingPlaces(b) ==
  /\ Rear(b) = Wrap(Front(b) + Held(b))
  /\ \A k \in 0 .. Held(b) - 1 :
        slots[b][Wrap(Front(b) + k)] = stored[b][Len(taken[b]) + k + 1]

\* What was stored are the files of b in their order, and what was taken is a
\* beginning of it.
RingHistory(b) ==
  /\ \A i \in 1 .. Len(taken[b]) : taken[b][i] = stored[b][i]
  /\ \A i \in 1 .. Len(stored[b]) : stored[b][i] = <<b, i>>
  /\ Len(stored[b]) + 1
       = nr[b] + (IF pc[b] \in Posting \cup {"done"} THEN 1 ELSE 0)
  /\ pc[b] = "done" => nr[b] = FilesOf[b] + 1

\* Until the semaphores are there, nothing was stored: resetting the indices
\* then changes nothing.
RingFresh(b) ==
  pc[b] \in StartUp \cup {"off"} =>
     stored[b] = <<>> /\ windex[b] = 0 /\ rindex[b] = 0

RingOf(b) == RingCounts(b) /\ RingPlaces(b) /\ RingHistory(b) /\ RingFresh(b)
RingInv == \A b \in Producers : RingOf(b)

-----------------------------------------------------------------------------
LEMMA Counted ==
  ASSUME RingTypes, NEW b \in Producers, NEW W, "off" \notin W
  PROVE  IsFiniteSet(In(b, W)) /\ Count(b, W) \in Nat
  <1>1. In(b, W) \subseteq Started(Procs)
    BY DEF In, Of, Started, Procs
  <1>2. IsFiniteSet(In(b, W))
    BY <1>1, FS_Subset DEF RingTypes
  <1> QED
    BY <1>2, FS_CardinalityType DEF Count

\* A step of a process that opens nothing.
Moves(c, to) == handle' = handle /\ pc' = [pc EXCEPT ![c] = to]

LEMMA CountMoves ==
  ASSUME LockInv, RingTypes, NEW c \in Consumers, NEW to,
         Moves(c, to), NEW b \in Producers, NEW W, "off" \notin W
  PROVE  /\ c \notin Of(b) => In(b, W)' = In(b, W)
         /\ (pc[c] \in W <=> to \in W) => In(b, W)' = In(b, W)
         /\ c \notin Of(b) \/ (pc[c] \in W <=> to \in W)
            => Count(b, W)' = Count(b, W)
         /\ c \in Of(b) /\ pc[c] \in W /\ to \notin W
            => Count(b, W)' = Count(b, W) - 1
         /\ c \in Of(b) /\ pc[c] \notin W /\ to \in W
            => Count(b, W)' = Count(b, W) + 1
  <1>1. /\ c \in Procs /\ pc \in [Procs -> Steps]
        /\ handle' = handle /\ pc' = [pc EXCEPT ![c] = to]
    BY DEF LockInv, Procs, Moves
  <1>2. Of(b)' = Of(b) /\ Of(b) \subseteq Procs
    BY <1>1 DEF Of, Procs
  <1>3. \A d \in Procs : pc'[d] = IF d = c THEN to ELSE pc[d]
    BY <1>1
  <1>4. /\ c \notin Of(b) => In(b, W)' = In(b, W)
        /\ (pc[c] \in W <=> to \in W) => In(b, W)' = In(b, W)
    BY <1>2, <1>3 DEF In
  <1>5. IsFiniteSet(In(b, W))
    BY Counted
  <1>6. ASSUME c \in Of(b), pc[c] \in W, to \notin W
        PROVE  Count(b, W)' = Count(b, W) - 1
    <2>1. In(b, W)' = In(b, W) \ {c} /\ c \in In(b, W)
      BY <1>1, <1>2, <1>3, <1>6 DEF In
    <2> QED
      BY <2>1, <1>5, FS_RemoveElement DEF Count
  <1>7. ASSUME c \in Of(b), pc[c] \notin W, to \in W
        PROVE  Count(b, W)' = Count(b, W) + 1
    <2>1. In(b, W)' = In(b, W) \cup {c} /\ c \notin In(b, W)
      BY <1>1, <1>2, <1>3, <1>7 DEF In
    <2> QED
      BY <2>1, <1>5, FS_AddElement DEF Count
  <1> QED
    BY <1>4, <1>6, <1>7 DEF Count

\* What a step leaves alone of the ring of b.
Untouched(b) ==
  /\ sem'["full"][b] = sem["full"][b] /\ sem'["empty"][b] = sem["empty"][b]
  /\ windex'[b] = windex[b] /\ rindex'[b] = rindex[b]
  /\ slots'[b] = slots[b] /\ nr'[b] = nr[b]
  /\ stored'[b] = stored[b] /\ taken'[b] = taken[b]

SameStage(b) ==
  /\ pc'[b] \in Posting <=> pc[b] \in Posting
  /\ pc'[b] \in Reserving <=> pc[b] \in Reserving
  /\ pc'[b] = "advance" <=> pc[b] = "advance"
  /\ pc'[b] = "done" <=> pc[b] = "done"
  /\ pc'[b] \in StartUp \cup {"off"} => pc[b] \in StartUp \cup {"off"}

SameUsers(b) ==
  /\ In(b, Claiming)' = In(b, Claiming)
  /\ In(b, Owing)' = In(b, Owing)
  /\ In(b, Advancing)' = In(b, Advancing)

LEMMA RingKept ==
  ASSUME NEW b \in Producers, RingOf(b),
         Untouched(b), SameStage(b), SameUsers(b)
  PROVE  RingOf(b)'
  <1>1. /\ Count(b, Claiming)' = Count(b, Claiming)
        /\ Count(b, Owing)' = Count(b, Owing)
    BY DEF SameUsers, Count
  <1>2. Held(b)' = Held(b)
    BY DEF Untouched, Held
  <1>3. Front(b)' = Front(b) /\ Rear(b)' = Rear(b)
    BY DEF Untouched, SameStage, SameUsers, Front, Rear
  <1>4. RingCounts(b)'
    <2>1. RingCounts(b)
      BY DEF RingOf
    <2> QED
      BY <1>1, <1>2, <2>1 DEF RingCounts, Untouched, SameStage
  <1>5. RingPlaces(b)'
    BY <1>2, <1>3 DEF RingOf, RingPlaces, Untouched
  <1>6. RingHistory(b)'
    BY DEF RingOf, RingHistory, Untouched, SameStage
  <1>7. RingFresh(b)'
    BY DEF RingOf, RingFresh, Untouched, SameStage
  <1> QED
    BY <1>4, <1>5, <1>6, <1>7 DEF RingOf

LEMMA RingInit == Init => RingInv
  <1> SUFFICES ASSUME Init, NEW b \in Producers PROVE RingOf(b)
    BY DEF RingInv
  <1>1. \A W : "off" \notin W => In(b, W) = {}
    BY DEF Init, In, Of, Procs
  <1>2. Count(b, Claiming) = 0 /\ Count(b, Owing) = 0 /\ In(b, Advancing) = {}
    BY <1>1, FS_EmptySet DEF Count, Claiming, Owing, Advancing
  <1>3. pc[b] = "off"
    BY DEF Init, Procs
  <1>4. stored[b] = <<>> /\ taken[b] = <<>> /\ Held(b) = 0
    BY DEF Init, Held
  <1>5. sem["full"][b] = 0 /\ sem["empty"][b] = MAX_FILES
          /\ MAX_FILES \in Nat \ {0}
    BY LifecycleAssumption DEF Init, SemNames, InitialValue
  <1>6. RingCounts(b)
    BY <1>2, <1>3, <1>4, <1>5 DEF RingCounts, Posting, Reserving
  <1>7. RingPlaces(b)
    BY <1>2, <1>3, <1>4, <1>5 DEF RingPlaces, Front, Rear, Wrap, Init
  <1>8. RingHistory(b)
    BY <1>3, <1>4 DEF RingHistory, Posting, Init
  <1>9. RingFresh(b)
    BY <1>4 DEF RingFresh, Init
  <1> QED
    BY <1>6, <1>7, <1>8, <1>9 DEF RingOf

-----------------------------------------------------------------------------
\* What a consumer does to a ring, step by step.

\* A consumer uses the objects of one producer only.
LEMMA OneOwner ==
  ASSUME Apart, NEW c \in Consumers, NEW o \in Objects, NEW b \in Producers,
         handle[c][o] = b
  PROVE  c \in Of(b) /\ \A q \in Producers : q # b => c \notin Of(q)
  BY LifecycleAssumption DEF Apart, Of

\* A step of a consumer leaves the stage of every producer.
LEMMA StageKept ==
  ASSUME LockInv, NEW c \in Consumers, NEW to, pc' = [pc EXCEPT ![c] = to],
         NEW b \in Producers
  PROVE  pc'[b] = pc[b] /\ SameStage(b)
  BY LifecycleAssumption DEF LockInv, SameStage, Procs

\* A step that moves a consumer within or outside what is counted.
LEMMA UsersKept ==
  ASSUME LockInv, RingTypes, NEW c \in Consumers, NEW to,
         Moves(c, to), NEW b \in Producers,
         \/ c \notin Of(b)
         \/ /\ pc[c] \in Claiming <=> to \in Claiming
            /\ pc[c] \in Owing <=> to \in Owing
            /\ pc[c] = "advance" <=> to = "advance"
  PROVE  SameUsers(b)
  <1>1. /\ "off" \notin Claiming /\ "off" \notin Owing /\ "off" \notin Advancing
        /\ pc[c] = "advance" <=> pc[c] \in Advancing
        /\ to = "advance" <=> to \in Advancing
    BY DEF Claiming, Owing, Advancing
  <1>2. In(b, Claiming)' = In(b, Claiming)
    BY <1>1, CountMoves
  <1>3. In(b, Owing)' = In(b, Owing)
    BY <1>1, CountMoves
  <1>4. In(b, Advancing)' = In(b, Advancing)
    BY <1>1, CountMoves
  <1> QED
    BY <1>2, <1>3, <1>4 DEF SameUsers

LEMMA RingConsumerOpens ==
  ASSUME LockInv, RingTypes, RingInv, NEW c \in Consumers, ConsumerOpens(c),
         NEW b \in Producers
  PROVE  RingOf(b)'
  <1>1. PICK o \in Objects, from \in StartUp,
             to \in StartUp \cup {"wait_full"} :
          Open(c, o, from, to)
    BY DEF ConsumerOpens, Objects, SemNames, StartUp
  <1>2. /\ pc[c] = from /\ pc' = [pc EXCEPT ![c] = to]
        /\ handle' = [handle EXCEPT ![c][o] = bound[o]]
        /\ UNCHANGED <<sem, ringVars, workVars, histVars>>
    BY <1>1 DEF Open, Go
  <1>3. \A d \in Consumers : d # c => handle'[d] = handle[d] /\ pc'[d] = pc[d]
    BY <1>2 DEF LockInv, Procs
  <1>4. c \in Procs /\ pc'[c] = to
    BY <1>2 DEF LockInv, Procs
  <1>5. ASSUME NEW W, W \cap (StartUp \cup {"wait_full"}) = {}
        PROVE  In(b, W)' = In(b, W)
    <2>1. pc[c] \notin W /\ pc'[c] \notin W
      BY <1>2, <1>4, <1>5
    <2> QED
      BY <1>3, <2>1 DEF In, Of
  <1>6. SameUsers(b)
    <2>1. /\ Claiming \cap (StartUp \cup {"wait_full"}) = {}
          /\ Owing \cap (StartUp \cup {"wait_full"}) = {}
          /\ Advancing \cap (StartUp \cup {"wait_full"}) = {}
      BY DEF Claiming, Owing, Advancing, StartUp
    <2> QED
      BY <1>5, <2>1 DEF SameUsers
  <1>7. Untouched(b) /\ SameStage(b)
    BY <1>2, StageKept DEF Untouched, ringVars, workVars, histVars
  <1> QED
    BY <1>6, <1>7, RingKept DEF RingInv

\* Counting facts in the form in which a change of one of them is added up.
LEMMA CountTypes ==
  ASSUME LockInv, RingTypes, NEW b \in Producers
  PROVE  /\ Count(b, Claiming) \in Nat /\ Count(b, Owing) \in Nat
         /\ Held(b) \in Int
         /\ Len(stored[b]) \in Nat /\ Len(taken[b]) \in Nat
         /\ sem["full"][b] \in Nat /\ sem["empty"][b] \in Nat
         /\ MAX_FILES \in Nat
  <1>1. "off" \notin Claiming /\ "off" \notin Owing
    BY DEF Claiming, Owing, Advancing
  <1>2. Count(b, Claiming) \in Nat /\ Count(b, Owing) \in Nat
    BY <1>1, Counted
  <1>3. Len(stored[b]) \in Nat /\ Len(taken[b]) \in Nat
    BY DEF RingTypes
  <1> QED
    BY <1>2, <1>3, LifecycleAssumption DEF Held, LockInv, SemNames

\* Only the counts of b change.
LEMMA RingRecounted ==
  ASSUME NEW b \in Producers, RingOf(b), SameStage(b), RingCounts(b)',
         In(b, Advancing)' = In(b, Advancing),
         UNCHANGED <<ringVars, nr, histVars>>
  PROVE  RingOf(b)'
  <1>1. Held(b)' = Held(b)
    BY DEF Held, histVars
  <1>2. Front(b)' = Front(b) /\ Rear(b)' = Rear(b)
    BY DEF SameStage, Front, Rear, ringVars
  <1>3. RingPlaces(b)'
    BY <1>1, <1>2 DEF RingOf, RingPlaces, ringVars, histVars
  <1>4. RingHistory(b)' /\ RingFresh(b)'
    BY DEF RingOf, RingHistory, RingFresh, SameStage, ringVars, histVars
  <1> QED
    BY <1>3, <1>4 DEF RingOf

LEMMA RingConsumerWaits ==
  ASSUME LockInv, RingTypes, Apart, RingInv, NEW c \in Consumers,
         ConsumerWaits(c), NEW b \in Producers
  PROVE  RingOf(b)'
  <1>0. c \in Procs
    BY DEF Procs
  <1>1. CASE SemWait(c, "full", "wait_full", "wait_mutex")
    <2> DEFINE o == handle[c]["full"]
    <2>1. /\ o \in Producers /\ pc[c] = "wait_full" /\ sem["full"][o] > 0
          /\ pc' = [pc EXCEPT ![c] = "wait_mutex"] /\ Moves(c, "wait_mutex")
          /\ handle' = handle /\ UNCHANGED <<ringVars, workVars, histVars>>
          /\ sem' = [sem EXCEPT !["full"][o] = sem["full"][o] - 1]
      BY <1>0, <1>1 DEF SemWait, Go, SemAdd, LockInv, Objects, SemNames,
         nameVars, Moves
    <2>2. c \in Of(o) /\ \A q \in Producers : q # o => c \notin Of(q)
      BY <2>1, OneOwner DEF Objects, SemNames
    <2>3. SameStage(b)
      BY <2>1, StageKept
    <2>4. /\ sem'["empty"] = sem["empty"]
          /\ sem'["full"] = [sem["full"] EXCEPT ![o] = sem["full"][o] - 1]
      BY <2>1 DEF LockInv, SemNames
    <2>5. CASE b # o
      <3>1. SameUsers(b)
        BY <2>1, <2>2, <2>5, UsersKept
      <3>2. Untouched(b)
        BY <2>1, <2>4, <2>5 DEF Untouched, LockInv, SemNames, ringVars,
           workVars, histVars
      <3> QED
        BY <2>3, <3>1, <3>2, RingKept DEF RingInv
    <2>6. CASE b = o
      <3>1. /\ Count(b, Claiming)' = Count(b, Claiming) + 1
            /\ Count(b, Owing)' = Count(b, Owing)
            /\ In(b, Advancing)' = In(b, Advancing)
        <4>1. /\ "off" \notin Claiming /\ "off" \notin Owing
              /\ "off" \notin Advancing
              /\ pc[c] \notin Claiming /\ "wait_mutex" \in Claiming
              /\ pc[c] \notin Owing /\ "wait_mutex" \notin Owing
              /\ pc[c] \notin Advancing /\ "wait_mutex" \notin Advancing
          BY <2>1 DEF Claiming, Owing, Advancing
        <4>2. Count(b, Claiming)' = Count(b, Claiming) + 1
          BY <2>1, <2>2, <2>6, <4>1, CountMoves
        <4>3. Count(b, Owing)' = Count(b, Owing)
          BY <2>1, <4>1, CountMoves
        <4>4. In(b, Advancing)' = In(b, Advancing)
          BY <2>1, <4>1, CountMoves
        <4> QED
          BY <4>2, <4>3, <4>4
      <3>2. /\ sem'["full"][b] = sem["full"][b] - 1
            /\ sem'["empty"][b] = sem["empty"][b]
        BY <2>4, <2>6 DEF LockInv, SemNames
      <3>3. RingCounts(b)'
        <4>1. RingCounts(b) /\ Held(b)' = Held(b)
          BY <2>1 DEF RingInv, RingOf, Held, histVars
        <4> QED
          BY SMTT(30), <2>3, <3>1, <3>2, <4>1, CountTypes DEF RingCounts, SameStage
      <3> QED
        BY <2>1, <2>3, <3>1, <3>3, RingRecounted DEF RingInv, workVars
    <2> QED
      BY <2>5, <2>6
  <1>2. CASE SemWait(c, "mutex", "wait_mutex", "load")
    <2>1. /\ pc[c] = "wait_mutex"
          /\ pc' = [pc EXCEPT ![c] = "load"]
          /\ Moves(c, "load")
          /\ handle' = handle /\ UNCHANGED <<ringVars, workVars, histVars>>
          /\ sem'["full"] = sem["full"] /\ sem'["empty"] = sem["empty"]
      BY <1>2 DEF SemWait, Go, SemAdd, LockInv, SemNames, nameVars, Moves
    <2>2. SameUsers(b)
      BY <2>1, UsersKept DEF Claiming, Owing, Advancing
    <2>3. Untouched(b) /\ SameStage(b)
      BY <2>1, StageKept DEF Untouched, ringVars, workVars, histVars
    <2> QED
      BY <2>2, <2>3, RingKept DEF RingInv
  <1> QED
    BY <1>1, <1>2 DEF ConsumerWaits

LEMMA RingConsumerPosts ==
  ASSUME LockInv, RingTypes, Apart, RingInv, NEW c \in Consumers,
         ConsumerPosts(c), NEW b \in Producers
  PROVE  RingOf(b)'
  <1>0. c \in Procs
    BY DEF Procs
  <1>1. CASE SemPost(c, "mutex", "post_mutex", "post_empty")
    <2>1. /\ pc[c] = "post_mutex"
          /\ pc' = [pc EXCEPT ![c] = "post_empty"]
          /\ Moves(c, "post_empty")
          /\ handle' = handle /\ UNCHANGED <<ringVars, workVars, histVars>>
          /\ sem'["full"] = sem["full"] /\ sem'["empty"] = sem["empty"]
      BY <1>1 DEF SemPost, Go, SemAdd, LockInv, SemNames, nameVars, Moves
    <2>2. SameUsers(b)
      BY <2>1, UsersKept DEF Claiming, Owing, Advancing
    <2>3. Untouched(b) /\ SameStage(b)
      BY <2>1, StageKept DEF Untouched, ringVars, workVars, histVars
    <2> QED
      BY <2>2, <2>3, RingKept DEF RingInv
  <1>2. CASE \E to \in {"unlink_shm", "write"} :
               SemPost(c, "empty", "post_empty", to)
    <2> DEFINE o == handle[c]["empty"]
    <2>1. PICK to \in {"unlink_shm", "write"} :
            SemPost(c, "empty", "post_empty", to)
      BY <1>2
    <2>2. /\ o \in Producers /\ pc[c] = "post_empty"
          /\ pc' = [pc EXCEPT ![c] = to] /\ Moves(c, to)
          /\ handle' = handle /\ UNCHANGED <<ringVars, workVars, histVars>>
          /\ sem' = [sem EXCEPT !["empty"][o] = sem["empty"][o] + 1]
      BY <1>0, <2>1 DEF SemPost, Go, SemAdd, LockInv, Objects, SemNames,
         nameVars, Moves
    <2>3. c \in Of(o) /\ \A q \in Producers : q # o => c \notin Of(q)
      BY <2>2, OneOwner DEF Objects, SemNames
    <2>4. SameStage(b)
      BY <2>2, StageKept
    <2>5. /\ sem'["full"] = sem["full"]
          /\ sem'["empty"] = [sem["empty"] EXCEPT ![o] = sem["empty"][o] + 1]
      BY <2>2 DEF LockInv, SemNames
    <2>6. CASE b # o
      <3>1. SameUsers(b)
        BY <2>2, <2>3, <2>6, UsersKept
      <3>2. Untouched(b)
        BY <2>2, <2>5, <2>6 DEF Untouched, LockInv, SemNames, ringVars,
           workVars, histVars
      <3> QED
        BY <2>4, <3>1, <3>2, RingKept DEF RingInv
    <2>7. CASE b = o
      <3>1. /\ Count(b, Claiming)' = Count(b, Claiming)
            /\ Count(b, Owing)' = Count(b, Owing) - 1
            /\ In(b, Advancing)' = In(b, Advancing)
        <4>1. /\ "off" \notin Claiming /\ "off" \notin Owing
              /\ "off" \notin Advancing
              /\ pc[c] \notin Claiming /\ to \notin Claiming
              /\ pc[c] \in Owing /\ to \notin Owing
              /\ pc[c] \notin Advancing /\ to \notin Advancing
          BY <2>1, <2>2 DEF Claiming, Owing, Advancing
        <4>2. Count(b, Owing)' = Count(b, Owing) - 1
          BY <2>2, <2>3, <2>7, <4>1, CountMoves
        <4>3. Count(b, Claiming)' = Count(b, Claiming)
          BY <2>2, <4>1, CountMoves
        <4>4. In(b, Advancing)' = In(b, Advancing)
          BY <2>2, <4>1, CountMoves
        <4> QED
          BY <4>2, <4>3, <4>4
      <3>2. /\ sem'["empty"][b] = sem["empty"][b] + 1
            /\ sem'["full"][b] = sem["full"][b]
        BY <2>5, <2>7 DEF LockInv, SemNames
      <3>3. RingCounts(b)'
        <4>1. RingCounts(b) /\ Held(b)' = Held(b)
          BY <2>2 DEF RingInv, RingOf, Held, histVars
        <4> QED
          BY SMTT(30), <2>4, <3>1, <3>2, <4>1, CountTypes DEF RingCounts, SameStage
      <3> QED
        BY <2>2, <2>4, <3>1, <3>3, RingRecounted DEF RingInv, workVars
    <2> QED
      BY <2>6, <2>7
  <1> QED
    BY <1>1, <1>2 DEF ConsumerPosts

LEMMA RingConsumerQuiet ==
  ASSUME LockInv, RingTypes, RingInv, NEW c \in Consumers,
         WriteFile(c) \/ ConsumerUnlinks(c), NEW b \in Producers
  PROVE  RingOf(b)'
  <1>1. PICK to \in {"wait_full", "unlink_empty", "unlink_full",
                     "unlink_mutex", "done"} :
          /\ pc[c] \in {"write", "unlink_shm", "unlink_empty", "unlink_full",
                        "unlink_mutex"}
          /\ pc' = [pc EXCEPT ![c] = to] /\ Moves(c, to)
          /\ UNCHANGED <<handle, sem, ringVars, nr, histVars>>
    BY DEF WriteFile, ConsumerUnlinks, Unlink, Go, nameVars, workVars, Moves
  <1>2. SameUsers(b)
    BY <1>1, UsersKept DEF Claiming, Owing, Advancing
  <1>3. Untouched(b) /\ SameStage(b)
    BY <1>1, StageKept DEF Untouched, ringVars, histVars
  <1> QED
    BY <1>2, <1>3, RingKept DEF RingInv

\* What a consumer that dies on a null semaphore has taken stays counted as
\* taken: the counts of its ring only shrink.
LEMMA RingSegfault ==
  ASSUME LockInv, RingTypes, Apart, RingInv, NEW c \in Consumers,
         Segfault(c), NEW b \in Producers
  PROVE  RingOf(b)'
  <1>1. /\ pc[c] \in {"wait_full", "wait_mutex", "load", "post_empty"}
        /\ pc' = [pc EXCEPT ![c] = "fault"] /\ Moves(c, "fault")
        /\ UNCHANGED <<handle, sem, ringVars, workVars, histVars>>
    BY DEF Segfault, Go, Uses, nameVars, Moves
  <1>2. /\ "off" \notin Claiming /\ "off" \notin Owing
        /\ "off" \notin Advancing /\ "fault" \notin Claiming
        /\ "fault" \notin Owing /\ "fault" \notin Advancing
        /\ pc[c] \notin Advancing
    BY <1>1 DEF Claiming, Owing, Advancing
  <1>3. /\ Count(b, Claiming)' <= Count(b, Claiming)
        /\ Count(b, Owing)' <= Count(b, Owing)
        /\ In(b, Advancing)' = In(b, Advancing)
        /\ Count(b, Claiming)' \in Int /\ Count(b, Owing)' \in Int
    <2>1. Count(b, Claiming) \in Nat /\ Count(b, Owing) \in Nat
      BY CountTypes
    <2>2. \/ Count(b, Claiming)' = Count(b, Claiming)
          \/ Count(b, Claiming)' = Count(b, Claiming) - 1
      BY <1>1, <1>2, CountMoves
    <2>3. \/ Count(b, Owing)' = Count(b, Owing)
          \/ Count(b, Owing)' = Count(b, Owing) - 1
      BY <1>1, <1>2, CountMoves
    <2>4. In(b, Advancing)' = In(b, Advancing)
      BY <1>1, <1>2, CountMoves
    <2> QED
      BY <2>1, <2>2, <2>3, <2>4
  <1>4. SameStage(b)
    BY <1>1, StageKept
  <1>5. RingCounts(b)'
    <2>1. RingCounts(b) /\ Held(b)' = Held(b)
      BY <1>1 DEF RingInv, RingOf, Held, histVars
    <2>2. /\ pc'[b] \in Posting <=> pc[b] \in Posting
          /\ pc'[b] \in Reserving <=> pc[b] \in Reserving
          /\ sem' = sem
      BY <1>1, <1>4 DEF SameStage
    <2>3. /\ Count(b, Claiming) \in Nat /\ Count(b, Owing) \in Nat
          /\ Held(b) \in Int /\ MAX_FILES \in Nat
          /\ sem["full"][b] \in Nat /\ sem["empty"][b] \in Nat
      BY CountTypes
    <2> QED
      BY <1>3, <2>1, <2>2, <2>3 DEF RingCounts
  <1> QED
    BY <1>1, <1>3, <1>4, <1>5, RingRecounted DEF RingInv, workVars

LEMMA WrapAdvance ==
  ASSUME NEW r \in SlotIdx, NEW n \in 0 .. MAX_FILES
  PROVE  /\ n < MAX_FILES => Advance(Wrap(r + n)) = Wrap(r + n + 1)
         /\ Wrap(r) = r
         /\ n > 0 => Wrap(Advance(r) + n - 1) = Wrap(r + n)
  <1>1. Advance(r) = IF r + 1 < MAX_FILES THEN r + 1 ELSE 0
    BY AdvanceValue
  <1>2. n < MAX_FILES => Wrap(r + n) \in SlotIdx
    BY LifecycleAssumption DEF Wrap, SlotIdx
  <1>3. n < MAX_FILES =>
          Advance(Wrap(r + n)) = IF Wrap(r + n) + 1 < MAX_FILES
                                 THEN Wrap(r + n) + 1 ELSE 0
    BY <1>2, AdvanceValue
  <1> QED
    BY <1>1, <1>3, LifecycleAssumption DEF Wrap, SlotIdx

LEMMA WrapDistinct ==
  ASSUME NEW r \in SlotIdx, NEW n \in 0 .. MAX_FILES - 1, NEW k \in 0 .. n - 1
  PROVE  /\ Wrap(r + k) \in SlotIdx
         /\ Wrap(r + n) \in SlotIdx
         /\ Wrap(r + k) # Wrap(r + n)
  BY LifecycleAssumption DEF Wrap, SlotIdx

\* A consumer that advances the index has the segment mapped.
Mapped ==
  \A c \in Consumers : pc[c] = "advance" =>
     handle[c]["shm"] \in Producers /\ taken[handle[c]["shm"]] # <<>>

LEMMA MappedStep ==
  ASSUME LockInv, RingTypes, Mapped, [Next]_vars
  PROVE  Mapped'
  <1> SUFFICES ASSUME NEW c \in Consumers, pc'[c] = "advance"
               PROVE  /\ handle'[c]["shm"] \in Producers
                      /\ taken'[handle'[c]["shm"]] # <<>>
    BY DEF Mapped
  <1>0. /\ c \in Procs /\ pc \in [Procs -> Steps] /\ c \notin Producers
        /\ handle \in [Procs -> [Objects -> Producers \cup {None}]]
        /\ "shm" \in Objects
        /\ taken \in [Producers -> Seq(Slot \cup {Blank})]
    BY LifecycleAssumption DEF LockInv, Procs, Objects, RingTypes
  <1>1. ASSUME NEW d \in Consumers, LoadSlot(d)
        PROVE  /\ handle[d]["shm"] \in Producers /\ handle' = handle
               /\ taken'[handle[d]["shm"]] # <<>>
               /\ \A b \in Producers : taken[b] # <<>> => taken'[b] # <<>>
    <2> DEFINE b == handle[d]["shm"]  s == slots[b][rindex[b]]
    <2>1. b \in Producers /\ handle' = handle
      BY <1>0, <1>1 DEF LoadSlot, nameVars, Procs
    <2>2. taken' = [taken EXCEPT ![b] = Append(taken[b], s)]
      BY <1>1 DEF LoadSlot
    <2>3. Append(taken[b], s) # <<>>
      <3>1. PICK t \in Seq(Slot \cup {Blank}) : t = taken[b]
        BY <1>0, <2>1
      <3>2. PICK v : v = s
        OBVIOUS
      <3>3. Append(t, v) # <<>>
        BY <3>1
      <3> QED
        BY <3>1, <3>2, <3>3
    <2> QED
      BY <1>0, <2>1, <2>2, <2>3
  <1>2. CASE LoadSlot(c)
    BY <1>1, <1>2
  <1>3. CASE pc'[c] = pc[c]
    <2>1. pc[c] = "advance"
      BY <1>3
    <2>2. handle'[c] = handle[c]
      <3>1. ASSUME NEW p \in Producers, Producer(p)
            PROVE  handle'[c] = handle[c]
        BY <1>0, <3>1
           DEF Producer, ProducerOpens, OpenOrCreate, ResetWrite, ResetRead,
               ProducerWaits, StoreSlot, AdvanceWrite, ProducerPostMutex,
               ProducerPostFull, SemWait, SemPost, nameVars
      <3>2. ASSUME NEW d \in Consumers, Consumer(d)
            PROVE  handle'[c] = handle[c]
        <4>1. CASE ConsumerOpens(d)
          <5>1. d # c
            BY <1>0, <2>1, <4>1 DEF ConsumerOpens, Open, Go
          <5> QED
            BY <1>0, <4>1, <5>1 DEF ConsumerOpens, Open
        <4>2. CASE ~ ConsumerOpens(d)
          BY <3>2, <4>2
             DEF Consumer, ConsumerWaits, LoadSlot, AdvanceRead, ConsumerPosts,
                 WriteFile, ConsumerUnlinks, Unlink, Segfault, SemWait, SemPost,
                 nameVars
        <4> QED
          BY <4>1, <4>2
      <3>3. ASSUME NEW x \in Procs, Start(x) \/ Crash(x)
            PROVE  handle'[c] = handle[c]
        BY <3>3 DEF Start, Crash, nameVars
      <3> QED
        BY <3>1, <3>2, <3>3 DEF Next, Step, vars, nameVars
    <2>3. \A b \in Producers : taken[b] # <<>> => taken'[b] # <<>>
      <3>1. ASSUME NEW d \in Consumers, Consumer(d), ~ LoadSlot(d)
            PROVE  taken' = taken
        BY <3>1
           DEF Consumer, ConsumerOpens, Open, ConsumerWaits, AdvanceRead,
               ConsumerPosts, WriteFile, ConsumerUnlinks, Unlink, Segfault,
               SemWait, SemPost, histVars
      <3>2. ASSUME NEW p \in Producers, Producer(p)
            PROVE  taken' = taken
        BY <3>2
           DEF Producer, ProducerOpens, OpenOrCreate, ResetWrite, ResetRead,
               ProducerWaits, StoreSlot, AdvanceWrite, ProducerPostMutex,
               ProducerPostFull, SemWait, SemPost, histVars
      <3>3. ASSUME NEW x \in Procs, Start(x) \/ Crash(x)
            PROVE  taken' = taken
        BY <3>3 DEF Start, Crash, histVars
      <3> QED
        BY <1>1, <3>1, <3>2, <3>3 DEF Next, Step, vars, histVars
    <2> QED
      BY <2>1, <2>2, <2>3 DEF Mapped
  <1>4. pc'[c] = pc[c] \/ LoadSlot(c)
    <2>1. ASSUME NEW p \in Producers, Producer(p)
          PROVE  pc'[c] = pc[c]
      <3>1. PICK from, to : Go(p, from, to)
        BY <2>1 DEF Producer, ProducerOpens, OpenOrCreate, ResetWrite,
           ResetRead,
             ProducerWaits, StoreSlot, AdvanceWrite, ProducerPostMutex,
             ProducerPostFull, SemWait, SemPost
      <3> QED
        BY <1>0, <3>1 DEF Go
    <2>2. ASSUME NEW d \in Consumers, Consumer(d)
          PROVE  pc'[c] = pc[c] \/ LoadSlot(c)
      <3>1. CASE d = c
        <4>1. PICK from, to : Go(c, from, to) /\ (LoadSlot(c) \/ to # "advance")
          <5>1. CASE ConsumerOpens(c) \/ ConsumerWaits(c)
            BY <5>1 DEF ConsumerOpens, Open, ConsumerWaits, SemWait
          <5>2. CASE LoadSlot(c)
            BY <5>2 DEF LoadSlot
          <5>3. CASE AdvanceRead(c) \/ ConsumerPosts(c)
            BY <5>3 DEF AdvanceRead, ConsumerPosts, SemPost
          <5>4. CASE WriteFile(c) \/ ConsumerUnlinks(c) \/ Segfault(c)
            BY <5>4 DEF WriteFile, ConsumerUnlinks, Unlink, Segfault
          <5> QED
            BY <2>2, <3>1, <5>1, <5>2, <5>3, <5>4 DEF Consumer
        <4> QED
          BY <1>0, <4>1 DEF Go
      <3>2. CASE d # c
        <4>1. PICK from, to : Go(d, from, to)
          <5>1. CASE ConsumerOpens(d) \/ ConsumerWaits(d) \/ LoadSlot(d)
            BY <5>1 DEF ConsumerOpens, Open, ConsumerWaits, SemWait, LoadSlot
          <5>2. CASE AdvanceRead(d) \/ ConsumerPosts(d)
            BY <5>2 DEF AdvanceRead, ConsumerPosts, SemPost
          <5>3. CASE WriteFile(d) \/ ConsumerUnlinks(d) \/ Segfault(d)
            BY <5>3 DEF WriteFile, ConsumerUnlinks, Unlink, Segfault
          <5> QED
            BY <2>2, <5>1, <5>2, <5>3 DEF Consumer
        <4> QED
          BY <1>0, <3>2, <4>1 DEF Go
      <3> QED
        BY <3>1, <3>2
    <2>3. ASSUME NEW x \in Procs, Start(x) \/ Crash(x)
          PROVE  pc'[c] = pc[c]
      BY <1>0, <2>3 DEF Start, Crash
    <2> QED
      BY <2>1, <2>2, <2>3 DEF Next, Step, vars
  <1> QED
    BY <1>2, <1>3, <1>4

\* Whoever is inside a mutex is inside the ring of its owner, alone.
LEMMA AloneInside ==
  ASSUME LockInv, Apart, NEW b \in Producers, NEW c \in Consumers,
         c \in Of(b), Inside(c)
  PROVE  \A d \in Of(b) : Inside(d) => d = c
  <1>1. \A d \in Of(b) : Inside(d) => handle[d]["mutex"] = b
    <2>1. SUFFICES ASSUME NEW d \in Of(b),
                          Inside(d) PROVE handle[d]["mutex"] = b
      OBVIOUS
    <2>2. PICK o \in Objects : handle[d][o] = b
      BY DEF Of
    <2>3. d \in Consumers /\ d \in Procs /\ "mutex" \in Objects
      BY DEF Of, Procs, Objects, SemNames
    <2>4. handle[d]["mutex"] \in Producers
      BY <2>1, <2>3 DEF LockInv
    <2> QED
      BY <2>2, <2>3, <2>4, LifecycleAssumption DEF Apart
  <1>2. \A d \in Of(b) : d \in Procs
    BY DEF Of, Procs
  <1> QED
    BY <1>1, <1>2 DEF LockInv, MutexPerObject

LEMMA RingLoad ==
  ASSUME LockInv, RingTypes, Apart, RingInv, NEW c \in Consumers,
         LoadSlot(c), NEW b \in Producers
  PROVE  /\ RingOf(b)'
         /\ b = handle[c]["shm"] =>
               /\ item'[c] = stored[b][Len(taken[b]) + 1]
               /\ Len(taken[b]) < Len(stored[b])
  <1> DEFINE o == handle[c]["shm"]  s == slots[o][rindex[o]]
  <1>0. c \in Procs
    BY DEF Procs
  <1>1. /\ o \in Producers /\ pc[c] = "load"
        /\ pc' = [pc EXCEPT ![c] = "advance"] /\ Moves(c, "advance")
        /\ handle' = handle /\ UNCHANGED <<sem, ringVars, nr, stored>>
        /\ item' = [item EXCEPT ![c] = s]
        /\ taken' = [taken EXCEPT ![o] = Append(taken[o], s)]
    BY <1>0 DEF LoadSlot, Go, LockInv, Objects, nameVars, Moves
  <1>2. c \in Of(o) /\ \A q \in Producers : q # o => c \notin Of(q)
    BY <1>1, OneOwner DEF Objects, SemNames
  <1>3. pc'[b] = pc[b] /\ SameStage(b)
    BY <1>1, StageKept
  <1>4. CASE b # o
    <2>1. SameUsers(b)
      BY <1>1, <1>2, <1>4, UsersKept
    <2>2. Untouched(b)
      BY <1>1, <1>4 DEF Untouched, RingTypes, ringVars
    <2> QED
      BY <1>3, <1>4, <2>1, <2>2, RingKept DEF RingInv
  <1>5. CASE b = o
    <2>1. /\ RingCounts(b) /\ RingPlaces(b) /\ RingHistory(b) /\ RingFresh(b)
      BY DEF RingInv, RingOf
    <2>2. /\ "off" \notin Claiming /\ "off" \notin Owing
          /\ "off" \notin Advancing
          /\ pc[c] \in Claiming /\ "advance" \notin Claiming
          /\ pc[c] \notin Owing /\ "advance" \in Owing
          /\ pc[c] \notin Advancing /\ "advance" \in Advancing
      BY <1>1 DEF Claiming, Owing, Advancing
    <2>3. Count(b, Claiming)' = Count(b, Claiming) - 1
      BY <1>1, <1>2, <1>5, <2>2, CountMoves
    <2>4. Count(b, Owing)' = Count(b, Owing) + 1
      BY <1>1, <1>2, <1>5, <2>2, CountMoves
    <2>5. In(b, Advancing) = {}
      <3>1. Inside(c)
        BY <1>1 DEF Inside
      <3>2. \A d \in Of(b) : Inside(d) => d = c
        BY <1>2, <1>5, <3>1, AloneInside
      <3>3. \A d \in In(b, Advancing) : d \in Of(b) /\ Inside(d) /\ d # c
        BY <1>1 DEF In, Advancing, Inside
      <3> QED
        BY <3>2, <3>3
    <2>6. In(b, Advancing)' # {}
      <3>1. pc'[c] = "advance" /\ Of(b)' = Of(b)
        BY <1>0, <1>1 DEF LockInv, Of
      <3> QED
        BY <1>2, <1>5, <3>1 DEF In, Advancing
    <2>7. Count(b, Claiming) >= 1
      <3>1. c \in In(b, Claiming)
        BY <1>2, <1>5, <2>2 DEF In
      <3>2. IsFiniteSet(In(b, Claiming)) /\ Count(b, Claiming) \in Nat
        BY <2>2, Counted
      <3>3. Count(b, Claiming) # 0
        BY <3>1, <3>2, FS_EmptySet DEF Count
      <3> QED
        BY <3>2, <3>3
    <2>8. /\ Count(b, Claiming) \in Nat /\ Count(b, Owing) \in Nat
          /\ Held(b) \in Int /\ MAX_FILES \in Nat
          /\ Len(stored[b]) \in Nat /\ Len(taken[b]) \in Nat
          /\ sem["full"][b] \in Nat /\ sem["empty"][b] \in Nat
      BY CountTypes
    <2>9. /\ Held(b) >= 1 /\ Held(b) <= MAX_FILES
          /\ Len(taken[b]) < Len(stored[b])
      <3>1. Held(b) >= 1 /\ Held(b) <= MAX_FILES
        BY SMTT(30), <2>1, <2>7, <2>8 DEF RingCounts
      <3>2. PICK S \in Nat, T \in Nat :
              /\ S = Len(stored[b]) /\ T = Len(taken[b])
        BY <2>8
      <3>3. Held(b) = S - T
        BY <3>2 DEF Held
      <3>4. T < S
        BY <3>1, <3>3
      <3> QED
        BY <3>1, <3>2, <3>4
    <2>10. /\ taken'[b] = Append(taken[b], s)
                /\ Len(taken'[b]) = Len(taken[b]) + 1
           /\ stored'[b] = stored[b] /\ Held(b)' = Held(b) - 1
           /\ sem' = sem /\ windex' = windex /\ rindex' = rindex
           /\ slots' = slots /\ nr' = nr
      BY SMTT(30), <1>1, <1>5, <2>8 DEF RingTypes, Held, ringVars
    <2>11. /\ rindex[b] \in SlotIdx /\ Advance(rindex[b]) \in SlotIdx
           /\ Front(b) = rindex[b] /\ Front(b)' = Advance(rindex[b])
           /\ Rear(b)' = Rear(b)
      BY <1>3, <2>5, <2>6, <2>10, AdvanceValue DEF Front, Rear, RingTypes
    <2>12. s = stored[b][Len(taken[b]) + 1]
      <3>1. Wrap(rindex[b] + 0) = rindex[b]
        BY <2>11, WrapAdvance, LifecycleAssumption DEF SlotIdx
      <3>2. 0 \in 0 .. Held(b) - 1
        BY <2>8, <2>9
      <3>3. slots[b][Wrap(rindex[b] + 0)] = stored[b][Len(taken[b]) + 0 + 1]
        BY <2>1, <2>11, <3>2 DEF RingPlaces
      <3> QED
        BY <1>5, <2>8, <3>1, <3>3
    <2>13. item'[c] = s
      BY <1>1 DEF RingTypes
    <2>14. RingCounts(b)'
      <3>1. /\ sem'["full"][b] = sem["full"][b]
            /\ sem'["empty"][b] = sem["empty"][b]
        BY <2>10
      <3>2. PICK f \in Nat, e \in Nat, m \in Nat, n \in Nat, h \in Int :
              /\ f = sem["full"][b] /\ e = sem["empty"][b] /\ h = Held(b)
              /\ m = Count(b, Claiming) /\ n = Count(b, Owing)
        BY <2>8
      <3>3. PICK i \in {0, 1}, j \in {0, 1} :
              /\ i = IF pc[b] \in Posting THEN 1 ELSE 0
              /\ j = IF pc[b] \in Reserving THEN 1 ELSE 0
        OBVIOUS
      <3>4. f + m + i <= h /\ e + n + h + j <= MAX_FILES
        BY <2>1, <3>2, <3>3 DEF RingCounts
      <3>5. f + (m - 1) + i <= h - 1 /\ e + (n + 1) + (h - 1) + j <= MAX_FILES
        <4>1. i \in Int /\ j \in Int /\ MAX_FILES \in Int
          BY <2>8
        <4> QED
          BY <3>4, <4>1
      <3>6. /\ Count(b, Claiming)' = m - 1 /\ Count(b, Owing)' = n + 1
            /\ Held(b)' = h - 1
            /\ i = IF pc'[b] \in Posting THEN 1 ELSE 0
            /\ j = IF pc'[b] \in Reserving THEN 1 ELSE 0
        BY <1>3, <2>3, <2>4, <2>10, <3>2, <3>3
      <3> QED
        BY <3>1, <3>2, <3>5, <3>6 DEF RingCounts
    <2>15. RingPlaces(b)'
      <3>1. Rear(b)' = Wrap(Front(b)' + Held(b)')
        <4>1. Wrap(Advance(rindex[b]) + Held(b) - 1) = Wrap(rindex[b] + Held(b))
          BY <2>8, <2>9, <2>11, WrapAdvance
        <4>2. Advance(rindex[b]) + (Held(b) - 1) = Advance(rindex[b]) + Held(b) - 1
          BY <2>8, <2>11, LifecycleAssumption DEF SlotIdx
        <4> QED
          BY <2>1, <2>10, <2>11, <4>1, <4>2 DEF RingPlaces
      <3>2. ASSUME NEW k \in 0 .. Held(b) - 2
            PROVE  slots[b][Wrap(Advance(rindex[b]) + k)]
                     = stored[b][Len(taken[b]) + 1 + k + 1]
        <4>1. k + 1 \in 0 .. MAX_FILES /\ k + 1 > 0
                /\ k + 1 \in 0 .. Held(b) - 1
          BY <2>8, <2>9
        <4>2. Wrap(Advance(rindex[b]) + (k + 1) - 1) = Wrap(rindex[b] + (k + 1))
          BY <2>11, <4>1, WrapAdvance
        <4>3. Advance(rindex[b]) + (k + 1) - 1 = Advance(rindex[b]) + k
          BY <2>11, LifecycleAssumption DEF SlotIdx
        <4>4. slots[b][Wrap(rindex[b] + (k + 1))]
                = stored[b][Len(taken[b]) + (k + 1) + 1]
          BY <2>1, <2>11, <4>1 DEF RingPlaces
        <4>5. Len(taken[b]) + (k + 1) + 1 = Len(taken[b]) + 1 + k + 1
          <5>1. PICK T \in Nat : T = Len(taken[b])
            BY <2>8
          <5>2. T + (k + 1) + 1 = T + 1 + k + 1
            OBVIOUS
          <5> QED
            BY <5>1, <5>2
        <4> QED
          BY <4>2, <4>3, <4>4, <4>5
      <3>3. Held(b)' - 1 = Held(b) - 2
        BY <2>8, <2>10
      <3> QED
        BY <2>10, <2>11, <3>1, <3>2, <3>3 DEF RingPlaces
    <2>16. RingHistory(b)'
      <3>1. ASSUME NEW i \in 1 .. Len(taken[b]) + 1
            PROVE  taken'[b][i] = stored[b][i]
        <4>1. CASE i = Len(taken[b]) + 1
          BY <1>5, <2>8, <2>10, <2>12, <4>1 DEF RingTypes
        <4>2. CASE i # Len(taken[b]) + 1
          <5>1. i \in 1 .. Len(taken[b])
            BY <2>8, <4>2
          <5>2. taken'[b][i] = taken[b][i]
            BY <2>8, <2>10, <5>1 DEF RingTypes
          <5> QED
            BY <2>1, <5>1, <5>2 DEF RingHistory
        <4> QED
          BY <4>1, <4>2
      <3> QED
        BY <1>3, <2>1, <2>10, <3>1 DEF RingHistory
    <2>17. RingFresh(b)'
      BY <1>3, <2>1, <2>10 DEF RingFresh
    <2> QED
      BY <2>9, <2>12, <2>13, <2>14, <2>15, <2>16, <2>17 DEF RingOf
  <1> QED
    BY <1>4, <1>5

LEMMA RingAdvanceRead ==
  ASSUME LockInv, RingTypes, Apart, Mapped, RingInv, NEW c \in Consumers,
         AdvanceRead(c), NEW b \in Producers
  PROVE  RingOf(b)'
  <1> DEFINE o == handle[c]["shm"]
  <1>0. c \in Procs
    BY DEF Procs
  <1>1. /\ o \in Producers /\ pc[c] = "advance"
        /\ pc' = [pc EXCEPT ![c] = "post_mutex"] /\ Moves(c, "post_mutex")
        /\ handle' = handle
        /\ UNCHANGED <<sem, windex, slots, workVars, histVars>>
        /\ rindex' = [rindex EXCEPT ![o] = Advance(rindex[o])]
    BY DEF AdvanceRead, Go, Mapped, nameVars, Moves
  <1>2. c \in Of(o) /\ \A q \in Producers : q # o => c \notin Of(q)
    BY <1>1, OneOwner DEF Objects, SemNames
  <1>3. pc'[b] = pc[b] /\ SameStage(b)
    BY <1>1, StageKept
  <1>4. CASE b # o
    <2>1. SameUsers(b)
      BY <1>1, <1>2, <1>4, UsersKept
    <2>2. Untouched(b)
      BY <1>1, <1>4 DEF Untouched, RingTypes, workVars, histVars
    <2> QED
      BY <1>3, <2>1, <2>2, RingKept DEF RingInv
  <1>5. CASE b = o
    <2>1. /\ RingCounts(b) /\ RingPlaces(b) /\ RingHistory(b) /\ RingFresh(b)
      BY DEF RingInv, RingOf
    <2>2. /\ "off" \notin Claiming /\ "off" \notin Owing
          /\ pc[c] \notin Claiming /\ "post_mutex" \notin Claiming
          /\ pc[c] \in Owing /\ "post_mutex" \in Owing
      BY <1>1 DEF Claiming, Owing
    <2>3. Count(b, Claiming)' = Count(b, Claiming)
      BY <1>1, <2>2, CountMoves
    <2>4. Count(b, Owing)' = Count(b, Owing)
      BY <1>1, <2>2, CountMoves
    <2>5. In(b, Advancing) # {}
      BY <1>1, <1>2, <1>5 DEF In, Advancing
    <2>6. In(b, Advancing)' = {}
      <3>1. Inside(c)
        BY <1>1 DEF Inside
      <3>2. \A d \in Of(b) : Inside(d) => d = c
        BY <1>2, <1>5, <3>1, AloneInside
      <3>3. /\ Of(b)' = Of(b) /\ pc'[c] # "advance"
            /\ \A d \in Of(b) : d # c => pc'[d] = pc[d]
        BY <1>0, <1>1 DEF LockInv, Of, Procs
      <3>4. \A d \in Of(b) : d # c => pc[d] # "advance"
        BY <3>2 DEF Inside
      <3> QED
        BY <3>3, <3>4 DEF In, Advancing
    <2>7. /\ rindex'[b] = Advance(rindex[b]) /\ Held(b)' = Held(b)
          /\ stored' = stored /\ taken' = taken
          /\ sem' = sem /\ windex' = windex /\ slots' = slots /\ nr' = nr
      BY <1>1, <1>5 DEF RingTypes, Held, workVars, histVars
    <2>8. Front(b)' = Front(b) /\ Rear(b)' = Rear(b)
      BY <1>3, <2>5, <2>6, <2>7 DEF Front, Rear
    <2>9. RingCounts(b)'
      BY <1>3, <2>1, <2>3, <2>4, <2>7 DEF RingCounts
    <2>10. RingPlaces(b)'
      BY <2>1, <2>7, <2>8 DEF RingPlaces
    <2>11. RingHistory(b)'
      BY <1>3, <2>1, <2>7 DEF RingHistory
    <2>12. RingFresh(b)'
      <3>1. taken[b] # <<>>
        BY <1>1, <1>5 DEF Mapped
      <3>2. Len(taken[b]) # 0
        BY <3>1 DEF RingTypes
      <3>3. Held(b) >= 0
        <4>1. /\ Count(b, Claiming) \in Nat /\ sem["full"][b] \in Nat
              /\ Held(b) \in Int
          BY CountTypes
        <4> QED
          BY <2>1, <4>1 DEF RingCounts
      <3>4. stored[b] # <<>>
        <4>1. Len(stored[b]) \in Nat /\ Len(taken[b]) \in Nat
          BY CountTypes
        <4> QED
          BY <3>2, <3>3, <4>1 DEF Held
      <3> QED
        BY <1>3, <2>1, <3>4 DEF RingFresh
    <2> QED
      BY <2>9, <2>10, <2>11, <2>12 DEF RingOf
  <1> QED
    BY <1>4, <1>5

-----------------------------------------------------------------------------
\* What a producer does to a ring, step by step.

\* What a producer does on an object, it does on its own.
LEMMA OwnObject ==
  ASSUME Apart, NEW p \in Producers
  PROVE  /\ pc[p] \notin StartUp \cup {"off"} =>
              /\ handle[p]["shm"] = p /\ handle[p]["empty"] = p
              /\ handle[p]["full"] = p /\ handle[p]["mutex"] = p
         /\ pc[p] \in {"reset_write", "reset_read"} => handle[p]["shm"] = p
  <1>1. /\ "shm" \in Objects /\ "empty" \in Objects /\ "full" \in Objects
        /\ "mutex" \in Objects
    BY DEF Objects, SemNames
  <1>2. pc[p] \notin StartUp \cup {"off"} =>
           /\ Opened(p, "shm") /\ Opened(p, "empty")
           /\ Opened(p, "full") /\ Opened(p, "mutex")
    BY DEF Opened, Before, StartUp
  <1>3. pc[p] \in {"reset_write", "reset_read"} => Opened(p, "shm")
    BY DEF Opened, Before
  <1> QED
    BY <1>1, <1>2, <1>3 DEF Apart

LEMMA ProducerUsers ==
  ASSUME LockInv, NEW p \in Producers, NEW to, pc' = [pc EXCEPT ![p] = to],
         \A c \in Consumers : handle'[c] = handle[c], NEW b \in Producers
  PROVE  SameUsers(b)
  <1>1. \A c \in Consumers : pc'[c] = pc[c]
    BY LifecycleAssumption DEF LockInv, Procs
  <1>2. Of(b)' = Of(b)
    BY DEF Of
  <1> QED
    BY <1>1, <1>2 DEF SameUsers, In, Of

LEMMA ProducerStage ==
  ASSUME LockInv, NEW p \in Producers, NEW to, pc' = [pc EXCEPT ![p] = to]
  PROVE  /\ pc'[p] = to
         /\ \A b \in Producers : b # p => pc'[b] = pc[b] /\ SameStage(b)
  BY DEF LockInv, SameStage, Procs

\* Only what is counted changes in the ring of b.
LEMMA RingStaged ==
  ASSUME NEW b \in Producers, RingOf(b), RingCounts(b)', RingHistory(b)',
         pc'[b] = "advance" <=> pc[b] = "advance",
         pc'[b] \notin StartUp \cup {"off"}, SameUsers(b),
         UNCHANGED <<ringVars, histVars>>
  PROVE  RingOf(b)'
  <1>1. Held(b)' = Held(b)
    BY DEF Held, histVars
  <1>2. Front(b)' = Front(b) /\ Rear(b)' = Rear(b)
    BY DEF SameUsers, Front, Rear, ringVars
  <1>3. RingPlaces(b)'
    BY <1>1, <1>2 DEF RingOf, RingPlaces, ringVars, histVars
  <1>4. RingFresh(b)'
    BY DEF RingFresh
  <1> QED
    BY <1>3, <1>4 DEF RingOf

LEMMA RingProducerOpens ==
  ASSUME LockInv, RingTypes, Apart, RingInv, NEW p \in Producers,
         ProducerOpens(p) \/ ResetWrite(p) \/ ResetRead(p), NEW b \in Producers
  PROVE  RingOf(b)'
  <1>0. p \in Procs /\ p \notin Consumers
    BY LifecycleAssumption DEF Procs
  <1>1. PICK from \in StartUp, to \in StartUp \cup {"wait_empty"} :
          /\ pc[p] = from /\ pc' = [pc EXCEPT ![p] = to]
          /\ \A c \in Consumers : handle'[c] = handle[c]
          /\ UNCHANGED <<sem, slots, workVars, histVars>>
          /\ \/ UNCHANGED <<windex, rindex>>
             \/ /\ from \in {"reset_write", "reset_read"}
                /\ windex' \in {windex, [windex EXCEPT ![handle[p]["shm"]] = 0]}
                /\ rindex' \in {rindex, [rindex EXCEPT ![handle[p]["shm"]] = 0]}
    <2>1. CASE ProducerOpens(p)
      <3>1. PICK o \in Objects, from \in StartUp,
                 to \in StartUp \cup {"wait_empty"} :
              OpenOrCreate(p, o, from, to)
        BY <2>1 DEF ProducerOpens, Objects, SemNames, StartUp
      <3>2. /\ pc[p] = from /\ pc' = [pc EXCEPT ![p] = to]
            /\ handle' = [handle EXCEPT ![p][o] = bound'[o]]
            /\ UNCHANGED <<sem, ringVars, workVars, histVars>>
        BY <3>1 DEF OpenOrCreate, Go
      <3>3. \A c \in Consumers : handle'[c] = handle[c]
        BY <1>0, <3>2 DEF LockInv, Procs
      <3> QED
        BY <3>2, <3>3 DEF ringVars
    <2>2. CASE ResetWrite(p)
      BY <1>0, <2>2 DEF ResetWrite, Go, StartUp, nameVars
    <2>3. CASE ResetRead(p)
      BY <1>0, <2>3 DEF ResetRead, Go, StartUp, nameVars
    <2> QED
      BY <2>1, <2>2, <2>3
  <1>2. windex' = windex /\ rindex' = rindex
    <2>1. CASE UNCHANGED <<windex, rindex>>
      BY <2>1
    <2>2. CASE from \in {"reset_write", "reset_read"}
      <3>1. handle[p]["shm"] = p
        BY <1>1, <2>2, OwnObject
      <3>2. windex[p] = 0 /\ rindex[p] = 0
        BY <1>1 DEF RingInv, RingOf, RingFresh
      <3>3. /\ [windex EXCEPT ![p] = 0] = windex
            /\ [rindex EXCEPT ![p] = 0] = rindex
        BY <3>2 DEF RingTypes
      <3> QED
        BY <1>1, <3>1, <3>3
    <2> QED
      BY <1>1, <2>1, <2>2
  <1>3. SameUsers(b)
    BY <1>1, ProducerUsers
  <1>4. Untouched(b)
    BY <1>1, <1>2 DEF Untouched, workVars, histVars
  <1>5. SameStage(b)
    <2>1. CASE b = p
      <3>1. pc'[p] = to
        BY <1>1, ProducerStage
      <3> QED
        BY <1>1, <2>1, <3>1 DEF SameStage, StartUp, Posting, Reserving
    <2> QED
      BY <1>1, <2>1, ProducerStage
  <1> QED
    BY <1>3, <1>4, <1>5, RingKept DEF RingInv

LEMMA RingProducerWaits ==
  ASSUME LockInv, RingTypes, Apart, RingInv, NEW p \in Producers,
         ProducerWaits(p), NEW b \in Producers
  PROVE  RingOf(b)'
  <1>1. CASE SemWait(p, "mutex", "wait_mutex", "store")
    <2>1. /\ pc[p] = "wait_mutex" /\ pc' = [pc EXCEPT ![p] = "store"]
          /\ handle' = handle /\ UNCHANGED <<ringVars, workVars, histVars>>
          /\ sem'["full"] = sem["full"] /\ sem'["empty"] = sem["empty"]
      BY <1>1 DEF SemWait, Go, SemAdd, LockInv, SemNames, nameVars
    <2>2. SameUsers(b)
      BY <2>1, ProducerUsers
    <2>3. Untouched(b)
      BY <2>1 DEF Untouched, ringVars, workVars, histVars
    <2>4. SameStage(b)
      <3>1. pc'[p] = "store"
        BY <2>1, ProducerStage
      <3>2. CASE b = p
        BY <2>1, <3>1, <3>2 DEF SameStage, StartUp, Posting, Reserving
      <3> QED
        BY <2>1, <3>2, ProducerStage
    <2> QED
      BY <2>2, <2>3, <2>4, RingKept DEF RingInv
  <1>2. CASE SemWait(p, "empty", "wait_empty", "wait_mutex")
    <2>1. /\ pc[p] = "wait_empty" /\ pc' = [pc EXCEPT ![p] = "wait_mutex"]
          /\ handle' = handle /\ UNCHANGED <<ringVars, workVars, histVars>>
      BY <1>2 DEF SemWait, Go, nameVars
    <2>2. handle[p]["empty"] = p
      BY <2>1, OwnObject DEF StartUp
    <2>3. /\ sem' = [sem EXCEPT !["empty"][p] = sem["empty"][p] - 1]
          /\ sem["empty"][p] > 0
      BY <1>2, <2>2 DEF SemWait, SemAdd
    <2>4. /\ sem'["full"] = sem["full"]
          /\ sem'["empty"] = [sem["empty"] EXCEPT ![p] = sem["empty"][p] - 1]
      BY <2>3 DEF LockInv, SemNames
    <2>5. SameUsers(b)
      BY <2>1, ProducerUsers
    <2>6. pc'[p] = "wait_mutex"
      BY <2>1, ProducerStage
    <2>7. CASE b # p
      <3>1. Untouched(b)
        BY <2>1, <2>4, <2>7 DEF Untouched, LockInv, SemNames, ringVars,
           workVars, histVars
      <3> QED
        BY <2>1, <2>5, <2>7, <3>1, ProducerStage, RingKept DEF RingInv
    <2>8. CASE b = p
      <3>1. RingCounts(b) /\ RingHistory(b)
        BY DEF RingInv, RingOf
      <3>2. RingCounts(b)'
        <4>1. /\ Count(b, Claiming)' = Count(b, Claiming)
              /\ Count(b, Owing)' = Count(b, Owing)
              /\ Held(b)' = Held(b)
          BY <2>1, <2>5 DEF SameUsers, Count, Held, histVars
        <4>2. /\ sem'["empty"][b] = sem["empty"][b] - 1
              /\ sem'["full"][b] = sem["full"][b]
          BY <2>4, <2>8 DEF LockInv, SemNames
        <4>3. PICK f \in Nat, e \in Nat, m \in Nat, n \in Nat, h \in Int :
                /\ f = sem["full"][b] /\ e = sem["empty"][b] /\ h = Held(b)
                /\ m = Count(b, Claiming) /\ n = Count(b, Owing)
          BY CountTypes
        <4>4. f + m <= h /\ e + n + h <= MAX_FILES
          BY <2>1, <2>8, <3>1, <4>3 DEF RingCounts, Posting, Reserving
        <4>5. f + m + 0 <= h /\ (e - 1) + n + h + 1 <= MAX_FILES
          BY <4>4, CountTypes
        <4> QED
          BY <2>6, <2>8, <4>1, <4>2, <4>3, <4>5
             DEF RingCounts, Posting, Reserving
      <3>3. RingHistory(b)'
        BY <2>1, <2>6, <2>8, <3>1 DEF RingHistory, Posting, workVars, histVars
      <3> QED
        BY <2>1, <2>5, <2>6, <2>8, <3>2, <3>3, RingStaged DEF RingInv, StartUp
    <2> QED
      BY <2>7, <2>8
  <1> QED
    BY <1>1, <1>2 DEF ProducerWaits

LEMMA RingProducerPosts ==
  ASSUME LockInv, RingTypes, Apart, RingInv, NEW p \in Producers,
         ProducerPostMutex(p) \/ ProducerPostFull(p), NEW b \in Producers
  PROVE  RingOf(b)'
  <1>1. CASE ProducerPostMutex(p)
    <2>1. /\ pc[p] = "post_mutex" /\ pc' = [pc EXCEPT ![p] = "post_full"]
          /\ handle' = handle /\ UNCHANGED <<ringVars, workVars, histVars>>
          /\ sem'["full"] = sem["full"] /\ sem'["empty"] = sem["empty"]
      BY <1>1 DEF ProducerPostMutex, SemPost, Go, SemAdd, LockInv, SemNames,
         nameVars
    <2>2. SameUsers(b)
      BY <2>1, ProducerUsers
    <2>3. Untouched(b)
      BY <2>1 DEF Untouched, ringVars, workVars, histVars
    <2>4. SameStage(b)
      <3>1. pc'[p] = "post_full"
        BY <2>1, ProducerStage
      <3>2. CASE b = p
        BY <2>1, <3>1, <3>2 DEF SameStage, StartUp, Posting, Reserving
      <3> QED
        BY <2>1, <3>2, ProducerStage
    <2> QED
      BY <2>2, <2>3, <2>4, RingKept DEF RingInv
  <1>2. CASE ProducerPostFull(p)
    <2> DEFINE eof == IsEof(<<p, nr[p]>>)
    <2>1. PICK to \in {"done", "wait_empty"} :
            /\ pc[p] = "post_full" /\ pc' = [pc EXCEPT ![p] = to]
            /\ handle' = handle /\ UNCHANGED <<ringVars, histVars>>
            /\ nr' = [nr EXCEPT ![p] = IF eof THEN nr[p] ELSE nr[p] + 1]
            /\ to = IF eof THEN "done" ELSE "wait_empty"
      BY <1>2 DEF ProducerPostFull, Go, nameVars
    <2>2. handle[p]["full"] = p
      BY <2>1, OwnObject DEF StartUp
    <2>3. sem' = [sem EXCEPT !["full"][p] = sem["full"][p] + 1]
      BY <1>2, <2>2 DEF ProducerPostFull, SemAdd
    <2>4. /\ sem'["empty"] = sem["empty"]
          /\ sem'["full"] = [sem["full"] EXCEPT ![p] = sem["full"][p] + 1]
      BY <2>3 DEF LockInv, SemNames
    <2>5. SameUsers(b)
      BY <2>1, ProducerUsers
    <2>6. pc'[p] = to
      BY <2>1, ProducerStage
    <2>7. CASE b # p
      <3>1. Untouched(b)
        BY <2>1, <2>4, <2>7 DEF Untouched, LockInv, RingTypes, SemNames,
           ringVars, histVars
      <3> QED
        BY <2>1, <2>5, <2>7, <3>1, ProducerStage, RingKept DEF RingInv
    <2>8. CASE b = p
      <3>1. RingCounts(b) /\ RingHistory(b)
        BY DEF RingInv, RingOf
      <3>2. RingCounts(b)'
        <4>1. /\ Count(b, Claiming)' = Count(b, Claiming)
              /\ Count(b, Owing)' = Count(b, Owing)
              /\ Held(b)' = Held(b)
          BY <2>1, <2>5 DEF SameUsers, Count, Held, histVars
        <4>2. /\ sem'["full"][b] = sem["full"][b] + 1
              /\ sem'["empty"][b] = sem["empty"][b]
          BY <2>4, <2>8 DEF LockInv, SemNames
        <4>3. PICK f \in Nat, e \in Nat, m \in Nat, n \in Nat, h \in Int :
                /\ f = sem["full"][b] /\ e = sem["empty"][b] /\ h = Held(b)
                /\ m = Count(b, Claiming) /\ n = Count(b, Owing)
          BY CountTypes
        <4>4. f + m + 1 <= h /\ e + n + h <= MAX_FILES
          BY <2>1, <2>8, <3>1, <4>3 DEF RingCounts, Posting, Reserving
        <4>5. (f + 1) + m + 0 <= h /\ e + n + h + 0 <= MAX_FILES
          BY <4>4, CountTypes
        <4> QED
          BY <2>6, <2>8, <4>1, <4>2, <4>3, <4>5
             DEF RingCounts, Posting, Reserving
      <3>3. RingHistory(b)'
        <4>1. /\ Len(stored[b]) + 1 = nr[b] + 1
              /\ nr[b] \in Nat /\ Len(stored[b]) \in Nat
          BY <2>1, <2>8, <3>1, CountTypes DEF RingHistory, Posting, RingTypes
        <4>2. nr'[b] = IF eof THEN nr[b] ELSE nr[b] + 1
          BY <2>1, <2>8 DEF RingTypes
        <4>3. eof <=> nr[b] = FilesOf[b] + 1
          BY <2>8 DEF IsEof
        <4>4. CASE eof
          BY <2>1, <2>6, <2>8, <3>1, <4>1, <4>2, <4>3, <4>4
             DEF RingHistory, Posting, histVars
        <4>5. CASE ~ eof
          <5>1. Len(stored[b]) + 1 = nr'[b] + 0
            BY <4>1, <4>2, <4>5
          <5> QED
            BY <2>1, <2>6, <2>8, <3>1, <4>5, <5>1
               DEF RingHistory, Posting, histVars
        <4> QED
          BY <4>4, <4>5
      <3> QED
        BY <2>1, <2>5, <2>6, <2>8, <3>2, <3>3, RingStaged DEF RingInv, StartUp
    <2> QED
      BY <2>7, <2>8
  <1> QED
    BY <1>1, <1>2

LEMMA RingAdvanceWrite ==
  ASSUME LockInv, RingTypes, Apart, RingInv, NEW p \in Producers,
         AdvanceWrite(p), NEW b \in Producers
  PROVE  RingOf(b)'
  <1>1. /\ pc[p] = "advance" /\ pc' = [pc EXCEPT ![p] = "post_mutex"]
        /\ handle' = handle
        /\ UNCHANGED <<sem, rindex, slots, workVars, histVars>>
        /\ windex' = [windex EXCEPT ![handle[p]["shm"]] = Advance(@)]
    BY DEF AdvanceWrite, Go, nameVars
  <1>2. windex' = [windex EXCEPT ![p] = Advance(windex[p])]
    BY <1>1, OwnObject DEF StartUp
  <1>3. SameUsers(b)
    BY <1>1, ProducerUsers
  <1>4. pc'[p] = "post_mutex"
    BY <1>1, ProducerStage
  <1>5. CASE b # p
    <2>1. Untouched(b)
      BY <1>1, <1>2, <1>5 DEF Untouched, RingTypes, workVars, histVars
    <2> QED
      BY <1>1, <1>3, <1>5, <2>1, ProducerStage, RingKept DEF RingInv
  <1>6. CASE b = p
    <2>1. /\ RingCounts(b) /\ RingPlaces(b) /\ RingHistory(b)
      BY DEF RingInv, RingOf
    <2>2. /\ Count(b, Claiming)' = Count(b, Claiming)
          /\ Count(b, Owing)' = Count(b, Owing) /\ Held(b)' = Held(b)
      BY <1>1, <1>3 DEF SameUsers, Count, Held, histVars
    <2>3. Front(b)' = Front(b) /\ Rear(b)' = Rear(b)
      <3>1. windex'[b] = Advance(windex[b])
        BY <1>2, <1>6 DEF RingTypes
      <3> QED
        BY <1>1, <1>3, <1>4, <1>6, <3>1 DEF SameUsers, Front, Rear
    <2>4. RingCounts(b)'
      BY <1>1, <1>4, <1>6, <2>1, <2>2 DEF RingCounts, Posting, Reserving
    <2>5. RingPlaces(b)'
      BY <1>1, <2>1, <2>2, <2>3 DEF RingPlaces, histVars
    <2>6. RingHistory(b)'
      BY <1>1, <1>4, <1>6, <2>1 DEF RingHistory, Posting, workVars, histVars
    <2>7. RingFresh(b)'
      BY <1>4, <1>6 DEF RingFresh, StartUp
    <2> QED
      BY <2>4, <2>5, <2>6, <2>7 DEF RingOf
  <1> QED
    BY <1>5, <1>6

LEMMA RingStore ==
  ASSUME LockInv, RingTypes, Apart, RingInv, NEW p \in Producers,
         StoreSlot(p), NEW b \in Producers
  PROVE  RingOf(b)'
  <1> DEFINE s == <<p, nr[p]>>
  <1>1. /\ pc[p] = "store" /\ pc' = [pc EXCEPT ![p] = "advance"]
        /\ handle' = handle
        /\ UNCHANGED <<sem, windex, rindex, workVars, taken>>
    BY DEF StoreSlot, Go, nameVars
  <1>2. /\ slots' = [slots EXCEPT ![p][windex[p]] = s]
        /\ stored' = [stored EXCEPT ![p] = Append(stored[p], s)]
    <2>1. handle[p]["shm"] = p
      BY <1>1, OwnObject DEF StartUp
    <2> QED
      BY <2>1 DEF StoreSlot
  <1>3. SameUsers(b)
    BY <1>1, ProducerUsers
  <1>4. pc'[p] = "advance"
    BY <1>1, ProducerStage
  <1>5. CASE b # p
    <2>1. Untouched(b)
      BY <1>1, <1>2, <1>5 DEF Untouched, RingTypes, workVars
    <2> QED
      BY <1>1, <1>3, <1>5, <2>1, ProducerStage, RingKept DEF RingInv
  <1>6. CASE b = p
    <2>1. /\ RingCounts(b) /\ RingPlaces(b) /\ RingHistory(b)
      BY DEF RingInv, RingOf
    <2>2. PICK S \in Nat, T \in Nat, h \in Int, r \in SlotIdx, M \in Nat :
            /\ S = Len(stored[b]) /\ T = Len(taken[b]) /\ h = Held(b)
            /\ r = Front(b) /\ M = MAX_FILES
      <3>1. Front(b) \in SlotIdx
        BY AdvanceValue DEF Front, RingTypes
      <3> QED
        BY <3>1, CountTypes
    <2>3. h = S - T
      BY <2>2 DEF Held
    <2>4. PICK f \in Nat, e \in Nat, m \in Nat, n \in Nat :
            /\ f = sem["full"][b] /\ e = sem["empty"][b]
            /\ m = Count(b, Claiming) /\ n = Count(b, Owing)
      BY CountTypes
    <2>5. f + m <= h /\ e + n + h + 1 <= M
      <3>1. /\ f + m + (IF pc[b] \in Posting THEN 1 ELSE 0) <= h
            /\ e + n + h + (IF pc[b] \in Reserving THEN 1 ELSE 0) <= M
        BY <2>1, <2>2, <2>4 DEF RingCounts
      <3>2. pc[b] \notin Posting /\ pc[b] \in Reserving
        BY <1>1, <1>6 DEF Posting, Reserving
      <3>3. f + m + 0 <= h /\ e + n + h + 1 <= M
        BY <3>1, <3>2
      <3> QED
        BY <3>3
    <2>6. h >= 0 /\ h < M
      BY <2>5
    <2>7. /\ stored'[b] = Append(stored[b], s)
          /\ Len(stored'[b]) = S + 1 /\ Len(taken'[b]) = T
          /\ stored'[b][S + 1] = s
          /\ \A i \in 1 .. S : stored'[b][i] = stored[b][i]
      <3>1. stored'[b] = Append(stored[b], s) /\ taken' = taken
        BY <1>1, <1>2, <1>6 DEF RingTypes
      <3>2. PICK q \in Seq(Slot) : q = stored[b]
        BY DEF RingTypes
      <3>3. PICK v : v = s
        OBVIOUS
      <3>4. /\ Len(Append(q, v)) = Len(q) + 1
            /\ Append(q, v)[Len(q) + 1] = v
            /\ \A i \in 1 .. Len(q) : Append(q, v)[i] = q[i]
        BY <3>2
      <3> QED
        BY <2>2, <3>1, <3>2, <3>3, <3>4
    <2>8. Held(b)' = h + 1
      BY <2>3, <2>7 DEF Held
    <2>9. Front(b)' = r
      BY <1>1, <1>3, <2>2 DEF SameUsers, Front
    <2>10. windex[b] = Wrap(r + h) /\ windex'[b] = windex[b]
      BY <1>1, <1>6, <2>1, <2>2 DEF RingPlaces, Rear
    <2>11. RingCounts(b)'
      <3>1. /\ Count(b, Claiming)' = m /\ Count(b, Owing)' = n
            /\ sem' = sem
        BY <1>1, <1>3, <2>4 DEF SameUsers, Count
      <3>2. f + m + 1 <= h + 1 /\ e + n + (h + 1) + 0 <= M
        BY <2>5
      <3> QED
        BY <1>4, <1>6, <2>2, <2>4, <2>8, <3>1, <3>2
           DEF RingCounts, Posting, Reserving
    <2>12. RingPlaces(b)'
      <3>1. h \in 0 .. MAX_FILES /\ h < MAX_FILES /\ h \in 0 .. MAX_FILES - 1
        BY <2>2, <2>6
      <3>2. Rear(b)' = Wrap(r + (h + 1))
        <4>1. Advance(Wrap(r + h)) = Wrap(r + h + 1)
          BY <3>1, WrapAdvance
        <4>2. r + h + 1 = r + (h + 1)
          BY LifecycleAssumption DEF SlotIdx
        <4> QED
          BY <1>4, <1>6, <2>10, <4>1, <4>2 DEF Rear
      <3>3. slots'[b] = [slots[b] EXCEPT ![windex[b]] = s]
        BY <1>2, <1>6 DEF RingTypes
      <3>4. windex[b] \in SlotIdx /\ slots[b] \in [SlotIdx -> Slot \cup {Blank}]
        BY DEF RingTypes
      <3>5. ASSUME NEW k \in 0 .. h
            PROVE  slots'[b][Wrap(r + k)] = stored'[b][T + k + 1]
        <4>1. CASE k = h
          <5>1. T + h + 1 = S + 1
            BY <2>3
          <5> QED
            BY <2>7, <2>10, <3>3, <3>4, <4>1, <5>1
        <4>2. CASE k # h
          <5>1. k \in 0 .. h - 1 /\ T + k + 1 \in 1 .. S
            BY <2>3, <4>2
          <5>2. Wrap(r + k) \in SlotIdx /\ Wrap(r + k) # windex[b]
            BY <2>10, <3>1, <5>1, WrapDistinct
          <5>3. slots[b][Wrap(r + k)] = stored[b][T + k + 1]
            BY <2>1, <2>2, <5>1 DEF RingPlaces
          <5> QED
            BY <2>7, <3>3, <3>4, <5>1, <5>2, <5>3
        <4> QED
          BY <4>1, <4>2
      <3>6. (h + 1) - 1 = h
        OBVIOUS
      <3> QED
        BY <2>7, <2>8, <2>9, <3>2, <3>5, <3>6 DEF RingPlaces
    <2>13. RingHistory(b)'
      <3>1. PICK N \in Nat : N = nr[b]
        BY DEF RingTypes
      <3>2. S + 1 = N
        <4>1. Len(stored[b]) + 1 = nr[b] + 0
          BY <1>1, <1>6, <2>1 DEF RingHistory, Posting
        <4>2. S + 1 = N + 0
          BY <2>2, <3>1, <4>1
        <4> QED
          BY <4>2
      <3>3. (S + 1) + 1 = N + 1
        BY <3>2
      <3>4. \A i \in 1 .. S + 1 : stored'[b][i] = <<b, i>>
        <4>1. SUFFICES ASSUME NEW i \in 1 .. S + 1
                       PROVE  stored'[b][i] = <<b, i>>
          OBVIOUS
        <4>2. CASE i = S + 1
          BY <1>6, <2>7, <3>1, <3>2, <4>2
        <4>3. CASE i # S + 1
          <5>1. i \in 1 .. S
            BY <4>3
          <5> QED
            BY <2>1, <2>2, <2>7, <5>1 DEF RingHistory
        <4> QED
          BY <4>2, <4>3
      <3>5. \A i \in 1 .. T : taken'[b][i] = stored'[b][i]
        <4>1. SUFFICES ASSUME NEW i \in 1 .. T
                       PROVE  taken'[b][i] = stored'[b][i]
          OBVIOUS
        <4>2. i \in 1 .. S
          BY <2>3, <2>6
        <4>3. taken[b][i] = stored[b][i] /\ taken' = taken
          BY <1>1, <2>1, <2>2 DEF RingHistory
        <4> QED
          BY <2>7, <4>2, <4>3
      <3>6. nr' = nr
        BY <1>1 DEF workVars
      <3>7. pc'[b] = "advance"
        BY <1>4, <1>6
      <3> QED
        BY <2>7, <3>1, <3>3, <3>4, <3>5, <3>6, <3>7 DEF RingHistory, Posting
    <2>14. RingFresh(b)'
      BY <1>4, <1>6 DEF RingFresh, StartUp
    <2> QED
      BY <2>11, <2>12, <2>13, <2>14 DEF RingOf
  <1> QED
    BY <1>5, <1>6

LEMMA RingConsumer ==
  ASSUME LockInv, RingTypes, Apart, Mapped, RingInv, NEW c \in Consumers,
         Consumer(c)
  PROVE  RingInv'
  <1> SUFFICES ASSUME NEW b \in Producers PROVE RingOf(b)'
    BY DEF RingInv
  <1>1. CASE ConsumerOpens(c)
    BY <1>1, RingConsumerOpens
  <1>2. CASE ConsumerWaits(c)
    BY <1>2, RingConsumerWaits
  <1>3. CASE LoadSlot(c)
    BY <1>3, RingLoad
  <1>4. CASE AdvanceRead(c)
    BY <1>4, RingAdvanceRead
  <1>5. CASE ConsumerPosts(c)
    BY <1>5, RingConsumerPosts
  <1>6. CASE WriteFile(c) \/ ConsumerUnlinks(c)
    BY <1>6, RingConsumerQuiet
  <1>7. CASE Segfault(c)
    BY <1>7, RingSegfault
  <1> QED
    BY <1>1, <1>2, <1>3, <1>4, <1>5, <1>6, <1>7 DEF Consumer

LEMMA RingProducer ==
  ASSUME LockInv, RingTypes, Apart, RingInv, NEW p \in Producers, Producer(p)
  PROVE  RingInv'
  <1> SUFFICES ASSUME NEW b \in Producers PROVE RingOf(b)'
    BY DEF RingInv
  <1>1. CASE ProducerOpens(p) \/ ResetWrite(p) \/ ResetRead(p)
    BY <1>1, RingProducerOpens
  <1>2. CASE ProducerWaits(p)
    BY <1>2, RingProducerWaits
  <1>3. CASE StoreSlot(p)
    BY <1>3, RingStore
  <1>4. CASE AdvanceWrite(p)
    BY <1>4, RingAdvanceWrite
  <1>5. CASE ProducerPostMutex(p) \/ ProducerPostFull(p)
    BY <1>5, RingProducerPosts
  <1> QED
    BY <1>1, <1>2, <1>3, <1>4, <1>5 DEF Producer

LEMMA RingLaunch ==
  ASSUME LockInv, RingTypes, RingInv, NEW x \in Procs, Start(x) \/ Crash(x)
  PROVE  RingInv'
  <1> SUFFICES ASSUME NEW b \in Producers PROVE RingOf(b)'
    BY DEF RingInv
  <1>0. b \in Procs /\ \A c \in Consumers : c \in Procs
    BY DEF Procs
  <1>1. /\ UNCHANGED <<nameVars, sem, ringVars, workVars, histVars>>
        /\ \A y \in Procs : pc'[y] = pc[y]
             \/ (pc[y] = "off" /\ pc'[y] = "open_shm")
    BY DEF Start, Crash, LockInv
  <1>2. Untouched(b)
    BY <1>1 DEF Untouched, ringVars, workVars, histVars
  <1>3. SameStage(b)
    BY <1>0, <1>1 DEF SameStage, StartUp, Posting, Reserving
  <1>4. SameUsers(b)
    <2>1. Of(b)' = Of(b) /\ Of(b) \subseteq Consumers
      BY <1>1 DEF Of, nameVars
    <2>2. ASSUME NEW W, "off" \notin W, "open_shm" \notin W
          PROVE  In(b, W)' = In(b, W)
      BY <1>0, <1>1, <2>1, <2>2 DEF In
    <2>3. /\ "off" \notin Claiming /\ "open_shm" \notin Claiming
          /\ "off" \notin Owing /\ "open_shm" \notin Owing
          /\ "off" \notin Advancing /\ "open_shm" \notin Advancing
      BY DEF Claiming, Owing, Advancing
    <2> QED
      BY <2>2, <2>3 DEF SameUsers
  <1> QED
    BY <1>2, <1>3, <1>4, RingKept DEF RingInv

LEMMA RingStep ==
  ASSUME LockInv, RingTypes, Apart, Mapped, RingInv, [Next]_vars
  PROVE  RingInv'
  <1>1. CASE UNCHANGED vars
    <2>1. UNCHANGED <<pc, handle, sem, windex, rindex, slots, nr, stored,
                      taken>>
      BY <1>1 DEF vars, nameVars, ringVars, workVars, histVars
    <2> SUFFICES ASSUME NEW b \in Producers PROVE RingOf(b)'
      BY DEF RingInv
    <2>2. SameUsers(b)
      BY <2>1 DEF SameUsers, In, Of
    <2> QED
      BY <2>1, <2>2, RingKept DEF RingInv, Untouched, SameStage
  <1> QED
    BY <1>1, RingConsumer, RingProducer, RingLaunch DEF Next, Step

LEMMA RingTaken == LockInv /\ RingTypes /\ RingInv => TakenOnceInOrder
  <1> SUFFICES ASSUME LockInv, RingTypes, RingInv, NEW b \in Producers
               PROVE  /\ Len(taken[b]) <= Len(stored[b])
                      /\ taken[b] = SubSeq(stored[b], 1, Len(taken[b]))
    BY DEF TakenOnceInOrder
  <1>1. RingCounts(b) /\ RingHistory(b)
    BY DEF RingInv, RingOf
  <1>2. Held(b) >= 0
    <2>1. /\ Count(b, Claiming) \in Nat /\ sem["full"][b] \in Nat
          /\ Held(b) \in Int
      BY CountTypes
    <2> QED
      BY <1>1, <2>1 DEF RingCounts
  <1>3. PICK s \in Seq(Slot), t \in Seq(Slot \cup {Blank}) :
          s = stored[b] /\ t = taken[b]
    BY DEF RingTypes
  <1>4. Len(t) <= Len(s) /\ Len(t) \in Nat /\ Len(s) \in Nat
    <2>1. PICK S \in Nat, T \in Nat : S = Len(s) /\ T = Len(t)
      BY <1>3
    <2>2. S - T >= 0
      BY <1>2, <1>3, <2>1 DEF Held
    <2>3. T <= S
      BY <2>2
    <2> QED
      BY <2>1, <2>3
  <1>5. \A i \in 1 .. Len(t) : t[i] = s[i]
    BY <1>1, <1>3 DEF RingHistory
  <1>6. t = SubSeq(s, 1, Len(t))
    <2> DEFINE u == SubSeq(s, 1, Len(t))
    <2>1. u \in Seq(Slot) /\ Len(u) = Len(t)
            /\ \A i \in 1 .. Len(t) : u[i] = s[i]
      BY <1>4
    <2> HIDE DEF u
    <2>2. t = u
      BY <1>3, <1>5, <2>1
    <2> QED
      BY <2>2 DEF u
  <1> QED
    BY <1>3, <1>4, <1>6

-----------------------------------------------------------------------------
\* The steps of a producer, as far as the names are concerned.
LEMMA OpensName ==
  ASSUME LockInv, NEW p \in Producers, ProducerOpens(p)
  PROVE  \E o \in Objects, to \in StartUp \cup {"wait_empty"} :
            /\ pc[p] \in StartUp /\ pc' = [pc EXCEPT ![p] = to]
            /\ bound' = [bound EXCEPT ![o] = IF @ = None THEN p ELSE @]
            /\ handle' = [handle EXCEPT ![p][o] = bound'[o]]
            /\ ~ Opened(p, o)
            /\ \A n \in Objects : to \notin Before(n) <=> Opened(p, n) \/ n = o
            /\ UNCHANGED <<crashed, sem, ringVars, workVars, histVars>>
  <1>1. CASE OpenOrCreate(p, "shm", "open_shm", "reset_write")
    BY <1>1 DEF OpenOrCreate, Go, Objects, SemNames, StartUp, Opened, Before
  <1>2. CASE OpenOrCreate(p, "empty", "open_empty", "open_full")
    BY <1>2 DEF OpenOrCreate, Go, Objects, SemNames, StartUp, Opened, Before
  <1>3. CASE OpenOrCreate(p, "full", "open_full", "open_mutex")
    BY <1>3 DEF OpenOrCreate, Go, Objects, SemNames, StartUp, Opened, Before
  <1>4. CASE OpenOrCreate(p, "mutex", "open_mutex", "wait_empty")
    BY <1>4 DEF OpenOrCreate, Go, Objects, SemNames, StartUp, Opened, Before
  <1> QED
    BY <1>1, <1>2, <1>3, <1>4 DEF ProducerOpens

LEMMA KeepsNames ==
  ASSUME LockInv, NEW p \in Producers, Producer(p), ~ ProducerOpens(p)
  PROVE  \E to \in Steps \ {"off", "fault"} :
            /\ pc[p] \in Steps \ {"off", "done"}
            /\ pc' = [pc EXCEPT ![p] = to]
            /\ UNCHANGED <<crashed, nameVars, item, written, taken>>
            /\ Ready(p) => to \notin {"off"} \cup StartUp
            /\ \A n \in Objects : to \notin Before(n) <=> Opened(p, n)
  <1>1. CASE ResetWrite(p) \/ ResetRead(p)
    BY <1>1 DEF ResetWrite, ResetRead, Go, Objects, SemNames, StartUp, Steps,
                Opened, Before, Ready, workVars, histVars
  <1>2. CASE ~ (ResetWrite(p) \/ ResetRead(p))
    <2>1. PICK from, to \in Steps \ ({"off", "fault"} \cup StartUp) :
            /\ Go(p, from, to) /\ from # "done"
            /\ UNCHANGED <<nameVars, item, written, taken>>
      BY <1>2 DEF Producer, ProducerWaits, StoreSlot, AdvanceWrite,
                  ProducerPostMutex, ProducerPostFull, SemWait, SemPost, Steps,
                  StartUp, workVars, histVars
    <2>2. \A n \in Objects : from \notin Before(n) /\ to \notin Before(n)
      BY <2>1 DEF Before, StartUp
    <2> QED
      BY <2>1, <2>2 DEF Go, Opened
  <1> QED
    BY <1>1, <1>2

-----------------------------------------------------------------------------
\* One producer that the users start, with any consumers, killed or not:
\* whatever is opened is its own.

LEMMA OpensFound ==
  ASSUME LockInv, NEW c \in Consumers, ConsumerOpens(c)
  PROVE  \E o \in Objects, to \in StartUp \cup {"wait_full"} :
            /\ pc[c] \in StartUp /\ pc' = [pc EXCEPT ![c] = to]
            /\ bound' = bound /\ handle' = [handle EXCEPT ![c][o] = bound[o]]
            /\ ~ Opened(c, o) /\ to # "open_shm"
            /\ \A n \in Objects : to \notin Before(n) <=> Opened(c, n) \/ n = o
            /\ o = "shm" <=> pc[c] = "open_shm"
            /\ UNCHANGED <<crashed, sem, ringVars, workVars, histVars>>
  <1>1. CASE Open(c, "shm", "open_shm", "open_empty")
    BY <1>1 DEF Open, Go, Objects, SemNames, StartUp, Opened, Before
  <1>2. CASE Open(c, "empty", "open_empty", "open_full")
    BY <1>2 DEF Open, Go, Objects, SemNames, StartUp, Opened, Before
  <1>3. CASE Open(c, "full", "open_full", "open_mutex")
    BY <1>3 DEF Open, Go, Objects, SemNames, StartUp, Opened, Before
  <1>4. CASE Open(c, "mutex", "open_mutex", "wait_full")
    BY <1>4 DEF Open, Go, Objects, SemNames, StartUp, Opened, Before
  <1> QED
    BY <1>1, <1>2, <1>3, <1>4 DEF ConsumerOpens

LEMMA KeepsHandles ==
  ASSUME LockInv, NEW c \in Consumers, Consumer(c), ~ ConsumerOpens(c)
  PROVE  \E to \in Steps \ ({"off"} \cup StartUp) :
            /\ pc[c] \in Steps \ ({"off", "done"} \cup StartUp)
            /\ pc' = [pc EXCEPT ![c] = to]
            /\ UNCHANGED <<crashed, handle>>
            /\ bound' = bound \/ \E o \in Objects : Unlink(c, o, pc[c], to)
  <1>1. CASE ConsumerUnlinks(c)
    <2>1. PICK o \in Objects,
               from, to \in {"unlink_shm", "unlink_empty", "unlink_full",
                             "unlink_mutex", "done"} :
            Unlink(c, o, from, to) /\ from # "done"
      BY <1>1 DEF ConsumerUnlinks, Objects, SemNames
    <2>2. pc[c] = from
      BY <2>1 DEF Unlink, Go
    <2> QED
      BY <2>1, <2>2 DEF Unlink, Go, Steps, StartUp
  <1>2. CASE ~ ConsumerUnlinks(c)
    <2>1. PICK from \in Steps \ ({"off", "done"} \cup StartUp),
               to \in Steps \ ({"off"} \cup StartUp) :
            Go(c, from, to) /\ UNCHANGED nameVars
      <3>1. CASE Segfault(c)
        BY <3>1 DEF Segfault, Uses, Steps, StartUp
      <3>2. CASE ConsumerPosts(c)
        BY <3>2 DEF ConsumerPosts, SemPost, Steps, StartUp
      <3>3. CASE ConsumerWaits(c) \/ LoadSlot(c) \/ AdvanceRead(c)
                   \/ WriteFile(c)
        BY <3>3 DEF ConsumerWaits, SemWait, LoadSlot, AdvanceRead, WriteFile,
                    Steps, StartUp
      <3> QED
        BY <1>2, <3>1, <3>2, <3>3 DEF Consumer
    <2> QED
      BY <2>1 DEF Go, nameVars
  <1> QED
    BY <1>1, <1>2

\* The users start one producer at most.
OneProducer == \A p, q \in user.runs \cap Producers : p = q

\* Only what the users start is ever bound or opened.
SingleInv ==
  /\ \A x \in Procs : pc[x] # "off" => x \in user.runs
  /\ \A o \in Objects : bound[o] \in {None} \cup user.runs
  /\ \A x \in Procs, o \in Objects : handle[x][o] \in {None} \cup user.runs
  /\ Apart

LEMMA NothingOpen ==
  ASSUME Init
  PROVE  Apart /\ \A x \in Procs : pc[x] = "off"
           /\ \A o \in Objects : handle[x][o] = None
  BY DEF Init, Apart, Opened, Before, Procs

LEMMA SingleInit == Init => SingleInv
  BY NothingOpen DEF Init, SingleInv

\* A producer that opens nothing, and a consumer, leave what producers opened.
LEMMA ApartKept ==
  ASSUME LockInv, Apart, NEW x \in Procs, NEW to, pc' = [pc EXCEPT ![x] = to],
         handle' = handle,
         x \in Producers =>
            \A n \in Objects : to \notin Before(n) <=> Opened(x, n)
  PROVE  Apart'
  <1>1. \A p \in Producers, o \in Objects : Opened(p, o)' <=> Opened(p, o)
    BY DEF LockInv, Opened, Procs
  <1> QED
    BY <1>1 DEF Apart

LEMMA ApartStart ==
  ASSUME LockInv, Apart, NEW x \in Procs, Start(x)
  PROVE  Apart'
  <1>1. \A n \in Objects : "open_shm" \notin Before(n) <=> Opened(x, n)
    BY DEF Start, Opened, Before
  <1> QED
    BY <1>1, ApartKept DEF Start, nameVars

LEMMA SingleProducer ==
  ASSUME LockInv, OneProducer, SingleInv, NEW p \in Producers, Producer(p),
         user' = user
  PROVE  SingleInv'
  <1>0. /\ p \in Procs /\ p \notin Consumers /\ None \notin Producers
        /\ pc \in [Procs -> Steps]
        /\ bound \in [Objects -> Producers \cup {None}]
        /\ handle \in [Procs -> [Objects -> Producers \cup {None}]]
    BY LifecycleAssumption DEF Procs, LockInv
  <1>1. CASE ProducerOpens(p)
    <2>1. PICK o \in Objects, to \in StartUp \cup {"wait_empty"} :
            /\ pc[p] \in StartUp /\ pc' = [pc EXCEPT ![p] = to]
            /\ bound' = [bound EXCEPT ![o] = IF @ = None THEN p ELSE @]
            /\ handle' = [handle EXCEPT ![p][o] = bound'[o]]
            /\ ~ Opened(p, o)
            /\ \A n \in Objects : to \notin Before(n) <=> Opened(p, n) \/ n = o
      BY <1>1, OpensName
    <2>2. p \in user.runs
      BY <1>0, <2>1 DEF SingleInv, StartUp
    <2>3. bound[o] \in {None, p}
      BY <1>0, <2>2 DEF SingleInv, OneProducer
    <2>4. bound' = [bound EXCEPT ![o] = p] /\ bound'[o] = p
      BY <1>0, <2>1, <2>3
    <2>5. handle' = [handle EXCEPT ![p][o] = p]
      BY <2>1, <2>4
    <2>6. \A n \in Objects : Opened(p, n)' <=> Opened(p, n) \/ n = o
      BY <1>0, <2>1 DEF Opened
    <2>7. \A q \in Producers,
          n \in Objects : q # p => (Opened(q, n)' <=> Opened(q, n))
      BY <1>0, <2>1 DEF Opened, Procs
    <2>8. Apart'
      <3>1. \A q \in Producers, n \in Objects :
               handle'[q][n] = IF Opened(q, n)' THEN q ELSE None
        BY <1>0, <2>5, <2>6, <2>7 DEF SingleInv, Apart, Procs
      <3>2. \A c \in Consumers : handle'[c] = handle[c]
        BY <1>0, <2>5 DEF Procs
      <3> QED
        BY <3>1, <3>2 DEF SingleInv, Apart
    <2>9. \A x \in Procs : pc'[x] # "off" => x \in user.runs
      BY <1>0, <2>1, <2>2 DEF SingleInv
    <2> QED
      BY <1>0, <2>2, <2>4, <2>5, <2>8, <2>9 DEF SingleInv
  <1>2. CASE ~ ProducerOpens(p)
    <2>1. PICK to \in Steps \ {"off", "fault"} :
            /\ pc[p] \in Steps \ {"off", "done"}
            /\ pc' = [pc EXCEPT ![p] = to]
            /\ UNCHANGED <<crashed, nameVars, item, written, taken>>
            /\ Ready(p) => to \notin {"off"} \cup StartUp
            /\ \A n \in Objects : to \notin Before(n) <=> Opened(p, n)
      BY <1>2, KeepsNames
    <2>2. Apart'
      BY <1>0, <2>1, ApartKept DEF SingleInv, nameVars
    <2>3. \A x \in Procs : pc'[x] # "off" => x \in user.runs
      BY <1>0, <2>1 DEF SingleInv
    <2> QED
      BY <2>1, <2>2, <2>3 DEF SingleInv, nameVars
  <1> QED
    BY <1>1, <1>2

LEMMA SingleConsumer ==
  ASSUME LockInv, OneProducer, SingleInv, NEW c \in Consumers, Consumer(c),
         user' = user
  PROVE  SingleInv'
  <1>0. /\ c \in Procs /\ c \notin Producers /\ None \notin Producers
        /\ pc \in [Procs -> Steps]
        /\ bound \in [Objects -> Producers \cup {None}]
        /\ handle \in [Procs -> [Objects -> Producers \cup {None}]]
    BY LifecycleAssumption DEF Procs, LockInv
  <1>1. CASE ConsumerOpens(c)
    <2>1. PICK o \in Objects, to \in StartUp \cup {"wait_full"} :
            /\ pc[c] \in StartUp /\ pc' = [pc EXCEPT ![c] = to]
            /\ bound' = bound /\ handle' = [handle EXCEPT ![c][o] = bound[o]]
      BY <1>1, OpensFound
    <2>2. \A x \in Procs : pc'[x] # "off" => x \in user.runs
      BY <1>0, <2>1 DEF SingleInv, StartUp
    <2>3. \A x \in Procs,
          n \in Objects : handle'[x][n] \in {None} \cup user.runs
      BY <1>0, <2>1 DEF SingleInv
    <2>4. Apart'
      <3>1. \A q \in Producers, n \in Objects : Opened(q, n)' <=> Opened(q, n)
        BY <1>0, <2>1 DEF Opened, Procs
      <3>2. \A q \in Producers : handle'[q] = handle[q]
        BY <1>0, <2>1 DEF Procs
      <3>3. \A d \in Consumers, n \in Objects :
              handle'[d][n] \in {None} \cup (user.runs \cap Producers)
        <4>1. handle' \in [Procs -> [Objects -> Producers \cup {None}]]
          BY <1>0, <2>1
        <4> QED
          BY <2>3, <4>1 DEF Procs
      <3>4. \A d \in Consumers, o1, o2 \in Objects :
               handle'[d][o1] # None /\ handle'[d][o2] # None
               => handle'[d][o1] = handle'[d][o2]
        BY <3>3 DEF OneProducer
      <3> QED
        BY <3>1, <3>2, <3>4 DEF SingleInv, Apart
    <2> QED
      BY <2>1, <2>2, <2>3, <2>4 DEF SingleInv
  <1>2. CASE ~ ConsumerOpens(c)
    <2>1. PICK to \in Steps \ ({"off"} \cup StartUp) :
            /\ pc[c] \in Steps \ ({"off", "done"} \cup StartUp)
            /\ pc' = [pc EXCEPT ![c] = to]
            /\ UNCHANGED <<crashed, handle>>
            /\ bound' = bound \/ \E o \in Objects : Unlink(c, o, pc[c], to)
      BY <1>2, KeepsHandles
    <2>2. Apart'
      BY <1>0, <2>1, ApartKept DEF SingleInv
    <2>3. \A x \in Procs : pc'[x] # "off" => x \in user.runs
      BY <1>0, <2>1 DEF SingleInv
    <2>4. \A o \in Objects : bound'[o] \in {None} \cup user.runs
      BY <1>0, <2>1 DEF SingleInv, Unlink
    <2> QED
      BY <2>1, <2>2, <2>3, <2>4 DEF SingleInv
  <1> QED
    BY <1>1, <1>2

LEMMA SingleStep ==
  ASSUME LockInv, OneProducer, SingleInv, [Next]_vars
  PROVE  SingleInv'
  <1>1. CASE UNCHANGED vars
    BY <1>1 DEF SingleInv, Apart, Opened, vars, nameVars
  <1>2. ASSUME NEW x \in Procs, Start(x), user' = user
        PROVE  SingleInv'
    <2>1. Apart'
      BY <1>2, ApartStart DEF SingleInv
    <2>2. \A y \in Procs : pc'[y] # "off" => y \in user.runs
      BY <1>2 DEF SingleInv, LockInv, Start, MayStart
    <2> QED
      BY <1>2, <2>1, <2>2 DEF SingleInv, Start, nameVars
  <1>3. ASSUME NEW x \in Procs, Crash(x), user' = user
        PROVE  SingleInv'
    BY <1>3 DEF Crash, SingleInv, Apart, Opened, nameVars
  <1> QED
    BY <1>1, <1>2, <1>3, SingleProducer, SingleConsumer DEF Next, Step

-----------------------------------------------------------------------------
\* Sessions: the phases that the machine goes through.

\* Not started, or through.
Idle(x) == pc[x] \in {"off", "done"}

\* The steps at which a consumer has unlinked the name.
After(o) ==
  {"done"} \cup (IF o # "mutex" THEN {"unlink_mutex"} ELSE {})
           \cup (IF o \in {"shm", "empty"} THEN {"unlink_full"} ELSE {})
           \cup (IF o = "shm" THEN {"unlink_empty"} ELSE {})

\* No consumer outside C has mapped the segment of p.
Unserved(p, C) == \A d \in Consumers \ C : handle[d]["shm"] # p

\* How many producers were started that have no consumer yet.
Surplus == Cardinality(Started(Producers)) - Cardinality(Started(Consumers))

\* Between two sessions nothing runs and no name is bound.
Between ==
  /\ Surplus = 0 /\ \A x \in Procs : Idle(x)
  /\ \A o \in Objects : bound[o] = None

\* A producer that has no consumer yet; the names it has opened are its own.
Alone(p) ==
  /\ Surplus = 1 /\ pc[p] # "off" /\ \A x \in Procs \ {p} : Idle(x)
  /\ \A o \in Objects : bound[o] = IF Opened(p, o) THEN p ELSE None
  /\ Unserved(p, {})

\* A producer and its consumer; the names the consumer has not unlinked, and
\* the objects it has opened, are those of the producer.
Paired(p, c) ==
  /\ Surplus = 0 /\ Ready(p) /\ pc[c] \notin {"off", "done", "fault"}
  /\ \A x \in Procs \ {p, c} : Idle(x)
  /\ \A o \in Objects : bound[o] = IF pc[c] \in After(o) THEN None ELSE p
  /\ \A o \in Objects : handle[c][o] = IF Opened(c, o) THEN p ELSE None
  /\ Unserved(p, {c})

\* One session after the other.
Phase == \/ Between
         \/ \E p \in Producers : Alone(p)
         \/ \E p \in Producers, c \in Consumers : Paired(p, c)

\* What is opened belongs to a producer that was ready, and no two consumers
\* have mapped the same segment.
SessionInv ==
  /\ Apart /\ crashed = {} /\ Phase
  /\ \A c \in Consumers, o \in Objects, p \in Producers :
        handle[c][o] = p => Opened(c, o) /\ Ready(p)
  /\ \A c, d \in Consumers :
        c # d /\ handle[c]["shm"] # None => handle[d]["shm"] # handle[c]["shm"]
  /\ \A c \in Consumers : pc[c] = "done" => handle[c]["shm"] # None

LEMMA SurplusType ==
  ASSUME RingTypes
  PROVE  /\ IsFiniteSet(Started(Producers)) /\ IsFiniteSet(Started(Consumers))
         /\ Surplus \in Int
  <1>1. /\ Started(Producers) \subseteq Started(Procs)
        /\ Started(Consumers) \subseteq Started(Procs)
    BY DEF Started, Procs
  <1>2. /\ IsFiniteSet(Started(Producers)) /\ IsFiniteSet(Started(Consumers))
    BY <1>1, FS_Subset DEF RingTypes
  <1> QED
    BY <1>2, FS_CardinalityType DEF Surplus

\* Only a start changes how many are started.
LEMMA SurplusKept ==
  ASSUME LockInv, NEW x \in Procs, NEW to \in Steps \ {"off"},
         pc' = [pc EXCEPT ![x] = to], pc[x] # "off"
  PROVE  Surplus' = Surplus
  <1>1. \A y \in Procs : pc'[y] # "off" <=> pc[y] # "off"
    BY DEF LockInv
  <1>2. Started(Producers)' = Started(Producers)
          /\ Started(Consumers)' = Started(Consumers)
    BY <1>1 DEF Started, Procs
  <1> QED
    BY <1>2 DEF Surplus

LEMMA SurplusStart ==
  ASSUME LockInv, RingTypes, NEW x \in Procs, pc[x] = "off",
         pc' = [pc EXCEPT ![x] = "open_shm"]
  PROVE  Surplus' = IF x \in Producers THEN Surplus + 1 ELSE Surplus - 1
  <1>1. \A y \in Procs : pc'[y] # "off" <=> pc[y] # "off" \/ y = x
    BY DEF LockInv
  <1>2. CASE x \in Producers
    <2>1. /\ Started(Producers)' = Started(Producers) \cup {x}
          /\ x \notin Started(Producers)
          /\ Started(Consumers)' = Started(Consumers)
      BY <1>1, <1>2, LifecycleAssumption DEF Started, Procs
    <2>2. Cardinality(Started(Producers) \cup {x}) = Cardinality(Started(Producers)) + 1
      BY <2>1, SurplusType, FS_AddElement
    <2>3. /\ Cardinality(Started(Producers)) \in Int
          /\ Cardinality(Started(Consumers)) \in Int
      BY SurplusType, FS_CardinalityType
    <2> QED
      BY <1>2, <2>1, <2>2, <2>3 DEF Surplus
  <1>3. CASE x \notin Producers
    <2>1. /\ Started(Consumers)' = Started(Consumers) \cup {x}
          /\ x \notin Started(Consumers)
          /\ Started(Producers)' = Started(Producers)
      BY <1>1, <1>3, LifecycleAssumption DEF Started, Procs
    <2>2. Cardinality(Started(Consumers) \cup {x}) = Cardinality(Started(Consumers)) + 1
      BY <2>1, SurplusType, FS_AddElement
    <2>3. /\ Cardinality(Started(Producers)) \in Int
          /\ Cardinality(Started(Consumers)) \in Int
      BY SurplusType, FS_CardinalityType
    <2> QED
      BY <1>3, <2>1, <2>2, <2>3 DEF Surplus
  <1> QED
    BY <1>2, <1>3

LEMMA SessionInit == Init => SessionInv
  <1> SUFFICES ASSUME Init PROVE SessionInv
    OBVIOUS
  <1>1. Started(Producers) = {} /\ Started(Consumers) = {}
    BY DEF Init, Started, Procs
  <1>2. Surplus = 0
    BY <1>1, FS_EmptySet DEF Surplus
  <1>3. Between
    BY <1>2 DEF Init, Between, Idle
  <1>4. \A c \in Consumers : handle[c]["shm"] = None /\ pc[c] = "off"
               /\ \A o \in Objects : handle[c][o] = None
    BY DEF Init, Procs, Objects
  <1>5. \A c \in Consumers, o \in Objects, p \in Producers : handle[c][o] # p
    BY <1>4, LifecycleAssumption
  <1> QED
    BY <1>3, <1>4, <1>5, NothingOpen DEF SessionInv, Phase, Init

\* Who runs, and in what company.
LEMMA WhoRuns ==
  ASSUME Phase, LockInv
  PROVE  /\ \A p \in Producers : ~ Idle(p) =>
               Alone(p) \/ \E c \in Consumers : Paired(p, c)
         /\ \A c \in Consumers : ~ Idle(c) => \E p \in Producers : Paired(p, c)
  BY LifecycleAssumption DEF Phase, Between, Alone, Paired, Procs

LEMMA SessionStart ==
  ASSUME LockInv, RingTypes, InSessions, SessionInv, NEW x \in Procs, Start(x),
         user' = user
  PROVE  SessionInv'
  <1>0. /\ pc \in [Procs -> Steps] /\ None \notin Producers
        /\ Producers \cap Consumers = {} /\ Procs = Producers \cup Consumers
        /\ handle \in [Procs -> [Objects -> Producers \cup {None}]]
    BY LifecycleAssumption DEF LockInv, Procs
  <1>1. /\ pc[x] = "off" /\ pc' = [pc EXCEPT ![x] = "open_shm"]
        /\ MayStart(x)
        /\ UNCHANGED <<crashed, bound, handle>>
    BY DEF Start, nameVars
  <1>2. /\ Cardinality(Started(Producers)) \in Int
        /\ Cardinality(Started(Consumers)) \in Int
    BY SurplusType, FS_CardinalityType
  <1>3. /\ x \in Producers => Surplus = 0 /\ Running = {}
        /\ x \notin Producers => Surplus > 0
             /\ \A p \in Started(Producers) : Ready(p)
    BY <1>1, <1>2 DEF MayStart, InSessions, Surplus
  <1>4. /\ pc'[x] = "open_shm" /\ \A y \in Procs : y # x => pc'[y] = pc[y]
    BY <1>0, <1>1
  <1>5. /\ \A o \in Objects : ~ Opened(x, o) /\ ~ Opened(x, o)'
        /\ \A y \in Procs, o \in Objects : Opened(y, o)' <=> Opened(y, o)
    BY <1>1, <1>4 DEF Opened, Before
  <1>6. /\ \A y \in Procs : y # x => (Idle(y)' <=> Idle(y))
        /\ \A y \in Procs : y # x => (Ready(y)' <=> Ready(y))
        /\ ~ Ready(x) /\ Idle(x) /\ ~ Idle(x)'
    BY <1>1, <1>4 DEF Idle, Ready
  <1>7. "shm" \in Objects
    BY DEF Objects
  <1>10. \A c \in Consumers, o \in Objects, p \in Producers :
            handle'[c][o] = p => Opened(c, o)' /\ Ready(p)'
    <2>1. SUFFICES ASSUME NEW c \in Consumers, NEW o \in Objects,
                          NEW p \in Producers, handle'[c][o] = p
                   PROVE  Opened(c, o)' /\ Ready(p)'
      OBVIOUS
    <2>2. Opened(c, o) /\ Ready(p)
      BY <1>1, <2>1 DEF SessionInv
    <2> QED
      BY <1>0, <1>5, <1>6, <2>2
  <1>8. CASE x \in Producers
    <2>1. Between
      <3>1. ~ \E p \in Producers : Alone(p)
        BY <1>3, <1>8 DEF Alone
      <3>2. ~ \E p \in Producers, c \in Consumers : Paired(p, c)
        <4>1. SUFFICES ASSUME NEW p \in Producers, NEW c \in Consumers,
                              Paired(p, c)
                       PROVE  FALSE
          OBVIOUS
        <4>2. c \in Running
          BY <1>0, <4>1 DEF Running, Paired, SessionInv
        <4> QED
          BY <1>3, <1>8, <4>2
      <3> QED
        BY <3>1, <3>2 DEF SessionInv, Phase
    <2>2. Surplus' = 1
      <3>1. Surplus' = Surplus + 1
        BY <1>1, <1>8, SurplusStart
      <3>2. Surplus = 0
        BY <2>1 DEF Between
      <3> QED
        BY <3>1, <3>2
    <2>3. Unserved(x, {})'
      BY <1>1, <1>5, <1>6, <1>7, <1>8, <1>0 DEF SessionInv, Unserved
    <2>4. Alone(x)'
      BY <1>0, <1>1, <1>4, <1>5, <1>6, <2>1, <2>2, <2>3 DEF Alone, Between
    <2> QED
      <3>1. Phase'
        BY <1>8, <2>4 DEF Phase
      <3>2. Apart'
        BY <1>1, ApartStart DEF SessionInv
      <3> QED
        BY <1>0, <1>1, <1>4, <1>10, <3>1, <3>2 DEF SessionInv
  <1>9. CASE x \in Consumers
    <2>1. PICK p \in Producers : Alone(p)
      <3>1. Surplus # 0
        BY <1>0, <1>2, <1>3, <1>9
      <3> QED
        BY <3>1 DEF SessionInv, Phase, Between, Paired
    <2>2. Ready(p) /\ p # x /\ p \in Procs
      BY <1>0, <1>3, <1>9, <2>1 DEF Alone, Started
    <2>3. Surplus' = 0
      <3>1. Surplus = 1 /\ x \notin Producers
        BY <1>0, <1>9, <2>1 DEF Alone
      <3>2. Surplus' = Surplus - 1
        BY <1>1, <3>1, SurplusStart
      <3> QED
        BY <3>1, <3>2
    <2>4. \A o \in Objects : Opened(p, o)
      BY <2>2 DEF Ready, Opened, Before, StartUp
    <2>5. \A o \in Objects : handle[x][o] = None
      <3>1. \A o \in Objects : handle[x][o] \in Producers \cup {None}
        BY <1>0
      <3> QED
        BY <1>5, <1>9, <3>1 DEF SessionInv
    <2>6. Paired(p, x)'
      <3>1. Ready(p)'
        BY <1>6, <2>2
      <3>2. \A y \in Procs \ {p, x} : Idle(y)'
        BY <1>6, <2>1 DEF Alone
      <3>3. \A o \in Objects : bound'[o] = IF pc'[x] \in After(o)
                                           THEN None ELSE p
        <4>1. \A o \in Objects : "open_shm" \notin After(o)
          BY DEF After
        <4> QED
          BY <1>1, <1>4, <2>1, <2>4, <4>1 DEF Alone
      <3>4. Unserved(p, {x})'
        BY <1>1, <2>1 DEF Alone, Unserved
      <3> QED
        BY <1>0, <1>1, <1>4, <1>5, <2>3, <2>5, <3>1, <3>2, <3>3, <3>4,
           <1>9 DEF Paired
    <2> QED
      <3>1. Phase'
        BY <1>9, <2>6 DEF Phase
      <3>2. Apart'
        BY <1>1, ApartStart DEF SessionInv
      <3> QED
        BY <1>0, <1>1, <1>4, <1>10, <3>1, <3>2 DEF SessionInv
  <1> QED
    BY <1>0, <1>8, <1>9

LEMMA SessionProducer ==
  ASSUME LockInv, SessionInv, NEW p \in Producers, Producer(p)
  PROVE  SessionInv'
  <1>0. /\ p \in Procs /\ p \notin Consumers /\ None \notin Producers
        /\ pc \in [Procs -> Steps] /\ Procs = Producers \cup Consumers
        /\ Producers \cap Consumers = {}
        /\ bound \in [Objects -> Producers \cup {None}]
        /\ handle \in [Procs -> [Objects -> Producers \cup {None}]]
    BY LifecycleAssumption DEF Procs, LockInv
  <1>1. CASE ProducerOpens(p)
    <2>1. PICK o \in Objects, to \in StartUp \cup {"wait_empty"} :
            /\ pc[p] \in StartUp /\ pc' = [pc EXCEPT ![p] = to]
            /\ bound' = [bound EXCEPT ![o] = IF @ = None THEN p ELSE @]
            /\ handle' = [handle EXCEPT ![p][o] = bound'[o]]
            /\ ~ Opened(p, o)
            /\ \A n \in Objects : to \notin Before(n) <=> Opened(p, n) \/ n = o
            /\ UNCHANGED <<crashed, sem, ringVars, workVars, histVars>>
      BY <1>1, OpensName
    <2>2. Alone(p)
      <3>1. ~ Idle(p) /\ ~ Ready(p)
        BY <2>1 DEF Idle, Ready, StartUp
      <3> QED
        BY <3>1, WhoRuns DEF SessionInv, Paired
    <2>3. bound[o] = None
      BY <2>1, <2>2 DEF Alone
    <2>4. bound' = [bound EXCEPT ![o] = p] /\ bound'[o] = p
      BY <1>0, <2>1, <2>3
    <2>5. handle' = [handle EXCEPT ![p][o] = p]
      BY <2>1, <2>4
    <2>6. pc'[p] = to /\ \A y \in Procs : y # p => pc'[y] = pc[y]
      BY <1>0, <2>1
    <2>7. /\ \A n \in Objects : Opened(p, n)' <=> Opened(p, n) \/ n = o
          /\ \A y \in Procs,
             n \in Objects : y # p => (Opened(y, n)' <=> Opened(y, n))
      BY <2>1, <2>6 DEF Opened
    <2>8. \A c \in Consumers : c # p /\ c \in Procs /\ handle'[c] = handle[c]
            /\ pc'[c] = pc[c]
      BY <1>0, <2>5, <2>6
    <2>9. Apart'
      <3>1. \A q \in Producers, n \in Objects :
               handle'[q][n] = IF Opened(q, n)' THEN q ELSE None
        BY <1>0, <2>5, <2>7 DEF SessionInv, Apart
      <3> QED
        BY <2>8, <3>1 DEF SessionInv, Apart
    <2>10. Alone(p)'
      <3>1. Surplus' = Surplus
        <4>1. pc[p] # "off" /\ to \in Steps \ {"off"}
          BY <2>1 DEF StartUp, Steps
        <4> QED
          BY <1>0, <2>1, <4>1, SurplusKept
      <3>2. \A x \in Procs \ {p} : Idle(x)'
        BY <2>2, <2>6 DEF Alone, Idle
      <3>3. \A n \in Objects : bound'[n] = IF Opened(p, n)' THEN p ELSE None
        BY <1>0, <2>2, <2>4, <2>7 DEF Alone
      <3>4. Unserved(p, {})'
        BY <2>2, <2>8 DEF Alone, Unserved
      <3>5. pc'[p] # "off"
        BY <2>1, <2>6 DEF StartUp
      <3> QED
        BY <2>2, <3>1, <3>2, <3>3, <3>4, <3>5 DEF Alone
    <2>11. Phase'
      BY <2>10 DEF Phase
    <2>12. \A c \in Consumers, n \in Objects, q \in Producers :
             handle'[c][n] = q => Opened(c, n)' /\ Ready(q)'
      <3>1. \A q \in Producers : Ready(q) => Ready(q)'
        BY <1>0, <2>1, <2>6 DEF Ready
      <3> QED
        BY <2>7, <2>8, <3>1 DEF SessionInv
    <2> QED
      BY <2>1, <2>8, <2>9, <2>11, <2>12 DEF SessionInv
  <1>2. CASE ~ ProducerOpens(p)
    <2>1. PICK to \in Steps \ {"off", "fault"} :
            /\ pc[p] \in Steps \ {"off", "done"}
            /\ pc' = [pc EXCEPT ![p] = to]
            /\ UNCHANGED <<crashed, nameVars, item, written, taken>>
            /\ Ready(p) => to \notin {"off"} \cup StartUp
            /\ \A n \in Objects : to \notin Before(n) <=> Opened(p, n)
      BY <1>2, KeepsNames
    <2>2. bound' = bound /\ handle' = handle /\ crashed' = crashed
      BY <2>1 DEF nameVars
    <2>3. Apart'
      BY <1>0, <2>1, <2>2, ApartKept DEF SessionInv
    <2>4. /\ pc'[p] = to /\ \A y \in Procs : y # p => pc'[y] = pc[y]
          /\ \A y \in Procs, n \in Objects : Opened(y, n)' <=> Opened(y, n)
          /\ \A y \in Procs : Ready(y) => Ready(y)'
          /\ Surplus' = Surplus
      <3>1. pc'[p] = to /\ \A y \in Procs : y # p => pc'[y] = pc[y]
        BY <1>0, <2>1
      <3>2. Surplus' = Surplus
        BY <1>0, <2>1, SurplusKept
      <3> QED
        BY <2>1, <3>1, <3>2 DEF Opened, Ready
    <2>5. Phase'
      <3>1. ~ Idle(p)
        BY <2>1 DEF Idle
      <3>2. CASE Alone(p)
        <4>1. Alone(p)'
          BY <1>0, <2>1, <2>2, <2>4, <3>2 DEF Alone, Idle, Unserved
        <4> QED
          BY <4>1 DEF Phase
      <3>3. CASE \E c \in Consumers : Paired(p, c)
        <4>1. PICK c \in Consumers : Paired(p, c)
          BY <3>3
        <4>2. pc'[c] = pc[c] /\ c \in Procs
          BY <1>0, <2>4
        <4>3. Ready(p)' /\ \A x \in Procs \ {p, c} : Idle(x)'
          BY <1>0, <2>4, <4>1 DEF Paired, Idle
        <4>4. \A n \in Objects : Opened(c, n)' <=> Opened(c, n)
          BY <2>4, <4>2
        <4>5. Paired(p, c)'
          BY <2>2, <2>4, <4>1, <4>2, <4>3, <4>4 DEF Paired, Unserved
        <4> QED
          BY <4>5 DEF Phase
      <3> QED
        BY <3>1, <3>2, <3>3, WhoRuns DEF SessionInv
    <2>6. \A c \in Consumers : pc'[c] = pc[c]
      BY <1>0, <2>4
    <2>7. \A c \in Consumers, n \in Objects, q \in Producers :
             handle'[c][n] = q => Opened(c, n)' /\ Ready(q)'
      BY <1>0, <2>2, <2>4 DEF SessionInv
    <2> QED
      BY <2>2, <2>3, <2>5, <2>6, <2>7 DEF SessionInv
  <1> QED
    BY <1>1, <1>2

-----------------------------------------------------------------------------
LEMMA WorksOn ==
  ASSUME LockInv, NEW c \in Consumers, Consumer(c),
         ~ ConsumerOpens(c), ~ ConsumerUnlinks(c), ~ Segfault(c)
  PROVE  \E to \in {"wait_full", "wait_mutex", "load", "advance", "post_mutex",
                    "post_empty", "write", "unlink_shm"} :
            /\ pc[c] \in {"wait_full", "wait_mutex", "load", "advance",
                          "post_mutex", "post_empty", "write"}
            /\ pc' = [pc EXCEPT ![c] = to]
            /\ UNCHANGED <<crashed, bound, handle>>
  BY DEF Consumer, ConsumerWaits, SemWait, LoadSlot, AdvanceRead,
         ConsumerPosts, SemPost, WriteFile, Go, nameVars

LEMMA UnlinksName ==
  ASSUME LockInv, NEW c \in Consumers, ConsumerUnlinks(c)
  PROVE  \E o \in Objects, to \in {"unlink_empty", "unlink_full",
                                   "unlink_mutex", "done"} :
            /\ pc[c] \in {"unlink_shm", "unlink_empty", "unlink_full",
                          "unlink_mutex"}
            /\ pc' = [pc EXCEPT ![c] = to]
            /\ bound' = [bound EXCEPT ![o] = None]
            /\ \A n \in Objects : to \in After(n)
                                  <=> pc[c] \in After(n) \/ n = o
            /\ to = "done" <=> pc[c] = "unlink_mutex"
            /\ UNCHANGED <<crashed, handle, sem, ringVars, workVars, histVars>>
  <1>1. CASE Unlink(c, "shm", "unlink_shm", "unlink_empty")
    BY <1>1 DEF Unlink, Go, Objects, SemNames, After
  <1>2. CASE Unlink(c, "empty", "unlink_empty", "unlink_full")
    BY <1>2 DEF Unlink, Go, Objects, SemNames, After
  <1>3. CASE Unlink(c, "full", "unlink_full", "unlink_mutex")
    BY <1>3 DEF Unlink, Go, Objects, SemNames, After
  <1>4. CASE Unlink(c, "mutex", "unlink_mutex", "done")
    BY <1>4 DEF Unlink, Go, Objects, SemNames, After
  <1> QED
    BY <1>1, <1>2, <1>3, <1>4 DEF ConsumerUnlinks

\* In a session every object is there when a consumer opens it.
LEMMA NoSegfault ==
  ASSUME LockInv, SessionInv, NEW c \in Consumers
  PROVE  ~ Segfault(c)
  <1> SUFFICES ASSUME Segfault(c) PROVE FALSE
    OBVIOUS
  <1>1. /\ pc[c] \in {"wait_full", "wait_mutex", "load", "post_empty"}
        /\ \E o \in Objects : handle[c][o] = None
    BY DEF Segfault, Uses, Objects, SemNames
  <1>2. PICK p \in Producers : Paired(p, c)
    BY <1>1, WhoRuns DEF SessionInv, Idle
  <1>3. \A o \in Objects : handle[c][o] = p
    BY <1>1, <1>2 DEF Paired, Opened, Before
  <1> QED
    BY <1>1, <1>3, LifecycleAssumption

LEMMA SessionConsumer ==
  ASSUME LockInv, SessionInv, NEW c \in Consumers, Consumer(c),
         \A p \in Producers :
            pc[c] = "unlink_mutex" /\ handle[c]["shm"] = p => pc[p] = "done"
  PROVE  SessionInv'
  <1>0. /\ c \in Procs /\ c \notin Producers /\ None \notin Producers
        /\ pc \in [Procs -> Steps] /\ Procs = Producers \cup Consumers
        /\ Producers \cap Consumers = {} /\ "shm" \in Objects
        /\ bound \in [Objects -> Producers \cup {None}]
        /\ handle \in [Procs -> [Objects -> Producers \cup {None}]]
    BY LifecycleAssumption DEF Procs, LockInv, Objects
  <1>1. PICK to \in Steps \ {"off", "fault"} :
          pc' = [pc EXCEPT ![c] = to] /\ pc[c] \notin {"off", "done"}
    <2>1. CASE ConsumerOpens(c)
      <3>1. PICK o \in Objects, to \in StartUp \cup {"wait_full"} :
            /\ pc[c] \in StartUp /\ pc' = [pc EXCEPT ![c] = to]
            /\ bound' = bound /\ handle' = [handle EXCEPT ![c][o] = bound[o]]
        BY <2>1, OpensFound
      <3> QED
        BY <3>1 DEF StartUp, Steps
    <2>2. CASE ConsumerUnlinks(c)
      BY <2>2 DEF ConsumerUnlinks, Unlink, Go, Steps
    <2>3. CASE ~ ConsumerOpens(c) /\ ~ ConsumerUnlinks(c)
      BY <2>3, NoSegfault, WorksOn DEF Steps
    <2> QED
      BY <2>1, <2>2, <2>3
  <1>2. PICK p \in Producers : Paired(p, c)
    BY <1>1, WhoRuns DEF SessionInv, Idle
  <1>3. /\ pc'[c] = to /\ \A y \in Procs : y # c => pc'[y] = pc[y]
        /\ \A y \in Procs,
           n \in Objects : y # c => (Opened(y, n)' <=> Opened(y, n))
        /\ \A q \in Producers : Ready(q)' <=> Ready(q)
        /\ Surplus' = Surplus
    <2>1. pc'[c] = to /\ \A y \in Procs : y # c => pc'[y] = pc[y]
      BY <1>0, <1>1
    <2>2. Surplus' = Surplus
      BY <1>0, <1>1, SurplusKept
    <2> QED
      BY <1>0, <2>1, <2>2 DEF Opened, Ready
  <1>4. Ready(p)' /\ \A x \in Procs \ {p, c} : Idle(x)'
    BY <1>2, <1>3 DEF Paired, Idle
  <1>5. CASE ConsumerOpens(c)
    <2>1. PICK o \in Objects, nx \in StartUp \cup {"wait_full"} :
            /\ pc[c] \in StartUp /\ pc' = [pc EXCEPT ![c] = nx]
            /\ bound' = bound /\ handle' = [handle EXCEPT ![c][o] = bound[o]]
            /\ ~ Opened(c, o) /\ nx # "open_shm"
            /\ \A n \in Objects : nx \notin Before(n) <=> Opened(c, n) \/ n = o
            /\ o = "shm" <=> pc[c] = "open_shm"
            /\ UNCHANGED <<crashed, sem, ringVars, workVars, histVars>>
      BY <1>5, OpensFound
    <2>2. to = nx
      BY <1>0, <1>3, <2>1
    <2>3. \A n \in Objects : pc[c] \notin After(n) /\ to \notin After(n)
      BY <2>1, <2>2 DEF After, StartUp
    <2>4. bound[o] = p /\ handle' = [handle EXCEPT ![c][o] = p]
      BY <1>2, <2>1, <2>3 DEF Paired
    <2>5. \A n \in Objects : Opened(c, n)' <=> Opened(c, n) \/ n = o
      BY <1>3, <2>1, <2>2 DEF Opened
    <2>6. \A y \in Procs : y # c => handle'[y] = handle[y]
      BY <1>0, <2>4
    <2>7. \A n \in Objects : handle'[c][n] = IF Opened(c, n)' THEN p ELSE None
      BY <1>0, <1>2, <2>4, <2>5 DEF Paired
    <2>8. Apart'
      <3>1. \A q \in Producers, n \in Objects :
               handle'[q][n] = IF Opened(q, n)' THEN q ELSE None
        BY <1>0, <1>3, <2>6 DEF SessionInv, Apart
      <3>2. \A d \in Consumers, o1, o2 \in Objects :
               handle'[d][o1] # None /\ handle'[d][o2] # None
               => handle'[d][o1] = handle'[d][o2]
        BY <1>0, <2>6, <2>7 DEF SessionInv, Apart
      <3> QED
        BY <3>1, <3>2 DEF Apart
    <2>9. Unserved(p, {c})'
      BY <1>0, <1>2, <2>6 DEF Paired, Unserved
    <2>10. Paired(p, c)'
      <3>1. pc'[c] \notin {"off", "done", "fault"}
        BY <1>3, <2>1, <2>2 DEF StartUp
      <3>2. \A n \in Objects : bound'[n] = IF pc'[c] \in After(n)
                                           THEN None ELSE p
        BY <1>2, <1>3, <2>1, <2>3 DEF Paired
      <3> QED
        BY <1>2, <1>3, <1>4, <2>7, <2>9, <3>1, <3>2 DEF Paired
    <2>11. \A d \in Consumers, n \in Objects, q \in Producers :
             handle'[d][n] = q => Opened(d, n)' /\ Ready(q)'
      <3>1. SUFFICES ASSUME NEW d \in Consumers, NEW n \in Objects,
                            NEW q \in Producers, handle'[d][n] = q
                     PROVE  Opened(d, n)' /\ Ready(q)'
        OBVIOUS
      <3>2. CASE d = c
        BY <1>0, <1>4, <2>7, <3>1, <3>2
      <3>3. CASE d # c
        BY <1>0, <1>3, <2>6, <3>1, <3>3 DEF SessionInv
      <3> QED
        BY <3>2, <3>3
    <2>12. \A d, e \in Consumers :
             d # e /\ handle'[d]["shm"] # None
             => handle'[e]["shm"] # handle'[d]["shm"]
      <3>1. handle'[c]["shm"] \in {p, None}
        BY <1>0, <2>7
      <3>2. \A d \in Consumers : d # c => handle[d]["shm"] # p
        BY <1>2 DEF Paired, Unserved
      <3> QED
        BY <1>0, <2>6, <3>1, <3>2 DEF SessionInv
    <2>13. \A d \in Consumers : pc'[d] = "done" => handle'[d]["shm"] # None
      BY <1>0, <1>3, <2>1, <2>2, <2>6 DEF SessionInv, StartUp
    <2>14. Phase'
      BY <2>10 DEF Phase
    <2> QED
      BY <2>1, <2>8, <2>11, <2>12, <2>13, <2>14 DEF SessionInv
  <1>6. CASE ~ ConsumerOpens(c)
    <2>1. handle' = handle /\ crashed' = crashed /\ pc[c] \notin StartUp
          /\ to \notin StartUp
      BY <1>0, <1>1, <1>3, <1>6, KeepsHandles
    <2>2. \A n \in Objects : Opened(c, n) /\ Opened(c, n)'
      BY <1>1, <1>3, <2>1 DEF Opened, Before, StartUp
    <2>3. Apart'
      BY <1>0, <1>1, <2>1, ApartKept DEF SessionInv
    <2>4. \A d \in Consumers, n \in Objects, q \in Producers :
             handle'[d][n] = q => Opened(d, n)' /\ Ready(q)'
      BY <1>0, <1>3, <2>1, <2>2 DEF SessionInv
    <2>5. handle[c]["shm"] = p
      BY <1>0, <1>2, <2>2 DEF Paired
    <2>6. \A d \in Consumers : pc'[d] = "done" => handle'[d]["shm"] # None
      BY <1>0, <1>3, <2>1, <2>5 DEF SessionInv
    <2>7. Phase'
      <3>1. CASE ConsumerUnlinks(c)
        <4>1. PICK o \in Objects, nx \in {"unlink_empty", "unlink_full",
                                          "unlink_mutex", "done"} :
                /\ pc[c] \in {"unlink_shm", "unlink_empty", "unlink_full",
                              "unlink_mutex"}
                /\ pc' = [pc EXCEPT ![c] = nx]
                /\ bound' = [bound EXCEPT ![o] = None]
                /\ \A n \in Objects : nx \in After(n)
                                      <=> pc[c] \in After(n) \/ n = o
                /\ nx = "done" <=> pc[c] = "unlink_mutex"
                /\ UNCHANGED <<crashed, handle, sem, ringVars, workVars,
                               histVars>>
          BY <3>1, UnlinksName
        <4>2. nx = to
          BY <1>0, <1>3, <4>1
        <4>3. \A n \in Objects : bound'[n] = IF pc'[c] \in After(n)
                                             THEN None ELSE p
          BY <1>0, <1>2, <1>3, <4>1, <4>2 DEF Paired
        <4>4. CASE to = "done"
          <5>1. pc[p] = "done" /\ pc'[p] = "done"
            BY <1>0, <1>3, <2>5, <4>1, <4>2, <4>4
          <5>2. \A x \in Procs : Idle(x)'
            BY <1>3, <1>4, <4>4, <5>1 DEF Idle
          <5>3. \A n \in Objects : bound'[n] = None
            BY <1>3, <4>3, <4>4 DEF After
          <5>4. Between'
            BY <1>2, <1>3, <5>2, <5>3 DEF Between, Paired
          <5> QED
            BY <5>4 DEF Phase
        <4>5. CASE to # "done"
          <5>1. Paired(p, c)'
            BY <1>2, <1>3, <1>4, <2>1, <2>2, <4>3, <4>5 DEF Paired, Unserved
          <5> QED
            BY <5>1 DEF Phase
        <4> QED
          BY <4>4, <4>5
      <3>2. CASE ~ ConsumerUnlinks(c)
        <4>1. PICK nx \in {"wait_full", "wait_mutex", "load", "advance",
                           "post_mutex", "post_empty", "write", "unlink_shm"} :
                /\ pc[c] \in {"wait_full", "wait_mutex", "load", "advance",
                              "post_mutex", "post_empty", "write"}
                /\ pc' = [pc EXCEPT ![c] = nx]
                /\ UNCHANGED <<crashed, bound, handle>>
          BY <1>6, <3>2, NoSegfault, WorksOn
        <4>2. nx = to
          BY <1>0, <1>3, <4>1
        <4>3. \A n \in Objects : to \notin After(n) /\ pc[c] \notin After(n)
          BY <4>1, <4>2 DEF After
        <4>4. \A n \in Objects : bound'[n] = IF pc'[c] \in After(n)
                                             THEN None ELSE p
          BY <1>2, <1>3, <4>1, <4>3 DEF Paired
        <4>5. pc'[c] \notin {"off", "done", "fault"}
          BY <1>3, <4>1, <4>2
        <4>6. Paired(p, c)'
          BY <1>2, <1>3, <1>4, <2>1, <2>2, <4>4, <4>5 DEF Paired, Unserved
        <4> QED
          BY <4>6 DEF Phase
      <3> QED
        BY <3>1, <3>2
    <2> QED
      BY <2>1, <2>3, <2>4, <2>6, <2>7 DEF SessionInv
  <1> QED
    BY <1>5, <1>6

-----------------------------------------------------------------------------
\* Sessions: what a consumer has taken, has in hand and has written.

\* The steps at which a consumer has taken a slot and not written it, and those
\* at which it leaves because of the end marker.
Loaded == {"advance", "post_mutex", "post_empty", "write"}
Leaving == {"unlink_shm", "unlink_empty", "unlink_full", "unlink_mutex", "done"}

\* A consumer of p has written the first files of p, in their order, and has
\* at most one more in hand, the last that was taken.
Work(c, p) ==
  /\ \A i \in 1 .. Len(written[c]) : written[c][i] = <<p, i>>
  /\ Len(taken[p])
       = Len(written[c]) + (IF pc[c] \in Loaded \cup Leaving THEN 1 ELSE 0)
  /\ pc[c] \in Loaded \cup Leaving => item[c] = taken[p][Len(taken[p])]
  /\ pc[c] \in Leaving => IsEof(item[c])

\* A consumer works on the ring of the producer whose segment it has mapped.
WorkInv ==
  /\ \A c \in Consumers : pc[c] \in {"off", "open_shm"} =>
        written[c] = <<>> /\ item[c] = Blank
  /\ \A c \in Consumers : item[c] # Blank => item[c][1] = handle[c]["shm"]
  /\ \A p \in Producers : Unserved(p, {}) => taken[p] = <<>>
  /\ \A c \in Consumers, p \in Producers : handle[c]["shm"] = p => Work(c, p)

LEMMA WorkInit == Init => WorkInv
  <1> SUFFICES ASSUME Init PROVE WorkInv
    OBVIOUS
  <1>1. \A c \in Consumers : handle[c]["shm"] = None
    BY DEF Init, Procs, Objects
  <1> QED
    BY <1>1, LifecycleAssumption DEF Init, WorkInv

\* A step that neither takes, nor writes, nor maps.
LEMMA WorkKept ==
  ASSUME LockInv, WorkInv, NEW x \in Procs, NEW to, pc' = [pc EXCEPT ![x] = to],
         UNCHANGED <<item, written, taken>>,
         \A c \in Consumers : handle'[c] = handle[c],
         x \in Consumers =>
            /\ to \in Loaded \cup Leaving <=> pc[x] \in Loaded \cup Leaving
            /\ to \in Leaving => pc[x] \in Leaving \/ IsEof(item[x])
            /\ to \in {"off", "open_shm"} => pc[x] \in {"off", "open_shm"}
  PROVE  WorkInv'
  <1>1. \A c \in Consumers :
          /\ pc'[c] \in Loaded \cup Leaving <=> pc[c] \in Loaded \cup Leaving
          /\ pc'[c] \in Leaving => pc[c] \in Leaving \/ IsEof(item[c])
          /\ pc'[c] \in {"off", "open_shm"} => pc[c] \in {"off", "open_shm"}
    BY DEF LockInv, Procs
  <1>2. \A p \in Producers : Unserved(p, {})' <=> Unserved(p, {})
    BY DEF Unserved
  <1>3. ASSUME NEW c \in Consumers, NEW p \in Producers, Work(c, p)
        PROVE  Work(c, p)'
    BY <1>1, <1>3 DEF Work
  <1> QED
    BY <1>1, <1>2, <1>3 DEF WorkInv

LEMMA WorkOpens ==
  ASSUME LockInv, RingTypes, SessionInv, WorkInv, NEW c \in Consumers,
         ConsumerOpens(c)
  PROVE  WorkInv'
  <1>0. /\ c \in Procs /\ None \notin Producers /\ pc \in [Procs -> Steps]
        /\ handle \in [Procs -> [Objects -> Producers \cup {None}]]
        /\ \A d \in Consumers : d \in Procs
    BY LifecycleAssumption DEF LockInv, Procs
  <1>1. PICK o \in Objects, to \in StartUp \cup {"wait_full"} :
          /\ pc[c] \in StartUp /\ pc' = [pc EXCEPT ![c] = to]
          /\ bound' = bound /\ handle' = [handle EXCEPT ![c][o] = bound[o]]
          /\ ~ Opened(c, o) /\ to # "open_shm"
          /\ \A n \in Objects : to \notin Before(n) <=> Opened(c, n) \/ n = o
          /\ o = "shm" <=> pc[c] = "open_shm"
          /\ UNCHANGED <<crashed, sem, ringVars, workVars, histVars>>
    BY OpensFound
  <1>2. UNCHANGED <<item, written, taken>>
    BY <1>1 DEF workVars, histVars
  <1>3. /\ pc'[c] = to /\ to \notin {"off", "open_shm"}
        /\ to \notin Loaded \cup Leaving /\ pc[c] \notin Loaded \cup Leaving
    BY <1>0, <1>1 DEF StartUp, Loaded, Leaving
  <1>4. \A d \in Consumers : d # c => pc'[d] = pc[d] /\ handle'[d] = handle[d]
    BY <1>0, <1>1
  <1>5. "shm" \in Objects
    BY DEF Objects
  <1>6. CASE o # "shm"
    <2>1. handle'[c]["shm"] = handle[c]["shm"]
      BY <1>0, <1>1, <1>6
    <2>2. \A d \in Consumers : handle'[d]["shm"] = handle[d]["shm"]
      BY <1>4, <2>1
    <2>3. \A p \in Producers : Unserved(p, {})' <=> Unserved(p, {})
      BY <2>2 DEF Unserved
    <2>4. ASSUME NEW d \in Consumers, NEW p \in Producers, Work(d, p)
          PROVE  Work(d, p)'
      <3>1. /\ pc'[d] \in Loaded \cup Leaving <=> pc[d] \in Loaded \cup Leaving
            /\ pc'[d] \in Leaving <=> pc[d] \in Leaving
        BY <1>3, <1>4
      <3> QED
        BY <1>2, <2>4, <3>1 DEF Work
    <2>5. \A d \in Consumers :
            pc'[d] \in {"off", "open_shm"} => pc[d] \in {"off", "open_shm"}
      BY <1>3, <1>4
    <2> QED
      BY <1>2, <2>2, <2>3, <2>4, <2>5 DEF WorkInv
  <1>7. CASE o = "shm"
    <2>1. pc[c] = "open_shm" /\ written[c] = <<>> /\ item[c] = Blank
      BY <1>1, <1>7 DEF WorkInv
    <2>2. PICK p \in Producers : Paired(p, c)
      BY <2>1, WhoRuns DEF SessionInv, Idle
    <2>3. bound["shm"] = p /\ handle[c]["shm"] = None
      BY <1>1, <1>5, <1>7, <2>1, <2>2 DEF Paired, After
    <2>4. handle'[c]["shm"] = p
      BY <1>0, <1>1, <1>7, <2>3
    <2>5. taken[p] = <<>>
      <3>1. \A d \in Consumers : handle[d]["shm"] # p
        BY <1>0, <2>2, <2>3 DEF Paired, Unserved
      <3> QED
        BY <3>1 DEF WorkInv, Unserved
    <2>6. \A q \in Producers : Unserved(q, {})' => Unserved(q, {})
      BY <1>0, <1>4, <2>3 DEF Unserved
    <2>7. Work(c, p)'
      <3>1. written'[c] = <<>> /\ taken'[p] = <<>> /\ Len(<<>>) = 0
        BY <1>2, <2>1, <2>5
      <3>2. pc'[c] \notin Loaded \cup Leaving /\ pc'[c] \notin Leaving
        BY <1>3
      <3> QED
        BY <3>1, <3>2 DEF Work
    <2>8. ASSUME NEW d \in Consumers, NEW q \in Producers, handle'[d]["shm"] = q
          PROVE  Work(d, q)'
      <3>1. CASE d = c
        BY <2>4, <2>7, <2>8, <3>1
      <3>2. CASE d # c
        <4>1. Work(d, q) /\ pc'[d] = pc[d]
          BY <1>4, <2>8, <3>2 DEF WorkInv
        <4> QED
          BY <1>2, <4>1 DEF Work
      <3> QED
        BY <3>1, <3>2
    <2>9. \A d \in Consumers : item'[d] # Blank
            => item'[d][1] = handle'[d]["shm"]
      BY <1>2, <1>4, <2>1 DEF WorkInv
    <2>10. \A d \in Consumers : pc'[d] \in {"off", "open_shm"} =>
             written'[d] = <<>> /\ item'[d] = Blank
      BY <1>2, <1>3, <1>4 DEF WorkInv
    <2> QED
      BY <1>2, <2>6, <2>8, <2>9, <2>10 DEF WorkInv
  <1> QED
    BY <1>6, <1>7

LEMMA WorkLoad ==
  ASSUME LockInv, RingTypes, Apart, RingInv, SessionInv, WorkInv,
         NEW c \in Consumers, LoadSlot(c)
  PROVE  WorkInv'
  <1> DEFINE b == handle[c]["shm"]
  <1>0. c \in Procs /\ \A d \in Consumers : d \in Procs
    BY DEF Procs
  <1>1. /\ b \in Producers /\ pc[c] = "load" /\ b # None
        /\ pc' = [pc EXCEPT ![c] = "advance"] /\ handle' = handle
        /\ item' = [item EXCEPT ![c] = slots[b][rindex[b]]]
        /\ taken' = [taken EXCEPT ![b] = Append(taken[b], slots[b][rindex[b]])]
        /\ UNCHANGED <<written, stored>>
    BY <1>0 DEF LoadSlot, Go, LockInv, Objects, nameVars
  <1>2. /\ item'[c] = stored[b][Len(taken[b]) + 1]
        /\ Len(taken[b]) < Len(stored[b])
    BY <1>1, RingLoad
  <1>20. PICK v : v = slots[b][rindex[b]]
    OBVIOUS
  <1>21. PICK t \in Seq(Slot \cup {Blank}) : t = taken[b]
    BY <1>1 DEF RingTypes
  <1>22. PICK T \in Nat : T = Len(t)
    OBVIOUS
  <1>3. t = taken[b] /\ v = slots[b][rindex[b]] /\ T = Len(t)
          /\ T = Len(taken[b])
    BY <1>20, <1>21, <1>22
  <1>4. v = <<b, T + 1>> /\ item'[c] = v
    <2>1. item'[c] = v
      BY <1>1, <1>3 DEF RingTypes
    <2>2. RingHistory(b)
      BY <1>1 DEF RingInv, RingOf
    <2>3. T + 1 \in 1 .. Len(stored[b])
      <3>1. PICK S \in Nat : S = Len(stored[b])
        BY <1>1 DEF RingTypes
      <3> QED
        BY <1>2, <1>3, <3>1
    <2>4. stored[b][T + 1] = <<b, T + 1>>
      BY <2>2, <2>3 DEF RingHistory
    <2> QED
      BY <1>2, <1>3, <2>1, <2>4
  <1>5. /\ taken'[b] = Append(t, v) /\ Len(taken'[b]) = T + 1
        /\ taken'[b][T + 1] = v
        /\ \A q \in Producers : q # b => taken'[q] = taken[q]
    <2>1. Len(Append(t, v)) = Len(t) + 1 /\ Append(t, v)[Len(t) + 1] = v
      BY <1>3
    <2>2. taken'[b] = Append(t, v) /\ \A q \in Producers : q # b
            => taken'[q] = taken[q]
      BY <1>1, <1>3 DEF RingTypes
    <2> QED
      BY <1>3, <2>1, <2>2
  <1>6. pc'[c] = "advance" /\ \A d \in Consumers : d # c => pc'[d] = pc[d]
          /\ item'[d] = item[d]
    BY <1>0, <1>1 DEF LockInv, RingTypes
  <1>7. \A d \in Consumers : d # c => handle[d]["shm"] # b
    BY <1>1 DEF SessionInv
  <1>8. ASSUME NEW q \in Producers, q = b PROVE Work(c, q)'
    <2>1. Work(c, b)
      BY <1>1 DEF WorkInv
    <2>2. pc[c] \notin Loaded \cup Leaving
      BY <1>1 DEF Loaded, Leaving
    <2>3. PICK W \in Nat : W = Len(written[c])
      BY DEF RingTypes
    <2>4. T = W
      BY <1>3, <2>1, <2>2, <2>3 DEF Work
    <2>5. Len(taken'[b]) = Len(written'[c]) + 1
      BY <1>1, <1>5, <2>3, <2>4
    <2>6. item'[c] = taken'[b][Len(taken'[b])]
      BY <1>4, <1>5
    <2>7. pc'[c] \in Loaded \cup Leaving /\ pc'[c] \notin Leaving
      BY <1>6 DEF Loaded, Leaving
    <2>8. handle'[c]["shm"] = b /\ written' = written
      BY <1>1
    <2>9. \A i \in 1 .. Len(written[c]) : written[c][i] = <<b, i>>
      BY <2>1 DEF Work
    <2> QED
      BY <1>8, <2>5, <2>6, <2>7, <2>8, <2>9 DEF Work
  <1>9. ASSUME NEW d \in Consumers, NEW q \in Producers, handle'[d]["shm"] = q
        PROVE  Work(d, q)'
    <2>1. CASE d = c
      <3>1. q = b
        BY <1>1, <1>9, <2>1
      <3> QED
        BY <1>8, <2>1, <3>1
    <2>2. CASE d # c
      <3>1. Work(d, q) /\ q # b
        BY <1>1, <1>7, <1>9, <2>2 DEF WorkInv
      <3>2. pc'[d] = pc[d] /\ item'[d] = item[d] /\ taken'[q] = taken[q]
              /\ written' = written
        BY <1>1, <1>5, <1>6, <2>2, <3>1
      <3> QED
        BY <3>1, <3>2 DEF Work
    <2> QED
      BY <2>1, <2>2
  <1>10. \A q \in Producers : Unserved(q, {})' => taken'[q] = <<>>
    <2>1. \A q \in Producers : q = b => ~ Unserved(q, {})'
      BY <1>1 DEF Unserved
    <2>2. \A q \in Producers : Unserved(q, {})' <=> Unserved(q, {})
      BY <1>1 DEF Unserved
    <2>3. ASSUME NEW q \in Producers, Unserved(q, {})'
          PROVE  taken'[q] = <<>>
      <3>1. q # b
        BY <2>1, <2>3
      <3>2. taken[q] = <<>>
        BY <2>2, <2>3 DEF WorkInv
      <3> QED
        BY <1>5, <3>1, <3>2
    <2> QED
      BY <2>3
  <1>11. \A d \in Consumers : item'[d] # Blank
           => item'[d][1] = handle'[d]["shm"]
    <2>1. item'[c][1] = b
      BY <1>4
    <2> QED
      BY <1>1, <1>6, <2>1 DEF WorkInv
  <1>12. \A d \in Consumers : pc'[d] \in {"off", "open_shm"} =>
            written'[d] = <<>> /\ item'[d] = Blank
    BY <1>1, <1>6 DEF WorkInv
  <1> QED
    BY <1>9, <1>10, <1>11, <1>12 DEF WorkInv

LEMMA WorkWrites ==
  ASSUME LockInv, RingTypes, RingInv, WorkInv, NEW c \in Consumers, WriteFile(c)
  PROVE  WorkInv'
  <1>0. c \in Procs /\ \A d \in Consumers : d \in Procs
    BY DEF Procs
  <1>1. /\ pc[c] = "write" /\ pc' = [pc EXCEPT ![c] = "wait_full"]
        /\ handle' = handle /\ item' = item /\ taken' = taken
        /\ written' = [written EXCEPT ![c] = Append(written[c], item[c])]
    BY DEF WriteFile, Go, nameVars, histVars
  <1>2. /\ pc'[c] = "wait_full"
        /\ \A d \in Consumers : d # c => pc'[d] = pc[d]
             /\ written'[d] = written[d]
    BY <1>0, <1>1 DEF LockInv, RingTypes
  <1>3. ASSUME NEW p \in Producers, handle[c]["shm"] = p
        PROVE  Work(c, p)'
    <2>1. Work(c, p) /\ RingHistory(p) /\ RingCounts(p)
      BY <1>3 DEF WorkInv, RingInv, RingOf
    <2>20. PICK v : v = item[c]
      OBVIOUS
    <2>21. PICK w \in Seq(Slot \cup {Blank}) : w = written[c]
      BY DEF RingTypes
    <2>22. PICK W \in Nat : W = Len(w)
      OBVIOUS
    <2>23. PICK T \in Nat, S \in Nat : T = Len(taken[p]) /\ S = Len(stored[p])
      BY DEF RingTypes
    <2>2. /\ w = written[c] /\ v = item[c] /\ W = Len(w) /\ W = Len(written[c])
          /\ T = Len(taken[p]) /\ S = Len(stored[p])
      BY <2>20, <2>21, <2>22, <2>23
    <2>3. pc[c] \in Loaded \cup Leaving
      BY <1>1 DEF Loaded
    <2>4. T = W + 1 /\ v = taken[p][T]
      BY <2>1, <2>2, <2>3 DEF Work
    <2>5. T <= S
      <3>1. /\ Count(p, Claiming) \in Nat /\ sem["full"][p] \in Nat
            /\ Held(p) \in Int
        BY CountTypes
      <3>2. Held(p) >= 0
        BY <2>1, <3>1 DEF RingCounts
      <3>3. S - T >= 0
        BY <2>2, <3>2 DEF Held
      <3> QED
        BY <3>3
    <2>6. v = <<p, W + 1>>
      <3>1. T \in 1 .. T /\ T \in 1 .. S
        BY <2>4, <2>5
      <3>2. taken[p][T] = stored[p][T] /\ stored[p][T] = <<p, T>>
        BY <2>1, <2>2, <3>1 DEF RingHistory
      <3> QED
        BY <2>4, <3>2
    <2>7. /\ written'[c] = Append(w, v) /\ Len(written'[c]) = W + 1
          /\ \A i \in 1 .. W : written'[c][i] = w[i]
          /\ written'[c][W + 1] = v
      <3>1. written'[c] = Append(w, v)
        BY <1>1, <2>2 DEF RingTypes
      <3>2. /\ Len(Append(w, v)) = Len(w) + 1 /\ Append(w, v)[Len(w) + 1] = v
            /\ \A i \in 1 .. Len(w) : Append(w, v)[i] = w[i]
        BY <2>2
      <3> QED
        BY <2>2, <3>1, <3>2
    <2>8. \A i \in 1 .. W + 1 : written'[c][i] = <<p, i>>
      <3>1. SUFFICES ASSUME NEW i \in 1 .. W + 1 PROVE written'[c][i] = <<p, i>>
        OBVIOUS
      <3>2. CASE i = W + 1
        BY <2>6, <2>7, <3>2
      <3>3. CASE i # W + 1
        <4>1. i \in 1 .. W
          BY <3>3
        <4> QED
          BY <2>1, <2>2, <2>7, <4>1 DEF Work
      <3> QED
        BY <3>2, <3>3
    <2>9. pc'[c] \notin Loaded \cup Leaving /\ pc'[c] \notin Leaving
      BY <1>2 DEF Loaded, Leaving
    <2>10. Len(taken'[p]) = Len(written'[c]) + 0
      <3>1. T = (W + 1) + 0
        BY <2>4
      <3> QED
        BY <1>1, <2>2, <2>7, <3>1
    <2> QED
      BY <2>7, <2>8, <2>9, <2>10 DEF Work
  <1>4. ASSUME NEW d \in Consumers, NEW q \in Producers, handle'[d]["shm"] = q
        PROVE  Work(d, q)'
    <2>1. CASE d = c
      BY <1>1, <1>3, <1>4, <2>1
    <2>2. CASE d # c
      <3>1. Work(d, q)
        BY <1>1, <1>4 DEF WorkInv
      <3> QED
        BY <1>1, <1>2, <2>2, <3>1 DEF Work
    <2> QED
      BY <2>1, <2>2
  <1>5. \A q \in Producers : Unserved(q, {})' <=> Unserved(q, {})
    BY <1>1 DEF Unserved
  <1>6. \A d \in Consumers : pc'[d] \in {"off", "open_shm"} =>
           written'[d] = <<>> /\ item'[d] = Blank
    BY <1>1, <1>2 DEF WorkInv
  <1> QED
    BY <1>1, <1>4, <1>5, <1>6 DEF WorkInv

LEMMA WorkConsumer ==
  ASSUME LockInv, RingTypes, Apart, RingInv, SessionInv, WorkInv,
         NEW c \in Consumers, Consumer(c)
  PROVE  WorkInv'
  <1>0. c \in Procs
    BY DEF Procs
  <1>1. CASE ConsumerWaits(c) \/ AdvanceRead(c) \/ ConsumerUnlinks(c)
    <2>1. PICK to \in {"wait_mutex", "load", "post_mutex", "unlink_empty",
                       "unlink_full", "unlink_mutex", "done"} :
            /\ pc' = [pc EXCEPT ![c] = to]
            /\ UNCHANGED <<item, written, taken, handle>>
            /\ to \in Loaded \cup Leaving <=> pc[c] \in Loaded \cup Leaving
            /\ to \in Leaving <=> pc[c] \in Leaving
      <3>1. CASE ConsumerWaits(c)
        BY <3>1 DEF ConsumerWaits, SemWait, Go, nameVars, workVars, histVars,
           Loaded, Leaving
      <3>2. CASE AdvanceRead(c)
        BY <3>2 DEF AdvanceRead, Go, nameVars, workVars, histVars, Loaded,
           Leaving
      <3>3. CASE ConsumerUnlinks(c)
        BY <3>3 DEF ConsumerUnlinks, Unlink, Go, workVars, histVars, Loaded,
           Leaving
      <3> QED
        BY <1>1, <3>1, <3>2, <3>3
    <2> QED
      BY <1>0, <2>1, WorkKept
  <1>2. CASE ConsumerPosts(c)
    <2>1. PICK to \in {"post_empty", "unlink_shm", "write"} :
            /\ pc' = [pc EXCEPT ![c] = to]
            /\ UNCHANGED <<item, written, taken, handle>>
            /\ pc[c] \in {"post_mutex", "post_empty"}
            /\ to = "unlink_shm" => IsEof(item[c])
      <3>1. CASE SemPost(c, "mutex", "post_mutex", "post_empty")
        BY <3>1 DEF SemPost, Go, nameVars, workVars, histVars
      <3>2. CASE SemPost(c, "empty", "post_empty",
                    IF item[c] # Blank /\ IsEof(item[c]) THEN "unlink_shm"
                      ELSE "write")
        <4>1. CASE item[c] # Blank /\ IsEof(item[c])
          BY <3>2, <4>1 DEF SemPost, Go, nameVars, workVars, histVars
        <4>2. CASE ~ (item[c] # Blank /\ IsEof(item[c]))
          BY <3>2, <4>2 DEF SemPost, Go, nameVars, workVars, histVars
        <4> QED
          BY <4>1, <4>2
      <3> QED
        BY <1>2, <3>1, <3>2 DEF ConsumerPosts
    <2>2. /\ to \in Loaded \cup Leaving /\ pc[c] \in Loaded \cup Leaving
          /\ to \in Leaving => IsEof(item[c])
          /\ to \notin {"off", "open_shm"}
      BY <2>1 DEF Loaded, Leaving
    <2> QED
      BY <1>0, <2>1, <2>2, WorkKept
  <1> QED
    BY <1>1, <1>2, WorkOpens, WorkLoad, WorkWrites, NoSegfault DEF Consumer

\* A consumer that leaves has had the end marker, and the producer is through.
LEMMA LastTaken ==
  ASSUME LockInv, RingTypes, RingInv, WorkInv, NEW c \in Consumers,
         NEW p \in Producers, handle[c]["shm"] = p, pc[c] \in Leaving
  PROVE  /\ pc[p] = "done"
         /\ Len(written[c]) = FilesOf[p]
  <1>1. /\ Work(c, p) /\ RingHistory(p) /\ RingCounts(p)
    BY DEF WorkInv, RingInv, RingOf
  <1>2. PICK W \in Nat, T \in Nat, S \in Nat, N \in Nat, F \in Nat :
          /\ W = Len(written[c]) /\ T = Len(taken[p]) /\ S = Len(stored[p])
          /\ N = nr[p] /\ F = FilesOf[p]
    BY LifecycleAssumption DEF RingTypes
  <1>3. T = W + 1 /\ item[c] = taken[p][T] /\ IsEof(item[c])
    BY <1>1, <1>2 DEF Work
  <1>4. PICK i \in {0, 1} : /\ i = IF pc[p] \in Posting THEN 1 ELSE 0
                            /\ T + i <= S
    <2>1. PICK i \in {0, 1} : i = IF pc[p] \in Posting THEN 1 ELSE 0
      OBVIOUS
    <2>2. PICK f \in Nat, m \in Nat, h \in Int :
            f = sem["full"][p] /\ m = Count(p, Claiming) /\ h = Held(p)
      BY CountTypes
    <2>3. f + m + i <= h
      BY <1>1, <2>1, <2>2 DEF RingCounts
    <2>4. h = S - T
      BY <1>2, <2>2 DEF Held
    <2>5. i \in Int
      OBVIOUS
    <2>6. T + i <= S
      BY <2>3, <2>4, <2>5
    <2> QED
      BY <2>1, <2>6
  <1>5. T = F + 1
    <2>1. T <= S
      <3>1. i \in Nat
        OBVIOUS
      <3> QED
        BY <1>4, <3>1
    <2>2. T \in 1 .. T /\ T \in 1 .. S
      BY <1>3, <2>1
    <2>3. taken[p][T] = stored[p][T] /\ stored[p][T] = <<p, T>>
      BY <1>1, <1>2, <2>2 DEF RingHistory
    <2>4. IsEof(<<p, T>>)
      BY <1>3, <2>3
    <2> QED
      BY <1>2, <2>4 DEF IsEof
  <1>6. N <= F + 1
    BY <1>2 DEF RingTypes
  <1>7. pc[p] = "done"
    <2>1. SUFFICES ASSUME pc[p] # "done" PROVE FALSE
      OBVIOUS
    <2>2. CASE pc[p] \in Posting
      <3>1. S + 1 = N + 1
        BY <1>1, <1>2, <2>2 DEF RingHistory
      <3>2. T + 1 <= S
        BY <1>4, <2>2
      <3> QED
        BY <1>5, <1>6, <3>1, <3>2
    <2>3. CASE pc[p] \notin Posting
      <3>1. S + 1 = N + 0
        BY <1>1, <1>2, <2>1, <2>3 DEF RingHistory
      <3>2. T + 0 <= S
        BY <1>4, <2>3
      <3> QED
        BY <1>5, <1>6, <3>1, <3>2
    <2> QED
      BY <2>2, <2>3
  <1>8. W = F
    BY <1>3, <1>5
  <1> QED
    BY <1>2, <1>7, <1>8

-----------------------------------------------------------------------------
\* Both cases together, for every state of the programs.

LEMMA MappedInit == Init => Mapped
  BY DEF Init, Mapped, Procs

LEMMA WorkStart ==
  ASSUME LockInv, WorkInv, NEW x \in Procs, Start(x)
  PROVE  WorkInv'
  <1>1. /\ pc[x] = "off" /\ pc' = [pc EXCEPT ![x] = "open_shm"]
        /\ UNCHANGED <<item, written, taken, handle>>
    BY DEF Start, nameVars, workVars, histVars
  <1>2. /\ "open_shm" \notin Loaded \cup Leaving /\ "open_shm" \notin Leaving
        /\ pc[x] \notin Loaded \cup Leaving
    BY <1>1 DEF Loaded, Leaving
  <1> QED
    BY <1>1, <1>2, WorkKept

LEMMA WorkProducer ==
  ASSUME LockInv, WorkInv, NEW p \in Producers, Producer(p)
  PROVE  WorkInv'
  <1>0. p \in Procs /\ p \notin Consumers /\ \A c \in Consumers : c \in Procs
    BY LifecycleAssumption DEF Procs
  <1>1. CASE ProducerOpens(p)
    <2>1. PICK o \in Objects, to \in StartUp \cup {"wait_empty"} :
            /\ pc[p] \in StartUp /\ pc' = [pc EXCEPT ![p] = to]
            /\ bound' = [bound EXCEPT ![o] = IF @ = None THEN p ELSE @]
            /\ handle' = [handle EXCEPT ![p][o] = bound'[o]]
            /\ ~ Opened(p, o)
            /\ \A n \in Objects : to \notin Before(n) <=> Opened(p, n) \/ n = o
            /\ UNCHANGED <<crashed, sem, ringVars, workVars, histVars>>
      BY <1>1, OpensName
    <2>2. UNCHANGED <<item, written, taken>>
      BY <2>1 DEF workVars, histVars
    <2>3. \A c \in Consumers : handle'[c] = handle[c]
      BY <1>0, <2>1 DEF LockInv
    <2> QED
      BY <1>0, <2>1, <2>2, <2>3, WorkKept
  <1>2. CASE ~ ProducerOpens(p)
    <2>1. PICK to \in Steps \ {"off", "fault"} :
            /\ pc' = [pc EXCEPT ![p] = to]
            /\ UNCHANGED <<crashed, nameVars, item, written, taken>>
      BY <1>2, KeepsNames
    <2>2. UNCHANGED <<item, written, taken, handle>>
      BY <2>1 DEF nameVars
    <2> QED
      BY <1>0, <2>1, <2>2, WorkKept
  <1> QED
    BY <1>1, <1>2

LEMMA WorkStep ==
  ASSUME LockInv, RingTypes, Apart, RingInv, SessionInv, WorkInv, [Next]_vars
  PROVE  WorkInv'
  <1>1. ASSUME UNCHANGED <<pc, handle, item, written, taken>>
        PROVE  WorkInv'
    <2>1. ASSUME NEW c \in Consumers, NEW p \in Producers, Work(c, p)
          PROVE  Work(c, p)'
      BY <1>1, <2>1 DEF Work
    <2>2. \A p \in Producers : Unserved(p, {})' <=> Unserved(p, {})
      BY <1>1 DEF Unserved
    <2> QED
      BY <1>1, <2>1, <2>2 DEF WorkInv
  <1>2. CASE UNCHANGED vars
    BY <1>1, <1>2 DEF vars, nameVars, workVars, histVars
  <1>3. ASSUME NEW x \in Procs, Crash(x)
        PROVE  WorkInv'
    BY <1>1, <1>3 DEF Crash, nameVars, workVars, histVars
  <1> QED
    BY <1>2, <1>3, WorkStart, WorkProducer, WorkConsumer DEF Next, Step

\* Nobody is killed in a session, and the producer is through when its
\* consumer unlinks the last name.
LEMMA SessionStep ==
  ASSUME InSessions, LockInv, RingTypes, RingInv, SessionInv, WorkInv,
         [Next]_vars
  PROVE  SessionInv'
  <1>1. CASE UNCHANGED vars
    <2>1. UNCHANGED <<user, pc, crashed, bound, handle>>
      BY <1>1 DEF vars, nameVars
    <2>2. Apart' /\ crashed' = {}
      BY <2>1 DEF SessionInv, Apart, Opened
    <2>3. Phase'
      <3>1. Phase
        BY DEF SessionInv
      <3> QED
        BY SMTT(30), <2>1, <3>1 DEF Phase, Between, Alone, Paired, Idle, Opened, Ready,
              Unserved, Surplus, Started
    <2> QED
      BY <2>1, <2>2, <2>3 DEF SessionInv, Opened, Ready
  <1>2. ASSUME NEW x \in Procs, Crash(x)
        PROVE  FALSE
    <2>1. crashed = {} /\ user.crashes = 0
      BY DEF SessionInv, InSessions
    <2>2. Cardinality(crashed) = 0
      BY <2>1, FS_EmptySet
    <2>3. Cardinality(crashed) < user.crashes
      BY <1>2 DEF Crash
    <2> QED
      BY <2>1, <2>2, <2>3
  <1>3. ASSUME NEW c \in Consumers, Consumer(c)
        PROVE  SessionInv'
    <2>1. \A p \in Producers :
             pc[c] = "unlink_mutex" /\ handle[c]["shm"] = p => pc[p] = "done"
      BY LastTaken DEF Leaving
    <2> QED
      BY <1>3, <2>1, SessionConsumer
  <1> QED
    BY <1>1, <1>2, <1>3, SessionStart, SessionProducer DEF Next, Step

LEMMA SessionDelivers ==
  ASSUME LockInv, RingTypes, RingInv, SessionInv, WorkInv
  PROVE  Delivered
  <1> SUFFICES ASSUME NEW c \in Consumers, pc[c] = "done"
               PROVE  \E p \in Producers :
                         /\ pc[p] # "off" /\ written[c] = FilesSentBy(p)
                         /\ \A d \in Consumers \ {c},
                            i \in 1 .. FilesOf[p] + 1 :
                               item[d] # <<p, i>>
    BY DEF Delivered
  <1>1. PICK p \in Producers : handle[c]["shm"] = p /\ p # None
    BY LifecycleAssumption DEF SessionInv, LockInv, Objects, Procs
  <1>2. pc[p] = "done" /\ Len(written[c]) = FilesOf[p]
    BY <1>1, LastTaken DEF Leaving
  <1>3. written[c] = FilesSentBy(p)
    <2>1. PICK w \in Seq(Slot \cup {Blank}) : w = written[c]
      BY DEF RingTypes
    <2>2. w = [i \in 1 .. Len(w) |-> w[i]]
      BY <2>1
    <2>3. \A i \in 1 .. Len(w) : w[i] = <<p, i>>
      BY <1>1, <2>1 DEF WorkInv, Work
    <2>4. Len(w) = FilesOf[p]
      BY <1>2, <2>1
    <2>5. w = [i \in 1 .. FilesOf[p] |-> <<p, i>>]
      BY <2>2, <2>3, <2>4
    <2> QED
      BY <2>1, <2>5 DEF FilesSentBy
  <1>4. ASSUME NEW d \in Consumers \ {c}, NEW i \in 1 .. FilesOf[p] + 1
        PROVE  item[d] # <<p, i>>
    <2>1. SUFFICES ASSUME item[d] = <<p, i>> PROVE FALSE
      OBVIOUS
    <2>2. item[d] # Blank /\ item[d][1] = p
      BY <1>1, <2>1 DEF Blank
    <2>3. handle[d]["shm"] = p
      BY <2>2 DEF WorkInv
    <2> QED
      BY <1>1, <2>3 DEF SessionInv
  <1> QED
    BY <1>2, <1>3, <1>4

LEMMA SessionClears ==
  ASSUME LockInv, RingTypes, SessionInv
  PROVE  CleanSlate
  <1> SUFFICES ASSUME Running = {}, Cardinality(Started(Producers))
                                      = Cardinality(Started(Consumers))
               PROVE  \A o \in Objects : bound[o] = None
    BY DEF CleanSlate
  <1>1. Surplus = 0
    BY SurplusType, FS_CardinalityType DEF Surplus
  <1>2. ~ \E p \in Producers : Alone(p)
    BY <1>1 DEF Alone
  <1>3. ~ \E p \in Producers, c \in Consumers : Paired(p, c)
    BY DEF Paired, Running, SessionInv, Procs
  <1> QED
    BY <1>2, <1>3 DEF SessionInv, Phase, Between

\* The inductive invariant: rings are as they should be when one producer is
\* started at most, and when sessions follow one another.
LifeInv ==
  /\ LockInv /\ RingTypes
  /\ OneProducer => SingleInv /\ Mapped /\ RingInv
  /\ InSessions => SessionInv /\ WorkInv /\ Mapped /\ RingInv

LEMMA LifeInit == Init => LifeInv
  BY LockInit, TypesInit, SingleInit, MappedInit, RingInit, SessionInit,
     WorkInit DEF LifeInv

LEMMA LifeStep ==
  ASSUME LifeInv, [Next]_vars
  PROVE  LifeInv'
  <1>1. LockInv /\ RingTypes /\ LockInv' /\ RingTypes'
    BY LockStep, TypesStep DEF LifeInv
  <1>2. user' = user
    BY DEF Next, vars
  <1>3. ASSUME OneProducer'
        PROVE  SingleInv' /\ Mapped' /\ RingInv'
    <2>1. OneProducer /\ SingleInv /\ Mapped /\ RingInv
      BY <1>2, <1>3 DEF LifeInv, OneProducer
    <2>2. SingleInv'
      BY <1>1, <2>1, SingleStep
    <2>3. Mapped'
      BY <1>1, <2>1, MappedStep
    <2>4. Apart
      BY <2>1 DEF SingleInv
    <2>5. RingInv'
      BY <1>1, <2>1, <2>4, RingStep
    <2> QED
      BY <2>2, <2>3, <2>5
  <1>4. ASSUME InSessions'
        PROVE  SessionInv' /\ WorkInv' /\ Mapped' /\ RingInv'
    <2>1. InSessions /\ SessionInv /\ WorkInv /\ Mapped /\ RingInv
      BY <1>2, <1>4 DEF LifeInv, InSessions
    <2>2. Apart
      BY <2>1 DEF SessionInv
    <2>3. SessionInv'
      BY <1>1, <2>1, SessionStep
    <2>4. WorkInv'
      BY <1>1, <2>1, <2>2, WorkStep
    <2>5. Mapped'
      BY <1>1, <2>1, MappedStep
    <2>6. RingInv'
      BY <1>1, <2>1, <2>2, RingStep
    <2> QED
      BY <2>3, <2>4, <2>5, <2>6
  <1> QED
    BY <1>1, <1>3, <1>4 DEF LifeInv

LEMMA LifeAlways == Spec => []LifeInv
  <1>1. LifeInv /\ [Next]_vars => LifeInv'
    BY LifeStep
  <1> QED
    BY <1>1, LifeInit, PTL DEF Spec

\* However many consumers are started and killed on the objects of one producer,
\* and in sessions that follow one another: every slot is taken at most once, in
\* the order in which the producer stored it.  (Two producers that share the
\* names reset each other's indices: the hypothesis is what the programs need.)
THEOREM TakenOnceInOrderCorrect ==
  Spec => []((OneProducer \/ InSessions) => TakenOnceInOrder)
  <1>1. LifeInv => ((OneProducer \/ InSessions) => TakenOnceInOrder)
    BY RingTaken DEF LifeInv
  <1> QED
    BY <1>1, LifeAlways, PTL

\* In sessions of a producer and its consumer, any number of them: a consumer
\* that is through has written all files of one producer, of which no other
\* consumer got any, and no name outlives the session.
THEOREM SessionIntactCorrect == Spec => []SessionIntact
  <1>1. LifeInv => SessionIntact
    BY SessionDelivers, SessionClears DEF LifeInv, SessionIntact
  <1> QED
    BY <1>1, LifeAlways, PTL

=============================================================================
