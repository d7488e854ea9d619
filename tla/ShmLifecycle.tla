---------------------------- MODULE ShmLifecycle ----------------------------
(***************************************************************************)
(* The 1shmem programs as processes that are started, find the shared      *)
(* objects by name, and stop or crash: producer.cpp and consumer.cpp from  *)
(* the first shm_open to the last sem_unlink, for any number of producers  *)
(* and consumers on one machine.                                           *)
(*                                                                         *)
(* There are four names (shared.h:5-8).  An object outlives its name while *)
(* a process has it open, so a name that was unlinked and created again    *)
(* stands for a new object.  A process creates each object at most once:   *)
(* an object is identified by its name and the producer that created it.   *)
(* What a directory lists, and how it is read, is in ShmTransfer; here a   *)
(* producer p has FilesOf[p] files to send, sent in their order.           *)
(***************************************************************************)
EXTENDS Naturals, Sequences, FiniteSets

CONSTANTS
  Producers, Consumers,   \* the runs of the two programs, each starts once
  None,                   \* no object: an unbound name, a failed open
  MAX_FILES,              \* slots of the ring (8 in the code)
  FilesOf,                \* producer -> files in its input directory
  Users                   \* what users do: which of the programs they start,
                          \* when (see MayStart), and how many may be killed

ASSUME LifecycleAssumption ==
  /\ Producers \cap Consumers = {} /\ None \notin Producers
  /\ MAX_FILES \in Nat \ {0}
  /\ FilesOf \in [Producers -> Nat]
  /\ Users \subseteq [runs : SUBSET (Producers \cup Consumers),
                     policy : {"any", "sessions"}, crashes : Nat]

Procs == Producers \cup Consumers
SemNames == {"empty", "full", "mutex"}
Objects == {"shm"} \cup SemNames
SlotIdx == 0 .. MAX_FILES - 1

Advance(idx) == (idx + 1) % MAX_FILES

\* File number `nr` of a producer; the number after its last file is the
\* end marker.
Slot == {s \in Producers \X Nat : s[2] \in 1 .. FilesOf[s[1]] + 1}
IsEof(s) == s[2] = FilesOf[s[1]] + 1
Blank == <<None, 0>>

\* The values that sem_open(..., O_CREAT, ...) gives to a new semaphore.
InitialValue == [empty |-> MAX_FILES, full |-> 0, mutex |-> 1]

VARIABLES
  user,      \* the one of Users whose doing this is
  pc,        \* process -> its next step; "off" before it is started
  crashed,   \* the processes that were killed at that step
  bound,     \* name -> the creator of the object it stands for, or None
  handle,    \* process -> name -> the object it got when it opened the name
  sem,       \* semaphore name -> creator -> value
  windex, rindex, slots,   \* creator of a segment -> its content
  nr,        \* producer -> the file it sends next
  item,      \* consumer -> its local slot
  written,   \* consumer -> the files it has written
  stored, taken  \* history: what was stored into and taken from a segment

nameVars == <<bound, handle>>
ringVars == <<windex, rindex, slots>>
workVars == <<nr, item, written>>
histVars == <<stored, taken>>
vars == <<user, pc, crashed, nameVars, sem, ringVars, workVars, histVars>>

Init ==
  /\ user \in Users
  /\ pc = [x \in Procs |-> "off"] /\ crashed = {}
  /\ bound = [o \in Objects |-> None]
  /\ handle = [x \in Procs |-> [o \in Objects |-> None]]
  /\ sem = [s \in SemNames |-> [p \in Producers |-> InitialValue[s]]]
  /\ windex = [p \in Producers |-> 0] /\ rindex = [p \in Producers |-> 0]
  /\ slots = [p \in Producers |-> [i \in SlotIdx |-> Blank]]
  /\ nr = [p \in Producers |-> 1]
  /\ item = [c \in Consumers |-> Blank]
  /\ written = [c \in Consumers |-> <<>>]
  /\ stored = [p \in Producers |-> <<>>] /\ taken = [p \in Producers |-> <<>>]

-----------------------------------------------------------------------------
(***************************************************************************)
(* Starting the programs, and losing one.                                  *)
(***************************************************************************)
Started(X) == {x \in X : pc[x] # "off"}
Running == {x \in Procs : pc[x] \notin {"off", "done", "fault"}} \ crashed

StartUp == {"open_shm", "reset_write", "reset_read",
            "open_empty", "open_full", "open_mutex"}
Ready(p) == pc[p] \notin {"off"} \cup StartUp

\* "any": whenever the user likes.  "sessions": a producer, its consumer once
\* the producer is ready, and so on, one pair after the other.
MayStart(x) ==
  /\ x \in user.runs
  /\ CASE user.policy = "any"   -> TRUE
       [] user.policy = "sessions" ->
            LET np == Cardinality(Started(Producers))
                nc == Cardinality(Started(Consumers))
            IN IF x \in Producers THEN np = nc /\ Running = {}
               ELSE nc < np /\ \A p \in Started(Producers) : Ready(p)

Start(x) ==
  /\ pc[x] = "off" /\ MayStart(x)
  /\ pc' = [pc EXCEPT ![x] = "open_shm"]
  /\ UNCHANGED <<crashed, nameVars, sem, ringVars, workVars, histVars>>

\* A killed process releases nothing: semaphores are not robust mutexes.
Crash(x) ==
  /\ x \in Running /\ Cardinality(crashed) < user.crashes
  /\ crashed' = crashed \cup {x}
  /\ UNCHANGED <<pc, nameVars, sem, ringVars, workVars, histVars>>

-----------------------------------------------------------------------------
(***************************************************************************)
(* The calls that both programs make.                                      *)
(***************************************************************************)
Go(x, from, to) ==
  /\ x \notin crashed /\ pc[x] = from
  /\ pc' = [pc EXCEPT ![x] = to]
  /\ UNCHANGED crashed

SemAdd(s, o, v) == sem' = [sem EXCEPT ![s][o] = v]

SemWait(x, s, from, to) ==
  LET o == handle[x][s]
  IN /\ Go(x, from, to)
     /\ o # None /\ sem[s][o] > 0
     /\ SemAdd(s, o, sem[s][o] - 1)
     /\ UNCHANGED <<nameVars, ringVars, workVars, histVars>>

SemPost(x, s, from, to) ==
  LET o == handle[x][s]
  IN /\ Go(x, from, to)
     /\ o # None
     /\ SemAdd(s, o, sem[s][o] + 1)
     /\ UNCHANGED <<nameVars, ringVars, workVars, histVars>>

\* Without O_CREAT, opening an unbound name fails; nobody checks that.
Open(x, o, from, to) ==
  /\ Go(x, from, to)
  /\ handle' = [handle EXCEPT ![x][o] = bound[o]]
  /\ UNCHANGED <<bound, sem, ringVars, workVars, histVars>>

\* With O_CREAT, an unbound name gets a new object, and a bound one is
\* opened as it is: the initial value of a semaphore is then ignored.
OpenOrCreate(p, o, from, to) ==
  /\ Go(p, from, to)
  /\ bound' = [bound EXCEPT ![o] = IF @ = None THEN p ELSE @]
  /\ handle' = [handle EXCEPT ![p][o] = bound'[o]]
  /\ UNCHANGED <<sem, ringVars, workVars, histVars>>

-----------------------------------------------------------------------------
(***************************************************************************)
(* The producer.                                                           *)
(***************************************************************************)
ProducerOpens(p) ==
  \/ OpenOrCreate(p, "shm", "open_shm", "reset_write")
  \/ OpenOrCreate(p, "empty", "open_empty", "open_full")
  \/ OpenOrCreate(p, "full", "open_full", "open_mutex")
  \/ OpenOrCreate(p, "mutex", "open_mutex", "wait_empty")

\* The indices are reset without the mutex, in whatever segment it is.
ResetWrite(p) ==
  /\ Go(p, "reset_write", "reset_read")
  /\ windex' = [windex EXCEPT ![handle[p]["shm"]] = 0]
  /\ UNCHANGED <<nameVars, sem, rindex, slots, workVars, histVars>>

ResetRead(p) ==
  /\ Go(p, "reset_read", "open_empty")
  /\ rindex' = [rindex EXCEPT ![handle[p]["shm"]] = 0]
  /\ UNCHANGED <<nameVars, sem, windex, slots, workVars, histVars>>

ProducerWaits(p) == \/ SemWait(p, "empty", "wait_empty", "wait_mutex")
                    \/ SemWait(p, "mutex", "wait_mutex", "store")

StoreSlot(p) ==
  LET b == handle[p]["shm"]
  IN /\ Go(p, "store", "advance")
     /\ slots' = [slots EXCEPT ![b][windex[b]] = <<p, nr[p]>>]
     /\ stored' = [stored EXCEPT ![b] = Append(@, <<p, nr[p]>>)]
     /\ UNCHANGED <<nameVars, sem, windex, rindex, workVars, taken>>

AdvanceWrite(p) ==
  /\ Go(p, "advance", "post_mutex")
  /\ windex' = [windex EXCEPT ![handle[p]["shm"]] = Advance(@)]
  /\ UNCHANGED <<nameVars, sem, rindex, slots, workVars, histVars>>

ProducerPostMutex(p) == SemPost(p, "mutex", "post_mutex", "post_full")

\* Mutant of ProducerPostFull: the end marker is stored but not announced.
Mut_EofUnannounced(p) ==
  LET eof == IsEof(<<p, nr[p]>>)
      o   == handle[p]["full"]
  IN /\ Go(p, "post_full", IF eof THEN "done" ELSE "wait_empty")
     /\ SemAdd("full", o, sem["full"][o] + IF eof THEN 0 ELSE 1)
     /\ nr' = [nr EXCEPT ![p] = IF eof THEN @ ELSE @ + 1]
     /\ UNCHANGED <<nameVars, ringVars, item, written, histVars>>

\* Then the next file, or the end of the program after the end marker.
ProducerPostFull(p) ==
  LET eof == IsEof(<<p, nr[p]>>)
      o   == handle[p]["full"]
  IN /\ Go(p, "post_full", IF eof THEN "done" ELSE "wait_empty")
     /\ SemAdd("full", o, sem["full"][o] + 1)
     /\ nr' = [nr EXCEPT ![p] = IF eof THEN @ ELSE @ + 1]
     /\ UNCHANGED <<nameVars, ringVars, item, written, histVars>>

Producer(p) == \/ ProducerOpens(p) \/ ResetWrite(p) \/ ResetRead(p)
               \/ ProducerWaits(p) \/ StoreSlot(p) \/ AdvanceWrite(p)
               \/ ProducerPostMutex(p) \/ ProducerPostFull(p)

-----------------------------------------------------------------------------
(***************************************************************************)
(* The consumer.                                                           *)
(***************************************************************************)
ConsumerOpens(c) == \/ Open(c, "shm", "open_shm", "open_empty")
                    \/ Open(c, "empty", "open_empty", "open_full")
                    \/ Open(c, "full", "open_full", "open_mutex")
                    \/ Open(c, "mutex", "open_mutex", "wait_full")

\* Mutant of ConsumerWaits: the consumer does not take the mutex.
Mut_LoadUnlocked(c) == SemWait(c, "full", "wait_full", "load")

ConsumerWaits(c) == \/ SemWait(c, "full", "wait_full", "wait_mutex")
                    \/ SemWait(c, "mutex", "wait_mutex", "load")

LoadSlot(c) ==
  LET b == handle[c]["shm"]
  IN /\ Go(c, "load", "advance")
     /\ b # None
     /\ item' = [item EXCEPT ![c] = slots[b][rindex[b]]]
     /\ taken' = [taken EXCEPT ![b] = Append(@, slots[b][rindex[b]])]
     /\ UNCHANGED <<nameVars, sem, ringVars, nr, written, stored>>

AdvanceRead(c) ==
  /\ Go(c, "advance", "post_mutex")
  /\ rindex' = [rindex EXCEPT ![handle[c]["shm"]] = Advance(@)]
  /\ UNCHANGED <<nameVars, sem, windex, slots, workVars, histVars>>

ConsumerPosts(c) ==
  \/ SemPost(c, "mutex", "post_mutex", "post_empty")
  \/ SemPost(c, "empty", "post_empty",
             IF item[c] # Blank /\ IsEof(item[c]) THEN "unlink_shm" ELSE "write")

WriteFile(c) ==
  /\ Go(c, "write", "wait_full")
  /\ written' = [written EXCEPT ![c] = Append(@, item[c])]
  /\ UNCHANGED <<nameVars, sem, ringVars, nr, item, histVars>>

\* shm_unlink and sem_unlink remove whatever object has the name by now.
Unlink(c, o, from, to) ==
  /\ Go(c, from, to)
  /\ bound' = [bound EXCEPT ![o] = None]
  /\ UNCHANGED <<handle, sem, ringVars, workVars, histVars>>

\* Mutant of ConsumerUnlinks: sem_unlink(SEM_MUTEX) is forgotten.
Mut_MutexStays(c) == \/ Unlink(c, "shm", "unlink_shm", "unlink_empty")
                     \/ Unlink(c, "empty", "unlink_empty", "unlink_full")
                     \/ Unlink(c, "full", "unlink_full", "done")

ConsumerUnlinks(c) == \/ Unlink(c, "shm", "unlink_shm", "unlink_empty")
                      \/ Unlink(c, "empty", "unlink_empty", "unlink_full")
                      \/ Unlink(c, "full", "unlink_full", "unlink_mutex")
                      \/ Unlink(c, "mutex", "unlink_mutex", "done")

\* The object that a step of the consumer's loop uses: a null semaphore or
\* an unmapped segment ends the process with a signal.
Uses == [wait_full |-> "full", wait_mutex |-> "mutex", load |-> "shm",
         post_empty |-> "empty"]

Segfault(c) ==
  /\ pc[c] \in DOMAIN Uses /\ handle[c][Uses[pc[c]]] = None
  /\ Go(c, pc[c], "fault")
  /\ UNCHANGED <<nameVars, sem, ringVars, workVars, histVars>>

Consumer(c) == \/ ConsumerOpens(c) \/ ConsumerWaits(c) \/ LoadSlot(c)
               \/ AdvanceRead(c) \/ ConsumerPosts(c) \/ WriteFile(c)
               \/ ConsumerUnlinks(c) \/ Segfault(c)

-----------------------------------------------------------------------------
Step == \/ \E x \in Procs : Start(x) \/ Crash(x)
        \/ \E p \in Producers : Producer(p)
        \/ \E c \in Consumers : Consumer(c)

Next == Step /\ UNCHANGED user

\* A process that can go on and is not killed does go on.
Fairness == /\ \A p \in Producers : WF_vars(Producer(p) /\ UNCHANGED user)
            /\ \A c \in Consumers : WF_vars(Consumer(c) /\ UNCHANGED user)

Spec == Init /\ [][Next]_vars /\ Fairness

-----------------------------------------------------------------------------
(***************************************************************************)
(* Properties.                                                             *)
(***************************************************************************)
Steps == {"off", "done", "fault", "wait_empty", "wait_full", "wait_mutex",
          "store", "load", "advance", "post_mutex", "post_full", "post_empty",
          "write", "unlink_shm", "unlink_empty", "unlink_full",
          "unlink_mutex"} \cup StartUp

\* Every variable stays in its type; in particular a semaphore never
\* becomes negative, and none but a failed open leaves an empty handle.
TypeOK ==
  /\ user \in Users
  /\ pc \in [Procs -> Steps] /\ crashed \in SUBSET Procs
  /\ bound \in [Objects -> Producers \cup {None}]
  /\ handle \in [Procs -> [Objects -> Producers \cup {None}]]
  /\ sem \in [SemNames -> [Producers -> Nat]]
  /\ windex \in [Producers -> SlotIdx] /\ rindex \in [Producers -> SlotIdx]
  /\ slots \in [Producers -> [SlotIdx -> Slot \cup {Blank}]]
  /\ nr \in [Producers -> Nat]
  /\ item \in [Consumers -> Slot \cup {Blank}]
  /\ written \in [Consumers -> Seq(Slot \cup {Blank})]
  /\ stored \in [Producers -> Seq(Slot)]
  /\ taken \in [Producers -> Seq(Slot \cup {Blank})]

Inside(x) == pc[x] \in {"store", "load", "advance", "post_mutex"}

\* However the programs are started and killed, one mutex object never lets
\* two processes in at a time, dead ones included.
MutexPerObject ==
  \A x, y \in Procs :
     /\ Inside(x) /\ Inside(y)
     /\ handle[x]["mutex"] = handle[y]["mutex"]
     => x = y

\* Over all consumers, killed and restarted ones included, each slot of a
\* segment is taken at most once and in the order it was stored.
TakenOnceInOrder ==
  \A b \in Producers :
     /\ Len(taken[b]) <= Len(stored[b])
     /\ taken[b] = SubSeq(stored[b], 1, Len(taken[b]))

\* The files of a producer, in the order in which it sends them.
FilesSentBy(p) == [i \in 1 .. FilesOf[p] |-> <<p, i>>]

\* The programs are started in pairs, and none is killed.
InSessions == user.policy = "sessions" /\ user.crashes = 0

\* When the consumer of a session is through, it has written all files of
\* one producer, nothing else, and no other consumer has written any of them.
Delivered ==
  \A c \in Consumers :
     pc[c] = "done" =>
        \E p \in Producers :
           /\ pc[p] # "off" /\ written[c] = FilesSentBy(p)
           /\ \A d \in Consumers \ {c}, i \in 1 .. FilesOf[p] + 1 :
                 item[d] # <<p, i>>

\* Between two sessions no name is left that could hand old objects, with
\* their old values, to the next session.
CleanSlate ==
  /\ Running = {}
  /\ Cardinality(Started(Producers)) = Cardinality(Started(Consumers))
  => \A o \in Objects : bound[o] = None

\* Sessions do not disturb each other: each delivers the files of its own
\* producer and leaves no object to the next.
SessionIntact == InSessions => Delivered /\ CleanSlate

\* Every session that has both its programs comes to its end.
SessionsEnd ==
  \A c \in Consumers : (InSessions /\ pc[c] # "off") ~> pc[c] = "done"

=============================================================================
