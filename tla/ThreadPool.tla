----------------------------- MODULE ThreadPool -----------------------------
(***************************************************************************)
(* The pool of threads of httplib (class ThreadPool of httplib.h): one     *)
(* owner that adds jobs and finally shuts the pool down, and the workers   *)
(* that take them.  What is done under mutex_ is one step; the two         *)
(* notifications are sent after it was released, as steps of their own.    *)
(* A worker that waits for cond_ may also wake up without being notified.  *)
(***************************************************************************)
EXTENDS Naturals, Sequences

CONSTANTS
  Workers,              \* the threads
  Jobs,                 \* what can be added
  max_queued_requests   \* at this length the queue is full; 0: never

ASSUME PoolAssumption ==
  /\ max_queued_requests \in Nat
  /\ Jobs \cap {"check", "asleep", "gone"} = {}

VARIABLES
  jobs,      \* jobs_, the queue
  shutdown,  \* shutdown_
  worker,    \* worker -> where its loop is, or the job it runs
  owner      \* where the thread is that adds jobs and shuts down

poolVars == <<jobs, shutdown, worker, owner>>

Awake == {"check"} \cup Jobs

Running(j) == \E w \in Workers : worker[w] = j

InPool(j) == (\E i \in DOMAIN jobs : jobs[i] = j) \/ Running(j)

PoolInit ==
  /\ jobs = <<>> /\ shutdown = FALSE
  /\ worker = [w \in Workers |-> "check"]
  /\ owner = "idle"

-----------------------------------------------------------------------------
Full == max_queued_requests > 0 /\ Len(jobs) >= max_queued_requests

\* enqueue, as far as it returns true; when the queue is Full it returns
\* false and changes nothing.
Enqueue(j) ==
  /\ owner = "idle" /\ ~ Full
  /\ jobs' = Append(jobs, j) /\ owner' = "notify"
  /\ UNCHANGED <<shutdown, worker>>

\* notify_one wakes one of those that wait at the moment, if there is one.
NotifyOne ==
  /\ owner = "notify" /\ owner' = "idle"
  /\ \/ \E w \in Workers : /\ worker[w] = "asleep"
                           /\ worker' = [worker EXCEPT ![w] = "check"]
     \/ (\A w \in Workers : worker[w] # "asleep") /\ UNCHANGED worker
  /\ UNCHANGED <<jobs, shutdown>>

BeginShutdown ==
  /\ owner = "idle" /\ owner' = "notify_all"
  /\ shutdown' = TRUE
  /\ UNCHANGED <<jobs, worker>>

NotifyAll ==
  /\ owner = "notify_all" /\ owner' = "join"
  /\ worker' = [w \in Workers |->
                  IF worker[w] = "asleep" THEN "check" ELSE worker[w]]
  /\ UNCHANGED <<jobs, shutdown>>

Join ==
  /\ owner = "join" /\ owner' = "joined"
  /\ \A w \in Workers : worker[w] = "gone"
  /\ UNCHANGED <<jobs, shutdown, worker>>

-----------------------------------------------------------------------------
WorkerGo(w, to) ==
  /\ worker' = [worker EXCEPT ![w] = to]
  /\ UNCHANGED <<shutdown, owner>>

\* The predicate is tested under the mutex, which the wait releases.
Sleep(w) ==
  /\ worker[w] = "check" /\ jobs = <<>> /\ ~ shutdown
  /\ WorkerGo(w, "asleep") /\ UNCHANGED jobs

Spurious(w) ==
  /\ worker[w] = "asleep"
  /\ WorkerGo(w, "check") /\ UNCHANGED jobs

\* Mutant of Leave: a worker leaves although there are jobs.
Mut_LeaveAtOnce(w) ==
  /\ worker[w] = "check" /\ shutdown
  /\ WorkerGo(w, "gone") /\ UNCHANGED jobs

Leave(w) ==
  /\ worker[w] = "check" /\ shutdown /\ jobs = <<>>
  /\ WorkerGo(w, "gone") /\ UNCHANGED jobs

TakeJob(w) ==
  /\ worker[w] = "check" /\ jobs # <<>>
  /\ WorkerGo(w, Head(jobs)) /\ jobs' = Tail(jobs)

FinishJob(w) ==
  /\ worker[w] \in Jobs
  /\ WorkerGo(w, "check") /\ UNCHANGED jobs

\* What the pool does by itself, whatever the jobs are.
PoolWorker(w) == Sleep(w) \/ Leave(w) \/ TakeJob(w)

PoolOwner == NotifyOne \/ NotifyAll \/ Join

PoolNext ==
  \/ \E j \in Jobs : ~ InPool(j) /\ Enqueue(j)
  \/ BeginShutdown \/ PoolOwner
  \/ \E w \in Workers : PoolWorker(w) \/ Spurious(w) \/ FinishJob(w)

PoolSpec == PoolInit /\ [][PoolNext]_poolVars

-----------------------------------------------------------------------------
(***************************************************************************)
(* Properties.                                                             *)
(***************************************************************************)
PoolTypeOK ==
  /\ jobs \in Seq(Jobs) /\ shutdown \in BOOLEAN
  /\ worker \in [Workers -> Awake \cup {"asleep", "gone"}]
  /\ owner \in {"idle", "notify", "notify_all", "join", "joined"}

\* No wake-up is lost, although the notifications are sent after the mutex
\* was released: with a job in the queue some worker is awake unless its
\* notification is still to come, and after notify_all nobody sleeps.
NoWakeupLost ==
  /\ jobs # <<>> /\ owner # "notify" /\ Workers # {} =>
        \/ \E w \in Workers : worker[w] \in Awake
        \/ owner = "notify_all"
  /\ owner \in {"join", "joined"} => \A w \in Workers : worker[w] # "asleep"

\* A job is waiting once or run by one worker, and when shutdown returns none
\* is left: those that were accepted before have all been run.
EachJobOnce ==
  /\ \A i, k \in DOMAIN jobs : jobs[i] = jobs[k] => i = k
  /\ \A i \in DOMAIN jobs : ~ Running(jobs[i])
  /\ \A v, w \in Workers : worker[v] = worker[w] /\ worker[v] \in Jobs => v = w
  /\ owner = "joined" => \A w \in Workers : worker[w] = "gone"
  /\ (\E w \in Workers : worker[w] = "gone") => shutdown /\ jobs = <<>>

=============================================================================
