--------------------------- MODULE KotichiProofs ---------------------------
(***************************************************************************)
(* The collage service for any number of requests at once, and any number  *)
(* of pictures, futures and rounds: what an answer stands for, when the    *)
(* fetches are over, and when an upload is safe from the others; the pool  *)
(* of threads that runs the handlers, of any size; and the server and its  *)
(* clients, of any number: they implement the pool, no connection is       *)
(* closed while it is used, and a request is handled once.                 *)
(***************************************************************************)
EXTENDS Collage, HttpExchange, TLAPS

\* The upload m has its millisecond to itself among the named uploads.
Lone(m) ==
  \A k \in Makes \ {m} : handler[k] \in Named => stamp[k] # stamp[m]

\* From the truncation to the end a lone upload owns its file.
UploadInv ==
  \A m \in Makes \ DiskFull : Lone(m) =>
     /\ handler[m] = "write" => uploads[stamp[m]] = <<>>
     /\ handler[m] \in {"reply", "done"} => uploads[stamp[m]] = body[m]

\* The futures of a round live between its start and its end.
RoundInv ==
  /\ NoFetchOutlives
  /\ \A m \in Makes :
        /\ pc[m] = "collect" => /\ next[m] \in Futures
                                /\ \A i \in Futures : fetch[m][i] # "off"
                                /\ Len(cats[m]) < need_unique
        /\ pc[m] \in {"collect", "join"} => round[m] < max_rounds

\* What has been kept is different, and has been seen.
KeptInv ==
  \A m \in Makes :
     /\ Different(cats[m])
     /\ \A i \in DOMAIN cats[m] : Hash[cats[m][i]] \in seen[m]

\* An archive is posted once there are enough pictures, and it is these; and
\* an answer is the last thing.
PostInv ==
  /\ AnswersTrue
  /\ \A m \in Makes :
        /\ pc[m] \in {"post", "await"} => Len(cats[m]) = need_unique
        /\ pc[m] \notin {"await", "answered"} => handler[m] = "none"
        /\ handler[m] # "none" => body[m] = Tar(cats[m])
        /\ answer[m] # "none" => pc[m] = "answered"

CollageInv == TypeOK /\ UploadInv /\ RoundInv /\ KeptInv /\ PostInv

\* A file that is empty takes the bytes as they are.
LEMMA OverlaidEmpty ==
  ASSUME NEW bytes \in Seq(Cells) PROVE Overlaid(bytes, <<>>) = bytes
  BY DEF Overlaid

LEMMA CollageInit == Init => CollageInv
  <1> SUFFICES ASSUME Init PROVE CollageInv
    OBVIOUS
  <1> USE BackendAssumption, CollageAssumption DEF Init, BackendInit
  <1>1. BackendTypeOK
    BY DEF BackendTypeOK, Times, HandlerSteps
  <1>2. TypeOK
    BY <1>1 DEF TypeOK, MakeSteps, Futures
  <1>3. UploadInv /\ RoundInv
    BY DEF UploadInv, RoundInv, NoFetchOutlives
  <1>4. KeptInv /\ PostInv
    BY DEF KeptInv, Different, PostInv, AnswersTrue
  <1> QED
    BY <1>2, <1>3, <1>4 DEF CollageInv

-----------------------------------------------------------------------------
(***************************************************************************)
(* The steps of the cat service.                                           *)
(***************************************************************************)

LEMMA HandlerType ==
  ASSUME BackendTypeOK, NEW m \in Makes, Handler(m)
  PROVE  BackendTypeOK'
  <1> USE BackendAssumption
      DEF BackendTypeOK, HandlerGo, HandlerSteps, Times
  <1>1. CASE TakeName(m)
    BY <1>1 DEF TakeName
  <1>2. CASE OpenUpload(m)
    BY <1>2 DEF OpenUpload
  <1>3. CASE WriteUpload(m)
    <2>1. ASSUME NEW old \in Seq(Cells)
          PROVE  Overlaid(body[m], old) \in Seq(Cells)
      <3>1. CASE Len(old) <= Len(body[m])
        BY <3>1 DEF Overlaid
      <3>2. CASE ~ (Len(old) <= Len(body[m]))
        <4>1. SubSeq(old, Len(body[m]) + 1, Len(old)) \in Seq(Cells)
          OBVIOUS
        <4> QED
          BY <3>2, <4>1 DEF Overlaid
      <3> QED
        BY <3>1, <3>2
    <2>2. uploads' \in [Times -> Seq(Cells)]
      BY <1>3, <2>1 DEF WriteUpload
    <2> QED
      BY <1>3, <2>2 DEF WriteUpload
  <1>4. CASE Reply(m)
    BY <1>4 DEF Reply
  <1> QED
    BY <1>1, <1>2, <1>3, <1>4 DEF Handler

\* Only those who hold a name write to it, and each to its own.
LEMMA HandlerUpload ==
  ASSUME BackendTypeOK, UploadInv, NEW m \in Makes, Handler(m)
  PROVE  UploadInv'
  <1> SUFFICES ASSUME NEW k \in Makes \ DiskFull, Lone(k)'
               PROVE /\ handler'[k] = "write" => uploads'[stamp'[k]] = <<>>
                     /\ handler'[k] \in {"reply", "done"}
                          => uploads'[stamp'[k]] = body'[k]
    BY DEF UploadInv
  <1> USE DEF BackendTypeOK, HandlerGo, Named
  <1>0. /\ k # m => handler'[k] = handler[k] /\ stamp'[k] = stamp[k]
        /\ handler'[k] \in {"write", "reply", "done"} => Lone(k)
    BY DEF Handler, TakeName, OpenUpload, WriteUpload, Reply, Lone
  <1>1. CASE TakeName(m)
    BY <1>0, <1>1 DEF TakeName, UploadInv
  <1>2. CASE OpenUpload(m)
    BY <1>0, <1>2 DEF OpenUpload, UploadInv, Lone
  <1>3. CASE WriteUpload(m)
    <2>1. CASE k = m
      <3>1. uploads[stamp[m]] = <<>>
        BY <1>0, <1>3, <2>1 DEF WriteUpload, UploadInv
      <3>2. uploads'[stamp[m]] = Overlaid(body[m], <<>>)
        BY <1>3, <2>1, <3>1 DEF WriteUpload
      <3> QED
        BY <1>3, <2>1, <3>2, OverlaidEmpty DEF WriteUpload
    <2>2. CASE k # m
      <3>1. handler[k] \in {"write", "reply", "done"} =>
               uploads'[stamp[k]] = uploads[stamp[k]]
        BY <1>0, <1>3, <2>2 DEF WriteUpload, Lone
      <3> QED
        BY <1>0, <1>3, <2>2, <3>1 DEF WriteUpload, UploadInv
    <2> QED
      BY <2>1, <2>2
  <1>4. CASE Reply(m)
    BY <1>0, <1>4 DEF Reply, UploadInv
  <1> QED
    BY <1>1, <1>2, <1>3, <1>4 DEF Handler

LEMMA BackendStep ==
  ASSUME CollageInv, UNCHANGED makeVars,
         Tick \/ \E m \in Makes : Handler(m)
  PROVE  CollageInv'
  <1> USE DEF CollageInv
  <1>1. BackendTypeOK'
    <2>1. CASE Tick
      BY <2>1, BackendAssumption DEF TypeOK, Tick, BackendTypeOK, Times
    <2>2. CASE \E m \in Makes : Handler(m)
      BY <2>2, HandlerType DEF TypeOK
    <2> QED
      BY <2>1, <2>2
  <1>2. TypeOK'
    BY <1>1 DEF TypeOK, makeVars
  <1>3. UploadInv'
    BY HandlerUpload DEF TypeOK, Tick, UploadInv, Lone
  <1>4. RoundInv' /\ KeptInv'
    BY DEF RoundInv, NoFetchOutlives, KeptInv, makeVars
  <1>5. PostInv'
    <2>1. /\ body' = body
          /\ \A m \in Makes : /\ handler[m] = "none" <=> handler'[m] = "none"
                              /\ handler[m] = "done" => handler'[m] = "done"
      BY DEF TypeOK, BackendTypeOK, Tick, Handler, TakeName, OpenUpload,
             WriteUpload, Reply, HandlerGo
    <2> QED
      BY <2>1 DEF PostInv, AnswersTrue, makeVars
  <1> QED
    BY <1>2, <1>3, <1>4, <1>5

-----------------------------------------------------------------------------
(***************************************************************************)
(* The steps of the collage service.                                       *)
(***************************************************************************)

LEMMA RoundStep ==
  ASSUME CollageInv, NEW m \in Makes,
         Make(m) \/ StartRound(m) \/ JoinRound(m) \/ EndRounds(m)
           \/ \E i \in Futures : Fetched(m, i)
  PROVE  CollageInv'
  <1> USE DEF CollageInv, Go
  <1>0. UNCHANGED backendVars /\ UNCHANGED <<seen, cats>>
    BY DEF Make, StartRound, JoinRound, EndRounds, Fetched
  <1>1. BackendTypeOK' /\ UploadInv' /\ KeptInv'
    BY <1>0 DEF TypeOK, BackendTypeOK, UploadInv, Lone, KeptInv, backendVars
  <1>2. CASE Make(m)
    BY <1>0, <1>1, <1>2 DEF Make, TypeOK, MakeSteps, RoundInv,
       NoFetchOutlives, PostInv, AnswersTrue, backendVars
  <1>3. CASE StartRound(m)
    BY SMTT(30), <1>0, <1>1, <1>3, CollageAssumption DEF StartRound, TypeOK, MakeSteps,
       Futures, Enough, RoundInv, NoFetchOutlives, PostInv, AnswersTrue,
       backendVars
  <1>4. CASE JoinRound(m)
    BY SMTT(30), <1>0, <1>1, <1>4, CollageAssumption DEF JoinRound, TypeOK, MakeSteps,
       Futures, RoundInv, NoFetchOutlives, PostInv, AnswersTrue, backendVars
  <1>5. CASE EndRounds(m)
    BY <1>0, <1>1, <1>5, CollageAssumption DEF EndRounds, Answered, Enough,
       TypeOK, MakeSteps, RoundInv, NoFetchOutlives, PostInv, AnswersTrue,
       backendVars
  <1>6. CASE \E i \in Futures : Fetched(m, i)
    <2> PICK i \in Futures : Fetched(m, i)
      BY <1>6
    <2>1. TypeOK'
      BY <1>1 DEF Fetched, TypeOK
    <2>2. RoundInv'
      <3>1. /\ fetch[m][i] = "flying"
            /\ \A k \in Makes : \A l \in Futures :
                 fetch'[k][l] # fetch[k][l] => k = m /\ fetch'[k][l] # "off"
                                              /\ fetch'[k][l] # "flying"
        BY CollageAssumption DEF Fetched, TypeOK
      <3> QED
        BY <3>1 DEF Fetched, RoundInv, NoFetchOutlives
    <2>3. PostInv'
      BY DEF Fetched, PostInv, AnswersTrue, backendVars
    <2> QED
      BY <1>1, <2>1, <2>2, <2>3
  <1> QED
    BY <1>2, <1>3, <1>4, <1>5, <1>6

\* A picture that is kept is one that has not been seen.
LEMMA CollectStep ==
  ASSUME CollageInv, NEW m \in Makes, Collect(m)
  PROVE  CollageInv'
  <1> USE CollageAssumption DEF CollageInv
  <1> DEFINE bytes == fetch[m][next[m]]
  <1>1. /\ pc[m] = "collect" /\ bytes # "flying" /\ LoopOn(m)
        /\ UNCHANGED <<backendVars, round, fetch, answer>>
        /\ \/ bytes # "empty" /\ Hash[bytes] \notin seen[m] /\ Keep(m, bytes)
           \/ UNCHANGED <<seen, cats>>
    BY DEF Collect
  <1>2. /\ next[m] \in Futures /\ Len(cats[m]) < need_unique
        /\ round[m] < max_rounds /\ handler[m] = "none"
        /\ answer[m] = "none" /\ bytes \in {"empty"} \cup Cats
    BY <1>1 DEF RoundInv, PostInv, TypeOK
  <1>3. /\ \A k \in Makes \ {m} : cats'[k] = cats[k] /\ seen'[k] = seen[k]
        /\ \/ cats'[m] = cats[m] /\ seen'[m] = seen[m]
           \/ /\ bytes \in Cats /\ Hash[bytes] \notin seen[m]
              /\ cats'[m] = Append(cats[m], bytes)
              /\ seen'[m] = seen[m] \cup {Hash[bytes]}
    BY <1>1, <1>2 DEF Keep, TypeOK
  <1>4. /\ seen' \in [Makes -> SUBSET {Hash[c] : c \in Cats}]
        /\ cats' \in [Makes -> Seq(Cats)]
    <2>1. CASE UNCHANGED <<seen, cats>>
      BY <2>1 DEF TypeOK
    <2>2. CASE bytes # "empty" /\ Keep(m, bytes)
      <3>1. Append(cats[m], bytes) \in Seq(Cats)
        BY <1>2, <2>2 DEF TypeOK
      <3> QED
        BY <1>2, <2>2, <3>1 DEF TypeOK, Keep
    <2> QED
      BY <1>1, <2>1, <2>2
  <1>5. \A k \in Makes : Len(cats'[k]) <= need_unique
    <2>1. ASSUME cats'[m] = Append(cats[m], bytes), bytes \in Cats
          PROVE  Len(cats'[m]) <= need_unique
      <3>1. cats[m] \in Seq(Cats)
        BY DEF TypeOK
      <3>2. Len(cats'[m]) = Len(cats[m]) + 1 /\ Len(cats[m]) \in Nat
        BY <2>1, <3>1
      <3> QED
        BY <1>2, <3>2
    <2> QED
      BY <1>3, <2>1 DEF TypeOK
  <1>6. BackendTypeOK' /\ UploadInv'
    BY <1>1 DEF TypeOK, BackendTypeOK, UploadInv, Lone, backendVars
  <1>7. TypeOK'
    <2>1. /\ pc' \in [Makes -> MakeSteps]
          /\ next' \in [Makes -> 1 .. parallelism + 1]
      BY <1>1, <1>2 DEF TypeOK, LoopOn, MakeSteps, Futures
    <2> QED
      BY <1>1, <1>4, <1>5, <1>6, <2>1 DEF TypeOK
  <1>8. KeptInv'
    <2>1. \A k \in Makes \ {m} :
             /\ Different(cats'[k])
             /\ \A i \in DOMAIN cats'[k] : Hash[cats'[k][i]] \in seen'[k]
      BY <1>3 DEF KeptInv
    <2>2. /\ Different(cats'[m])
          /\ \A i \in DOMAIN cats'[m] : Hash[cats'[m][i]] \in seen'[m]
      <3>1. CASE cats'[m] = cats[m] /\ seen'[m] = seen[m]
        BY <3>1 DEF KeptInv
      <3>2. CASE /\ bytes \in Cats /\ Hash[bytes] \notin seen[m]
                 /\ cats'[m] = Append(cats[m], bytes)
                 /\ seen'[m] = seen[m] \cup {Hash[bytes]}
        <4>1. /\ cats[m] \in Seq(Cats)
              /\ DOMAIN cats'[m] = DOMAIN cats[m] \cup {Len(cats[m]) + 1}
              /\ \A i \in DOMAIN cats[m] : cats'[m][i] = cats[m][i]
              /\ cats'[m][Len(cats[m]) + 1] = bytes
          BY <3>2 DEF TypeOK
        <4> QED
          BY <3>2, <4>1 DEF KeptInv, Different
      <3> QED
        BY <1>3, <3>1, <3>2
    <2> QED
      BY <2>1, <2>2 DEF KeptInv, Different
  <1>9. RoundInv' /\ PostInv'
    <2>1. /\ \A k \in Makes \ {m} : pc'[k] = pc[k] /\ next'[k] = next[k]
          /\ pc'[m] \in {"collect", "join"}
          /\ pc'[m] = "collect" => /\ next'[m] \in Futures
                                   /\ Len(cats'[m]) < need_unique
      <3>1. /\ Len(cats'[m]) \in Nat
            /\ Len(cats'[m]) < need_unique \/ Len(cats'[m]) >= need_unique
        BY <1>4
      <3>2. /\ pc' = [pc EXCEPT ![m] = pc'[m]]
            /\ pc'[m] = IF Len(cats'[m]) >= need_unique
                           \/ next[m] = parallelism THEN "join" ELSE "collect"
            /\ next' = [next EXCEPT ![m] = next[m] + 1]
        BY <1>1 DEF LoopOn, TypeOK
      <3> QED
        BY <1>2, <3>1, <3>2 DEF TypeOK, Futures
    <2>2. RoundInv'
      BY <1>1, <1>2, <1>3, <2>1 DEF RoundInv, NoFetchOutlives
    <2>3. PostInv'
      BY <1>1, <1>2, <1>3, <2>1 DEF PostInv, AnswersTrue, backendVars
    <2> QED
      BY <2>2, <2>3
  <1> QED
    BY <1>6, <1>7, <1>8, <1>9

LEMMA PostStep ==
  ASSUME CollageInv, NEW m \in Makes,
         PostTar(m) \/ Acknowledge(m) \/ PostFails(m)
  PROVE  CollageInv'
  <1> USE DEF CollageInv, Go
  <1>1. UNCHANGED <<round, fetch, next, seen, cats>>
    BY DEF PostTar, Acknowledge, PostFails
  <1>2. RoundInv' /\ KeptInv'
    BY <1>1 DEF PostTar, Acknowledge, PostFails, TypeOK, RoundInv,
       NoFetchOutlives, KeptInv
  <1>3. CASE UNCHANGED backendVars
    <2>1. TypeOK' /\ UploadInv'
      BY <1>1, <1>3 DEF PostTar, Acknowledge, PostFails, Answered, TypeOK,
         BackendTypeOK, MakeSteps, UploadInv, Lone, backendVars
    <2>2. PostInv'
      <3>1. CASE PostTar(m)
        BY <1>1, <1>3, <3>1 DEF PostTar, TypeOK, PostInv, AnswersTrue,
           backendVars
      <3>2. CASE Acknowledge(m)
        BY <1>1, <1>3, <3>2 DEF Acknowledge, Answered, TypeOK, KeptInv,
           PostInv, AnswersTrue, backendVars
      <3>3. CASE PostFails(m)
        BY <1>1, <1>3, <3>3 DEF PostFails, Answered, TypeOK, PostInv,
           AnswersTrue, backendVars
      <3> QED
        BY <3>1, <3>2, <3>3
    <2> QED
      BY <1>2, <2>1, <2>2
  <1>4. CASE PostTar(m) /\ Receive(m, Tar(cats[m]))
    <2>1. Tar(cats[m]) \in Seq(Cells)
      BY CollageAssumption DEF TypeOK, Tar
    <2>2. TypeOK'
      BY <1>1, <1>4, <2>1 DEF PostTar, Receive, TypeOK, BackendTypeOK,
         MakeSteps, HandlerSteps
    <2>3. UploadInv'
      BY <1>4 DEF Receive, TypeOK, BackendTypeOK, UploadInv, Lone, Named
    <2>4. PostInv'
      BY <1>1, <1>4 DEF PostTar, Receive, TypeOK, BackendTypeOK, PostInv,
         AnswersTrue
    <2> QED
      BY <1>2, <2>2, <2>3, <2>4
  <1> QED
    BY <1>3, <1>4 DEF PostTar, Acknowledge, PostFails

LEMMA CollageCorrect == Spec => []CollageInv
  <1>1. CollageInv /\ UNCHANGED vars => CollageInv'
    BY DEF CollageInv, TypeOK, BackendTypeOK, UploadInv, Lone, RoundInv,
           NoFetchOutlives, KeptInv, PostInv, AnswersTrue, vars, backendVars,
           makeVars
  <1>2. CollageInv /\ [Next]_vars => CollageInv'
    BY <1>1, BackendStep, RoundStep, CollectStep, PostStep
       DEF Next, MakeHandler
  <1> QED
    BY <1>2, CollageInit, PTL DEF Spec

\* However many requests are served at once, an OK stands for an archive of
\* need_unique different pictures that the cat service has been through with.
THEOREM AnswersTrueCorrect == Spec => [](TypeOK /\ AnswersTrue)
  BY CollageCorrect, PTL DEF CollageInv, PostInv

\* A fetch never outlives the round that started it.
THEOREM NoFetchOutlivesCorrect == Spec => []NoFetchOutlives
  BY CollageCorrect, PTL DEF CollageInv, RoundInv

\* Two uploads can only spoil each other within one millisecond.
THEOREM LoneNameKeptCorrect == Spec => []LoneNameKept
  <1>1. CollageInv => LoneNameKept
    BY DEF CollageInv, UploadInv, Lone, LoneNameKept
  <1> QED
    BY <1>1, CollageCorrect, PTL

-----------------------------------------------------------------------------
(***************************************************************************)
(* The pool of threads.                                                    *)
(***************************************************************************)
PoolInv ==
  /\ PoolTypeOK /\ EachJobOnce
  /\ owner \in {"notify_all", "join", "joined"} <=> shutdown
  /\ owner \in {"join", "joined"} => \A w \in Workers : worker[w] # "asleep"

LEMMA PoolStart == PoolInit => PoolInv
  <1> SUFFICES ASSUME PoolInit PROVE PoolInv
    OBVIOUS
  <1>1. jobs \in Seq(Jobs) /\ DOMAIN jobs = {}
    BY DEF PoolInit
  <1>2. /\ worker \in [Workers -> {"check"}] /\ "check" \notin Jobs
        /\ owner = "idle" /\ shutdown = FALSE
    BY PoolAssumption DEF PoolInit
  <1> QED
    BY <1>1, <1>2 DEF PoolInv, PoolTypeOK, EachJobOnce, Running, Awake

LEMMA EnqueueStep ==
  ASSUME PoolInv, NEW j \in Jobs, ~ InPool(j), Enqueue(j)
  PROVE  PoolInv'
  <1>1. /\ jobs' = Append(jobs, j) /\ owner = "idle" /\ owner' = "notify"
        /\ UNCHANGED <<shutdown, worker>> /\ ~ shutdown
    BY DEF Enqueue, PoolInv
  <1>2. /\ jobs \in Seq(Jobs) /\ jobs' \in Seq(Jobs)
        /\ DOMAIN jobs' = DOMAIN jobs \cup {Len(jobs) + 1}
        /\ DOMAIN jobs = 1 .. Len(jobs) /\ jobs'[Len(jobs) + 1] = j
        /\ \A i \in DOMAIN jobs : jobs'[i] = jobs[i]
    BY <1>1 DEF PoolInv, PoolTypeOK
  <1>3. \A i, k \in DOMAIN jobs' : jobs'[i] = jobs'[k] => i = k
    BY <1>2 DEF PoolInv, EachJobOnce, InPool
  <1>4. \A i \in DOMAIN jobs' : ~ Running(jobs[i])'
    BY <1>1, <1>2 DEF PoolInv, EachJobOnce, InPool, Running
  <1> QED
    BY <1>1, <1>2, <1>3, <1>4 DEF PoolInv, PoolTypeOK, EachJobOnce

LEMMA TakeJobStep ==
  ASSUME PoolInv, NEW w \in Workers, TakeJob(w)
  PROVE  PoolInv'
  <1>1. /\ worker[w] = "check" /\ jobs # <<>> /\ jobs' = Tail(jobs)
        /\ worker' = [worker EXCEPT ![w] = Head(jobs)]
        /\ UNCHANGED <<shutdown, owner>>
    BY DEF TakeJob, WorkerGo
  <1>2. /\ jobs \in Seq(Jobs) /\ jobs' \in Seq(Jobs) /\ Head(jobs) \in Jobs
        /\ DOMAIN jobs = 1 .. Len(jobs) /\ Head(jobs) = jobs[1]
        /\ 1 \in DOMAIN jobs
        /\ \A i \in DOMAIN jobs' :
              /\ i + 1 \in DOMAIN jobs /\ i + 1 # 1 /\ i \in Nat
              /\ jobs'[i] = jobs[i + 1]
    BY <1>1 DEF PoolInv, PoolTypeOK
  <1>3. PoolTypeOK'
    BY <1>1, <1>2 DEF PoolInv, PoolTypeOK, Awake
  <1>4. /\ worker'[w] = jobs[1]
        /\ \A v \in Workers : v # w => worker'[v] = worker[v]
    BY <1>1, <1>2 DEF PoolInv, PoolTypeOK
  <1>5. \A i, k \in DOMAIN jobs' : jobs'[i] = jobs'[k] => i = k
    BY <1>2 DEF PoolInv, EachJobOnce
  <1>6. \A i \in DOMAIN jobs' : ~ Running(jobs[i])'
    BY <1>2, <1>4 DEF PoolInv, EachJobOnce, Running
  <1>7. \A u, v \in Workers :
           worker'[u] = worker'[v] /\ worker'[u] \in Jobs => u = v
    BY <1>2, <1>4 DEF PoolInv, EachJobOnce, Running
  <1>8. /\ \A v \in Workers : worker[v] # "gone"
        /\ \A v \in Workers : worker'[v] # "gone"
        /\ owner # "joined"
    BY <1>1, <1>2, <1>4, PoolAssumption DEF PoolInv, EachJobOnce
  <1>9. owner \in {"join", "joined"} => \A v \in Workers : worker'[v] # "asleep"
    BY <1>2, <1>4, PoolAssumption DEF PoolInv
  <1> QED
    BY <1>1, <1>3, <1>5, <1>6, <1>7, <1>8, <1>9 DEF PoolInv, EachJobOnce

\* A worker that goes somewhere else than to a job.
LEMMA WorkerStep ==
  ASSUME PoolInv, NEW w \in Workers,
         Sleep(w) \/ Leave(w) \/ Spurious(w) \/ FinishJob(w)
  PROVE  PoolInv'
  <1>1. PICK to \in {"check", "asleep", "gone"} :
          /\ worker' = [worker EXCEPT ![w] = to]
          /\ UNCHANGED <<jobs, shutdown, owner>>
          /\ to = "asleep" => ~ shutdown
          /\ to = "gone" => shutdown /\ jobs = <<>>
          /\ worker[w] # "gone"
    BY PoolAssumption DEF Sleep, Leave, Spurious, FinishJob, WorkerGo
  <1>2. /\ worker'[w] = to /\ to \notin Jobs
        /\ \A v \in Workers : v # w => worker'[v] = worker[v]
    BY <1>1, PoolAssumption DEF PoolInv, PoolTypeOK
  <1>3. PoolTypeOK'
    BY <1>1 DEF PoolInv, PoolTypeOK, Awake
  <1>4. \A i \in DOMAIN jobs : jobs[i] \in Jobs
    BY DEF PoolInv, PoolTypeOK
  <1>5. \A i \in DOMAIN jobs : ~ Running(jobs[i])'
    BY <1>1, <1>2, <1>4 DEF PoolInv, EachJobOnce, Running
  <1>6. \A u, v \in Workers :
           worker'[u] = worker'[v] /\ worker'[u] \in Jobs => u = v
    BY <1>2 DEF PoolInv, EachJobOnce
  <1>7. /\ owner = "joined" => \A v \in Workers : worker'[v] = "gone"
        /\ (\E v \in Workers : worker'[v] = "gone") => shutdown /\ jobs = <<>>
    BY <1>1, <1>2 DEF PoolInv, EachJobOnce
  <1>8. owner \in {"join", "joined"} => \A v \in Workers : worker'[v] # "asleep"
    BY <1>1, <1>2 DEF PoolInv
  <1> QED
    BY <1>1, <1>3, <1>5, <1>6, <1>7, <1>8 DEF PoolInv, EachJobOnce

LEMMA OwnerStep ==
  ASSUME PoolInv, PoolOwner \/ BeginShutdown
  PROVE  PoolInv'
  <1>1. /\ jobs' = jobs /\ worker' \in [Workers -> Awake \cup {"asleep", "gone"}]
        /\ \A w \in Workers :
              \/ worker'[w] = worker[w]
              \/ worker[w] = "asleep" /\ worker'[w] = "check"
    BY DEF PoolOwner, NotifyOne, NotifyAll, Join, BeginShutdown, PoolInv,
           PoolTypeOK, Awake
  <1>2. PoolTypeOK'
    BY <1>1 DEF PoolOwner, NotifyOne, NotifyAll, Join, BeginShutdown, PoolInv,
                PoolTypeOK
  <1>3. \A i \in DOMAIN jobs : jobs[i] \in Jobs
    BY DEF PoolInv, PoolTypeOK
  <1>4. \A w \in Workers, j \in Jobs : worker'[w] = j <=> worker[w] = j
    BY <1>1, PoolAssumption
  <1>5. \A i \in DOMAIN jobs : ~ Running(jobs[i])'
    BY <1>1, <1>3, <1>4 DEF PoolInv, EachJobOnce, Running
  <1>6. \A u, v \in Workers :
           worker'[u] = worker'[v] /\ worker'[u] \in Jobs => u = v
    BY <1>4 DEF PoolInv, EachJobOnce
  <1>7. (\E w \in Workers : worker'[w] = "gone") => shutdown' /\ jobs' = <<>>
    BY <1>1 DEF PoolInv, EachJobOnce, PoolOwner, NotifyOne, NotifyAll, Join,
                BeginShutdown
  <1>8. owner' = "joined" => \A w \in Workers : worker'[w] = "gone"
    BY DEF PoolInv, EachJobOnce, PoolOwner, NotifyOne, NotifyAll, Join,
           BeginShutdown
  <1>9. /\ owner' \in {"notify_all", "join", "joined"} <=> shutdown'
        /\ owner' \in {"join", "joined"} =>
              \A w \in Workers : worker'[w] # "asleep"
    BY DEF PoolInv, PoolTypeOK, PoolOwner, NotifyOne, NotifyAll, Join,
           BeginShutdown
  <1> QED
    BY <1>1, <1>2, <1>5, <1>6, <1>7, <1>8, <1>9 DEF PoolInv, EachJobOnce

LEMMA PoolStep == PoolInv /\ [PoolNext]_poolVars => PoolInv'
  <1> SUFFICES ASSUME PoolInv, [PoolNext]_poolVars PROVE PoolInv'
    OBVIOUS
  <1>1. CASE UNCHANGED poolVars
    BY <1>1 DEF poolVars, PoolInv, PoolTypeOK, EachJobOnce, Running
  <1>2. CASE \E j \in Jobs : ~ InPool(j) /\ Enqueue(j)
    BY <1>2, EnqueueStep
  <1>3. CASE PoolOwner \/ BeginShutdown
    BY <1>3, OwnerStep
  <1>4. CASE \E w \in Workers : PoolWorker(w) \/ Spurious(w) \/ FinishJob(w)
    BY <1>4, TakeJobStep, WorkerStep DEF PoolWorker
  <1> QED
    BY <1>1, <1>2, <1>3, <1>4 DEF PoolNext

\* Whatever the number of workers and the length of the queue: a job is
\* waiting once or run by one worker, and when shutdown returns all jobs that
\* were accepted have been run.
THEOREM EachJobOnceCorrect == PoolSpec => []EachJobOnce
  <1>1. PoolInv => EachJobOnce
    BY DEF PoolInv
  <1> QED
    BY <1>1, PoolStart, PoolStep, PTL DEF PoolSpec

\* No wake-up is lost, although the notifications are sent after the mutex
\* was released.
THEOREM NoWakeupLostCorrect == PoolSpec => [](PoolTypeOK /\ NoWakeupLost)
  <1>1. PoolInit => NoWakeupLost
    BY DEF PoolInit, NoWakeupLost
  <1>2. PoolInv /\ NoWakeupLost /\ [PoolNext]_poolVars => NoWakeupLost'
    <2> SUFFICES ASSUME PoolInv, PoolInv', NoWakeupLost, [PoolNext]_poolVars,
                        jobs' # <<>>, owner' \notin {"notify", "notify_all"},
                        Workers # {}
                 PROVE  \E w \in Workers : worker'[w] \in Awake
      BY PoolStep DEF PoolInv, NoWakeupLost
    <2>1. \A w \in Workers : worker'[w] \in Awake \cup {"asleep"}
      BY DEF PoolInv, PoolTypeOK, EachJobOnce
    <2>2. CASE UNCHANGED poolVars
      BY <2>2 DEF poolVars, NoWakeupLost
    <2>3. CASE \E j \in Jobs : ~ InPool(j) /\ Enqueue(j)
      BY <2>3 DEF Enqueue
    <2>4. CASE BeginShutdown \/ NotifyAll
      BY <2>1, <2>4 DEF BeginShutdown, NotifyAll, PoolInv, PoolTypeOK, Awake
    <2>5. CASE NotifyOne
      BY <2>1, <2>5 DEF NotifyOne, PoolInv, PoolTypeOK, Awake
    <2>6. CASE Join
      BY <2>1, <2>6 DEF Join, PoolInv, EachJobOnce
    <2>7. CASE \E w \in Workers : PoolWorker(w) \/ Spurious(w) \/ FinishJob(w)
      <3>1. PICK w \in Workers : PoolWorker(w) \/ Spurious(w) \/ FinishJob(w)
        BY <2>7
      <3>2. CASE TakeJob(w) \/ Spurious(w) \/ FinishJob(w)
        <4>1. worker'[w] \in Awake
          BY <3>2 DEF TakeJob, Spurious, FinishJob, WorkerGo, PoolInv,
                      PoolTypeOK, Awake
        <4> QED
          BY <4>1
      <3>3. CASE Sleep(w) \/ Leave(w)
        BY <3>3 DEF Sleep, Leave
      <3> QED
        BY <3>1, <3>2, <3>3 DEF PoolWorker
    <2> QED
      BY <2>2, <2>3, <2>4, <2>5, <2>6, <2>7 DEF PoolNext, PoolOwner
  <1> QED
    BY <1>1, <1>2, PoolStart, PoolStep, PTL DEF PoolSpec, PoolInv

-----------------------------------------------------------------------------
\* The connections of a collage server and its clients: what is sent on one
\* stays in order.

Ids == Threads \X Nat \X Nat

Requests == [id : Ids, kind : Kinds, close : BOOLEAN]

UpCells == [k : {"line", "headers", "body"}, req : Requests]

DownCells ==
  [k : {"head"}, id : Ids, status : Nat, close : BOOLEAN, more : BOOLEAN]
    \cup [k : {"content"}, id : Ids]

Connections ==
  [up : Seq(UpCells), down : Seq(DownCells),
   client : {"none", "open", "shut", "closed"},
   server : {"none", "backlog", "open", "closed"}]

ConnTypeOK == conn \in [Conns -> Connections]

Busy == {"headers", "content", "handle", "head", "body"}

ServeRecords ==
  [at : Busy \cup {"alive", "line", "close"}, count : Nat \ {0},
   buf : Seq(UpCells), req : Requests \cup {<<>>}, status : Nat, last : BOOLEAN]

\* A request that is served has been read; the reading starts with nothing.
ServeOK(s) ==
  /\ s \in ServeRecords
  /\ s.at \in Busy => s.req \in Requests
  /\ s.at = "alive" => s.buf = <<>>

ServeTypeOK ==
  /\ serve \in [Workers -> ServeRecords]
  /\ \A w \in Workers : ServeOK(serve[w]) /\ (worker[w] \notin Conns => serve[w] = Fresh)

LEMMA ConcatIs ==
  ASSUME NEW S, NEW p \in Seq(S), NEW q \in Seq(S)
  PROVE  /\ p \o q \in Seq(S) /\ Len(p \o q) = Len(p) + Len(q)
         /\ Len(p) \in Nat /\ Len(q) \in Nat
         /\ DOMAIN (p \o q) = 1 .. Len(p) + Len(q)
         /\ \A i \in 1 .. Len(p) : (p \o q)[i] = p[i]
         /\ \A i \in 1 .. Len(q) : (p \o q)[Len(p) + i] = q[i]
  OBVIOUS

\* q is p without its first n.
Drops(p, n, q) ==
  /\ Len(q) = Len(p) - n
  /\ \A i \in DOMAIN q : i + n \in DOMAIN p /\ q[i] = p[i + n]

\* A read takes the first of what is in the buffer and on the way.
LEMMA ReadsHead ==
  ASSUME NEW S, NEW q \in Seq(S), NEW buf \in Seq(S), NEW r \in Reads(q, buf)
  PROVE  /\ r.cell \in S /\ r.buf \in Seq(S) /\ r.left \in Seq(S)
         /\ buf \o q # <<>> /\ r.cell = (buf \o q)[1]
         /\ Drops(buf \o q, 1, r.buf \o r.left)
  <1>1. CASE buf # <<>>
    <2>1. r = [cell |-> Head(buf), buf |-> Tail(buf), left |-> q]
      BY <1>1 DEF Reads
    <2>2. /\ Tail(buf) \in Seq(S) /\ Len(Tail(buf)) = Len(buf) - 1
          /\ \A i \in 1 .. Len(buf) - 1 : Tail(buf)[i] = buf[i + 1]
          /\ Head(buf) = buf[1] /\ Len(buf) \in Nat \ {0} /\ buf[1] \in S
      BY <1>1
    <2> QED
      BY <2>1, <2>2, ConcatIs DEF Drops
  <1>2. CASE buf = <<>>
    <2>1. PICK n \in 1 .. Len(q) :
            r = [cell |-> Head(q), buf |-> SubSeq(q, 2, n),
                 left |-> SubSeq(q, n + 1, Len(q))]
      BY <1>2 DEF Reads
    <2>2. /\ Len(q) \in Nat /\ n \in Nat /\ 1 <= n /\ n <= Len(q)
      OBVIOUS
    <2>3. PICK a, b : a = r.buf /\ b = r.left
      OBVIOUS
    <2>4. /\ a \in Seq(S) /\ b \in Seq(S)
          /\ Len(a) = n - 1 /\ Len(b) = Len(q) - n
          /\ \A i \in 1 .. n - 1 : a[i] = q[i + 1]
          /\ \A i \in 1 .. Len(q) - n : b[i] = q[n + i]
      <3>1. a = SubSeq(q, 2, n) /\ b = SubSeq(q, n + 1, Len(q))
        BY <2>1, <2>3
      <3>2. a \in Seq(S) /\ Len(a) = n - 1
        BY <2>2, <3>1
      <3>3. \A i \in 1 .. n - 1 : a[i] = q[i + 1]
        BY <2>2, <3>1
      <3>4. b \in Seq(S) /\ Len(b) = Len(q) - n
        BY <2>2, <3>1
      <3>5. \A i \in 1 .. Len(q) - n : b[i] = q[n + i]
        BY <2>2, <3>1
      <3> QED
        BY <3>2, <3>3, <3>4, <3>5
    <2>5. Drops(q, 1, a \o b)
      <3>1. /\ DOMAIN (a \o b) = 1 .. Len(q) - 1 /\ Len(a \o b) = Len(q) - 1
            /\ \A i \in 1 .. Len(a) : (a \o b)[i] = a[i]
            /\ \A i \in 1 .. Len(b) : (a \o b)[Len(a) + i] = b[i]
        <4>1. /\ DOMAIN (a \o b) = 1 .. Len(a) + Len(b)
              /\ Len(a \o b) = Len(a) + Len(b)
              /\ \A i \in 1 .. Len(a) : (a \o b)[i] = a[i]
              /\ \A i \in 1 .. Len(b) : (a \o b)[Len(a) + i] = b[i]
          <5>1. a \in Seq(S) /\ b \in Seq(S)
            BY <2>4
          <5> QED
            BY <5>1
        <4>2. Len(a) + Len(b) = Len(q) - 1
          BY <2>2, <2>4
        <4> QED
          BY <4>1, <4>2, Zenon
      <3>2. ASSUME NEW i \in 1 .. Len(q) - 1
            PROVE  (a \o b)[i] = q[i + 1]
        <4>1. CASE i <= n - 1
          BY <2>2, <2>4, <3>1, <4>1
        <4>2. CASE ~ (i <= n - 1)
          <5>1. i - (n - 1) \in 1 .. Len(b)
            BY <2>2, <2>4, <4>2
          <5>2. Len(a) + (i - (n - 1)) = i /\ n + (i - (n - 1)) = i + 1
            BY <2>2, <2>4
          <5>3. (a \o b)[i] = b[i - (n - 1)] /\ b[i - (n - 1)] = q[i + 1]
            BY <2>4, <3>1, <5>1, <5>2
          <5> QED
            BY <5>3
        <4> QED
          BY <4>1, <4>2
      <3> QED
        BY <2>2, <3>1, <3>2 DEF Drops
    <2>6. buf \o q = q
      BY <1>2
    <2>7. r.cell = q[1] /\ r.cell \in S /\ q # <<>>
      BY <2>1, <2>2
    <2> QED
      BY <2>3, <2>4, <2>5, <2>6, <2>7, Zenon
  <1> QED
    BY <1>1, <1>2

\* p is the beginning of q, or all of it.
Begins(p, q) ==
  Len(p) <= Len(q) /\ \A i \in DOMAIN p : i \in DOMAIN q /\ p[i] = q[i]

LEMMA BeginningsAre ==
  ASSUME NEW S, NEW q \in Seq(S), NEW p \in Beginnings(q)
  PROVE  p \in Seq(S) /\ Begins(p, q)
  BY DEF Beginnings, Begins

LEMMA BeginsItself ==
  ASSUME NEW S, NEW q \in Seq(S)
  PROVE  Begins(q, q)
  BY DEF Begins

\* What a step does to the connections besides c.
OnlyAt(c) == \A d \in Conns \ {c} : conn'[d] = conn[d]

LEMMA ServerClosesDoes ==
  ASSUME ConnTypeOK, NEW c \in Conns, ServerCloses(c)
  PROVE  /\ ConnTypeOK' /\ OnlyAt(c)
         /\ conn'[c].client = conn[c].client /\ conn'[c].server = "closed"
         /\ conn'[c].up = <<>> /\ Begins(conn'[c].down, conn[c].down)
  <1>1. /\ conn[c] \in Connections /\ conn[c].down \in Seq(DownCells)
    BY DEF ConnTypeOK, Connections
  <1>2. PICK q : /\ q \in Seq(DownCells) /\ Begins(q, conn[c].down)
                 /\ conn' = [conn EXCEPT ![c].server = "closed",
                                         ![c].up = <<>>, ![c].down = q]
    BY <1>1, BeginningsAre, BeginsItself DEF ServerCloses
  <1>3. conn' = [conn EXCEPT ![c] = [conn[c] EXCEPT !.server = "closed",
                                         !.up = <<>>, !.down = q]]
    BY <1>2 DEF ConnTypeOK, Connections
  <1> QED
    BY <1>1, <1>2, <1>3 DEF ConnTypeOK, Connections, OnlyAt

LEMMA ClientClosesDoes ==
  ASSUME ConnTypeOK, NEW c \in Conns, ClientCloses(c)
  PROVE  /\ ConnTypeOK' /\ OnlyAt(c)
         /\ conn'[c].client = "closed" /\ conn'[c].server = conn[c].server
         /\ Begins(conn'[c].up, conn[c].up) /\ conn'[c].down = <<>>
  <1>1. /\ conn[c] \in Connections /\ conn[c].up \in Seq(UpCells)
    BY DEF ConnTypeOK, Connections
  <1>2. PICK q : /\ q \in Seq(UpCells) /\ Begins(q, conn[c].up)
                 /\ conn' = [conn EXCEPT ![c].client = "closed",
                                         ![c].up = q, ![c].down = <<>>]
    BY <1>1, BeginningsAre, BeginsItself DEF ClientCloses
  <1>3. conn' = [conn EXCEPT ![c] = [conn[c] EXCEPT !.client = "closed",
                                         !.up = q, !.down = <<>>]]
    BY <1>2 DEF ConnTypeOK, Connections
  <1> QED
    BY <1>1, <1>2, <1>3 DEF ConnTypeOK, Connections, OnlyAt

LEMMA ServerSendsDoes ==
  ASSUME ConnTypeOK, NEW c \in Conns, NEW cells \in Seq(DownCells),
         ServerSends(c, cells)
  PROVE  /\ ConnTypeOK' /\ OnlyAt(c)
         /\ conn'[c].client = conn[c].client /\ conn'[c].server = conn[c].server
         /\ conn'[c].up = conn[c].up
         /\ conn'[c].down \in {conn[c].down, conn[c].down \o cells}
  <1>1. /\ conn[c] \in Connections /\ conn[c].down \in Seq(DownCells)
        /\ conn[c].down \o cells \in Seq(DownCells)
    BY DEF ConnTypeOK, Connections
  <1>2. PICK q : /\ q \in {conn[c].down, conn[c].down \o cells}
                 /\ conn' = [conn EXCEPT ![c].down = q]
    BY DEF ServerSends, ConnTypeOK
  <1> QED
    BY <1>1, <1>2 DEF ConnTypeOK, Connections, OnlyAt

LEMMA ClientSendsDoes ==
  ASSUME ConnTypeOK, NEW c \in Conns, NEW cells \in Seq(UpCells),
         ClientSends(c, cells)
  PROVE  /\ ConnTypeOK' /\ OnlyAt(c)
         /\ conn'[c].client = conn[c].client /\ conn'[c].server = conn[c].server
         /\ conn'[c].up \in {conn[c].up, conn[c].up \o cells}
         /\ Begins(conn'[c].down, conn[c].down)
  <1>1. /\ conn[c] \in Connections /\ conn[c].down \in Seq(DownCells)
        /\ conn[c].up \in Seq(UpCells) /\ conn[c].up \o cells \in Seq(UpCells)
    BY DEF ConnTypeOK, Connections
  <1>2. PICK q, p : /\ q \in Seq(DownCells) /\ Begins(q, conn[c].down)
                    /\ p \in {conn[c].up, conn[c].up \o cells}
                    /\ conn' = [conn EXCEPT ![c].down = q, ![c].up = p]
    BY <1>1, BeginningsAre, BeginsItself DEF ClientSends
  <1> QED
    BY <1>1, <1>2 DEF ConnTypeOK, Connections, OnlyAt

-----------------------------------------------------------------------------
\* A step of the server, seen from one connection: what it reads there, and
\* what it sends.

\* The progress of the request that is served on c.
Served(wk, sv, c) ==
  IF \E w \in Workers : wk[w] = c
  THEN sv[CHOOSE w \in Workers : wk[w] = c] ELSE Fresh

Srv(c) == Served(worker, serve, c)

\* What the server has still to read on c.
In(c) == Srv(c).buf \o conn[c].up

Same(c) ==
  Srv(c)' = Srv(c) /\ In(c)' = In(c) /\ conn'[c].down = conn[c].down

LEMMA ServedBy ==
  ASSUME NEW wk, NEW sv, NEW w \in Workers,
         \A v \in Workers : wk[v] = wk[w] => v = w
  PROVE  Served(wk, sv, wk[w]) = sv[w]
  BY DEF Served

Rests(c) ==
  /\ Srv(c).at \notin Busy /\ Srv(c)'.at \notin Busy
  /\ In(c)' \in {In(c), <<>>} /\ Begins(conn'[c].down, conn[c].down)

Takes(c) == In(c) # <<>> /\ Drops(In(c), 1, In(c)')

TakesLine(c) ==
  /\ Srv(c).at = "line" /\ Takes(c) /\ conn'[c].down = conn[c].down
  /\ Srv(c)'.req = In(c)[1].req
  /\ IF In(c)[1].k = "line" THEN Srv(c)'.at = "headers"
     ELSE Srv(c)'.at = "head" /\ Srv(c)'.status = 400

Continue(id) ==
  [k |-> "head", id |-> id, status |-> 100, close |-> FALSE, more |-> FALSE]

TakesHeaders(c) ==
  LET req == In(c)[1].req IN
  /\ Srv(c).at = "headers" /\ Takes(c) /\ Srv(c)'.req = Srv(c).req
  /\ conn'[c].down \in {conn[c].down, Append(conn[c].down, Continue(req.id))}
  /\ \/ Srv(c)'.at = "head" /\ Srv(c)'.status = 400
     \/ Srv(c)'.at = "content" /\ HasContent(req.kind)
     \/ Srv(c)'.at = "handle" /\ ~ HasContent(req.kind)

GivesUp(c) ==
  /\ Srv(c).at \in {"headers", "content"} /\ Srv(c)'.req = Srv(c).req
  /\ Srv(c)'.at = "head" /\ Srv(c)'.status >= 400
  /\ In(c)' = In(c) /\ conn'[c].down = conn[c].down

TakesContent(c) ==
  /\ Srv(c).at = "content" /\ Takes(c) /\ Srv(c)'.req = Srv(c).req
  /\ conn'[c].down = conn[c].down
  /\ \/ Srv(c)'.at = "head" /\ Srv(c)'.status >= 400
     \/ Srv(c)'.at = "handle"

Handles(c) ==
  /\ Srv(c).at = "handle" /\ Srv(c)'.at = "head" /\ Srv(c)'.req = Srv(c).req
  /\ In(c)' = In(c) /\ conn'[c].down = conn[c].down

Response(s) ==
  [k |-> "head", id |-> s.req.id, status |-> s.status,
   close |-> s.count = 1 \/ s.last \/ s.status >= 400, more |-> s.status = 200]

SendsHead(c) ==
  LET s == Srv(c) IN
  /\ s.at = "head"
  /\ conn'[c].down \in {conn[c].down, Append(conn[c].down, Response(s))}
  /\ IF s.status = 200
     THEN Srv(c)' = [s EXCEPT !.at = "body"] /\ In(c)' = In(c)
     ELSE Srv(c)'.at \notin Busy /\ \E n \in Nat : Drops(In(c), n, In(c)')

SendsBody(c) ==
  LET s == Srv(c) IN
  /\ s.at = "body" /\ Srv(c)'.at \notin Busy
  /\ conn'[c].down \in {conn[c].down,
                        Append(conn[c].down, [k |-> "content", id |-> s.req.id])}
  /\ \E n \in Nat : Drops(In(c), n, In(c)')

\* A step of the server, seen from the connection it is about.
Moves(c) ==
  \/ TakesLine(c) \/ TakesHeaders(c) \/ GivesUp(c) \/ TakesContent(c)
  \/ Handles(c) \/ SendsHead(c) \/ SendsBody(c)

\* A step that is about no request.
Quiet ==
  /\ ConnTypeOK' /\ ServeTypeOK'
  /\ \A c \in Conns : /\ conn'[c].client = conn[c].client
                      /\ Same(c) \/ Rests(c)

\* Connections in the pool are accepted, and those not made are empty.
Accepted == \A c \in Conns : InPool(c) => conn[c].server = "open"

Unused == \A c \in Conns : conn[c].client = "none" => conn[c] = NoConn

ServerInv == PoolInv /\ ConnTypeOK /\ ServeTypeOK /\ Accepted /\ Unused


\* The server side of a step, seen from all connections.
MovesAt(c) ==
  /\ ConnTypeOK' /\ ServeTypeOK' /\ OnlyAt(c)
  /\ conn'[c].client = conn[c].client /\ conn'[c].server = conn[c].server
  /\ Moves(c) /\ \A d \in Conns \ {c} : Same(d)

\* A worker's step on its connection c is seen on c only.
LEMMA ServeStep ==
  ASSUME ServerInv, NEW w \in Workers, NEW c \in Conns, worker[w] = c,
         UNCHANGED worker, ConnTypeOK', OnlyAt(c),
         NEW s, ServeOK(s), serve' = [serve EXCEPT ![w] = s]
  PROVE  /\ ServeTypeOK' /\ Srv(c) = serve[w] /\ Srv(c)' = s
         /\ In(c) = serve[w].buf \o conn[c].up
         /\ In(c)' = s.buf \o conn'[c].up
         /\ \A d \in Conns \ {c} : Same(d)
  <1>1. \A v \in Workers : worker[v] = worker[w] => v = w
    BY ServerAssumption DEF ServerInv, PoolInv, EachJobOnce
  <1>2. /\ serve' \in [Workers -> ServeRecords] /\ serve'[w] = s
        /\ \A v \in Workers \ {w} : serve'[v] = serve[v]
    BY DEF ServerInv, ServeTypeOK, ServeOK
  <1>3. Served(worker, serve, worker[w]) = serve[w]
    BY <1>1, ServedBy
  <1>4. Served(worker, serve', worker[w]) = serve'[w]
    BY <1>1, ServedBy
  <1>5. Srv(c) = serve[w] /\ Srv(c)' = s
    BY <1>2, <1>3, <1>4 DEF Srv
  <1>6. ASSUME NEW d \in Conns \ {c}
        PROVE  Srv(d)' = Srv(d)
    <2>1. CASE \E v \in Workers : worker[v] = d
      <3>1. PICK v \in Workers : worker[v] = d /\ v = CHOOSE u \in Workers : worker[u] = d
        BY <2>1
      <3>2. v # w
        BY <3>1
      <3> QED
        BY <1>2, <2>1, <3>1, <3>2 DEF Srv, Served
    <2>2. CASE ~ \E v \in Workers : worker[v] = d
      BY <2>2 DEF Srv, Served
    <2> QED
      BY <2>1, <2>2
  <1>7. ServeTypeOK'
    BY <1>2 DEF ServerInv, ServeTypeOK
  <1> QED
    BY <1>5, <1>6, <1>7 DEF Same, In, OnlyAt

\* What a worker reads, cell by cell.
LEMMA ArrivedIs ==
  ASSUME ServerInv, NEW w \in Workers, NEW c \in Conns, worker[w] = c,
         NEW r \in Arrived(w)
  PROVE  /\ r.cell \in UpCells /\ r.buf \in Seq(UpCells) /\ r.left \in Seq(UpCells)
         /\ serve[w].buf \o conn[c].up # <<>>
         /\ r.cell = (serve[w].buf \o conn[c].up)[1]
         /\ Drops(serve[w].buf \o conn[c].up, 1, r.buf \o r.left)
  <1>1. PICK up, buf : up = conn[c].up /\ buf = serve[w].buf
    OBVIOUS
  <1>2. up \in Seq(UpCells) /\ buf \in Seq(UpCells)
    BY <1>1 DEF ServerInv, ConnTypeOK, ServeTypeOK, Connections, ServeRecords
  <1>3. r \in Reads(up, buf)
    BY <1>1 DEF Arrived
  <1>4. /\ r.cell \in UpCells /\ r.buf \in Seq(UpCells) /\ r.left \in Seq(UpCells)
        /\ buf \o up # <<>> /\ r.cell = (buf \o up)[1]
        /\ Drops(buf \o up, 1, r.buf \o r.left)
    BY <1>2, <1>3, ReadsHead, Zenon
  <1> QED
    BY <1>1, <1>4

Decided(s, status) == [s EXCEPT !.status = status, !.at = "head"]

LEMMA DecidedIs ==
  ASSUME NEW s \in ServeRecords, s.req \in Requests, NEW status \in Nat
  PROVE  /\ ServeOK(Decided(s, status)) /\ Decided(s, status).at = "head"
         /\ Decided(s, status).status = status
         /\ Decided(s, status).buf = s.buf /\ Decided(s, status).req = s.req
  BY DEF ServeRecords, ServeOK, Busy, Decided

Going(s, at) == [s EXCEPT !.at = at]

LEMMA GoingIs ==
  ASSUME NEW s \in ServeRecords, NEW at \in Busy \cup {"line", "close"},
         at \in Busy => s.req \in Requests
  PROVE  /\ ServeOK(Going(s, at)) /\ Going(s, at).at = at
         /\ Going(s, at).buf = s.buf /\ Going(s, at).req = s.req
         /\ Going(s, at).status = s.status
  BY DEF ServeRecords, ServeOK, Busy, Going

LEMMA ReadLineMoves ==
  ASSUME ServerInv, NEW w \in Workers, NEW c \in Conns, worker[w] = c,
         ReadLine(w), UNCHANGED poolVars
  PROVE  MovesAt(c) /\ handled' = handled
  <1>1. /\ serve[w].at = "line" /\ UNCHANGED <<worker, handled>>
        /\ conn[c] \in Connections /\ serve[w] \in ServeRecords
    BY DEF ReadLine, At, poolVars, ServerInv, ConnTypeOK, ServeTypeOK
  <1>2. PICK r \in Arrived(w) :
          /\ conn' = [conn EXCEPT ![c].up = r.left]
          /\ LET z == [serve[w] EXCEPT !.buf = r.buf, !.req = r.cell.req]
             IN IF r.cell.k = "line"
                THEN serve' = [serve EXCEPT ![w] = Going(z, "headers")]
                ELSE serve' = [serve EXCEPT ![w] = Decided(z, 400)]
    BY ZenonT(60) DEF ReadLine, Received, Answer, Going, Decided
  <1>a. PICK z : z = [serve[w] EXCEPT !.buf = r.buf, !.req = r.cell.req]
    OBVIOUS
  <1>b. PICK s :
          /\ serve' = [serve EXCEPT ![w] = s]
          /\ s = IF r.cell.k = "line" THEN Going(z, "headers") ELSE Decided(z, 400)
    BY <1>2, <1>a
  <1>3. /\ r.cell \in UpCells /\ r.buf \in Seq(UpCells) /\ r.left \in Seq(UpCells)
        /\ serve[w].buf \o conn[c].up # <<>>
        /\ r.cell = (serve[w].buf \o conn[c].up)[1]
        /\ Drops(serve[w].buf \o conn[c].up, 1, r.buf \o r.left)
    BY <1>2, ArrivedIs
  <1>4. ConnTypeOK' /\ OnlyAt(c) /\ conn'[c] = [conn[c] EXCEPT !.up = r.left]
    BY <1>1, <1>2, <1>3 DEF ServerInv, ConnTypeOK, Connections, OnlyAt
  <1>5. /\ ServeOK(s) /\ s.buf = r.buf /\ s.req = r.cell.req
        /\ IF r.cell.k = "line" THEN s.at = "headers"
           ELSE s.at = "head" /\ s.status = 400
    <2>1. r.cell.req \in Requests
      BY <1>3 DEF UpCells
    <2>2. z \in ServeRecords /\ z.buf = r.buf /\ z.req = r.cell.req
      BY <1>1, <1>a, <1>3, <2>1 DEF ServeRecords
    <2>3. CASE r.cell.k = "line"
      BY <1>b, <2>1, <2>2, <2>3, GoingIs DEF Busy
    <2>4. CASE r.cell.k # "line"
      <3>1. PICK n \in Nat : n = 400
        OBVIOUS
      <3> QED
        BY <1>b, <2>1, <2>2, <2>4, <3>1, DecidedIs
    <2> QED
      BY <2>3, <2>4
  <1>6. /\ ServeTypeOK' /\ Srv(c) = serve[w] /\ Srv(c)' = s
        /\ In(c) = serve[w].buf \o conn[c].up
        /\ In(c)' = s.buf \o conn'[c].up
        /\ \A d \in Conns \ {c} : Same(d)
    <2>1. UNCHANGED worker /\ serve' = [serve EXCEPT ![w] = s] /\ ServeOK(s)
          /\ ConnTypeOK' /\ OnlyAt(c)
      BY <1>1, <1>b, <1>4, <1>5
    <2> QED
      BY <2>1, ServeStep
  <1>7. In(c)' = r.buf \o r.left
    BY <1>1, <1>4, <1>5, <1>6 DEF Connections
  <1>8. conn'[c].down = conn[c].down
    BY <1>1, <1>4 DEF Connections
  <1>9. TakesLine(c)
    <2>1. In(c) # <<>> /\ r.cell = In(c)[1] /\ Drops(In(c), 1, In(c)')
      BY <1>3, <1>6, <1>7, Zenon
    <2>2. /\ Srv(c).at = "line" /\ Srv(c)'.req = r.cell.req
          /\ IF r.cell.k = "line" THEN Srv(c)'.at = "headers"
             ELSE Srv(c)'.at = "head" /\ Srv(c)'.status = 400
      BY <1>1, <1>5, <1>6
    <2> QED
      BY <1>8, <2>1, <2>2, ZenonT(60) DEF TakesLine, Takes
  <1> QED
    BY <1>1, <1>4, <1>6, <1>9 DEF MovesAt, Moves, Connections

LEMMA WorkerStarts ==
  ASSUME ServerInv, NEW w \in Workers, NEW c \in Conns, worker[w] = c
  PROVE  /\ conn[c] \in Connections /\ serve[w] \in ServeRecords
         /\ ServeOK(serve[w]) /\ conn[c].up \in Seq(UpCells)
         /\ conn[c].down \in Seq(DownCells) /\ serve[w].buf \in Seq(UpCells)
  BY DEF ServerInv, ConnTypeOK, ServeTypeOK, Connections, ServeRecords

LEMMA ReadHeadersMoves ==
  ASSUME ServerInv, NEW w \in Workers, NEW c \in Conns, worker[w] = c,
         ReadHeaders(w), UNCHANGED poolVars
  PROVE  MovesAt(c) /\ handled' = handled
  <1>1. /\ serve[w].at = "headers" /\ UNCHANGED <<worker, handled>>
        /\ conn[c] \in Connections /\ serve[w] \in ServeRecords
        /\ serve[w].req \in Requests
    BY WorkerStarts DEF ReadHeaders, At, poolVars, ServeOK, Busy
  <1>2. PICK r, more :
          /\ r \in Arrived(w)
          /\ conn' = [conn EXCEPT ![c].up = r.left, ![c].down = @ \o more]
          /\ more \in {<<>>, <<Continue(r.cell.req.id)>>}
          /\ LET z == [serve[w] EXCEPT !.buf = r.buf, !.last = r.cell.req.close]
                 y == [z EXCEPT !.last = serve[w].last]
             IN IF r.cell.req.kind = "bad"
                THEN serve' = [serve EXCEPT ![w] = Decided(y, 400)]
                ELSE serve' = [serve EXCEPT ![w] =
                       Going(z, IF HasContent(r.cell.req.kind) THEN "content"
                                ELSE "handle")]
    BY ZenonT(60) DEF ReadHeaders, Answer, Going, Decided, Continue
  <1>3. /\ r.cell \in UpCells /\ r.buf \in Seq(UpCells) /\ r.left \in Seq(UpCells)
        /\ serve[w].buf \o conn[c].up # <<>>
        /\ r.cell = (serve[w].buf \o conn[c].up)[1]
        /\ Drops(serve[w].buf \o conn[c].up, 1, r.buf \o r.left)
    BY <1>2, ArrivedIs
  <1>4. /\ ConnTypeOK' /\ OnlyAt(c) /\ conn'[c].up = r.left
        /\ conn'[c].client = conn[c].client /\ conn'[c].server = conn[c].server
        /\ conn'[c].down \in {conn[c].down,
                              Append(conn[c].down, Continue(r.cell.req.id))}
    <2>1. /\ r.cell.req.id \in Ids /\ conn[c].down \in Seq(DownCells)
          /\ Continue(r.cell.req.id) \in DownCells
      BY <1>1, <1>3 DEF UpCells, Requests, Connections, Continue, DownCells
    <2>2. PICK q, x, down : /\ q = conn[c].down \o more /\ down = conn[c].down
                            /\ x = Continue(r.cell.req.id)
      OBVIOUS
    <2>3. q \in {conn[c].down, Append(conn[c].down, Continue(r.cell.req.id))}
      <3>1. down \o <<x>> = Append(down, x) /\ down \o <<>> = down
        BY <2>1, <2>2
      <3> QED
        BY <1>2, <2>2, <3>1
    <2>4. q \in Seq(DownCells)
      BY SMTT(30), <2>1, <2>3
    <2>5. conn' = [conn EXCEPT ![c] = [conn[c] EXCEPT !.up = r.left, !.down = q]]
      BY <1>1, <1>2, <2>2 DEF ServerInv, ConnTypeOK, Connections
    <2> QED
      BY <1>1, <1>3, <2>3, <2>4, <2>5 DEF ServerInv, ConnTypeOK, Connections,
         OnlyAt
  <1>a. PICK z, y : /\ z = [serve[w] EXCEPT !.buf = r.buf,
                                           !.last = r.cell.req.close]
                    /\ y = [z EXCEPT !.last = serve[w].last]
    OBVIOUS
  <1>b. /\ z \in ServeRecords /\ z.buf = r.buf /\ z.req = serve[w].req
        /\ y \in ServeRecords /\ y.buf = r.buf /\ y.req = serve[w].req
    <2>1. r.cell.req.close \in BOOLEAN
      BY <1>3 DEF UpCells, Requests
    <2>2. z \in ServeRecords /\ z.buf = r.buf /\ z.req = serve[w].req
      BY <1>1, <1>3, <2>1, <1>a DEF ServeRecords
    <2> QED
      BY <1>1, <1>a, <2>2 DEF ServeRecords
  <1>c. PICK s, at :
          /\ serve' = [serve EXCEPT ![w] = s]
          /\ at = IF HasContent(r.cell.req.kind) THEN "content" ELSE "handle"
          /\ s = IF r.cell.req.kind = "bad" THEN Decided(y, 400) ELSE Going(z, at)
    BY <1>2, <1>a
  <1>5. /\ ServeOK(s) /\ s.buf = r.buf /\ s.req = serve[w].req
        /\ \/ s.at = "head" /\ s.status = 400
           \/ s.at = "content" /\ HasContent(r.cell.req.kind)
           \/ s.at = "handle" /\ ~ HasContent(r.cell.req.kind)
    <2>1. PICK n \in Nat : n = 400
      OBVIOUS
    <2>2. CASE r.cell.req.kind = "bad"
      BY <1>1, <1>b, <1>c, <2>1, <2>2, DecidedIs
    <2>3. CASE r.cell.req.kind # "bad"
      BY <1>1, <1>b, <1>c, <2>3, GoingIs DEF Busy
    <2> QED
      BY <2>2, <2>3
  <1>6. /\ ServeTypeOK' /\ Srv(c) = serve[w] /\ Srv(c)' = s
        /\ In(c) = serve[w].buf \o conn[c].up
        /\ In(c)' = s.buf \o conn'[c].up
        /\ \A d \in Conns \ {c} : Same(d)
    <2>1. /\ UNCHANGED worker /\ serve' = [serve EXCEPT ![w] = s] /\ ServeOK(s)
          /\ ConnTypeOK' /\ OnlyAt(c)
      BY <1>1, <1>4, <1>5, <1>c
    <2> QED
      BY <2>1, ServeStep
  <1>7. In(c) # <<>> /\ r.cell = In(c)[1] /\ Drops(In(c), 1, In(c)')
    <2>1. In(c)' = r.buf \o r.left
      BY SMTT(30), <1>4, <1>5, <1>6
    <2> QED
      BY <1>3, <1>6, <2>1, Zenon
  <1>8. TakesHeaders(c)
    BY <1>1, <1>4, <1>5, <1>6, <1>7 DEF TakesHeaders, Takes
  <1> QED
    BY <1>1, <1>4, <1>6, <1>8 DEF MovesAt, Moves

LEMMA ReadContentMoves ==
  ASSUME ServerInv, NEW w \in Workers, NEW c \in Conns, worker[w] = c,
         ReadContent(w), UNCHANGED poolVars
  PROVE  MovesAt(c) /\ handled' = handled
  <1>1. /\ serve[w].at = "content" /\ UNCHANGED <<worker, handled>>
        /\ conn[c] \in Connections /\ serve[w] \in ServeRecords
        /\ serve[w].req \in Requests
    BY WorkerStarts DEF ReadContent, At, poolVars, ServeOK, Busy
  <1>2. PICK r \in Arrived(w) :
          /\ conn' = [conn EXCEPT ![c].up = r.left]
          /\ LET z == [serve[w] EXCEPT !.buf = r.buf]
             IN \/ serve' = [serve EXCEPT ![w] = Decided(z, 413)]
                \/ serve' = [serve EXCEPT ![w] = Going(z, "handle")]
    BY ZenonT(60) DEF ReadContent, Received, Answer, Outcome, Going, Decided
  <1>3. /\ r.cell \in UpCells /\ r.buf \in Seq(UpCells) /\ r.left \in Seq(UpCells)
        /\ serve[w].buf \o conn[c].up # <<>>
        /\ Drops(serve[w].buf \o conn[c].up, 1, r.buf \o r.left)
    BY <1>2, ArrivedIs
  <1>4. /\ ConnTypeOK' /\ OnlyAt(c) /\ conn'[c].up = r.left
        /\ conn'[c].client = conn[c].client /\ conn'[c].server = conn[c].server
        /\ conn'[c].down = conn[c].down
    BY <1>1, <1>2, <1>3 DEF ServerInv, ConnTypeOK, Connections, OnlyAt
  <1>a. PICK z : z = [serve[w] EXCEPT !.buf = r.buf]
    OBVIOUS
  <1>b. z \in ServeRecords /\ z.buf = r.buf /\ z.req = serve[w].req
    BY <1>1, <1>3, <1>a DEF ServeRecords
  <1>c. PICK s :
          /\ serve' = [serve EXCEPT ![w] = s]
          /\ s = Decided(z, 413) \/ s = Going(z, "handle")
    BY <1>2, <1>a
  <1>5. /\ ServeOK(s) /\ s.buf = r.buf /\ s.req = serve[w].req
        /\ \/ s.at = "head" /\ s.status >= 400
           \/ s.at = "handle"
    <2>1. PICK n \in Nat : n = 413
      OBVIOUS
    <2>2. CASE s = Decided(z, 413)
      BY <1>1, <1>b, <2>1, <2>2, DecidedIs
    <2>3. CASE s = Going(z, "handle")
      BY <1>1, <1>b, <2>3, GoingIs DEF Busy
    <2> QED
      BY <1>c, <2>2, <2>3
  <1>6. /\ ServeTypeOK' /\ Srv(c) = serve[w] /\ Srv(c)' = s
        /\ In(c) = serve[w].buf \o conn[c].up
        /\ In(c)' = s.buf \o conn'[c].up
        /\ \A d \in Conns \ {c} : Same(d)
    <2>1. /\ UNCHANGED worker /\ serve' = [serve EXCEPT ![w] = s] /\ ServeOK(s)
          /\ ConnTypeOK' /\ OnlyAt(c)
      BY <1>1, <1>4, <1>5, <1>c
    <2> QED
      BY <2>1, ServeStep
  <1>7. In(c) # <<>> /\ Drops(In(c), 1, In(c)')
    <2>1. In(c)' = r.buf \o r.left
      BY <1>4, <1>5, <1>6
    <2> QED
      BY <1>3, <1>6, <2>1, Zenon
  <1>8. TakesContent(c)
    BY <1>1, <1>4, <1>5, <1>6, <1>7 DEF TakesContent, Takes
  <1> QED
    BY <1>1, <1>4, <1>6, <1>8 DEF MovesAt, Moves

\* The steps that read nothing and send nothing.
LEMMA DecideMoves ==
  ASSUME ServerInv, NEW w \in Workers, NEW c \in Conns, worker[w] = c,
         ReadFails(w) \/ Handle(w), UNCHANGED poolVars
  PROVE  /\ MovesAt(c) /\ Srv(c) = serve[w]
         /\ ReadFails(w) => handled' = handled
         /\ Handle(w) => /\ Srv(c).at = "handle"
                         /\ handled' = handled \cup {Srv(c).req.id}
                         /\ Handles(c)
  <1>1. /\ UNCHANGED <<worker, conn>>
        /\ conn[c] \in Connections /\ serve[w] \in ServeRecords
        /\ serve[w].req \in Requests
        /\ \/ Handle(w) /\ serve[w].at = "handle"
           \/ ReadFails(w) /\ serve[w].at \in {"headers", "content"}
    BY WorkerStarts DEF ReadFails, Handle, At, poolVars, ServeOK, Busy
  <1>2. PICK n \in Nat : /\ serve' = [serve EXCEPT ![w] = Decided(serve[w], n)]
                         /\ ReadFails(w) => n >= 400
    <2>1. PICK a, b \in Nat : a = 400 /\ b = 413
      OBVIOUS
    <2>2. CASE ReadFails(w)
      <3>1. \/ serve' = [serve EXCEPT ![w] = Decided(serve[w], a)]
            \/ serve' = [serve EXCEPT ![w] = Decided(serve[w], b)]
        BY <2>1, <2>2 DEF ReadFails, Answer, Decided
      <3> QED
        BY <2>1, <3>1
    <2>3. CASE Handle(w) /\ ~ ReadFails(w)
      <3>1. Outcome(serve[w].req.kind) \in Nat
        BY DEF Outcome
      <3> QED
        BY <2>3, <3>1 DEF Handle, Answer, Decided
    <2> QED
      BY <1>1, <2>2, <2>3
  <1>3. PICK s : s = Decided(serve[w], n)
    OBVIOUS
  <1>4. /\ ServeOK(s) /\ s.buf = serve[w].buf /\ s.req = serve[w].req
        /\ s.at = "head" /\ s.status = n
    BY <1>1, <1>3, DecidedIs
  <1>5. ConnTypeOK' /\ OnlyAt(c)
    BY <1>1 DEF ServerInv, ConnTypeOK, OnlyAt
  <1>6. /\ ServeTypeOK' /\ Srv(c) = serve[w] /\ Srv(c)' = s
        /\ In(c) = serve[w].buf \o conn[c].up
        /\ In(c)' = s.buf \o conn'[c].up
        /\ \A d \in Conns \ {c} : Same(d)
    <2>1. UNCHANGED worker /\ serve' = [serve EXCEPT ![w] = s] /\ ServeOK(s)
      BY <1>1, <1>2, <1>3, <1>4
    <2> QED
      BY <1>5, <2>1, ServeStep
  <1>7. In(c)' = In(c) /\ conn'[c] = conn[c]
    BY <1>1, <1>4, <1>6
  <1>8. ReadFails(w) /\ serve[w].at \in {"headers", "content"} => GivesUp(c)
    BY <1>2, <1>4, <1>6, <1>7 DEF GivesUp
  <1>9. serve[w].at = "handle" => Handles(c)
    BY <1>4, <1>6, <1>7 DEF Handles
  <1> QED
    BY <1>1, <1>5, <1>6, <1>7, <1>8, <1>9
       DEF MovesAt, Moves, Handle, At, ReadFails

LEMMA DropsNone ==
  ASSUME NEW S, NEW q \in Seq(S)
  PROVE  Drops(q, 0, q) /\ <<>> \o q = q
  BY DEF Drops

LEMMA DropsFirst ==
  ASSUME NEW S, NEW p \in Seq(S), NEW q \in Seq(S)
  PROVE  Drops(p \o q, Len(p), q)
  BY DEF Drops

\* After a response the next request is waited for, or the end.
LEMMA NextRequestIs ==
  ASSUME NEW s, ServeOK(s)
  PROVE  /\ ServeOK(NextRequest(s)) /\ NextRequest(s).at \in {"alive", "close"}
         /\ NextRequest(s).buf \in {<<>>, s.buf}
  <1>1. CASE s.last \/ s.count = 1
    BY <1>1 DEF ServeOK, ServeRecords, NextRequest, Busy
  <1>2. CASE ~ (s.last \/ s.count = 1)
    <2>1. s.count \in Nat /\ s.count # 0 /\ s.count - 1 \in Nat \ {0}
      BY <1>2 DEF ServeOK, ServeRecords
    <2>2. NextRequest(s) = [s EXCEPT !.at = "alive", !.count = s.count - 1,
                   !.buf = <<>>, !.req = <<>>, !.status = 0, !.last = FALSE]
      BY <1>2 DEF NextRequest
    <2>3. PICK n \in Nat \ {0} : n = s.count - 1
      BY <2>1
    <2>4. NextRequest(s) = [at |-> "alive", count |-> n, buf |-> <<>>,
                            req |-> <<>>, status |-> 0, last |-> FALSE]
      BY <2>2, <2>3 DEF ServeOK, ServeRecords
    <2>5. NextRequest(s) \in ServeRecords
      BY <2>3, <2>4 DEF ServeRecords
    <2> QED
      BY <2>4, <2>5 DEF ServeOK, Busy
  <1> QED
    BY <1>1, <1>2

\* What is left to read when a worker is through with a request.
LEMMA LeftToRead ==
  ASSUME ServerInv, NEW w \in Workers, NEW c \in Conns, worker[w] = c,
         NEW buf \in {<<>>, serve[w].buf}
  PROVE  \E n \in Nat : Drops(serve[w].buf \o conn[c].up, n, buf \o conn[c].up)
  <1>1. PICK p, q : p = serve[w].buf /\ q = conn[c].up
    OBVIOUS
  <1>2. p \in Seq(UpCells) /\ q \in Seq(UpCells)
    BY <1>1, WorkerStarts
  <1>3. p \o q \in Seq(UpCells) /\ <<>> \o q = q
    BY <1>2
  <1>4. Drops(p \o q, 0, p \o q) /\ Drops(p \o q, Len(p), q)
    BY <1>2, <1>3, DropsNone, DropsFirst, Zenon
  <1>5. Len(p) \in Nat
    BY <1>2
  <1> QED
    BY <1>1, <1>3, <1>4, <1>5

LEMMA WriteHeadMoves ==
  ASSUME ServerInv, NEW w \in Workers, NEW c \in Conns, worker[w] = c,
         WriteHead(w), UNCHANGED poolVars
  PROVE  MovesAt(c) /\ handled' = handled
  <1>1. /\ serve[w].at = "head" /\ UNCHANGED <<worker, handled>>
        /\ conn[c] \in Connections /\ serve[w] \in ServeRecords
        /\ ServeOK(serve[w]) /\ serve[w].req \in Requests
    BY WorkerStarts DEF WriteHead, At, poolVars, ServeOK, Busy
  <1>2. PICK x : x = Response(serve[w])
    OBVIOUS
  <1>3. x \in DownCells
    <2>1. /\ serve[w].req.id \in Ids /\ serve[w].status \in Nat
          /\ (serve[w].count = 1 \/ serve[w].last \/ serve[w].status >= 400) \in BOOLEAN
          /\ (serve[w].status = 200) \in BOOLEAN
      BY <1>1 DEF Requests, ServeRecords
    <2> QED
      BY <1>2, <2>1 DEF Response, DownCells
  <1>4. ServerSends(c, <<x>>)
    BY <1>2 DEF WriteHead, Response
  <1>5. /\ ConnTypeOK' /\ OnlyAt(c) /\ conn'[c].up = conn[c].up
        /\ conn'[c].client = conn[c].client /\ conn'[c].server = conn[c].server
        /\ conn'[c].down \in {conn[c].down, Append(conn[c].down, x)}
    <2>1. PICK cells, down : cells = <<x>> /\ down = conn[c].down
      OBVIOUS
    <2>2. cells \in Seq(DownCells) /\ down \in Seq(DownCells)
      BY <1>3, <2>1, WorkerStarts
    <2>3. down \o cells = Append(down, x)
      BY <1>3, <2>1, <2>2
    <2>4. ConnTypeOK /\ ServerSends(c, cells)
      BY <1>4, <2>1 DEF ServerInv
    <2>5. /\ ConnTypeOK' /\ OnlyAt(c) /\ conn'[c].up = conn[c].up
          /\ conn'[c].client = conn[c].client /\ conn'[c].server = conn[c].server
          /\ conn'[c].down \in {conn[c].down, conn[c].down \o cells}
      BY <2>2, <2>4, ServerSendsDoes, Zenon
    <2> QED
      BY <2>1, <2>3, <2>5, Zenon
  <1>6. PICK s :
          /\ serve' = [serve EXCEPT ![w] = s]
          /\ s = IF serve[w].status = 200 THEN Going(serve[w], "body")
                 ELSE NextRequest(serve[w])
    BY DEF WriteHead, Proceed, Going
  <1>7. /\ ServeOK(s) /\ s.buf \in {<<>>, serve[w].buf}
        /\ IF serve[w].status = 200
           THEN s = Going(serve[w], "body") /\ s.buf = serve[w].buf
           ELSE s.at \in {"alive", "close"}
    <2>1. CASE serve[w].status = 200
      BY <1>1, <1>6, <2>1, GoingIs DEF Busy
    <2>2. CASE serve[w].status # 200
      BY <1>1, <1>6, <2>2, NextRequestIs
    <2> QED
      BY <2>1, <2>2
  <1>8. /\ ServeTypeOK' /\ Srv(c) = serve[w] /\ Srv(c)' = s
        /\ In(c) = serve[w].buf \o conn[c].up
        /\ In(c)' = s.buf \o conn'[c].up
        /\ \A d \in Conns \ {c} : Same(d)
    <2>1. /\ UNCHANGED worker /\ serve' = [serve EXCEPT ![w] = s] /\ ServeOK(s)
          /\ ConnTypeOK' /\ OnlyAt(c)
      BY <1>1, <1>5, <1>6, <1>7
    <2> QED
      BY <2>1, ServeStep
  <1>9. SendsHead(c)
    <2>1. CASE serve[w].status = 200
      <3>1. In(c)' = In(c)
        BY <1>5, <1>7, <1>8, <2>1
      <3> QED
        BY <1>1, <1>2, <1>5, <1>7, <1>8, <2>1, <3>1 DEF SendsHead, Going
    <2>2. CASE serve[w].status # 200
      <3>1. \E n \in Nat : Drops(serve[w].buf \o conn[c].up, n, s.buf \o conn[c].up)
        BY <1>7, LeftToRead
      <3>2. \E n \in Nat : Drops(In(c), n, In(c)')
        BY <1>5, <1>8, <3>1
      <3>3. s.at \notin Busy
        BY <1>7, <2>2 DEF Busy
      <3> QED
        BY <1>1, <1>2, <1>5, <1>8, <2>2, <3>2, <3>3 DEF SendsHead
    <2> QED
      BY <2>1, <2>2
  <1> QED
    BY <1>1, <1>5, <1>8, <1>9 DEF MovesAt, Moves

LEMMA WriteBodyMoves ==
  ASSUME ServerInv, NEW w \in Workers, NEW c \in Conns, worker[w] = c,
         WriteBody(w), UNCHANGED poolVars
  PROVE  MovesAt(c) /\ handled' = handled
  <1>1. /\ serve[w].at = "body" /\ UNCHANGED <<worker, handled>>
        /\ conn[c] \in Connections /\ serve[w] \in ServeRecords
        /\ ServeOK(serve[w]) /\ serve[w].req \in Requests
    BY WorkerStarts DEF WriteBody, At, poolVars, ServeOK, Busy
  <1>2. PICK x : x = [k |-> "content", id |-> serve[w].req.id]
    OBVIOUS
  <1>3. x \in DownCells
    BY <1>1, <1>2 DEF Requests, DownCells
  <1>5. /\ ConnTypeOK' /\ OnlyAt(c) /\ conn'[c].up = conn[c].up
        /\ conn'[c].client = conn[c].client /\ conn'[c].server = conn[c].server
        /\ conn'[c].down \in {conn[c].down, Append(conn[c].down, x)}
    <2>1. PICK cells, down : cells = <<x>> /\ down = conn[c].down
      OBVIOUS
    <2>2. cells \in Seq(DownCells) /\ down \in Seq(DownCells)
      BY <1>3, <2>1, WorkerStarts
    <2>3. down \o cells = Append(down, x)
      BY <1>3, <2>1, <2>2
    <2>4. CASE UNCHANGED conn
      BY <2>4 DEF ServerInv, ConnTypeOK, OnlyAt
    <2>5. CASE ServerSends(c, cells)
      <3>1. /\ ConnTypeOK' /\ OnlyAt(c) /\ conn'[c].up = conn[c].up
            /\ conn'[c].client = conn[c].client /\ conn'[c].server = conn[c].server
            /\ conn'[c].down \in {conn[c].down, conn[c].down \o cells}
        BY <2>2, <2>5, ServerSendsDoes, Zenon DEF ServerInv
      <3> QED
        BY <2>1, <2>3, <3>1, Zenon
    <2> QED
      BY <1>2, <2>1, <2>4, <2>5 DEF WriteBody
  <1>6. PICK s :
          /\ serve' = [serve EXCEPT ![w] = s]
          /\ s \in {Going(serve[w], "close"), NextRequest(serve[w])}
    BY DEF WriteBody, Proceed, Going
  <1>7. /\ ServeOK(s) /\ s.buf \in {<<>>, serve[w].buf}
        /\ s.at \in {"alive", "close"}
    BY <1>1, <1>6, GoingIs, NextRequestIs DEF Busy
  <1>8. /\ ServeTypeOK' /\ Srv(c) = serve[w] /\ Srv(c)' = s
        /\ In(c) = serve[w].buf \o conn[c].up
        /\ In(c)' = s.buf \o conn'[c].up
        /\ \A d \in Conns \ {c} : Same(d)
    <2>1. /\ UNCHANGED worker /\ serve' = [serve EXCEPT ![w] = s] /\ ServeOK(s)
          /\ ConnTypeOK' /\ OnlyAt(c)
      BY <1>1, <1>5, <1>6, <1>7
    <2> QED
      BY <2>1, ServeStep
  <1>9. SendsBody(c)
    <2>1. \E n \in Nat : Drops(serve[w].buf \o conn[c].up, n, s.buf \o conn[c].up)
      BY <1>7, LeftToRead
    <2>2. \E n \in Nat : Drops(In(c), n, In(c)')
      BY <1>5, <1>8, <2>1
    <2>3. s.at \notin Busy
      BY <1>7 DEF Busy
    <2> QED
      BY <1>1, <1>2, <1>5, <1>8, <2>2, <2>3 DEF SendsBody
  <1> QED
    BY <1>1, <1>5, <1>8, <1>9 DEF MovesAt, Moves

\* A worker that waits for a request on its connection.
LEMMA WaitingQuiet ==
  ASSUME ServerInv, NEW w \in Workers, NEW c \in Conns, worker[w] = c,
         KeepAlive(w) \/ KeepAliveEnds(w) \/ NoLine(w), UNCHANGED poolVars
  PROVE  Quiet /\ handled' = handled /\ UNCHANGED conn
  <1>1. /\ UNCHANGED <<worker, handled, conn>> /\ serve[w] \in ServeRecords
        /\ serve[w].buf = <<>> /\ serve[w].at \in {"alive", "line"}
    BY WorkerStarts DEF KeepAlive, KeepAliveEnds, NoLine, At, poolVars, ServeOK
  <1>2. PICK at \in {"line", "close"} :
          serve' = [serve EXCEPT ![w] = Going(serve[w], at)]
    <2>1. CASE KeepAlive(w)
      <3>1. [serve[w] EXCEPT !.at = "line", !.buf = <<>>] = Going(serve[w], "line")
        BY <1>1 DEF Going, ServeRecords
      <3>2. serve' = [serve EXCEPT ![w] = [serve[w] EXCEPT !.at = "line", !.buf = <<>>]]
        BY <2>1 DEF KeepAlive, ServerInv, ServeTypeOK
      <3> QED
        BY <3>1, <3>2
    <2>2. CASE KeepAliveEnds(w) \/ NoLine(w)
      <3>1. serve' = [serve EXCEPT ![w] = Going(serve[w], "close")]
        BY <2>2 DEF KeepAliveEnds, NoLine, Proceed, Going, ServerInv,
           ServeTypeOK
      <3> QED
        BY <3>1
    <2> QED
      BY <2>1, <2>2
  <1>3. PICK s : s = Going(serve[w], at)
    OBVIOUS
  <1>4. ServeOK(s) /\ s.at = at /\ s.buf = serve[w].buf
    BY <1>1, <1>3, GoingIs DEF Busy
  <1>5. ConnTypeOK' /\ OnlyAt(c)
    BY <1>1 DEF ServerInv, ConnTypeOK, OnlyAt
  <1>6. /\ ServeTypeOK' /\ Srv(c) = serve[w] /\ Srv(c)' = s
        /\ In(c) = serve[w].buf \o conn[c].up
        /\ In(c)' = s.buf \o conn'[c].up
        /\ \A d \in Conns \ {c} : Same(d)
    <2>1. UNCHANGED worker /\ serve' = [serve EXCEPT ![w] = s]
      BY <1>1, <1>2, <1>3
    <2> QED
      BY ZenonT(60), <1>4, <1>5, <2>1, ServeStep
  <1>7. Rests(c)
    <2>1. In(c)' = In(c)
      BY <1>1, <1>4, <1>6
    <2>2. PICK down \in Seq(DownCells) : down = conn[c].down
      BY WorkerStarts
    <2>3. Begins(conn'[c].down, conn[c].down)
      BY <1>1, <2>2, BeginsItself
    <2>4. Srv(c).at \notin Busy /\ Srv(c)'.at \notin Busy
      BY <1>1, <1>4, <1>6 DEF Busy
    <2> QED
      BY <2>1, <2>3, <2>4 DEF Rests
  <1> QED
    BY <1>1, <1>5, <1>6, <1>7 DEF Quiet

-----------------------------------------------------------------------------
\* The pool of the server, and the connections in it.

LEMMA ServedNot ==
  ASSUME NEW wk, NEW sv, NEW c, \A w \in Workers : wk[w] # c
  PROVE  Served(wk, sv, c) = Fresh
  BY DEF Served

LEMMA FreshIs ==
  /\ ServeOK(Fresh) /\ Fresh.at = "alive" /\ Fresh.buf = <<>>
  /\ Fresh.at \notin Busy
  BY ServerAssumption DEF Fresh, ServeOK, ServeRecords, Busy

\* The workers besides w, when w comes from no connection or leaves its own.
LEMMA OthersServe ==
  ASSUME PoolInv, PoolInv', NEW d \in Conns,
         \A v \in Workers : worker[v] = d => worker'[v] = d /\ serve'[v] = serve[v],
         \A v \in Workers : worker[v] # d /\ worker'[v] = d => serve'[v] = Fresh
  PROVE  Srv(d)' = Srv(d)
  <1>1. /\ \A u, v \in Workers : worker[u] = d /\ worker[v] = d => u = v
        /\ \A u, v \in Workers : worker'[u] = d /\ worker'[v] = d => u = v
    BY ServerAssumption DEF PoolInv, EachJobOnce
  <1>2. CASE \E v \in Workers : worker[v] = d
    <2>1. PICK v \in Workers : worker[v] = d
      BY <1>2
    <2>2. worker'[v] = d /\ serve'[v] = serve[v]
      BY <2>1
    <2>3. Served(worker, serve, d) = serve[v] /\ Served(worker', serve', d) = serve'[v]
      BY <1>1, <2>1, <2>2, ServedBy
    <2> QED
      BY <2>2, <2>3 DEF Srv
  <1>3. CASE \A v \in Workers : worker[v] # d
    <2>1. Served(worker, serve, d) = Fresh
      BY <1>3, ServedNot
    <2>2. CASE \E v \in Workers : worker'[v] = d
      <3>1. PICK v \in Workers : worker'[v] = d
        BY <2>2
      <3>2. Served(worker', serve', worker'[v]) = serve'[v]
        <4>1. \A u \in Workers : worker'[u] = worker'[v] => u = v
          BY <1>1, <3>1
        <4> QED
          BY <4>1, ServedBy
      <3> QED
        BY <1>3, <2>1, <3>1, <3>2 DEF Srv
    <2>3. CASE \A v \in Workers : worker'[v] # d
      <3>1. Served(worker', serve', d) = Fresh
        BY <2>3, ServedNot
      <3> QED
        BY <2>1, <3>1 DEF Srv
    <2> QED
      BY <2>2, <2>3
  <1> QED
    BY <1>2, <1>3

\* What the pool does with its workers and jobs.
LEMMA PoolQuiet ==
  ASSUME ServerInv, PoolInv', UNCHANGED <<serve, conn>>,
         \A v \in Workers : worker'[v] = worker[v] \/ worker[v] \notin Conns
  PROVE  Quiet
  <1>1. \A v \in Workers : worker[v] \notin Conns => serve[v] = Fresh
    BY DEF ServerInv, ServeTypeOK
  <1>2. ConnTypeOK' /\ ServeTypeOK'
    BY <1>1 DEF ServerInv, ConnTypeOK, ServeTypeOK
  <1>3. ASSUME NEW d \in Conns
        PROVE  Same(d)
    <2>1. Srv(d)' = Srv(d)
      BY <1>1, OthersServe DEF ServerInv
    <2> QED
      BY <2>1 DEF Same, In
  <1> QED
    BY <1>2, <1>3 DEF Quiet

LEMMA CloseConnectionQuiet ==
  ASSUME ServerInv, PoolInv', NEW w \in Workers, CloseConnection(w)
  PROVE  Quiet
  <1>1. PICK c \in Conns : c = worker[w]
    BY DEF CloseConnection, At
  <1>2. /\ serve[w].at = "close" /\ ServerCloses(c) /\ worker'[w] \notin Conns
        /\ \A v \in Workers \ {w} : worker'[v] = worker[v] /\ serve'[v] = serve[v]
        /\ serve' = [serve EXCEPT ![w] = Fresh] /\ serve'[w] = Fresh
    BY <1>1, PoolAssumption, ServerAssumption
       DEF CloseConnection, At, FinishJob, WorkerGo, ServerInv, PoolInv,
           PoolTypeOK, ServeTypeOK
  <1>3. /\ ConnTypeOK' /\ OnlyAt(c) /\ conn'[c].client = conn[c].client
        /\ conn'[c].up = <<>> /\ Begins(conn'[c].down, conn[c].down)
    BY <1>2, ServerClosesDoes DEF ServerInv
  <1>4. ServeTypeOK'
    BY <1>2, FreshIs DEF ServerInv, ServeTypeOK, ServeOK
  <1>5. \A v \in Workers : worker[v] = c => v = w
    BY <1>1, ServerAssumption DEF ServerInv, PoolInv, EachJobOnce
  <1>6. ASSUME NEW d \in Conns \ {c}
        PROVE  Same(d)
    <2>1. Srv(d)' = Srv(d)
      BY <1>1, <1>2, OthersServe DEF ServerInv
    <2> QED
      BY <1>3, <2>1 DEF Same, In, OnlyAt
  <1>7. Rests(c)
    <2>1. Srv(c) = serve[w]
      BY <1>1, <1>5, ServedBy DEF Srv
    <2>2. Srv(c)' = Fresh
      <3>1. \A v \in Workers : worker'[v] # c
        BY <1>2, <1>5
      <3> QED
        BY <3>1, ServedNot DEF Srv
    <2>3. In(c)' = <<>>
      BY <1>3, <2>2, FreshIs DEF In
    <2> QED
      BY <1>2, <1>3, <2>1, <2>2, <2>3, FreshIs DEF Rests, Busy
  <1> QED
    BY <1>3, <1>4, <1>6, <1>7 DEF Quiet, OnlyAt

\* A connection that nobody has accepted is read by nobody.
LEMMA NotAccepted ==
  ASSUME ServerInv, NEW c \in Conns, conn[c].server # "open"
  PROVE  Srv(c) = Fresh /\ In(c) = conn[c].up
  <1>1. \A w \in Workers : worker[w] # c
    BY DEF ServerInv, Accepted, InPool, Running
  <1>2. Srv(c) = Fresh
    BY <1>1, ServedNot DEF Srv
  <1>3. PICK up \in Seq(UpCells) : up = conn[c].up
    BY DEF ServerInv, ConnTypeOK, Connections
  <1>4. <<>> \o up = up
    BY <1>3
  <1> QED
    BY <1>2, <1>3, <1>4, FreshIs DEF In

\* Connections that are given up before anybody reads from them.
LEMMA RefusedQuiet ==
  ASSUME ServerInv, UNCHANGED <<worker, serve>>, ConnTypeOK',
         NEW C \in SUBSET Conns,
         \A d \in Conns \ C : conn'[d] = conn[d],
         \A c \in C : /\ conn[c].server = "backlog" /\ conn'[c].up = <<>>
                      /\ conn'[c].client = conn[c].client
                      /\ Begins(conn'[c].down, conn[c].down)
  PROVE  Quiet
  <1>1. \A d \in Conns : Srv(d)' = Srv(d)
    BY DEF Srv
  <1>2. ServeTypeOK'
    BY DEF ServerInv, ServeTypeOK
  <1>3. \A d \in Conns \ C : Same(d)
    BY <1>1 DEF Same, In
  <1>4. ASSUME NEW c \in C
        PROVE  Rests(c)
    <2>1. Srv(c) = Fresh /\ Srv(c)' = Fresh
      BY <1>1, NotAccepted
    <2>2. In(c)' = <<>>
      BY <2>1, FreshIs DEF In
    <2> QED
      BY <2>1, <2>2, FreshIs DEF Rests
  <1> QED
    BY <1>2, <1>3, <1>4 DEF Quiet

LEMMA AcceptQuiet ==
  ASSUME ServerInv, NEW c \in Conns, Accept(c)
  PROVE  Quiet
  <1>1. /\ conn[c].server = "backlog" /\ UNCHANGED <<worker, serve>>
    BY DEF Accept, Enqueue, poolVars
  <1>2. CASE ServerCloses(c)
    BY <1>1, <1>2, ServerClosesDoes, RefusedQuiet, {c} \in SUBSET Conns
       DEF ServerInv, OnlyAt
  <1>3. CASE conn' = [conn EXCEPT ![c].server = "open"]
    <2>1. /\ ConnTypeOK'
          /\ \A d \in Conns : /\ conn'[d].up = conn[d].up
                              /\ conn'[d].down = conn[d].down
                              /\ conn'[d].client = conn[d].client
      BY <1>3 DEF ServerInv, ConnTypeOK, Connections
    <2>2. ServeTypeOK' /\ \A d \in Conns : Srv(d)' = Srv(d)
      BY <1>1 DEF ServerInv, ServeTypeOK, Srv
    <2> QED
      BY <2>1, <2>2 DEF Quiet, Same, In
  <1> QED
    BY <1>2, <1>3 DEF Accept

LEMMA BacklogGoneQuiet ==
  ASSUME ServerInv, BacklogGone, UNCHANGED <<worker, serve>>
  PROVE  Quiet
  <1>1. PICK C \in SUBSET Conns : C = {c \in Conns : conn[c].server = "backlog"}
    OBVIOUS
  <1>2. ConnTypeOK'
    <2>1. ASSUME NEW c \in Conns
          PROVE  [conn[c] EXCEPT !.server = "closed", !.up = <<>>] \in Connections
      <3>1. conn[c] \in Connections /\ <<>> \in Seq(UpCells)
        BY DEF ServerInv, ConnTypeOK
      <3> QED
        BY <3>1 DEF Connections
    <2> QED
      BY <2>1 DEF BacklogGone, ServerInv, ConnTypeOK
  <1>3. \A d \in Conns \ C : conn'[d] = conn[d]
    BY <1>1 DEF BacklogGone
  <1>4. ASSUME NEW c \in C
        PROVE  /\ conn[c].server = "backlog" /\ conn'[c].up = <<>>
               /\ conn'[c].client = conn[c].client
               /\ Begins(conn'[c].down, conn[c].down)
    <2>1. /\ conn[c].server = "backlog" /\ conn'[c].up = <<>>
          /\ conn'[c].client = conn[c].client /\ conn'[c].down = conn[c].down
      BY <1>1 DEF BacklogGone, ServerInv, ConnTypeOK, Connections
    <2>2. PICK down \in Seq(DownCells) : down = conn[c].down
      BY <1>1 DEF ServerInv, ConnTypeOK, Connections
    <2> QED
      BY <2>1, <2>2, BeginsItself
  <1> QED
    BY <1>2, <1>3, <1>4, RefusedQuiet

ServerStep ==
  \/ Listener \/ StopServer \/ AcceptError
  \/ \E w \in Workers : ServerWorker(w) \/ WakesUp(w)

\* The server's part of a step as a step of its pool, ...
LEMMA ServerInPool ==
  ASSUME ServerInv, ServerStep
  PROVE  [PoolNext]_poolVars
  <1>1. CASE \E c \in Conns : Accept(c)
    <2>1. PICK c \in Conns : Accept(c)
      BY <1>1
    <2>2. ~ InPool(c)
      BY <2>1 DEF ServerInv, Accepted, Accept
    <2> QED
      BY <2>1, <2>2, ServerAssumption DEF Accept, PoolNext
  <1>2. CASE ListenEnds \/ ListenGoesOn
    BY <1>2 DEF ListenEnds, ListenGoesOn, PoolNext
  <1>3. CASE StopServer \/ AcceptError
    BY <1>3 DEF StopServer, AcceptError
  <1>4. CASE \E w \in Workers : ServerWorker(w) \/ WakesUp(w)
    BY <1>4 DEF ServerWorker, WakesUp, ServeRequest, CloseConnection, PoolNext
  <1> QED
    BY <1>1, <1>2, <1>3, <1>4 DEF ServerStep, Listener

\* ... and as it is seen from the connections.
LEMMA ServerMoves ==
  ASSUME ServerInv, ServerStep
  PROVE  \/ Quiet /\ handled' = handled
         \/ \E c \in Conns :
               /\ MovesAt(c) /\ conn[c].server = "open" /\ UNCHANGED poolVars
               /\ \/ handled' = handled
                  \/ Handles(c) /\ handled' = handled \cup {Srv(c).req.id}
  <1>1. PoolInv'
    BY ServerInPool, PoolStep DEF ServerInv
  <1>2. CASE \E c \in Conns : Accept(c)
    BY <1>2, AcceptQuiet DEF Accept
  <1>3. CASE ListenEnds \/ ListenGoesOn
    <2>1. /\ UNCHANGED <<serve, conn, handled>>
          /\ \A v \in Workers : worker'[v] = worker[v] \/ worker[v] \notin Conns
      BY <1>3, PoolAssumption, ServerAssumption
         DEF ListenEnds, ListenGoesOn, BeginShutdown, PoolOwner, NotifyOne,
             NotifyAll, Join, ServerInv, PoolInv, PoolTypeOK
    <2> QED
      BY <1>1, <2>1, PoolQuiet
  <1>4. CASE StopServer \/ AcceptError
    BY <1>4, BacklogGoneQuiet DEF StopServer, AcceptError, poolVars
  <1>5. CASE \E w \in Workers : ServerWorker(w) \/ WakesUp(w)
    <2>1. PICK w \in Workers : ServerWorker(w) \/ WakesUp(w)
      BY <1>5
    <2>2. CASE \/ PoolWorker(w) /\ UNCHANGED <<svr_sock, serve, handled, conn>>
               \/ WakesUp(w)
      <3>1. /\ UNCHANGED <<serve, conn, handled>>
            /\ \A v \in Workers : worker'[v] = worker[v] \/ worker[v] \notin Conns
        BY <2>2, PoolAssumption, ServerAssumption
           DEF PoolWorker, WakesUp, Spurious, Sleep, Leave, TakeJob, WorkerGo,
               ServerInv, PoolInv, PoolTypeOK
      <3> QED
        BY <1>1, <3>1, PoolQuiet
    <2>3. CASE CloseConnection(w)
      BY <1>1, <2>3, CloseConnectionQuiet DEF CloseConnection
    <2>4. CASE ServeRequest(w)
      <3>1. PICK c \in Conns : worker[w] = c
        BY <2>4 DEF ServeRequest, KeepAlive, KeepAliveEnds, ReadLine, NoLine,
                    ReadHeaders, ReadContent, ReadFails, Handle, WriteHead,
                    WriteBody, At
      <3>2. conn[c].server = "open" /\ UNCHANGED poolVars
        BY <2>4, <3>1 DEF ServerInv, Accepted, InPool, Running, ServeRequest
      <3>3. CASE KeepAlive(w) \/ KeepAliveEnds(w) \/ NoLine(w)
        BY <3>1, <3>2, <3>3, WaitingQuiet
      <3>4. CASE ReadLine(w)
        BY <3>1, <3>2, <3>4, ReadLineMoves
      <3>5. CASE ReadHeaders(w)
        BY <3>1, <3>2, <3>5, ReadHeadersMoves
      <3>6. CASE ReadContent(w)
        BY <3>1, <3>2, <3>6, ReadContentMoves
      <3>7. CASE ReadFails(w) \/ Handle(w)
        BY <3>1, <3>2, <3>7, DecideMoves
      <3>8. CASE WriteHead(w)
        BY <3>1, <3>2, <3>8, WriteHeadMoves
      <3>9. CASE WriteBody(w)
        BY <3>1, <3>2, <3>9, WriteBodyMoves
      <3> QED
        BY <2>4, <3>3, <3>4, <3>5, <3>6, <3>7, <3>8, <3>9 DEF ServeRequest
    <2> QED
      BY <2>1, <2>2, <2>3, <2>4 DEF ServerWorker
  <1> QED
    BY <1>2, <1>3, <1>4, <1>5 DEF ServerStep, Listener

\* The connections a step of the server is about, and who is in the pool.
LEMMA ServerTouches ==
  ASSUME ServerInv, ServerStep, NEW c \in Conns
  PROVE  /\ conn'[c] = conn[c] \/ conn[c].server \in {"open", "backlog"}
         /\ InPool(c)' => conn'[c].server = "open"
  <1> USE DEF ServerInv
  <1>1. CASE \E d \in Conns : Accept(d)
    <2>1. PICK d \in Conns : Accept(d)
      BY <1>1
    <2>2. CASE Full /\ ServerCloses(d) /\ UNCHANGED poolVars
      <3>1. /\ OnlyAt(d) /\ conn[d].server = "backlog" /\ ~ InPool(d)
            /\ InPool(c)' = InPool(c)
        BY <2>1, <2>2, ServerClosesDoes DEF Accept, Accepted, poolVars, InPool,
                                            Running
      <3> QED
        BY <3>1 DEF OnlyAt, Accepted
    <2>3. CASE Enqueue(d) /\ conn' = [conn EXCEPT ![d].server = "open"]
      <3>1. /\ conn[d].server = "backlog" /\ conn'[d].server = "open"
            /\ c # d => conn'[c] = conn[c]
        BY <2>1, <2>3 DEF Accept, ConnTypeOK, Connections
      <3>2. InPool(c)' /\ c # d => InPool(c)
        <4>1. jobs' = Append(jobs, d) /\ jobs \in Seq(Jobs) /\ worker' = worker
          BY <2>3 DEF Enqueue, PoolInv, PoolTypeOK
        <4> QED
          BY <4>1, ServerAssumption DEF InPool, Running
      <3> QED
        BY <3>1, <3>2 DEF Accepted
    <2> QED
      BY <2>1, <2>2, <2>3 DEF Accept
  <1>2. CASE ListenEnds \/ ListenGoesOn
    <2>1. /\ jobs' = jobs /\ conn' = conn
          /\ \A v \in Workers : worker'[v] = c => worker[v] = c
      BY <1>2, PoolAssumption, ServerAssumption
         DEF ListenEnds, ListenGoesOn, BeginShutdown, PoolOwner, NotifyOne,
             NotifyAll, Join, PoolInv, PoolTypeOK
    <2> QED
      BY <2>1 DEF Accepted, InPool, Running
  <1>3. CASE StopServer \/ AcceptError
    BY <1>3 DEF StopServer, AcceptError, BacklogGone, Accepted, InPool, Running,
                poolVars
  <1>4. CASE \E w \in Workers : ServerWorker(w) \/ WakesUp(w)
    <2>1. PICK w \in Workers : ServerWorker(w) \/ WakesUp(w)
      BY <1>4
    <2>2. CASE TakeJob(w) /\ UNCHANGED conn
      <3>1. /\ jobs \in Seq(Jobs) /\ jobs # <<>> /\ jobs' = Tail(jobs)
            /\ worker' = [worker EXCEPT ![w] = Head(jobs)]
        BY <2>2 DEF TakeJob, WorkerGo, PoolInv, PoolTypeOK
      <3>2. /\ 1 \in DOMAIN jobs /\ Head(jobs) = jobs[1]
            /\ \A i \in DOMAIN jobs' : i + 1 \in DOMAIN jobs /\ jobs'[i] = jobs[i + 1]
        BY <3>1
      <3>3. InPool(c)' => InPool(c)
        BY <3>1, <3>2 DEF InPool, Running, PoolInv, PoolTypeOK
      <3> QED
        BY <2>2, <3>3 DEF Accepted
    <2>3. CASE (Sleep(w) \/ Leave(w) \/ Spurious(w)) /\ UNCHANGED conn
      <3>1. /\ jobs' = jobs
            /\ \A v \in Workers : worker'[v] = c => worker[v] = c
        BY <2>3, PoolAssumption, ServerAssumption
           DEF Sleep, Leave, Spurious, WorkerGo, PoolInv, PoolTypeOK
      <3> QED
        BY <2>3, <3>1 DEF Accepted, InPool, Running
    <2>4. CASE CloseConnection(w)
      <3>1. PICK d \in Conns : worker[w] = d
        BY <2>4 DEF CloseConnection, At
      <3>2. OnlyAt(d) /\ conn[d].server = "open"
        BY <2>4, <3>1, ServerClosesDoes
           DEF CloseConnection, Accepted, InPool, Running
      <3>3. InPool(c)' => InPool(c) /\ c # d
        BY <2>4, <3>1, PoolAssumption, ServerAssumption
           DEF CloseConnection, FinishJob, WorkerGo, InPool, Running, PoolInv,
               PoolTypeOK, EachJobOnce
      <3> QED
        BY <3>2, <3>3 DEF OnlyAt, Accepted
    <2>5. CASE ServeRequest(w)
      <3>1. InPool(c)' = InPool(c)
        BY <2>5 DEF ServeRequest, poolVars, InPool, Running
      <3>2. CASE KeepAlive(w) \/ KeepAliveEnds(w) \/ NoLine(w)
        BY <3>1, <3>2 DEF KeepAlive, KeepAliveEnds, NoLine, Accepted
      <3>3. CASE ~ (KeepAlive(w) \/ KeepAliveEnds(w) \/ NoLine(w))
        <4>1. PICK d \in Conns : worker[w] = d
          BY <2>5 DEF ServeRequest, KeepAlive, KeepAliveEnds, ReadLine, NoLine,
                      ReadHeaders, ReadContent, ReadFails, Handle, WriteHead,
                      WriteBody, At
        <4>2. MovesAt(d) /\ conn[d].server = "open"
          BY <2>5, <3>3, <4>1, ReadLineMoves, ReadHeadersMoves,
             ReadContentMoves,
             DecideMoves, WriteHeadMoves, WriteBodyMoves
             DEF ServeRequest, Accepted, InPool, Running
        <4> QED
          BY SMTT(30), <3>1, <4>2 DEF MovesAt, OnlyAt, Accepted
      <3> QED
        BY <3>2, <3>3
    <2> QED
      BY <2>1, <2>2, <2>3, <2>4, <2>5 DEF ServerWorker, PoolWorker, WakesUp
  <1> QED
    BY <1>1, <1>2, <1>3, <1>4 DEF ServerStep, Listener

LEMMA ServerKeeps ==
  ASSUME ServerInv, ServerStep
  PROVE  ServerInv' /\ \A c \in Conns : conn'[c].client = conn[c].client
  <1>1. PoolInv'
    BY ServerInPool, PoolStep DEF ServerInv
  <1>2. /\ ConnTypeOK' /\ ServeTypeOK'
        /\ \A c \in Conns : conn'[c].client = conn[c].client
    BY ServerMoves DEF Quiet, MovesAt, OnlyAt
  <1>3. Accepted'
    BY ServerTouches DEF Accepted
  <1>4. Unused'
    <2> SUFFICES ASSUME NEW c \in Conns, conn'[c].client = "none"
                 PROVE  conn'[c] = NoConn
      BY DEF Unused
    <2>1. conn[c] = NoConn
      BY <1>2 DEF ServerInv, Unused
    <2>2. conn[c].server = "none"
      BY <2>1 DEF NoConn
    <2> QED
      BY <2>1, <2>2, ServerTouches
  <1> QED
    BY <1>1, <1>2, <1>3, <1>4 DEF ServerInv

-----------------------------------------------------------------------------
\* The clients: who holds the mutex of a client, and who uses a connection.

\* Where a call uses its connection.
Using == {"write", "write_body", "status", "body", "received"}

CallRecords ==
  [at : Using \cup {"idle", "open", "leave"}, sock : Conns \cup {None},
   req : Requests \cup {<<>>}, buf : Seq(DownCells), status : Nat,
   close : BOOLEAN, frames : Nat, left : Nat, got : SUBSET Ids]

ClientTypeOK ==
  /\ socket \in [Clients -> Conns \cup {None}]
  /\ in_flight \in [Clients -> Nat]
  /\ should_close \in [Clients -> BOOLEAN]
  /\ locked_by \in [Clients -> Threads \cup {None}]
  /\ plan \in [Threads -> Seq(Kinds \cup {"stream"})]
  /\ call \in [Threads -> CallRecords]
  /\ results \in [Threads -> Seq(SUBSET Ids)]
  /\ stopped \in [Clients -> BOOLEAN]

Sends(t) == call[t].at # "idle" /\ ~ Streams(t)

Streaming(t) == call[t].at # "idle" /\ Streams(t) /\ call[t].sock # None

Asks(t) == Sends(t) \/ Streaming(t)

\* A call of send holds the mutex from beginning to end, and its connection is
\* the client's; a stream has one of its own.
ThreadOK(t) ==
  /\ IF call[t].at = "idle" THEN call[t] = Idle ELSE plan[t] # <<>>
  /\ Sends(t) <=> locked_by[ClientOf[t]] = t
  /\ Asks(t) => call[t].req \in Requests
  /\ Sends(t) /\ call[t].at \in Using =>
        /\ call[t].frames > 0 /\ call[t].sock # None
        /\ socket[ClientOf[t]] = call[t].sock
  /\ call[t].at # "idle" /\ Streams(t) =>
        /\ call[t].frames = 0 /\ call[t].at \in (Using \ {"write_body"}) \cup {"leave"}
        /\ call[t].sock = None => call[t].at = "leave"
        /\ call[t].sock # None => call[t].req.kind = "get"

ClientOK(k) ==
  /\ locked_by[k] # None => ClientOf[locked_by[k]] = k
  /\ in_flight[k] = IF locked_by[k] = None THEN 0 ELSE call[locked_by[k]].frames

LockInv == (\A t \in Threads : ThreadOK(t)) /\ (\A k \in Clients : ClientOK(k))

\* Nobody shares a connection.
OwnInv ==
  /\ \A k, l \in Clients : socket[k] = socket[l] /\ socket[k] # None => k = l
  /\ \A s, t \in Threads :
        Streaming(s) /\ Streaming(t) /\ call[s].sock = call[t].sock => s = t
  /\ \A k \in Clients, t \in Threads : Streaming(t) => call[t].sock # socket[k]
  /\ \A k \in Clients :
        socket[k] # None => conn[socket[k]].client \in {"open", "shut"}
  /\ \A t \in Threads :
        Streaming(t) => conn[call[t].sock].client \in {"open", "shut"}

ClientInv == ClientTypeOK /\ LockInv /\ OwnInv

LEMMA UsingIs ==
  ASSUME ClientInv, NEW t \in Threads, call[t].at \in Using
  PROVE  /\ call[t] \in CallRecords /\ call[t].sock \in Conns
         /\ call[t].req \in Requests /\ Asks(t)
         /\ conn[call[t].sock].client \in {"open", "shut"}
  <1>1. call[t] \in CallRecords /\ ThreadOK(t)
    BY DEF ClientInv, ClientTypeOK, LockInv
  <1>2. call[t].at # "idle" /\ call[t].at # "leave"
    BY DEF Using
  <1>3. call[t].sock # None
    BY <1>1, <1>2 DEF ThreadOK, Sends
  <1>4. Asks(t)
    BY <1>2, <1>3 DEF Asks, Sends, Streaming
  <1>5. ClientOf[t] \in Clients
    BY ClientAssumption
  <1>6. conn[call[t].sock].client \in {"open", "shut"}
    BY <1>1, <1>3, <1>4, <1>5 DEF ClientInv, OwnInv, ThreadOK, Asks
  <1> QED
    BY <1>1, <1>3, <1>4, <1>6 DEF CallRecords, ThreadOK

\* No connection is used by two calls.
LEMMA UsedByOne ==
  ASSUME ClientInv, NEW s \in Threads, NEW t \in Threads,
         call[s].at \in Using, call[t].at \in Using, call[s].sock = call[t].sock
  PROVE  s = t
  <1>1. /\ ClientOf[s] \in Clients /\ ClientOf[t] \in Clients
        /\ ThreadOK(s) /\ ThreadOK(t) /\ Asks(s) /\ Asks(t)
        /\ s # None /\ t # None
    BY UsingIs, ClientAssumption DEF ClientInv, LockInv
  <1>2. CASE Sends(s) /\ Sends(t)
    <2>1. socket[ClientOf[s]] = socket[ClientOf[t]] /\ socket[ClientOf[s]] # None
      BY <1>1, <1>2 DEF ThreadOK
    <2>2. ClientOf[s] = ClientOf[t]
      BY <1>1, <2>1 DEF ClientInv, OwnInv
    <2> QED
      BY <1>1, <1>2, <2>2 DEF ThreadOK
  <1>3. CASE Streaming(s) \/ Streaming(t)
    BY <1>1, <1>3 DEF ClientInv, OwnInv, ThreadOK, Asks
  <1> QED
    BY <1>1, <1>2, <1>3 DEF Asks

LEMMA ClientStart ==
  ASSUME ClientInit
  PROVE  ClientInv
  <1>1. /\ Idle \in CallRecords /\ Idle.at = "idle" /\ Idle.frames = 0
    BY DEF Idle, CallRecords
  <1>2. /\ ClientTypeOK /\ \A t \in Threads : call[t] = Idle
        /\ \A k \in Clients : /\ socket[k] = None /\ locked_by[k] = None
                              /\ in_flight[k] = 0
    BY <1>1, ClientAssumption DEF ClientInit, ClientTypeOK
  <1>3. LockInv
    BY <1>1, <1>2, ClientAssumption
       DEF LockInv, ThreadOK, ClientOK, Sends, Asks, Streaming
  <1> QED
    BY <1>1, <1>2, <1>3 DEF ClientInv, OwnInv, Streaming

-----------------------------------------------------------------------------
\* A step of a call on the connection it uses.

\* What the client has still to read of the answer.
Out(t) == call[t].buf \o conn[call[t].sock].down

\* A step of a call that changes nothing but the call and its connection.
LEMMA ExchangeKeeps ==
  ASSUME ClientInv, NEW t \in Threads, OnlyCall, call[t].at \in Using,
         NEW z \in CallRecords, call' = [call EXCEPT ![t] = z],
         z.at \in Using \cup {"leave"},
         z.at = "write_body" => call[t].req.kind # "get",
         z.sock = call[t].sock, z.frames = call[t].frames, z.req = call[t].req,
         \A c \in Conns : conn'[c].client = conn[c].client
  PROVE  ClientInv'
  <1>1. /\ UNCHANGED <<socket, in_flight, should_close, locked_by, plan, results,
                       stopped>>
        /\ z.at # "idle" /\ call[t].at # "idle"
        /\ call'[t] = z /\ \A u \in Threads \ {t} : call'[u] = call[u]
        /\ call' \in [Threads -> CallRecords]
    BY DEF OnlyCall, Using, ClientInv, ClientTypeOK
  <1>2. \A u \in Threads :
           /\ call'[u].at = "idle" <=> call[u].at = "idle"
           /\ call'[u].sock = call[u].sock /\ call'[u].frames = call[u].frames
           /\ call'[u].req = call[u].req /\ Streams(u)' = Streams(u)
    BY <1>1 DEF Streams
  <1>3. \A u \in Threads :
           Sends(u)' = Sends(u) /\ Streaming(u)' = Streaming(u) /\ Asks(u)' = Asks(u)
    BY <1>2 DEF Sends, Streaming, Asks
  <1>4. ClientTypeOK'
    BY <1>1 DEF ClientInv, ClientTypeOK
  <1>5. ASSUME NEW u \in Threads
        PROVE  ThreadOK(u)'
    <2>1. ThreadOK(u)
      BY DEF ClientInv, LockInv
    <2>2. /\ (IF call[u].at = "idle" THEN call[u] = Idle ELSE plan[u] # <<>>)'
          /\ (Sends(u) <=> locked_by[ClientOf[u]] = u)'
          /\ (Asks(u) => call[u].req \in Requests)'
      BY <1>1, <1>2, <1>3, <2>1 DEF ThreadOK
    <2>3. CASE u = t
      <3>1. /\ call'[u].at = z.at /\ call'[u].sock = call[u].sock
            /\ call'[u].frames = call[u].frames /\ call'[u].req = call[u].req
            /\ call[u].at # "idle" /\ call[u].at # "leave"
        BY <1>1, <1>2, <2>3 DEF Using
      <3>2. (Sends(u) /\ call[u].at \in Using =>
               /\ call[u].frames > 0 /\ call[u].sock # None
               /\ socket[ClientOf[u]] = call[u].sock)'
        BY <1>1, <1>3, <2>1, <2>3, <3>1 DEF ThreadOK
      <3>3. ASSUME Streams(u)
            PROVE  /\ call[u].frames = 0 /\ call[u].sock # None
                   /\ call[u].req.kind = "get"
                   /\ z.at \in (Using \ {"write_body"}) \cup {"leave"}
        BY <2>1, <2>3, <3>1, <3>3 DEF ThreadOK, Using
      <3> QED
        BY <1>2, <2>2, <2>3, <3>1, <3>2, <3>3 DEF ThreadOK
    <2>4. CASE u # t
      BY <1>1, <1>2, <1>3, <2>1, <2>4 DEF ThreadOK
    <2> QED
      BY <2>3, <2>4
  <1>6. \A k \in Clients : ClientOK(k)'
    BY <1>1, <1>2 DEF ClientInv, ClientTypeOK, LockInv, ClientOK
  <1>7. OwnInv'
    <2>1. \A u \in Threads : Streaming(u) => call[u].sock \in Conns
      BY DEF ClientInv, ClientTypeOK, CallRecords, Streaming
    <2>2. \A k \in Clients : socket[k] # None => socket[k] \in Conns
      BY DEF ClientInv, ClientTypeOK
    <2> QED
      BY <1>1, <1>2, <1>3, <2>1, <2>2 DEF ClientInv, OwnInv
  <1> QED
    BY <1>4, <1>5, <1>6, <1>7 DEF ClientInv, LockInv

Line(q) == [k |-> "line", req |-> q]
Headers(q) == [k |-> "headers", req |-> q]
Content(q) == [k |-> "body", req |-> q]

SendsRequest(t) ==
  LET c == call[t].sock
      q == call[t].req
  IN
  /\ call[t].at = "write" /\ call'[t].got = call[t].got
  /\ call'[t].at = (IF HasContent(q.kind) THEN "write_body" ELSE "status")
  /\ call'[t].buf = call[t].buf /\ Begins(conn'[c].down, conn[c].down)
  /\ conn'[c].up \in {conn[c].up, conn[c].up \o <<Line(q), Headers(q)>>}

SendsContent(t) ==
  LET c == call[t].sock
      q == call[t].req
  IN
  /\ call[t].at = "write_body" /\ call'[t].got = call[t].got
  /\ call'[t].at = "status"
  /\ call'[t].buf = call[t].buf /\ Begins(conn'[c].down, conn[c].down)
  /\ conn'[c].up \in {conn[c].up, Append(conn[c].up, Content(q))}

\* The call fails; got is empty while the status is waited for.
Abandons(t) ==
  /\ call'[t].at = "leave" /\ conn'[call[t].sock].up = conn[call[t].sock].up
  /\ \/ call'[t].got = {}
     \/ call[t].at = "status" /\ call'[t].got = call[t].got

TakesStatus(t) ==
  LET c == call[t].sock
      cell == Out(t)[1]
  IN
  /\ call[t].at = "status" /\ conn'[c].up = conn[c].up
  /\ Out(t) # <<>> /\ Drops(Out(t), 1, Out(t)')
  /\ cell.k = "head"
  /\ IF cell.status = 100 THEN call'[t].at = "status" /\ call'[t].got = call[t].got
     ELSE /\ call'[t].at = (IF cell.more THEN "body" ELSE "received")
          /\ call'[t].got = {cell.id} /\ call'[t].close = cell.close

TakesBody(t) ==
  LET c == call[t].sock
      cell == Out(t)[1]
  IN
  /\ call[t].at = "body" /\ conn'[c].up = conn[c].up
  /\ Out(t) # <<>> /\ Drops(Out(t), 1, Out(t)')
  /\ call'[t].at = "received" /\ call'[t].got = call[t].got \cup {cell.id}
  /\ call'[t].close = call[t].close

\* A step of a call on its connection, seen from there.
CallStep(t) ==
  /\ ConnTypeOK' /\ ClientInv' /\ OnlyAt(call[t].sock) /\ OnlyCall
  /\ \A u \in Threads \ {t} : call'[u] = call[u]
  /\ call'[t].sock = call[t].sock /\ call'[t].req = call[t].req
  /\ call'[t].frames = call[t].frames
  /\ conn'[call[t].sock].client = conn[call[t].sock].client
  /\ conn'[call[t].sock].server = conn[call[t].sock].server

Calls(t) ==
  /\ CallStep(t)
  /\ \/ SendsRequest(t) \/ SendsContent(t) \/ Abandons(t) \/ TakesStatus(t)
     \/ TakesBody(t)

Failed(z) == [z EXCEPT !.at = "leave", !.got = {}]

LEMMA FailedIs ==
  ASSUME NEW z \in CallRecords
  PROVE  /\ Failed(z) \in CallRecords /\ Failed(z).at = "leave"
         /\ Failed(z).got = {} /\ Failed(z).sock = z.sock
         /\ Failed(z).req = z.req /\ Failed(z).frames = z.frames
         /\ Failed(z).buf = z.buf
  BY DEF Failed, CallRecords

LEMMA GoesIs ==
  ASSUME NEW z \in CallRecords, NEW at \in Using \cup {"leave"}
  PROVE  /\ Going(z, at) \in CallRecords /\ Going(z, at).at = at
         /\ Going(z, at).got = z.got /\ Going(z, at).sock = z.sock
         /\ Going(z, at).req = z.req /\ Going(z, at).frames = z.frames
         /\ Going(z, at).buf = z.buf /\ Going(z, at).left = z.left
         /\ Going(z, at).close = z.close /\ Going(z, at).status = z.status
  BY DEF Going, CallRecords

LEMMA WriteCalls ==
  ASSUME ClientInv, ConnTypeOK, NEW t \in Threads, Write(t)
  PROVE  Calls(t)
  <1>1. call[t].at \in Using /\ OnlyCall
    BY DEF Write, Step, Using
  <1>2. PICK c, q : c = call[t].sock /\ q = call[t].req
    OBVIOUS
  <1>3. /\ c \in Conns /\ q \in Requests /\ call[t] \in CallRecords
        /\ conn[c] \in Connections /\ conn[c].up \in Seq(UpCells)
        /\ conn[c].down \in Seq(DownCells)
    BY <1>1, <1>2, UsingIs DEF ConnTypeOK, Connections
  <1>4. Line(q) \in UpCells /\ Headers(q) \in UpCells /\ Content(q) \in UpCells
    BY <1>3 DEF Line, Headers, Content, UpCells
  <1>a. PICK then : then = IF HasContent(q.kind) THEN "write_body" ELSE "status"
    OBVIOUS
  <1>b. PICK at, z :
          /\ call' = [call EXCEPT ![t] = z]
          /\ \/ /\ at = then /\ z = Going(call[t], at) /\ call[t].at = "write"
                /\ ClientSends(c, <<Line(q), Headers(q)>>)
             \/ /\ at = "status" /\ z = Going(call[t], at)
                /\ call[t].at = "write_body" /\ ClientSends(c, <<Content(q)>>)
             \/ at = "leave" /\ z = Failed(call[t]) /\ UNCHANGED conn
    BY <1>2, <1>a DEF Write, Step, To, Fails, Going, Failed, Line, Headers,
       Content,
       ClientInv, ClientTypeOK
  <1>5. /\ call' = [call EXCEPT ![t] = z] /\ at \in {"write_body", "status", "leave"}
        /\ z = IF at = "leave" THEN Failed(call[t]) ELSE Going(call[t], at)
        /\ \/ /\ call[t].at = "write" /\ ClientSends(c, <<Line(q), Headers(q)>>)
              /\ at = IF HasContent(q.kind) THEN "write_body" ELSE "status"
           \/ /\ call[t].at = "write_body" /\ ClientSends(c, <<Content(q)>>)
              /\ at = "status"
           \/ at = "leave" /\ UNCHANGED conn
    BY <1>a, <1>b
  <1>6. /\ z \in CallRecords /\ z.at = at /\ z.sock = c /\ z.req = q
        /\ z.frames = call[t].frames /\ z.buf = call[t].buf
        /\ z.got = IF at = "leave" THEN {} ELSE call[t].got
    <2>1. CASE at = "leave"
      BY <1>2, <1>3, <1>5, <2>1, FailedIs
    <2>2. CASE at # "leave"
      BY <1>2, <1>3, <1>5, <2>2, GoesIs DEF Using
    <2> QED
      BY <2>1, <2>2
  <1>7. /\ ConnTypeOK' /\ OnlyAt(c)
        /\ conn'[c].client = conn[c].client /\ conn'[c].server = conn[c].server
        /\ \/ at = "leave" /\ conn'[c].up = conn[c].up
           \/ /\ call[t].at = "write"
              /\ at = IF HasContent(q.kind) THEN "write_body" ELSE "status"
              /\ conn'[c].up \in {conn[c].up, conn[c].up \o <<Line(q), Headers(q)>>}
              /\ Begins(conn'[c].down, conn[c].down)
           \/ /\ call[t].at = "write_body" /\ at = "status"
              /\ conn'[c].up \in {conn[c].up, Append(conn[c].up, Content(q))}
              /\ Begins(conn'[c].down, conn[c].down)
    <2>1. CASE at = "leave" /\ UNCHANGED conn
      BY <2>1 DEF ConnTypeOK, OnlyAt
    <2>2. CASE ClientSends(c, <<Line(q), Headers(q)>>) /\ call[t].at = "write"
               /\ at = IF HasContent(q.kind) THEN "write_body" ELSE "status"
      <3>1. PICK cells : cells = <<Line(q), Headers(q)>>
        OBVIOUS
      <3>2. cells \in Seq(UpCells) /\ ClientSends(c, cells)
        BY <1>4, <2>2, <3>1
      <3> QED
        BY <1>3, <2>2, <3>1, <3>2, ClientSendsDoes
    <2>3. CASE ClientSends(c, <<Content(q)>>) /\ call[t].at = "write_body"
               /\ at = "status"
      <3>1. PICK cells, x,
                 up : x = Content(q) /\ cells = <<x>> /\ up = conn[c].up
        OBVIOUS
      <3>2. cells \in Seq(UpCells) /\ ClientSends(c, cells)
        BY <1>4, <2>3, <3>1
      <3>3. up \o cells = Append(up, x)
        BY <1>3, <1>4, <3>1
      <3> QED
        BY <1>3, <2>3, <3>1, <3>2, <3>3, ClientSendsDoes
    <2> QED
      BY <1>5, <2>1, <2>2, <2>3
  <1>8. \A d \in Conns : conn'[d].client = conn[d].client
    BY <1>7 DEF OnlyAt
  <1>9. /\ call'[t] = z /\ \A u \in Threads \ {t} : call'[u] = call[u]
    BY <1>5 DEF ClientInv, ClientTypeOK
  <1>10. ClientInv'
    <2>1. z.at = "write_body" => call[t].req.kind # "get"
      BY <1>2, <1>6, <1>7 DEF HasContent
    <2>2. z.at \in Using \cup {"leave"}
      BY <1>5, <1>6 DEF Using
    <2> QED
      BY <1>1, <1>2, <1>5, <1>6, <1>8, <2>1, <2>2, ExchangeKeeps
  <1>11. SendsRequest(t) \/ SendsContent(t) \/ Abandons(t)
    <2>1. CASE at = "leave"
      BY SMTT(30), <1>2, <1>6, <1>7, <1>9, <2>1 DEF Abandons, HasContent
    <2>2. CASE at # "leave" /\ call[t].at = "write"
      BY ZenonT(60), <1>2, <1>6, <1>7, <1>9, <2>2 DEF SendsRequest
    <2>3. CASE at # "leave" /\ call[t].at = "write_body"
      BY <1>2, <1>6, <1>7, <1>9, <2>3 DEF SendsContent
    <2> QED
      BY <1>7, <2>1, <2>2, <2>3
  <1> QED
    BY <1>1, <1>2, <1>6, <1>7, <1>9, <1>10, <1>11 DEF Calls, CallStep

Buffered(z, b) == [z EXCEPT !.buf = b]

Replied(z, cell) ==
  [z EXCEPT !.status = cell.status, !.close = cell.close, !.got = {cell.id},
            !.at = IF cell.more THEN "body" ELSE "received"]

Completed(z, b, ids) == [z EXCEPT !.buf = b, !.at = "received", !.got = ids]

LEMMA BufferedIs ==
  ASSUME NEW z \in CallRecords, NEW b \in Seq(DownCells)
  PROVE  /\ Buffered(z, b) \in CallRecords /\ Buffered(z, b).buf = b
         /\ Buffered(z, b).at = z.at /\ Buffered(z, b).got = z.got
         /\ Buffered(z, b).sock = z.sock /\ Buffered(z, b).req = z.req
         /\ Buffered(z, b).frames = z.frames
  BY DEF Buffered, CallRecords

LEMMA RepliedIs ==
  ASSUME NEW z \in CallRecords, NEW cell \in DownCells, cell.k = "head"
  PROVE  /\ Replied(z, cell) \in CallRecords
         /\ Replied(z, cell).at = (IF cell.more THEN "body" ELSE "received")
         /\ Replied(z, cell).got = {cell.id}
         /\ Replied(z, cell).close = cell.close
         /\ Replied(z, cell).sock = z.sock /\ Replied(z, cell).req = z.req
         /\ Replied(z, cell).frames = z.frames /\ Replied(z, cell).buf = z.buf
  <1>1. /\ cell.status \in Nat /\ cell.close \in BOOLEAN /\ cell.id \in Ids
        /\ cell.more \in BOOLEAN
    BY DEF DownCells
  <1>2. PICK a, b, c, at : /\ a = cell.status /\ b = cell.close /\ c = {cell.id}
                           /\ at = IF cell.more THEN "body" ELSE "received"
    OBVIOUS
  <1>3. /\ a \in Nat /\ b \in BOOLEAN /\ c \in SUBSET Ids
        /\ at \in {"body", "received"}
    BY <1>1, <1>2
  <1>4. Replied(z, cell) = [z EXCEPT !.status = a, !.close = b, !.got = c, !.at = at]
    BY <1>2 DEF Replied
  <1> QED
    BY <1>2, <1>3, <1>4 DEF CallRecords, Using

LEMMA CompletedIs ==
  ASSUME NEW z \in CallRecords, NEW b \in Seq(DownCells), NEW ids \in SUBSET Ids
  PROVE  /\ Completed(z, b, ids) \in CallRecords
         /\ Completed(z, b, ids).at = "received"
         /\ Completed(z, b, ids).got = ids
         /\ Completed(z, b, ids).close = z.close
         /\ Completed(z, b, ids).sock = z.sock
         /\ Completed(z, b, ids).req = z.req
         /\ Completed(z, b, ids).frames = z.frames
         /\ Completed(z, b, ids).buf = b
  BY DEF Completed, CallRecords, Using

\* What a call reads, cell by cell, and what that does to its connection.
LEMMA AnswerArrives ==
  ASSUME ClientInv, ConnTypeOK, NEW t \in Threads, call[t].at \in Using,
         NEW c \in Conns, call[t].sock = c,
         NEW r \in Reads(conn[c].down, call[t].buf)
  PROVE  /\ r.cell \in DownCells /\ r.buf \in Seq(DownCells)
         /\ r.left \in Seq(DownCells)
         /\ Out(t) # <<>> /\ r.cell = Out(t)[1]
         /\ Drops(Out(t), 1, r.buf \o r.left)
  <1>1. PICK down, buf : down = conn[c].down /\ buf = call[t].buf
    OBVIOUS
  <1>2. down \in Seq(DownCells) /\ buf \in Seq(DownCells)
    BY <1>1 DEF ClientInv, ClientTypeOK, CallRecords, ConnTypeOK, Connections
  <1>3. r \in Reads(down, buf)
    BY <1>1
  <1>4. /\ r.cell \in DownCells /\ r.buf \in Seq(DownCells)
        /\ r.left \in Seq(DownCells)
        /\ buf \o down # <<>> /\ r.cell = (buf \o down)[1]
        /\ Drops(buf \o down, 1, r.buf \o r.left)
    BY <1>2, <1>3, ReadsHead
  <1>6. Out(t) = buf \o down
    BY <1>1 DEF Out
  <1> QED
    BY <1>4, <1>6, Zenon

\* A step that leaves q to read on c, and touches nothing else.
Unread(c, q) ==
  /\ ConnTypeOK' /\ OnlyAt(c) /\ conn'[c].client = conn[c].client
  /\ conn'[c].server = conn[c].server /\ conn'[c].up = conn[c].up
  /\ conn'[c].down = q

Sets(t, z) == call' = [call EXCEPT ![t] = z]

\* What all steps that read have in common.
LEMMA ReadingKeeps ==
  ASSUME ClientInv, ConnTypeOK, NEW t \in Threads, call[t].at \in Using,
         OnlyCall,
         NEW c \in Conns, call[t].sock = c,
         NEW q \in Seq(DownCells), Unread(c, q),
         NEW z \in CallRecords, Sets(t, z),
         z.at \in {"status", "body", "received", "leave"}, z.sock = c,
         z.req = call[t].req, z.frames = call[t].frames
  PROVE  /\ CallStep(t) /\ call'[t] = z /\ conn'[c].up = conn[c].up
         /\ call'[t].sock = c /\ conn'[c].down = q
  <1>2. /\ conn'[c].client = conn[c].client /\ conn'[c].server = conn[c].server
        /\ conn'[c].up = conn[c].up /\ conn'[c].down = q
        /\ ConnTypeOK' /\ OnlyAt(c)
    BY DEF Unread
  <1>3. call'[t] = z /\ \A u \in Threads \ {t} : call'[u] = call[u]
    BY DEF ClientInv, ClientTypeOK, Sets
  <1>4. ClientInv'
    <2>1. /\ z.at \in Using \cup {"leave"} /\ z.at # "write_body"
          /\ \A d \in Conns : conn'[d].client = conn[d].client
          /\ z.sock = call[t].sock
      BY <1>2 DEF Using, OnlyAt
    <2> QED
      BY <2>1, ExchangeKeeps DEF Sets
  <1> QED
    BY <1>2, <1>3, <1>4 DEF CallStep

LEMMA ReadStatusCalls ==
  ASSUME ClientInv, ConnTypeOK, NEW t \in Threads, ReadStatus(t)
  PROVE  Calls(t)
  <1>1. call[t].at = "status" /\ call[t].at \in Using /\ OnlyCall
    BY DEF ReadStatus, Step, Using
  <1>2. PICK c : c = call[t].sock
    OBVIOUS
  <1>3. c \in Conns /\ call[t] \in CallRecords
    BY <1>1, <1>2, UsingIs
  <1>a. PICK r \in Reads(conn[c].down, call[t].buf) :
          /\ conn' = [conn EXCEPT ![c].down = r.left]
          /\ call' = [call EXCEPT ![t] =
               CASE r.cell.k # "head" -> Going(Buffered(call[t], r.buf), "leave")
                 [] r.cell.k = "head" /\ r.cell.status = 100 ->
                      Buffered(call[t], r.buf)
                 [] OTHER -> Replied(Buffered(call[t], r.buf), r.cell)]
    BY <1>2, Zenon DEF ReadStatus, Buffered, Replied, Going
  <1>4. PICK y, z :
          /\ y = Buffered(call[t], r.buf)
          /\ call' = [call EXCEPT ![t] = z]
          /\ z = CASE r.cell.k # "head" -> Going(y, "leave")
                   [] r.cell.k = "head" /\ r.cell.status = 100 -> y
                   [] OTHER -> Replied(y, r.cell)
    BY <1>a
  <1>5. /\ r.cell \in DownCells /\ r.buf \in Seq(DownCells)
        /\ r.left \in Seq(DownCells)
        /\ Out(t) # <<>> /\ r.cell = Out(t)[1]
        /\ Drops(Out(t), 1, r.buf \o r.left)
    BY <1>1, <1>2, <1>3, AnswerArrives
  <1>6. /\ y \in CallRecords /\ y.buf = r.buf /\ y.at = "status"
        /\ y.got = call[t].got /\ y.sock = c /\ y.req = call[t].req
        /\ y.frames = call[t].frames
    BY <1>1, <1>2, <1>3, <1>4, <1>5, BufferedIs
  <1>7. /\ z \in CallRecords /\ z.buf = r.buf /\ z.sock = c /\ z.req = call[t].req
        /\ z.frames = call[t].frames
        /\ \/ z.at = "leave" /\ z.got = call[t].got
           \/ /\ r.cell.k = "head" /\ r.cell.status = 100
              /\ z.at = "status" /\ z.got = call[t].got
           \/ /\ r.cell.k = "head" /\ r.cell.status # 100
              /\ z.at = (IF r.cell.more THEN "body" ELSE "received")
              /\ z.got = {r.cell.id} /\ z.close = r.cell.close
    <2>1. CASE r.cell.k # "head"
      BY <1>4, <1>6, <2>1, GoesIs
    <2>2. CASE r.cell.k = "head" /\ r.cell.status = 100
      BY <1>4, <1>6, <2>2
    <2>3. CASE r.cell.k = "head" /\ r.cell.status # 100
      <3>1. z = Replied(y, r.cell)
        BY <1>4, <2>3
      <3> QED
        BY <1>5, <1>6, <2>3, <3>1, RepliedIs
    <2> QED
      BY <2>1, <2>2, <2>3
  <1>8. /\ CallStep(t) /\ call'[t] = z /\ conn'[c].up = conn[c].up
        /\ Out(t)' = r.buf \o r.left
    <2>1. z.at \in {"status", "body", "received", "leave"}
      BY <1>7
    <2>2. PICK q : q = r.left
      OBVIOUS
    <2>5. q \in Seq(DownCells) /\ conn' = [conn EXCEPT ![c].down = q]
      BY <1>a, <1>5, <2>2
    <2>6. Unread(c, q)
      BY <1>3, <2>5 DEF ConnTypeOK, Connections, OnlyAt, Unread
    <2>3. /\ call[t].sock = c /\ q \in Seq(DownCells)
          /\ z \in CallRecords /\ Sets(t, z) /\ z.sock = c
          /\ z.req = call[t].req /\ z.frames = call[t].frames
      BY <1>2, <1>4, <1>7, <2>5 DEF Sets
    <2>4. /\ CallStep(t) /\ call'[t] = z /\ conn'[c].up = conn[c].up
          /\ call'[t].sock = c /\ conn'[c].down = q
      BY <1>1, <1>3, <2>1, <2>3, <2>6, ReadingKeeps
    <2> QED
      BY <1>7, <2>2, <2>4 DEF Out
  <1>9. Drops(Out(t), 1, Out(t)')
    BY <1>5, <1>8, Zenon
  <1>10. Abandons(t) \/ TakesStatus(t)
    BY <1>1, <1>2, <1>5, <1>7, <1>8, <1>9 DEF Abandons, TakesStatus
  <1> QED
    BY <1>8, <1>10 DEF Calls

LEMMA ReadBodyCalls ==
  ASSUME ClientInv, ConnTypeOK, NEW t \in Threads, ReadBody(t)
  PROVE  Calls(t)
  <1>1. call[t].at = "body" /\ call[t].at \in Using /\ OnlyCall
    BY DEF ReadBody, Step, Using
  <1>2. PICK c : c = call[t].sock
    OBVIOUS
  <1>3. c \in Conns /\ call[t] \in CallRecords
    BY <1>1, <1>2, UsingIs
  <1>a. PICK r \in Reads(conn[c].down, call[t].buf) :
          /\ conn' = [conn EXCEPT ![c].down = r.left]
          /\ call' = [call EXCEPT ![t].buf = r.buf, ![t].at = "received",
                                  ![t].got = @ \cup {r.cell.id}]
    BY <1>2 DEF ReadBody
  <1>b. PICK b, ids : b = r.buf /\ ids = call[t].got \cup {r.cell.id}
    OBVIOUS
  <1>4. PICK z : z = Completed(call[t], b, ids)
    OBVIOUS
  <1>c. call' = [call EXCEPT ![t] = z]
    <2>1. call' = [call EXCEPT ![t].buf = b, ![t].at = "received", ![t].got = ids]
      BY <1>3, <1>a, <1>b DEF ClientInv, ClientTypeOK, CallRecords
    <2> QED
      BY <1>3, <1>4, <2>1 DEF Completed, ClientInv, ClientTypeOK, CallRecords
  <1>5. /\ r.cell \in DownCells /\ r.buf \in Seq(DownCells)
        /\ r.left \in Seq(DownCells)
        /\ Out(t) # <<>> /\ r.cell = Out(t)[1]
        /\ Drops(Out(t), 1, r.buf \o r.left)
    BY <1>1, <1>2, <1>3, AnswerArrives
  <1>7. /\ z \in CallRecords /\ z.buf = r.buf /\ z.sock = c /\ z.req = call[t].req
        /\ z.frames = call[t].frames /\ z.at = "received"
        /\ z.got = call[t].got \cup {r.cell.id} /\ z.close = call[t].close
    <2>1. b \in Seq(DownCells) /\ ids \in SUBSET Ids
      BY <1>3, <1>5, <1>b DEF CallRecords, DownCells
    <2> QED
      BY <1>2, <1>3, <1>4, <1>b, <2>1, CompletedIs
  <1>8. /\ CallStep(t) /\ call'[t] = z /\ conn'[c].up = conn[c].up
        /\ Out(t)' = r.buf \o r.left
    <2>1. z.at \in {"status", "body", "received", "leave"}
      BY <1>7
    <2>2. PICK q : q = r.left
      OBVIOUS
    <2>5. q \in Seq(DownCells) /\ conn' = [conn EXCEPT ![c].down = q]
      BY <1>a, <1>5, <2>2
    <2>6. Unread(c, q)
      BY <1>3, <2>5 DEF ConnTypeOK, Connections, OnlyAt, Unread
    <2>3. /\ call[t].sock = c /\ q \in Seq(DownCells)
          /\ z \in CallRecords /\ Sets(t, z) /\ z.sock = c
          /\ z.req = call[t].req /\ z.frames = call[t].frames
      BY <1>2, <1>c, <1>7, <2>5 DEF Sets
    <2>4. /\ CallStep(t) /\ call'[t] = z /\ conn'[c].up = conn[c].up
          /\ call'[t].sock = c /\ conn'[c].down = q
      BY <1>1, <1>3, <2>1, <2>3, <2>6, ReadingKeeps
    <2> QED
      BY <1>7, <2>2, <2>4 DEF Out
  <1>9. Drops(Out(t), 1, Out(t)')
    BY <1>5, <1>8, Zenon
  <1>10. TakesBody(t)
    BY <1>1, <1>2, <1>5, <1>7, <1>8, <1>9 DEF TakesBody
  <1> QED
    BY <1>8, <1>10 DEF Calls

LEMMA ReadTimesOutCalls ==
  ASSUME ClientInv, ConnTypeOK, NEW t \in Threads, ReadTimesOut(t)
  PROVE  Calls(t)
  <1>1. call[t].at \in Using /\ OnlyCall /\ UNCHANGED conn
    BY DEF ReadTimesOut, Step, Using, Fails
  <1>2. PICK c, z : c = call[t].sock /\ z = Failed(call[t])
    OBVIOUS
  <1>3. c \in Conns /\ call[t] \in CallRecords /\ conn[c] \in Connections
    BY <1>1, <1>2, UsingIs DEF ConnTypeOK
  <1>4. call' = [call EXCEPT ![t] = z]
    BY <1>2 DEF ReadTimesOut, Fails, Failed, ClientInv, ClientTypeOK
  <1>5. /\ z \in CallRecords /\ z.at = "leave" /\ z.got = {} /\ z.sock = c
        /\ z.req = call[t].req /\ z.frames = call[t].frames
    BY <1>2, <1>3, FailedIs
  <1>6. /\ CallStep(t) /\ call'[t] = z /\ conn'[c].up = conn[c].up
    <2>1. PICK q : q = conn[c].down
      OBVIOUS
    <2>2. q \in Seq(DownCells) /\ Unread(c, q)
      BY <1>1, <1>3, <2>1 DEF Connections, ConnTypeOK, Unread, OnlyAt
    <2>3. z.at \in {"status", "body", "received", "leave"}
      BY <1>5
    <2>4. Sets(t, z)
      BY <1>4 DEF Sets
    <2> QED
      BY <1>1, <1>2, <1>3, <1>5, <2>2, <2>3, <2>4, ReadingKeeps
  <1>7. Abandons(t)
    BY <1>2, <1>5, <1>6 DEF Abandons
  <1> QED
    BY <1>6, <1>7 DEF Calls

-----------------------------------------------------------------------------
\* What else a client does with its connections: they are opened, shut and
\* closed.

\* What a step of a client may do to a connection besides the exchange on it.
Closes(c) ==
  /\ conn[c].client \in {"open", "shut"} /\ conn'[c].client = "closed"
  /\ conn'[c].server = conn[c].server /\ conn'[c].down = <<>>
  /\ Begins(conn'[c].up, conn[c].up)

Shuts(c) ==
  /\ conn[c].client \in {"open", "shut"} /\ conn'[c].client = "shut"
  /\ conn'[c].server = conn[c].server /\ conn'[c].down = conn[c].down
  /\ conn'[c].up = conn[c].up

Opens(c) ==
  /\ conn[c].client = "none" /\ conn'[c].client = "open"
  /\ conn'[c].server = "backlog"
  /\ conn'[c].up = <<>> /\ conn'[c].down = <<>>

Drift ==
  /\ ConnTypeOK'
  /\ \A c \in Conns : conn'[c] = conn[c] \/ Closes(c) \/ Shuts(c) \/ Opens(c)

LEMMA DriftKeeps ==
  ASSUME ServerInv, Drift, UNCHANGED serverVars
  PROVE  ServerInv'
  <1>1. UNCHANGED <<poolVars, serve>>
    BY DEF serverVars
  <1>2. PoolInv' /\ ServeTypeOK' /\ ConnTypeOK'
    BY <1>1, PoolStep DEF ServerInv, ServeTypeOK, poolVars, Drift
  <1>3. \A c \in Conns : InPool(c)' = InPool(c)
    BY <1>1 DEF poolVars, InPool, Running
  <1>4. Accepted'
    BY <1>3 DEF ServerInv, Accepted, Unused, NoConn, Drift, Closes, Shuts, Opens
  <1>5. Unused'
    BY DEF ServerInv, Unused, Drift, Closes, Shuts, Opens
  <1> QED
    BY <1>2, <1>4, <1>5 DEF ServerInv

LEMMA CallStepKeeps ==
  ASSUME ServerInv, ClientInv, NEW t \in Threads, call[t].at \in Using,
         CallStep(t), UNCHANGED serverVars
  PROVE  ServerInv'
  <1>1. UNCHANGED <<poolVars, serve>>
    BY DEF serverVars
  <1>2. PoolInv' /\ ServeTypeOK' /\ ConnTypeOK'
    BY <1>1, PoolStep DEF ServerInv, ServeTypeOK, poolVars, CallStep
  <1>3. \A c \in Conns : InPool(c)' = InPool(c)
    BY <1>1 DEF poolVars, InPool, Running
  <1>4. PICK c : c = call[t].sock
    OBVIOUS
  <1>5. /\ c \in Conns /\ conn'[c].server = conn[c].server
        /\ conn'[c].client = conn[c].client /\ conn[c].client # "none"
        /\ \A d \in Conns \ {c} : conn'[d] = conn[d]
    BY <1>4, UsingIs DEF CallStep, OnlyAt
  <1>6. Accepted' /\ Unused'
    BY <1>3, <1>5 DEF ServerInv, Accepted, Unused
  <1> QED
    BY <1>2, <1>6 DEF ServerInv

LEMMA ClosesIs ==
  ASSUME ConnTypeOK, NEW c \in Conns, conn[c].client \in {"open", "shut"},
         ClientCloses(c)
  PROVE  Drift /\ Closes(c) /\ OnlyAt(c)
  BY ClientClosesDoes DEF Drift, Closes, OnlyAt

LEMMA ShutsIs ==
  ASSUME ConnTypeOK, NEW c \in Conns, conn[c].client \in {"open", "shut"},
         ClientShutsDown(c)
  PROVE  Drift /\ Shuts(c) /\ OnlyAt(c)
  <1>1. /\ conn' = [conn EXCEPT ![c] = [conn[c] EXCEPT !.client = "shut"]]
        /\ conn[c] \in Connections
    BY DEF ClientShutsDown, ConnTypeOK, Connections
  <1>2. ConnTypeOK' /\ Shuts(c) /\ OnlyAt(c)
    BY <1>1 DEF ConnTypeOK, Connections, Shuts, OnlyAt
  <1> QED
    BY <1>2 DEF Drift, OnlyAt

LEMMA SocketIs ==
  ASSUME ClientInv, NEW k \in Clients, socket[k] # None
  PROVE  socket[k] \in Conns /\ conn[socket[k]].client \in {"open", "shut"}
  BY DEF ClientInv, ClientTypeOK, OwnInv

LEMMA CloseSocketDoes ==
  ASSUME ClientInv, ConnTypeOK, NEW k \in Clients, CloseSocket(k)
  PROVE  /\ Drift /\ socket' = [socket EXCEPT ![k] = None]
         /\ \A c \in Conns : c # socket[k] => conn'[c] = conn[c]
         /\ socket[k] # None => Closes(socket[k])
  <1>1. CASE socket[k] = None
    BY <1>1 DEF CloseSocket, Drift, ConnTypeOK
  <1>2. CASE socket[k] # None
    <2>1. PICK c \in Conns : c = socket[k] /\ conn[c].client \in {"open", "shut"}
      BY <1>2, SocketIs
    <2>2. Drift /\ Closes(c) /\ OnlyAt(c)
      BY <1>2, <2>1, ClosesIs DEF CloseSocket
    <2> QED
      BY <2>1, <2>2 DEF CloseSocket, OnlyAt
  <1> QED
    BY <1>1, <1>2

LEMMA ConnectDoes ==
  ASSUME ClientInv, ConnTypeOK, Unused, NEW k \in Clients,
         NEW c \in Conns \cup {None}, Connect(k, c)
  PROVE  /\ Drift
         /\ \A d \in Conns : d \notin {c, socket[k]} => conn'[d] = conn[d]
         /\ socket[k] # None => Closes(socket[k])
         /\ c \in Conns => Opens(c)
         /\ c # None => c \in Conns /\ c # socket[k]
  <1>1. socket[k] # None =>
           /\ socket[k] \in Conns /\ conn[socket[k]].client \in {"open", "shut"}
           /\ conn[socket[k]].down = <<>>
    BY SocketIs DEF Connect, SeemsDead
  <1>2. c \in Conns => c # None /\ conn[c] = NoConn /\ conn[c].client = "none"
    BY ClientAssumption DEF Connect, Unused
  <1>3. c \in Conns => c # socket[k]
    BY <1>1, <1>2
  <1>4. ASSUME NEW d \in Conns, d \notin {c, socket[k]}
        PROVE  conn'[d] = conn[d]
    BY <1>4 DEF Connect
  <1>5. ASSUME c \in Conns
        PROVE  Opens(c) /\ conn'[c] \in Connections
    <2>1. conn'[c] = [conn[c] EXCEPT !.client = "open", !.server = "backlog"]
      BY <1>5 DEF Connect
    <2>2. conn[c] \in Connections /\ conn[c].up = <<>> /\ conn[c].down = <<>>
      BY <1>2, <1>5 DEF NoConn, ConnTypeOK
    <2>3. /\ conn'[c] \in Connections /\ conn'[c].client = "open"
          /\ conn'[c].server = "backlog"
          /\ conn'[c].up = conn[c].up /\ conn'[c].down = conn[c].down
      BY <2>1, <2>2 DEF Connections
    <2> QED
      BY <1>2, <1>5, <2>2, <2>3 DEF Opens
  <1>6. ASSUME socket[k] # None
        PROVE  Closes(socket[k]) /\ conn'[socket[k]] \in Connections
    <2>1. PICK d \in Conns : d = socket[k]
      BY <1>1, <1>6
    <2>2. conn'[d] = [conn[d] EXCEPT !.client = "closed"]
      BY <1>1, <1>2, <1>6, <2>1 DEF Connect
    <2>3. conn[d] \in Connections /\ conn[d].up \in Seq(UpCells)
      BY DEF ConnTypeOK, Connections
    <2>4. /\ conn'[d].client = "closed" /\ conn'[d].server = conn[d].server
          /\ conn'[d].up = conn[d].up /\ conn'[d].down = conn[d].down
          /\ conn'[d] \in Connections
      BY <2>2, <2>3 DEF Connections
    <2> QED
      BY <1>1, <1>6, <2>1, <2>3, <2>4, BeginsItself DEF Closes
  <1>7. ConnTypeOK'
    <2>1. conn' \in [Conns -> Connections]
      <3>1. ASSUME NEW d \in Conns
            PROVE  conn'[d] \in Connections
        <4>1. d = socket[k] => socket[k] # None
          BY ClientAssumption
        <4>2. CASE d \notin {c, socket[k]}
          BY <1>4, <4>2 DEF ConnTypeOK
        <4> QED
          BY <1>5, <1>6, <4>1, <4>2
      <3>2. PICK f : conn' = [d \in Conns |-> f[d]]
        <4>1. conn' = [d \in Conns |-> conn'[d]]
          BY DEF Connect
        <4> QED
          BY <4>1
      <3> QED
        BY <3>1, <3>2
    <2> QED
      BY <2>1 DEF ConnTypeOK
  <1>8. \A d \in Conns : d = socket[k] => socket[k] # None
    BY ClientAssumption
  <1>9. \A d \in Conns : conn'[d] = conn[d] \/ Closes(d) \/ Shuts(d) \/ Opens(d)
    BY <1>4, <1>5, <1>6, <1>8
  <1>10. c # None => c \in Conns /\ c # socket[k]
    BY <1>3
  <1> QED
    BY <1>4, <1>5, <1>6, <1>7, <1>9, <1>10 DEF Drift

Live(c) == conn[c].client \in {"open", "shut"}

\* Who is who's after a step about the client k and the thread t: the socket
\* of k is given up, kept or new, and so is that of a stream.
LEMMA OwnStep ==
  ASSUME ClientInv, NEW k \in Clients, NEW t, NEW s,
         socket' = [socket EXCEPT ![k] = s],
         \/ s = None
         \/ s = socket[k] /\ (s # None => Live(s)')
         \/ s \in Conns /\ conn[s].client = "none" /\ Live(s)',
         \A u \in Threads \ {t} :
            (Streaming(u)' <=> Streaming(u)) /\ call'[u].sock = call[u].sock,
         t \in Threads /\ Streaming(t)' =>
            /\ Live(call[t].sock)'
            /\ \/ Streaming(t) /\ call'[t].sock = call[t].sock
               \/ s = None /\ call'[t].sock = socket[k]
               \/ s = None /\ conn[call'[t].sock].client = "none",
         \A c \in Conns : Live(c) =>
            \/ Live(c)'
            \/ c = socket[k]
            \/ t \in Threads /\ Streaming(t) /\ ~ Streaming(t)' /\ c = call[t].sock
  PROVE  OwnInv'
  <1>1. /\ socket \in [Clients -> Conns \cup {None}] /\ socket'[k] = s
        /\ \A l \in Clients \ {k} : socket'[l] = socket[l]
    BY DEF ClientInv, ClientTypeOK
  <1>2. OwnInv
    BY DEF ClientInv
  <1>3. \A l \in Clients : socket[l] # None => socket[l] \in Conns /\ Live(socket[l])
    BY <1>1, <1>2 DEF OwnInv, Live
  <1>4. \A u \in Threads :
           Streaming(u) => call[u].sock \in Conns /\ call[u].sock # None /\ Live(call[u].sock)
    BY <1>2 DEF OwnInv, Live, ClientInv, ClientTypeOK, CallRecords, Streaming
  <1>5. \A u \in Threads : Streaming(u)' => call'[u].sock # None
    BY DEF Streaming
  <1>6. \A l,
        m \in Clients : socket'[l] = socket'[m] /\ socket'[l] # None => l = m
    BY <1>1, <1>2, <1>3 DEF OwnInv, Live
  <1>7. \A u, v \in Threads :
           Streaming(u)' /\ Streaming(v)' /\ call'[u].sock = call'[v].sock => u = v
    BY <1>2, <1>3, <1>4, <1>5 DEF OwnInv, Live
  <1>8. \A l \in Clients,
        u \in Threads : Streaming(u)' => call'[u].sock # socket'[l]
    BY <1>1, <1>2, <1>3, <1>4, <1>5 DEF OwnInv, Live
  <1>9. \A l \in Clients : socket'[l] # None => Live(socket[l])'
    BY <1>1, <1>2, <1>3, <1>4 DEF OwnInv
  <1>10. \A u \in Threads : Streaming(u)' => Live(call[u].sock)'
    BY <1>2, <1>4 DEF OwnInv
  <1> QED
    BY <1>6, <1>7, <1>8, <1>9, <1>10 DEF OwnInv, Live

\* What a step makes of the client k.
Turns(k, s, n, o) ==
  /\ socket' = [socket EXCEPT ![k] = s]
  /\ in_flight' = [in_flight EXCEPT ![k] = n]
  /\ locked_by' = [locked_by EXCEPT ![k] = o]

\* It leaves the other threads of k alone.
Spares(t, k, s, o) ==
  \A u \in Threads \ {t} :
     /\ call'[u] = call[u] /\ plan'[u] = plan[u]
     /\ ClientOf[u] = k /\ Sends(u) =>
           o = u /\ (call[u].at \in Using => s = socket[k])

\* A step of the thread t on its client k: the others are as they were, if
\* they do not use the client's socket.
LEMMA OtherThreads ==
  ASSUME ClientInv, NEW k \in Clients, NEW t, t \in Threads => k = ClientOf[t],
         NEW s, NEW n, NEW o \in Threads \cup {None}, Turns(k, s, n, o),
         Spares(t, k, s, o), o \in {None, t, locked_by[k]}
  PROVE  /\ \A u \in Threads \ {t} : /\ ThreadOK(u)' /\ (Streaming(u)' <=> Streaming(u))
                                     /\ call'[u].sock = call[u].sock
         /\ \A l \in Clients \ {k} : ClientOK(l)'
  <1>1. /\ socket'[k] = s /\ in_flight'[k] = n /\ locked_by'[k] = o
        /\ \A l \in Clients \ {k} : /\ socket'[l] = socket[l]
                                    /\ in_flight'[l] = in_flight[l]
                                    /\ locked_by'[l] = locked_by[l]
    BY DEF ClientInv, ClientTypeOK, Turns
  <1>2. ASSUME NEW u \in Threads \ {t}
        PROVE  /\ Streams(u)' = Streams(u) /\ (Sends(u)' <=> Sends(u))
               /\ (Streaming(u)' <=> Streaming(u)) /\ (Asks(u)' <=> Asks(u))
    BY DEF Spares, Streams, Sends, Streaming, Asks
  <1>3. ASSUME NEW u \in Threads \ {t}
        PROVE  ThreadOK(u)'
    <2>1. ThreadOK(u) /\ ClientOf[u] \in Clients /\ None \notin Threads
      BY ClientAssumption DEF ClientInv, LockInv
    <2>2. (Sends(u) <=> locked_by[ClientOf[u]] = u)'
      BY <1>1, <1>2, <2>1 DEF ThreadOK, Spares
    <2>3. (Sends(u) /\ call[u].at \in Using =>
             /\ call[u].frames > 0 /\ call[u].sock # None
             /\ socket[ClientOf[u]] = call[u].sock)'
      BY <1>1, <1>2, <2>1 DEF ThreadOK, Spares
    <2> QED
      BY <1>2, <2>1, <2>2, <2>3 DEF ThreadOK, Spares
  <1>4. ASSUME NEW l \in Clients \ {k}
        PROVE  ClientOK(l)'
    <2>1. ClientOK(l) /\ locked_by[l] \in Threads \cup {None}
      BY DEF ClientInv, LockInv, ClientTypeOK
    <2>2. locked_by[l] # None => locked_by[l] \in Threads \ {t}
      BY <2>1, ClientAssumption DEF ClientOK
    <2> QED
      BY <1>1, <2>1, <2>2 DEF ClientOK, Spares
  <1> QED
    BY <1>2, <1>3, <1>4 DEF Spares

\* What becomes of the calls in a step of the thread t.
CallsAre(t, z) ==
  /\ z \in CallRecords /\ call'[t] = z /\ call' \in [Threads -> CallRecords]
  /\ \A u \in Threads \ {t} : call'[u] = call[u]

LEMMA CallsSet ==
  ASSUME ClientInv, NEW t \in Threads, NEW z \in CallRecords,
         call' = [call EXCEPT ![t] = z]
  PROVE  CallsAre(t, z)
  BY DEF ClientInv, ClientTypeOK, CallsAre

LEMMA RequestIs ==
  ASSUME ClientInv, NEW t \in Threads, NEW kind \in Kinds, NEW hop \in Nat
  PROVE  /\ Request(t, kind, hop) \in Requests
         /\ Request(t, kind, hop).id = <<t, Len(results[t]) + 1, hop>>
         /\ Request(t, kind, hop).kind = kind
  <1>1. results[t] \in Seq(SUBSET Ids) /\ keep_alive[ClientOf[t]] \in BOOLEAN
    BY ClientAssumption DEF ClientInv, ClientTypeOK
  <1>2. PICK n \in Nat : n = Len(results[t]) + 1
    BY <1>1
  <1>3. <<t, n, hop>> \in Ids
    BY DEF Ids
  <1>4. PICK id, close : id = <<t, n, hop>> /\ close = ~ keep_alive[ClientOf[t]]
    OBVIOUS
  <1>5. Request(t, kind, hop) = [id |-> id, kind |-> kind, close |-> close]
    BY <1>2, <1>4 DEF Request
  <1> QED
    BY <1>1, <1>2, <1>3, <1>4, <1>5 DEF Requests

LEMMA IdleIs ==
  /\ Idle \in CallRecords /\ Idle.at = "idle" /\ Idle.sock = None
  /\ Idle.req = <<>> /\ Idle.buf = <<>> /\ Idle.frames = 0 /\ Idle.got = {}
  /\ Idle.close = FALSE /\ Idle.status = 0 /\ Idle.left = 0
  BY DEF Idle, CallRecords

LEMMA SendDoes ==
  ASSUME ClientInv, NEW t \in Threads, Send(t)
  PROVE  \E z : /\ CallsAre(t, z) /\ z.at = "open" /\ z.frames = 0 /\ z.got = {}
                /\ z.req = Request(t, Head(plan[t]), 0) /\ z.req \in Requests
                /\ z.req.id = <<t, Len(results[t]) + 1, 0>> /\ z.sock = None
                /\ z.buf = <<>>
  <1>1. /\ call[t].at = "idle" /\ plan[t] # <<>> /\ ~ Streams(t)
        /\ plan[t] \in Seq(Kinds \cup {"stream"}) /\ ThreadOK(t)
        /\ call' = [call EXCEPT ![t].at = "open", ![t].left = MaxRedirects,
                          ![t].req = Request(t, Head(plan[t]), 0)]
    BY DEF Send, Step, ClientInv, ClientTypeOK, LockInv
  <1>2. call[t] = Idle /\ Head(plan[t]) \in Kinds
    BY <1>1 DEF ThreadOK, Streams
  <1>3. PICK q : q = Request(t, Head(plan[t]), 0)
    OBVIOUS
  <1>4. q \in Requests /\ q.id = <<t, Len(results[t]) + 1, 0>>
    BY <1>2, <1>3, RequestIs
  <1>5. PICK z : z = [Idle EXCEPT !.at = "open", !.left = MaxRedirects, !.req = q]
    OBVIOUS
  <1>6. /\ z \in CallRecords /\ z.at = "open" /\ z.frames = 0 /\ z.got = {}
        /\ z.req = q /\ z.sock = None /\ z.buf = <<>>
    BY <1>4, <1>5, IdleIs, ClientAssumption DEF CallRecords
  <1>7. call' = [call EXCEPT ![t] = z]
    <2>1. call' = [call EXCEPT ![t].at = "open", ![t].left = MaxRedirects, ![t].req = q]
      BY <1>1, <1>3
    <2> QED
      BY <1>2, <1>5, <2>1 DEF ClientInv, ClientTypeOK, CallRecords
  <1>8. CallsAre(t, z)
    BY <1>6, <1>7, CallsSet
  <1> QED
    BY <1>3, <1>4, <1>6, <1>8

LEMMA SendKeeps ==
  ASSUME ClientInv, ConnTypeOK, NEW t \in Threads, Send(t)
  PROVE  ClientInv' /\ Drift
  <1>1. PICK z : /\ CallsAre(t, z) /\ z.at = "open" /\ z.frames = 0
                 /\ z.req \in Requests
    BY SendDoes
  <1>2. PICK k \in Clients : k = ClientOf[t]
    BY ClientAssumption
  <1>3. /\ locked_by[k] = None /\ locked_by' = [locked_by EXCEPT ![k] = t]
        /\ stopped' = [stopped EXCEPT ![k] = FALSE]
        /\ UNCHANGED <<conn, socket, in_flight, should_close, plan, results>>
        /\ plan[t] # <<>> /\ ~ Streams(t) /\ call[t].at = "idle"
    BY <1>2 DEF Send, Step
  <1>4. /\ call'[t] = z /\ \A u \in Threads \ {t} : call'[u] = call[u]
        /\ call' \in [Threads -> CallRecords] /\ ThreadOK(t) /\ ClientOK(k)
        /\ ClientTypeOK
    BY <1>1 DEF CallsAre, ClientInv, LockInv
  <1>5. ClientTypeOK'
    BY <1>3, <1>4 DEF ClientTypeOK
  <1>6. Streams(t)' = Streams(t) /\ ~ Streaming(t)' /\ Sends(t)' /\ ~ Streaming(t)
    BY <1>1, <1>3, <1>4 DEF Streams, Streaming, Sends
  <1>7. PICK s, n : s = socket[k] /\ n = in_flight[k]
    OBVIOUS
  <1>8. /\ socket' = [socket EXCEPT ![k] = s] /\ in_flight' = [in_flight EXCEPT ![k] = n]
        /\ n = 0
    BY <1>3, <1>4, <1>7 DEF ClientTypeOK, ClientOK
  <1>9. /\ \A u \in Threads \ {t} : /\ ThreadOK(u)' /\ (Streaming(u)' <=> Streaming(u))
                                    /\ call'[u].sock = call[u].sock
        /\ \A l \in Clients \ {k} : ClientOK(l)'
    <2>1. ASSUME NEW u \in Threads, ClientOf[u] = k
          PROVE  ~ Sends(u)
      BY <1>3, <2>1, ClientAssumption DEF ClientInv, LockInv, ThreadOK
    <2>2. \A u \in Threads \ {t} : call'[u] = call[u] /\ plan'[u] = plan[u]
      BY <1>3, <1>4
    <2>3. Turns(k, s, n, t)
      BY <1>3, <1>8 DEF Turns
    <2>4. Spares(t, k, s, t)
      BY <2>1, <2>2 DEF Spares
    <2> QED
      BY <1>2, <2>3, <2>4, OtherThreads
  <1>10. ThreadOK(t)'
    BY <1>1, <1>2, <1>3, <1>4, <1>6 DEF ThreadOK, Using, ClientTypeOK
  <1>11. ClientOK(k)'
    BY <1>1, <1>2, <1>3, <1>4, <1>8, ClientAssumption DEF ClientOK, ClientTypeOK
  <1>12. OwnInv'
    <2>1. \A c \in Conns : Live(c) => Live(c)'
      BY <1>3 DEF Live
    <2>2. s # None => Live(s)'
      BY <1>3, <1>7, SocketIs DEF Live
    <2> QED
      BY <1>6, <1>7, <1>8, <1>9, <2>1, <2>2, OwnStep
  <1> QED
    BY <1>3, <1>5, <1>9, <1>10, <1>11, <1>12 DEF ClientInv, LockInv, Drift,
       ConnTypeOK

\* The socket that the client k gets: the one it has, a new one, or none.
NewSocket(k, s) ==
  /\ Drift /\ s \in Conns \cup {None}
  /\ \/ s = socket[k] /\ s \in Conns /\ Kept(k) /\ conn' = conn
     \/ /\ s # None => Opens(s) /\ s # socket[k]
        /\ socket[k] # None => Closes(socket[k])
        /\ \A d \in Conns : d \notin {s, socket[k]} => conn'[d] = conn[d]

LEMMA KeptIs ==
  ASSUME ClientInv, ConnTypeOK, NEW k \in Clients, Kept(k), conn' = conn
  PROVE  NewSocket(k, socket[k])
  <1>1. socket[k] \in Conns
    BY SocketIs DEF Kept
  <1> QED
    BY <1>1 DEF NewSocket, Drift, ConnTypeOK

LEMMA ConnectIs ==
  ASSUME ClientInv, ConnTypeOK, Unused, NEW k \in Clients,
         NEW c \in Conns \cup {None}, Connect(k, c)
  PROVE  NewSocket(k, c)
  BY ConnectDoes DEF NewSocket

LEMMA NewSocketLives ==
  ASSUME ClientInv, NEW k \in Clients, NEW s, NewSocket(k, s)
  PROVE  /\ s # None => Live(s)' /\ s \in Conns
         /\ \/ s = socket[k] \/ s = None
            \/ s \in Conns /\ conn[s].client = "none"
         /\ \A c \in Conns : Live(c) => Live(c)' \/ (c = socket[k] /\ c # s)
  <1>1. CASE s = socket[k] /\ s \in Conns /\ Kept(k) /\ conn' = conn
    BY <1>1, SocketIs, ClientAssumption DEF Live
  <1>2. CASE /\ s # None => Opens(s) /\ s # socket[k]
             /\ socket[k] # None => Closes(socket[k])
             /\ \A d \in Conns : d \notin {s, socket[k]} => conn'[d] = conn[d]
    <2>1. s # None => s \in Conns
      BY DEF NewSocket
    <2>2. s # None => conn'[s].client = "open" /\ conn[s].client = "none" /\ s # socket[k]
      BY <1>2 DEF Opens
    <2>3. ASSUME NEW c \in Conns, Live(c)
          PROVE  Live(c)' \/ (c = socket[k] /\ c # s)
      BY <1>2, <2>2, <2>3, ClientAssumption DEF Live
    <2> QED
      BY <2>1, <2>2, <2>3 DEF Live
  <1> QED
    BY <1>1, <1>2 DEF NewSocket

Opened(z, c) == [z EXCEPT !.at = "write", !.sock = c, !.frames = @ + 1, !.buf = <<>>]

LEMMA OpenedIs ==
  ASSUME NEW z \in CallRecords, NEW c \in Conns
  PROVE  /\ Opened(z, c) \in CallRecords /\ Opened(z, c).at = "write"
         /\ Opened(z, c).sock = c /\ Opened(z, c).frames = z.frames + 1
         /\ Opened(z, c).buf = <<>> /\ Opened(z, c).req = z.req
         /\ Opened(z, c).got = z.got /\ Opened(z, c).left = z.left
  <1>1. PICK n \in Nat : n = z.frames + 1
    BY DEF CallRecords
  <1>2. Opened(z, c) = [z EXCEPT !.at = "write", !.sock = c, !.frames = n, !.buf = <<>>]
    BY <1>1 DEF Opened, CallRecords
  <1>3. PICK y : y = [z EXCEPT !.at = "write", !.sock = c, !.frames = n, !.buf = <<>>]
    OBVIOUS
  <1>4. /\ y.at = "write" /\ y.sock = c /\ y.frames = n /\ y.buf = <<>>
        /\ y.req = z.req /\ y.got = z.got /\ y.left = z.left
    BY <1>3 DEF CallRecords
  <1>5. <<>> \in Seq(DownCells)
    OBVIOUS
  <1>6. PICK b : b = <<>>
    OBVIOUS
  <1>7. y \in CallRecords
    BY <1>3, <1>5, <1>6 DEF CallRecords, Using
  <1> QED
    BY <1>1, <1>2, <1>3, <1>4, <1>7

\* What OpenSocket does with the socket s, or None, and the call z.
OpensSocket(t, k, s, z) ==
  /\ NewSocket(k, s) /\ socket' = [socket EXCEPT ![k] = s]
  /\ CallsAre(t, z) /\ z.req = call[t].req
  /\ \/ /\ s # None /\ z.at = "write" /\ z.sock = s /\ z.got = call[t].got
        /\ z.frames = call[t].frames + 1 /\ z.buf = <<>>
        /\ in_flight' = [in_flight EXCEPT ![k] = in_flight[k] + 1]
     \/ /\ s = None /\ z.at = "leave" /\ z.sock = call[t].sock
        /\ z.got = {} /\ z.frames = call[t].frames
        /\ in_flight' = [in_flight EXCEPT ![k] = in_flight[k]]

LEMMA OpenSocketDoes ==
  ASSUME ClientInv, ConnTypeOK, Unused, NEW t \in Threads, OpenSocket(t),
         NEW k \in Clients, k = ClientOf[t]
  PROVE  \E s, z : OpensSocket(t, k, s, z)
  <1>1. call[t] \in CallRecords /\ in_flight \in [Clients -> Nat] /\ None \notin Conns
        /\ call \in [Threads -> CallRecords]
    BY ClientAssumption DEF ClientInv, ClientTypeOK
  <1>2. ASSUME NEW c \in Conns, NewSocket(k, c),
               socket' = [socket EXCEPT ![k] = c],
               in_flight' = [in_flight EXCEPT ![k] = @ + 1],
               call' = [call EXCEPT ![t].at = "write", ![t].sock = c,
                                    ![t].frames = @ + 1, ![t].buf = <<>>]
        PROVE  \E z : OpensSocket(t, k, c, z)
    <2>1. PICK z : z = Opened(call[t], c)
      OBVIOUS
    <2>2. call' = [call EXCEPT ![t] = z]
      <3>1. PICK n \in Nat : n = call[t].frames + 1
        BY <1>1 DEF CallRecords
      <3>2. call' = [call EXCEPT ![t].at = "write", ![t].sock = c,
                                 ![t].frames = n, ![t].buf = <<>>]
        BY <1>1, <1>2, <3>1 DEF CallRecords
      <3>3. z = [call[t] EXCEPT !.at = "write", !.sock = c, !.frames = n, !.buf = <<>>]
        BY <1>1, <2>1, <3>1 DEF Opened, CallRecords
      <3> QED
        BY <1>1, <3>2, <3>3 DEF CallRecords
    <2>3. /\ z \in CallRecords /\ z.at = "write" /\ z.sock = c /\ z.got = call[t].got
          /\ z.frames = call[t].frames + 1 /\ z.buf = <<>> /\ z.req = call[t].req
      BY <1>1, <2>1, OpenedIs
    <2>4. CallsAre(t, z)
      BY <2>2, <2>3, CallsSet
    <2>5. in_flight' = [in_flight EXCEPT ![k] = in_flight[k] + 1]
      BY <1>1, <1>2
    <2> QED
      BY <1>1, <1>2, <2>3, <2>4, <2>5 DEF OpensSocket
  <1>3. CASE /\ Kept(k) /\ UNCHANGED conn /\ socket' = [socket EXCEPT ![k] = socket[k]]
             /\ in_flight' = [in_flight EXCEPT ![k] = @ + 1]
             /\ call' = [call EXCEPT ![t].at = "write", ![t].sock = socket[k],
                                    ![t].frames = @ + 1, ![t].buf = <<>>]
    <2>1. PICK c \in Conns : c = socket[k]
      BY <1>3, SocketIs DEF Kept
    <2>2. NewSocket(k, c)
      BY <1>3, <2>1, KeptIs
    <2> QED
      BY <1>2, <1>3, <2>1, <2>2
  <1>4. ASSUME NEW c \in Conns, Connect(k, c),
               socket' = [socket EXCEPT ![k] = c],
               in_flight' = [in_flight EXCEPT ![k] = @ + 1],
               call' = [call EXCEPT ![t].at = "write", ![t].sock = c,
                                    ![t].frames = @ + 1, ![t].buf = <<>>]
        PROVE  \E z : OpensSocket(t, k, c, z)
    <2>1. NewSocket(k, c)
      BY <1>4, ConnectIs
    <2> QED
      BY <1>2, <1>4, <2>1
  <1>5. CASE /\ Connect(k, None) /\ socket' = [socket EXCEPT ![k] = None]
             /\ call' = [call EXCEPT ![t].at = "leave", ![t].got = {}]
             /\ UNCHANGED in_flight
    <2>1. NewSocket(k, None)
      BY <1>5, ConnectIs
    <2>2. PICK z : z = Failed(call[t])
      OBVIOUS
    <2>3. call' = [call EXCEPT ![t] = z]
      BY <1>1, <1>5, <2>2 DEF Failed
    <2>4. /\ z \in CallRecords /\ z.at = "leave" /\ z.sock = call[t].sock
          /\ z.got = {} /\ z.frames = call[t].frames /\ z.req = call[t].req
      BY <1>1, <2>2, FailedIs
    <2>5. CallsAre(t, z)
      BY <2>3, <2>4, CallsSet
    <2>6. in_flight' = [in_flight EXCEPT ![k] = in_flight[k]]
      BY <1>1, <1>5
    <2> QED
      BY <1>5, <2>1, <2>4, <2>5, <2>6 DEF OpensSocket
  <1> QED
    BY <1>3, <1>4, <1>5 DEF OpenSocket

\* A thread that sends has its client for itself.
LEMMA SendsAlone ==
  ASSUME ClientInv, NEW t \in Threads, Sends(t)
  PROVE  /\ locked_by[ClientOf[t]] = t /\ ClientOf[t] \in Clients
         /\ in_flight[ClientOf[t]] = call[t].frames
         /\ \A u \in Threads : Sends(u) /\ ClientOf[u] = ClientOf[t] => u = t
  <1>1. ClientOf[t] \in Clients /\ t # None
    BY ClientAssumption
  <1> QED
    BY <1>1 DEF ClientInv, LockInv, ThreadOK, ClientOK

\* The common end of the steps of a thread that sends on its client k.
LEMMA SenderKeeps ==
  ASSUME ClientInv, NEW t \in Threads, Sends(t), NEW k \in Clients,
         k = ClientOf[t],
         NEW z, CallsAre(t, z), NEW s \in Conns \cup {None}, NEW n \in Nat,
         Turns(k, s, n, t), should_close' \in [Clients -> BOOLEAN],
         UNCHANGED <<plan, results, stopped>>,
         z.at \in Using \cup {"open", "leave"}, z.req \in Requests,
         z.frames = n,
         z.at \in Using => n > 0 /\ z.sock # None /\ s = z.sock,
         \/ s = None
         \/ s = socket[k] /\ Live(s)'
         \/ conn[s].client = "none" /\ Live(s)',
         \A c \in Conns : Live(c) => Live(c)' \/ c = socket[k]
  PROVE  ClientInv'
  <1>1. /\ call'[t] = z /\ z \in CallRecords /\ call' \in [Threads -> CallRecords]
        /\ \A u \in Threads \ {t} : call'[u] = call[u] /\ plan'[u] = plan[u]
        /\ socket' = [socket EXCEPT ![k] = s] /\ in_flight' = [in_flight EXCEPT ![k] = n]
        /\ locked_by' = [locked_by EXCEPT ![k] = t]
    BY DEF CallsAre, Turns
  <1>2. ClientTypeOK /\ ThreadOK(t) /\ ~ Streams(t) /\ call[t].at # "idle"
    BY DEF ClientInv, LockInv, Sends
  <1>3. ClientTypeOK'
    BY <1>1, <1>2 DEF ClientTypeOK
  <1>4. /\ ~ Streaming(t) /\ ~ Streaming(t)' /\ Sends(t)' /\ Streams(t)' = Streams(t)
        /\ z.at # "idle"
    BY <1>1, <1>2 DEF Streaming, Sends, Streams, Using
  <1>5. locked_by[k] = t /\ \A u \in Threads \ {t} : ~ (ClientOf[u] = k /\ Sends(u))
    BY SendsAlone
  <1>6. /\ \A u \in Threads \ {t} : /\ ThreadOK(u)' /\ (Streaming(u)' <=> Streaming(u))
                                    /\ call'[u].sock = call[u].sock
        /\ \A l \in Clients \ {k} : ClientOK(l)'
    <2>1. Spares(t, k, s, t)
      BY <1>1, <1>5 DEF Spares
    <2> QED
      BY <2>1, OtherThreads
  <1>7. ThreadOK(t)'
    <2>1. /\ call'[t].at = z.at /\ call'[t].req = z.req /\ call'[t].sock = z.sock
          /\ call'[t].frames = n /\ plan'[t] = plan[t] /\ plan[t] # <<>>
          /\ locked_by'[k] = t /\ socket'[k] = s
      BY <1>1, <1>2 DEF ThreadOK, ClientTypeOK
    <2> QED
      BY <1>2, <1>4, <2>1 DEF ThreadOK
  <1>8. ClientOK(k)'
    BY <1>1, <1>2, ClientAssumption DEF ClientOK, ClientTypeOK
  <1>9. OwnInv'
    <2>1. \/ s = None
          \/ s = socket[k] /\ (s # None => Live(s)')
          \/ s \in Conns /\ conn[s].client = "none" /\ Live(s)'
      OBVIOUS
    <2>2. \A u \in Threads \ {t} :
            (Streaming(u)' <=> Streaming(u)) /\ call'[u].sock = call[u].sock
      BY <1>6
    <2> QED
      BY ZenonT(60), <1>1, <1>4, <2>1, <2>2, OwnStep
  <1> QED
    BY <1>3, <1>6, <1>7, <1>8, <1>9 DEF ClientInv, LockInv

LEMMA OpenSocketKeeps ==
  ASSUME ClientInv, ConnTypeOK, Unused, NEW t \in Threads, OpenSocket(t)
  PROVE  ClientInv' /\ Drift /\ Sends(t)
  <1>1. PICK k \in Clients : k = ClientOf[t]
    BY ClientAssumption
  <1>2. PICK s, z : OpensSocket(t, k, s, z)
    BY <1>1, OpenSocketDoes
  <1>3. /\ call[t].at = "open" /\ UNCHANGED <<locked_by, plan, results, stopped>>
        /\ should_close' = [should_close EXCEPT ![k] = FALSE]
        /\ ClientTypeOK /\ ThreadOK(t) /\ call[t] \in CallRecords
    BY <1>1 DEF OpenSocket, Step, ClientInv, LockInv, ClientTypeOK
  <1>4. Sends(t)
    BY <1>3 DEF Sends, ThreadOK, Using
  <1>5. /\ locked_by[k] = t /\ in_flight[k] = call[t].frames
        /\ call[t].req \in Requests /\ call[t].frames \in Nat
    BY <1>1, <1>3, <1>4, SendsAlone DEF ThreadOK, Asks, CallRecords
  <1>6. /\ s # None => Live(s)' /\ s \in Conns
        /\ \/ s = socket[k] \/ s = None
           \/ s \in Conns /\ conn[s].client = "none"
        /\ \A c \in Conns : Live(c) => Live(c)' \/ (c = socket[k] /\ c # s)
    BY <1>2, NewSocketLives DEF OpensSocket
  <1>7. PICK n : n = z.frames
    OBVIOUS
  <1>8. /\ n \in Nat /\ z.at \in {"write", "leave"} /\ z.req = call[t].req
        /\ s \in Conns \cup {None} /\ CallsAre(t, z)
        /\ z.at = "write" => n > 0 /\ z.sock # None /\ s = z.sock
        /\ in_flight' = [in_flight EXCEPT ![k] = n]
    BY <1>2, <1>5, <1>6, <1>7 DEF OpensSocket
  <1>9. Turns(k, s, n, t)
    BY <1>2, <1>3, <1>5, <1>8 DEF Turns, OpensSocket, ClientTypeOK
  <1>10. ClientInv'
    <2>1. should_close' \in [Clients -> BOOLEAN]
      BY <1>3 DEF ClientTypeOK
    <2>2. z.at \in Using \cup {"open", "leave"} /\ (z.at \in Using => z.at = "write")
      BY <1>8 DEF Using
    <2>3. \/ s = None
          \/ s = socket[k] /\ Live(s)'
          \/ conn[s].client = "none" /\ Live(s)'
      BY <1>6
    <2> QED
      BY <1>1, <1>3, <1>4, <1>5, <1>6, <1>7, <1>8, <1>9, <2>1, <2>2, <2>3,
         SenderKeeps
  <1> QED
    BY <1>2, <1>4, <1>10 DEF OpensSocket, NewSocket

LEMMA LeaveFrameDoes ==
  ASSUME ClientInv, NEW t \in Threads, LeaveFrame(t)
  PROVE  \E z : /\ CallsAre(t, z) /\ z.at = "leave" /\ call[t].at = "leave"
                /\ call[t].frames > 0 /\ z.frames = call[t].frames - 1
                /\ z.sock = call[t].sock /\ z.req = call[t].req
                /\ z.got = call[t].got /\ z.buf = call[t].buf
  <1>1. /\ call[t].at = "leave" /\ call[t].frames > 0 /\ call[t] \in CallRecords
        /\ call' = [call EXCEPT ![t].frames = @ - 1]
        /\ call \in [Threads -> CallRecords]
    BY DEF LeaveFrame, Step, ClientInv, ClientTypeOK
  <1>2. PICK n \in Nat : n = call[t].frames - 1
    BY <1>1 DEF CallRecords
  <1>3. PICK z : z = [call[t] EXCEPT !.frames = n]
    OBVIOUS
  <1>4. /\ z \in CallRecords /\ z.at = "leave" /\ z.frames = n
        /\ z.sock = call[t].sock /\ z.req = call[t].req
        /\ z.got = call[t].got /\ z.buf = call[t].buf
    BY <1>1, <1>3 DEF CallRecords
  <1>5. call' = [call EXCEPT ![t] = z]
    BY <1>1, <1>2, <1>3 DEF CallRecords
  <1> QED
    BY <1>1, <1>2, <1>4, <1>5, CallsSet

LEMMA LeaveFrameKeeps ==
  ASSUME ClientInv, ConnTypeOK, NEW t \in Threads, LeaveFrame(t)
  PROVE  ClientInv' /\ Drift /\ Sends(t)
  <1>1. PICK k \in Clients : k = ClientOf[t]
    BY ClientAssumption
  <1>2. PICK z : /\ CallsAre(t, z) /\ z.at = "leave" /\ call[t].at = "leave"
                 /\ call[t].frames > 0 /\ z.frames = call[t].frames - 1
                 /\ z.req = call[t].req
    BY LeaveFrameDoes
  <1>3. /\ UNCHANGED <<should_close, locked_by, plan, results, stopped>>
        /\ in_flight' = [in_flight EXCEPT ![k] = @ - 1]
        /\ CloseSocket(k) \/ UNCHANGED <<socket, conn>>
        /\ ClientTypeOK /\ ThreadOK(t) /\ call[t] \in CallRecords
    BY <1>1 DEF LeaveFrame, ClientInv, LockInv, ClientTypeOK
  <1>4. Sends(t)
    BY <1>2, <1>3 DEF Sends, ThreadOK
  <1>5. /\ locked_by[k] = t /\ in_flight[k] = call[t].frames
        /\ call[t].req \in Requests /\ call[t].frames \in Nat
    BY <1>1, <1>3, <1>4, SendsAlone DEF ThreadOK, Asks, CallRecords
  <1>a. PICK s, n : n = z.frames /\ s = socket'[k]
    OBVIOUS
  <1>6. /\ n = z.frames /\ s = socket'[k]
        /\ n \in Nat /\ s \in Conns \cup {None}
    BY <1>a, <1>2, <1>3, <1>5 DEF CloseSocket, ClientTypeOK
  <1>7. /\ socket' = [socket EXCEPT ![k] = s] /\ Drift
        /\ s = None \/ (s = socket[k] /\ Live(s)')
        /\ \A c \in Conns : Live(c) => Live(c)' \/ c = socket[k]
    <2>1. CASE CloseSocket(k)
      <3>1. /\ Drift /\ socket' = [socket EXCEPT ![k] = None]
            /\ \A c \in Conns : c # socket[k] => conn'[c] = conn[c]
        BY <2>1, CloseSocketDoes
      <3> QED
        BY <1>3, <1>6, <3>1 DEF ClientTypeOK, Live
    <2>2. CASE UNCHANGED <<socket, conn>>
      <3>1. Drift /\ socket' = [socket EXCEPT ![k] = s] /\ s = socket[k]
        BY <1>3, <1>6, <2>2 DEF ClientTypeOK, Drift, ConnTypeOK
      <3>2. s # None => Live(s)
        BY <3>1, SocketIs DEF Live
      <3> QED
        BY <2>2, <3>1, <3>2 DEF Live
    <2> QED
      BY <1>3, <2>1, <2>2
  <1>8. Turns(k, s, n, t)
    BY <1>2, <1>3, <1>5, <1>6, <1>7 DEF Turns, ClientTypeOK
  <1>9. ClientInv'
    <2>1. should_close' \in [Clients -> BOOLEAN]
      BY <1>3 DEF ClientTypeOK
    <2>2. z.at \in Using \cup {"open", "leave"} /\ z.at \notin Using
      BY <1>2 DEF Using
    <2>3. \/ s = None
          \/ s = socket[k] /\ Live(s)'
          \/ conn[s].client = "none" /\ Live(s)'
      BY <1>7
    <2> QED
      BY <1>1, <1>2, <1>3, <1>4, <1>5, <1>6, <1>7, <1>8, <2>1, <2>2, <2>3,
         SenderKeeps
  <1> QED
    BY <1>4, <1>7, <1>9

Redirected(z, q) == [z EXCEPT !.at = "open", !.left = @ - 1, !.req = q, !.got = {}]

LEMMA RedirectedIs ==
  ASSUME NEW z \in CallRecords, z.left > 0, NEW q \in Requests
  PROVE  /\ Redirected(z, q) \in CallRecords /\ Redirected(z, q).at = "open"
         /\ Redirected(z, q).req = q /\ Redirected(z, q).got = {}
         /\ Redirected(z, q).frames = z.frames /\ Redirected(z, q).sock = z.sock
         /\ Redirected(z, q).buf = z.buf
  <1>1. PICK n \in Nat : n = z.left - 1
    BY DEF CallRecords
  <1>2. Redirected(z, q) = [z EXCEPT !.at = "open", !.left = n, !.req = q, !.got = {}]
    BY <1>1 DEF Redirected, CallRecords
  <1>3. PICK y : y = [z EXCEPT !.at = "open", !.left = n, !.req = q, !.got = {}]
    OBVIOUS
  <1>4. /\ y \in CallRecords /\ y.at = "open" /\ y.req = q /\ y.got = {}
        /\ y.frames = z.frames /\ y.sock = z.sock /\ y.buf = z.buf
    BY <1>3 DEF CallRecords
  <1> QED
    BY <1>2, <1>3, <1>4

\* What HandleResponse makes of the call.
HandlesResponse(t, z) ==
  /\ CallsAre(t, z) /\ z.sock = call[t].sock /\ z.frames = call[t].frames
  /\ \/ z.at = "leave" /\ z.req = call[t].req /\ z.got \in {{}, call[t].got}
     \/ /\ z.at = "open" /\ ~ Streams(t) /\ z.got = {} /\ z.req \in Requests
        /\ z.req.id = <<t, Len(results[t]) + 1, Hop(t) + 1>>

LEMMA HandleResponseDoes ==
  ASSUME ClientInv, NEW t \in Threads, HandleResponse(t)
  PROVE  \E z : HandlesResponse(t, z)
  <1>1. /\ call[t].at = "received" /\ call[t] \in CallRecords
        /\ call \in [Threads -> CallRecords] /\ call[t].left \in Nat
    BY DEF HandleResponse, Step, ClientInv, ClientTypeOK, CallRecords
  <1>2. Hop(t) + 1 \in Nat
    <2>1. call[t].req \in Requests
      BY <1>1, UsingIs DEF Using
    <2>2. call[t].req.id \in Threads \X Nat \X Nat
      BY <2>1 DEF Requests, Ids
    <2> QED
      BY <2>2 DEF Hop
  <1>3. \/ call' = [call EXCEPT ![t].at = "leave", ![t].got = {}]
        \/ call' = [call EXCEPT ![t].at = "leave"]
        \/ /\ ~ Streams(t) /\ call[t].left > 0
           /\ \E kind \in {"get", "moved"} :
               call' = [call EXCEPT ![t].at = "open", ![t].left = @ - 1,
                          ![t].req = Request(t, kind, Hop(t) + 1),
                          ![t].got = {}]
    BY <1>1 DEF HandleResponse, To
  <1>4. CASE call' = [call EXCEPT ![t].at = "leave", ![t].got = {}]
    <2>1. PICK z : z = Failed(call[t])
      OBVIOUS
    <2>2. call' = [call EXCEPT ![t] = z]
      BY <1>1, <1>4, <2>1 DEF Failed
    <2> QED
      BY <1>1, <2>1, <2>2, FailedIs, CallsSet DEF HandlesResponse
  <1>5. CASE call' = [call EXCEPT ![t].at = "leave"]
    <2>1. PICK z : z = Going(call[t], "leave")
      OBVIOUS
    <2>2. call' = [call EXCEPT ![t] = z]
      BY <1>1, <1>5, <2>1 DEF Going
    <2>3. /\ z \in CallRecords /\ z.at = "leave" /\ z.got = call[t].got
          /\ z.sock = call[t].sock /\ z.req = call[t].req
          /\ z.frames = call[t].frames
      BY <1>1, <2>1, GoesIs
    <2> QED
      BY <2>2, <2>3, CallsSet DEF HandlesResponse
  <1>6. CASE /\ ~ Streams(t) /\ call[t].left > 0
             /\ \E kind \in {"get", "moved"} :
               call' = [call EXCEPT ![t].at = "open", ![t].left = @ - 1,
                          ![t].req = Request(t, kind, Hop(t) + 1),
                          ![t].got = {}]
    <2>1. PICK kind \in {"get", "moved"} :
               call' = [call EXCEPT ![t].at = "open", ![t].left = @ - 1,
                          ![t].req = Request(t, kind, Hop(t) + 1),
                          ![t].got = {}]
      BY <1>6
    <2>2. PICK q, hop : hop = Hop(t) + 1 /\ q = Request(t, kind, hop)
      OBVIOUS
    <2>3. q \in Requests /\ q.id = <<t, Len(results[t]) + 1, hop>>
      <3>1. kind \in Kinds /\ hop \in Nat
        BY <1>2, <2>2 DEF Kinds
      <3> QED
        BY <2>2, <3>1, RequestIs
    <2>4. PICK z, n : n = call[t].left - 1 /\ z = Redirected(call[t], q)
      OBVIOUS
    <2>5. call' = [call EXCEPT ![t] = z]
      <3>1. call' = [call EXCEPT ![t].at = "open", ![t].left = n,
                          ![t].req = q, ![t].got = {}]
        BY <1>1, <2>1, <2>2, <2>4 DEF CallRecords
      <3>2. z = [call[t] EXCEPT !.at = "open", !.left = n, !.req = q, !.got = {}]
        BY <1>1, <2>4 DEF Redirected, CallRecords
      <3> QED
        BY <1>1, <3>1, <3>2 DEF CallRecords
    <2>6. /\ z \in CallRecords /\ z.at = "open" /\ z.req = q /\ z.got = {}
          /\ z.frames = call[t].frames /\ z.sock = call[t].sock
      BY <1>1, <1>6, <2>3, <2>4, RedirectedIs
    <2>7. CallsAre(t, z)
      BY <2>5, <2>6, CallsSet
    <2> QED
      BY <1>6, <2>2, <2>3, <2>6, <2>7 DEF HandlesResponse
  <1> QED
    BY <1>3, <1>4, <1>5, <1>6

\* The socket of k after a step that closes it or leaves it.
LEMMA ClosesOrKeeps ==
  ASSUME ClientInv, ConnTypeOK, NEW k \in Clients,
         CloseSocket(k) \/ UNCHANGED <<socket, conn>>
  PROVE  /\ Drift /\ socket' = [socket EXCEPT ![k] = socket'[k]]
         /\ socket'[k] \in Conns \cup {None}
         /\ socket'[k] = None \/ (socket'[k] = socket[k] /\ Live(socket[k])')
         /\ \A c \in Conns : Live(c) => Live(c)' \/ c = socket[k]
  <1>1. socket \in [Clients -> Conns \cup {None}]
    BY DEF ClientInv, ClientTypeOK
  <1>2. CASE CloseSocket(k)
    <2>1. /\ Drift /\ socket' = [socket EXCEPT ![k] = None]
          /\ \A c \in Conns : c # socket[k] => conn'[c] = conn[c]
      BY <1>2, CloseSocketDoes
    <2> QED
      BY <1>1, <2>1 DEF Live
  <1>3. CASE UNCHANGED <<socket, conn>>
    <2>1. Drift /\ socket'[k] = socket[k]
      BY <1>3 DEF Drift, ConnTypeOK
    <2>2. socket[k] # None => Live(socket[k])
      BY SocketIs DEF Live
    <2>3. Live(socket[k])' <=> Live(socket[k])
      BY <1>3 DEF Live
    <2>4. \A c \in Conns : Live(c) => Live(c)'
      BY <1>3 DEF Live
    <2> QED
      BY <1>1, <1>3, <2>1, <2>2, <2>3, <2>4
  <1> QED
    BY <1>2, <1>3

LEMMA HandleResponseKeeps ==
  ASSUME ClientInv, ConnTypeOK, NEW t \in Threads, HandleResponse(t)
  PROVE  ClientInv' /\ Drift
  <1>1. PICK k \in Clients : k = ClientOf[t]
    BY ClientAssumption
  <1>2. PICK z : HandlesResponse(t, z)
    BY HandleResponseDoes
  <1>3. /\ call[t].at = "received" /\ call[t].at \in Using
        /\ UNCHANGED <<in_flight, should_close, locked_by, plan, results, stopped>>
        /\ CloseSocket(k) \/ UNCHANGED <<socket, conn>>
        /\ Streams(t) => UNCHANGED <<socket, conn>>
        /\ ClientTypeOK /\ ThreadOK(t) /\ call[t] \in CallRecords
    BY <1>1 DEF HandleResponse, Step, Using, ClientInv, LockInv, ClientTypeOK
  <1>4. Asks(t) /\ call[t].req \in Requests
    BY <1>3, UsingIs
  <1>5. PICK s, n : s = socket'[k] /\ n = z.frames
    OBVIOUS
  <1>6. /\ Drift /\ socket' = [socket EXCEPT ![k] = s] /\ s \in Conns \cup {None}
        /\ s = None \/ (s = socket[k] /\ Live(s)')
        /\ \A c \in Conns : Live(c) => Live(c)' \/ c = socket[k]
    BY <1>3, <1>5, ClosesOrKeeps
  <1>7. CASE Sends(t)
    <2>1. locked_by[k] = t /\ in_flight[k] = call[t].frames /\ call[t].frames \in Nat
      BY <1>1, <1>3, <1>7, SendsAlone DEF CallRecords
    <2>2. /\ CallsAre(t, z) /\ z.at \in {"open", "leave"} /\ z.req \in Requests
          /\ z.frames = n /\ n = call[t].frames /\ n \in Nat
      BY <1>2, <1>4, <1>5, <2>1 DEF HandlesResponse
    <2>3. Turns(k, s, n, t)
      BY <1>3, <1>6, <2>1, <2>2 DEF Turns, ClientTypeOK
    <2>4. should_close' \in [Clients -> BOOLEAN]
      BY <1>3 DEF ClientTypeOK
    <2>5. z.at \in Using \cup {"open", "leave"} /\ z.at \notin Using
      BY <2>2 DEF Using
    <2>6. \/ s = None
          \/ s = socket[k] /\ Live(s)'
          \/ conn[s].client = "none" /\ Live(s)'
      BY <1>6
    <2>7. ClientInv'
      BY <1>1, <1>3, <1>6, <1>7, <2>2, <2>3, <2>4, <2>5, <2>6, SenderKeeps
    <2> QED
      BY <1>6, <2>7
  <1>8. CASE Streaming(t)
    <2>1. /\ UNCHANGED <<socket, conn>> /\ CallsAre(t, z) /\ z.at = "leave"
          /\ z.sock = call[t].sock /\ z.frames = call[t].frames /\ z.req = call[t].req
      BY <1>2, <1>3, <1>8 DEF Streaming, HandlesResponse
    <2>2. call' = [call EXCEPT ![t] = z] /\ z \in CallRecords
      BY <1>3, <2>1 DEF CallsAre, ClientTypeOK
    <2>3. ClientInv'
      <3>1. HandleResponse(t) => OnlyCall
        BY <2>1 DEF HandleResponse, OnlyCall
      <3>2. z.at \in Using \cup {"leave"} /\ z.at # "write_body"
        BY <2>1
      <3>3. \A c \in Conns : conn'[c].client = conn[c].client
        BY <2>1
      <3> QED
        BY <1>3, <2>1, <2>2, <3>1, <3>2, <3>3, ExchangeKeeps
    <2> QED
      BY <1>6, <2>3
  <1> QED
    BY <1>4, <1>7, <1>8 DEF Asks

OpensStream(t, k, s, z) ==
  /\ NewSocket(k, s) /\ CallsAre(t, z)
  /\ z.frames = 0 /\ z.got = {} /\ z.sock = s
  /\ \/ /\ s # None /\ z.at = "write" /\ z.buf = <<>> /\ z.req \in Requests
        /\ z.req.kind = "get" /\ z.req.id = <<t, Len(results[t]) + 1, 0>>
     \/ s = None /\ z.at = "leave"

LEMMA OpenStreamDoes ==
  ASSUME ClientInv, ConnTypeOK, Unused, NEW t \in Threads, OpenStream(t),
         NEW k \in Clients, k = ClientOf[t]
  PROVE  \E s, z : OpensStream(t, k, s, z)
  <1>1. /\ call[t].at = "idle" /\ ThreadOK(t) /\ None \notin Conns
        /\ call \in [Threads -> CallRecords]
    BY ClientAssumption DEF OpenStream, Step, ClientInv, LockInv, ClientTypeOK
  <1>2. call[t] = Idle
    BY <1>1 DEF ThreadOK
  <1>3. PICK y,
             q : /\ y = Request(t, "get", 0) /\ q = [y EXCEPT !.close = FALSE]
    OBVIOUS
  <1>4. /\ q \in Requests /\ q.kind = "get" /\ q.id = <<t, Len(results[t]) + 1, 0>>
    <2>1. y \in Requests /\ y.kind = "get" /\ y.id = <<t, Len(results[t]) + 1, 0>>
      BY <1>3, RequestIs DEF Kinds
    <2>2. q \in Requests /\ q.kind = y.kind /\ q.id = y.id
      BY <1>3, <2>1 DEF Requests
    <2> QED
      BY <2>1, <2>2
  <1>5. ASSUME NEW c \in Conns, NewSocket(k, c),
               call' = [call EXCEPT ![t].at = "write", ![t].sock = c, ![t].req = q]
        PROVE  \E z : OpensStream(t, k, c, z)
    <2>1. PICK z : z = [Idle EXCEPT !.at = "write", !.sock = c, !.req = q]
      OBVIOUS
    <2>2. call' = [call EXCEPT ![t] = z]
      BY <1>1, <1>2, <1>5, <2>1 DEF CallRecords
    <2>3. /\ z \in CallRecords /\ z.at = "write" /\ z.sock = c /\ z.got = {}
          /\ z.frames = 0 /\ z.buf = <<>> /\ z.req = q
      BY <1>4, <2>1, IdleIs DEF CallRecords, Using
    <2>4. CallsAre(t, z)
      BY <2>2, <2>3, CallsSet
    <2> QED
      BY <1>1, <1>4, <1>5, <2>3, <2>4 DEF OpensStream
  <1>6. CASE /\ Kept(k) /\ UNCHANGED conn
             /\ call' = [call EXCEPT ![t].at = "write", ![t].sock = socket[k], ![t].req = q]
    <2>1. PICK c \in Conns : c = socket[k]
      BY <1>6, SocketIs DEF Kept
    <2>2. NewSocket(k, c)
      BY <1>6, <2>1, KeptIs
    <2> QED
      BY <1>5, <1>6, <2>1, <2>2
  <1>7. ASSUME NEW c \in Conns, Connect(k, c),
               call' = [call EXCEPT ![t].at = "write", ![t].sock = c, ![t].req = q]
        PROVE  \E z : OpensStream(t, k, c, z)
    <2>1. NewSocket(k, c)
      BY <1>7, ConnectIs
    <2> QED
      BY <1>5, <1>7, <2>1
  <1>8. CASE Connect(k, None) /\ call' = [call EXCEPT ![t].at = "leave"]
    <2>1. NewSocket(k, None)
      BY <1>8, ConnectIs
    <2>2. PICK z : z = Going(call[t], "leave")
      OBVIOUS
    <2>3. call' = [call EXCEPT ![t] = z]
      BY <1>1, <1>8, <2>2 DEF Going
    <2>4. /\ z \in CallRecords /\ z.at = "leave" /\ z.sock = None
          /\ z.got = {} /\ z.frames = 0
      BY <1>1, <1>2, <2>2, IdleIs, GoesIs
    <2>5. CallsAre(t, z)
      BY <2>3, <2>4, CallsSet
    <2> QED
      BY <2>1, <2>4, <2>5 DEF OpensStream
  <1> QED
    BY <1>1, <1>3, <1>6, <1>7, <1>8 DEF OpenStream, To

LEMMA OpenStreamKeeps ==
  ASSUME ClientInv, ConnTypeOK, Unused, NEW t \in Threads, OpenStream(t)
  PROVE  ClientInv' /\ Drift
  <1>1. PICK k \in Clients : k = ClientOf[t]
    BY ClientAssumption
  <1>2. PICK s, z : OpensStream(t, k, s, z)
    BY <1>1, OpenStreamDoes
  <1>3. /\ call[t].at = "idle" /\ in_flight[k] = 0 /\ Streams(t)
        /\ socket' = [socket EXCEPT ![k] = None]
        /\ UNCHANGED <<in_flight, should_close, locked_by, plan, results, stopped>>
        /\ ClientTypeOK /\ ThreadOK(t) /\ ClientOK(k) /\ LockInv
    BY <1>1 DEF OpenStream, Step, ClientInv, LockInv, ClientTypeOK
  <1>4. /\ call'[t] = z /\ call' \in [Threads -> CallRecords]
        /\ \A u \in Threads \ {t} : call'[u] = call[u]
        /\ z.frames = 0 /\ z.sock = s
        /\ IF s = None THEN z.at = "leave"
           ELSE z.at = "write" /\ z.req \in Requests /\ z.req.kind = "get"
        /\ NewSocket(k, s)
    BY <1>2 DEF OpensStream, CallsAre
  <1>5. ClientTypeOK'
    BY <1>3, <1>4 DEF ClientTypeOK
  <1>6. PICK n, o : n = in_flight[k] /\ o = locked_by[k]
    OBVIOUS
  <1>7. /\ Turns(k, None, n, o) /\ o \in Threads \cup {None}
        /\ ~ Sends(t) /\ o # t
    BY <1>1, <1>3, <1>6 DEF Turns, ClientTypeOK, Sends, ThreadOK
  <1>8. Spares(t, k, None, o)
    <2>1. ASSUME NEW u \in Threads \ {t}, ClientOf[u] = k, Sends(u)
          PROVE  o = u /\ call[u].at \notin Using
      <3>1. ThreadOK(u) /\ locked_by[k] = u /\ u # None
        BY <1>3, <2>1, ClientAssumption DEF LockInv, ThreadOK
      <3>2. call[u].frames = 0
        BY <1>3, <3>1 DEF ClientOK
      <3> QED
        BY <1>6, <2>1, <3>1, <3>2 DEF ThreadOK
    <2> QED
      BY <1>3, <1>4, <2>1 DEF Spares
  <1>9. /\ \A u \in Threads \ {t} : /\ ThreadOK(u)' /\ (Streaming(u)' <=> Streaming(u))
                                    /\ call'[u].sock = call[u].sock
        /\ \A l \in Clients \ {k} : ClientOK(l)'
    BY <1>1, <1>6, <1>7, <1>8, OtherThreads
  <1>10. ThreadOK(t)'
    <2>1. Streams(t)' /\ ~ Sends(t)' /\ plan'[t] # <<>>
      BY <1>3 DEF Streams, Sends
    <2> QED
      BY <1>1, <1>3, <1>4, <1>6, <1>7, <2>1 DEF ThreadOK, Asks, Streaming, Using
  <1>11. ClientOK(k)'
    BY <1>3, <1>4, <1>6, <1>7 DEF ClientOK
  <1>12. OwnInv'
    <2>1. /\ s # None => Live(s)' /\ s \in Conns
          /\ \/ s = socket[k] \/ s = None
             \/ s \in Conns /\ conn[s].client = "none"
          /\ \A c \in Conns : Live(c) => Live(c)' \/ (c = socket[k] /\ c # s)
      BY <1>4, NewSocketLives
    <2>2. Streaming(t)' => s # None /\ Live(call[t].sock)' /\ call'[t].sock = s
      BY <1>4, <2>1 DEF Streaming, Live
    <2>3. t \in Threads /\ Streaming(t)' =>
            /\ Live(call[t].sock)'
            /\ \/ Streaming(t) /\ call'[t].sock = call[t].sock
               \/ None = None /\ call'[t].sock = socket[k]
               \/ None = None /\ conn[call'[t].sock].client = "none"
      BY <2>1, <2>2
    <2>4. \A u \in Threads \ {t} :
            (Streaming(u)' <=> Streaming(u)) /\ call'[u].sock = call[u].sock
      BY <1>9
    <2>5. \A c \in Conns : Live(c) => Live(c)' \/ c = socket[k]
      BY <2>1
    <2> QED
      BY <1>3, <2>3, <2>4, <2>5, OwnStep
  <1> QED
    BY <1>4, <1>5, <1>9, <1>10, <1>11, <1>12 DEF ClientInv, LockInv, NewSocket

LEMMA ReturnKeeps ==
  ASSUME ClientInv, ConnTypeOK, NEW t \in Threads, Return(t)
  PROVE  ClientInv' /\ Drift
  <1>1. PICK k \in Clients : k = ClientOf[t]
    BY ClientAssumption
  <1>2. /\ call[t].at = "leave" /\ call[t].frames = 0
        /\ call[t] \in CallRecords /\ ThreadOK(t) /\ ClientOK(k) /\ LockInv
        /\ UNCHANGED <<socket, in_flight, should_close, stopped>>
        /\ ClientTypeOK /\ plan[t] \in Seq(Kinds \cup {"stream"})
        /\ results[t] \in Seq(SUBSET Ids)
    BY <1>1 DEF Return, Step, ClientInv, LockInv, ClientTypeOK
  <1>3. /\ results' = [results EXCEPT ![t] = Append(@, call[t].got)]
        /\ plan' = [plan EXCEPT ![t] = Tail(@)]
        /\ call' = [call EXCEPT ![t] = Idle]
    BY DEF Return
  <1>4. /\ call'[t] = Idle /\ call' \in [Threads -> CallRecords]
        /\ \A u \in Threads \ {t} : call'[u] = call[u] /\ plan'[u] = plan[u]
        /\ plan' \in [Threads -> Seq(Kinds \cup {"stream"})]
        /\ results' \in [Threads -> Seq(SUBSET Ids)]
    <2>1. Tail(plan[t]) \in Seq(Kinds \cup {"stream"})
      BY <1>2 DEF ThreadOK
    <2>2. Append(results[t], call[t].got) \in Seq(SUBSET Ids)
      BY <1>2 DEF CallRecords
    <2> QED
      BY <1>2, <1>3, <2>1, <2>2, IdleIs DEF ClientTypeOK
  <1>5. PICK s, n, o : s = socket[k] /\ n = in_flight[k] /\ o = locked_by'[k]
    OBVIOUS
  <1>6. /\ Turns(k, s, n, o) /\ o \in {None, t, locked_by[k]} /\ o # t
        /\ o \in Threads \cup {None} /\ locked_by' \in [Clients -> Threads \cup {None}]
        /\ \A u \in Threads \ {t} : ClientOf[u] = k /\ Sends(u) => o = u
        /\ n = IF o = None THEN 0 ELSE call'[o].frames
        /\ o # None => ClientOf[o] = k
    <2>1. CASE Streams(t)
      <3>1. locked_by' = locked_by /\ ~ Sends(t)
        BY <2>1 DEF Return, Sends
      <3>2. o # t
        BY <1>1, <1>2, <1>5, <3>1 DEF ThreadOK
      <3>3. \A u \in Threads \ {t} : ClientOf[u] = k /\ Sends(u) => o = u
        BY <1>2, <1>5, <3>1 DEF LockInv, ThreadOK
      <3>4. Turns(k, s, n, o) /\ o \in Threads \cup {None}
        BY <1>2, <1>5, <3>1 DEF Turns, ClientTypeOK
      <3>5. n = IF o = None THEN 0 ELSE call'[o].frames
        BY <1>2, <1>4, <1>5, <3>1, <3>2, <3>4 DEF ClientOK
      <3> QED
        BY <1>2, <1>5, <3>1, <3>2, <3>3, <3>4, <3>5 DEF ClientTypeOK, ClientOK
    <2>2. CASE ~ Streams(t)
      <3>1. locked_by' = [locked_by EXCEPT ![k] = None] /\ Sends(t)
        BY <1>1, <1>2, <2>2 DEF Return, Sends
      <3>2. locked_by[k] = t /\ in_flight[k] = 0
        BY <1>1, <1>2, <3>1, SendsAlone
      <3>3. \A u \in Threads \ {t} : ClientOf[u] = k => ~ Sends(u)
        BY <1>1, <3>1, SendsAlone
      <3>4. o = None /\ t # None
        BY <1>2, <1>5, <3>1, ClientAssumption DEF ClientTypeOK
      <3> QED
        BY <1>2, <1>5, <3>1, <3>2, <3>3, <3>4 DEF ClientTypeOK, Turns
    <2> QED
      BY <2>1, <2>2
  <1>7. Spares(t, k, s, o)
    BY <1>4, <1>5, <1>6 DEF Spares
  <1>8. /\ \A u \in Threads \ {t} : /\ ThreadOK(u)' /\ (Streaming(u)' <=> Streaming(u))
                                    /\ call'[u].sock = call[u].sock
        /\ \A l \in Clients \ {k} : ClientOK(l)'
    BY <1>1, <1>6, <1>7, OtherThreads
  <1>9. call'[t].at = "idle"
    BY <1>4, IdleIs
  <1>10. ThreadOK(t)'
    <2>1. ~ Sends(t)' /\ ~ Asks(t)' /\ locked_by'[k] # t
      BY <1>5, <1>6, <1>9 DEF Sends, Asks, Streaming
    <2> QED
      BY <1>1, <1>4, <1>9, <2>1 DEF ThreadOK
  <1>11. ClientOK(k)'
    BY <1>2, <1>5, <1>6 DEF ClientOK
  <1>12. /\ Drift
         /\ \A c \in Conns : Live(c) => Live(c)' \/ (Streaming(t) /\ c = call[t].sock)
    <2>1. CASE Streams(t) /\ call[t].sock # None
      <3>1. Streaming(t)
        BY <1>2, <2>1 DEF Streaming
      <3>2. PICK c \in Conns : c = call[t].sock /\ conn[c].client \in {"open", "shut"}
        BY <1>2, <2>1, <3>1 DEF CallRecords, ClientInv, OwnInv
      <3>3. ClientCloses(c)
        BY <2>1, <3>2 DEF Return
      <3>4. Drift /\ OnlyAt(c)
        BY <3>2, <3>3, ClosesIs
      <3> QED
        BY <3>1, <3>2, <3>4 DEF OnlyAt, Live
    <2>2. CASE ~ (Streams(t) /\ call[t].sock # None)
      <3>1. conn' = conn
        BY <2>2 DEF Return
      <3> QED
        BY <3>1 DEF Drift, ConnTypeOK, Live
    <2> QED
      BY <2>1, <2>2
  <1>13. OwnInv'
    <2>1. socket' = [socket EXCEPT ![k] = s] /\ ~ Streaming(t)'
      BY <1>6, <1>9 DEF Turns, Streaming
    <2>2. s # None => Live(s)'
      <3>1. s # None => s \in Conns /\ Live(s)
        BY <1>5, SocketIs DEF Live
      <3>2. Streaming(t) => call[t].sock # s
        BY <1>5 DEF ClientInv, OwnInv
      <3> QED
        BY <1>12, <3>1, <3>2
    <2>3. \A u \in Threads \ {t} :
            (Streaming(u)' <=> Streaming(u)) /\ call'[u].sock = call[u].sock
      BY <1>8
    <2>4. \/ s = None
          \/ s = socket[k] /\ (s # None => Live(s)')
          \/ s \in Conns /\ conn[s].client = "none" /\ Live(s)'
      BY <1>5, <2>2
    <2>5. \A c \in Conns : Live(c) =>
            \/ Live(c)'
            \/ c = socket[k]
            \/ t \in Threads /\ Streaming(t) /\ ~ Streaming(t)' /\ c = call[t].sock
      BY <1>12, <2>1
    <2> QED
      BY <2>1, <2>3, <2>4, <2>5, OwnStep
  <1>14. ClientTypeOK'
    BY <1>2, <1>4, <1>6 DEF ClientTypeOK
  <1> QED
    BY <1>8, <1>10, <1>11, <1>12, <1>13, <1>14 DEF ClientInv, LockInv

\* A step that is about the socket of the client k only.
LEMMA SocketStep ==
  ASSUME ClientInv, NEW k \in Clients, NEW s \in {None, socket[k]},
         socket' = [socket EXCEPT ![k] = s], s # None => Live(s)',
         should_close' \in [Clients -> BOOLEAN],
         stopped' \in [Clients -> BOOLEAN],
         UNCHANGED <<in_flight, locked_by, plan, call, results>>,
         s # socket[k] => \A u \in Threads : ClientOf[u] = k /\ Sends(u) =>
                             call[u].at \notin Using,
         \A c \in Conns : Live(c) => Live(c)' \/ c = socket[k]
  PROVE  ClientInv'
  <1>1. PICK n, o : n = in_flight[k] /\ o = locked_by[k]
    OBVIOUS
  <1>2. /\ ClientTypeOK /\ LockInv /\ None \notin Threads
        /\ \A u \in Threads : ThreadOK(u)
    BY ClientAssumption DEF ClientInv, LockInv
  <1>3. Turns(k, s, n, o) /\ o \in Threads \cup {None}
    BY <1>1, <1>2 DEF Turns, ClientTypeOK
  <1>4. Spares(None, k, s, o)
    BY <1>1, <1>2 DEF Spares, ThreadOK
  <1>5. /\ \A u \in Threads \ {None} : /\ ThreadOK(u)'
                                       /\ (Streaming(u)' <=> Streaming(u))
                                       /\ call'[u].sock = call[u].sock
        /\ \A l \in Clients \ {k} : ClientOK(l)'
    BY <1>1, <1>2, <1>3, <1>4, OtherThreads
  <1>6. ClientOK(k)'
    BY <1>2 DEF LockInv, ClientOK
  <1>7. OwnInv'
    <2>1. /\ \A u \in Threads \ {None} :
               (Streaming(u)' <=> Streaming(u)) /\ call'[u].sock = call[u].sock
          /\ ~ (None \in Threads /\ Streaming(None)')
      BY <1>2, <1>5
    <2>2. \/ s = None
          \/ s = socket[k] /\ (s # None => Live(s)')
          \/ s \in Conns /\ conn[s].client = "none" /\ Live(s)'
      OBVIOUS
    <2>3. \A c \in Conns : Live(c) =>
            \/ Live(c)'
            \/ c = socket[k]
            \/ None \in Threads /\ Streaming(None) /\ ~ Streaming(None)' /\ c = call[None].sock
      OBVIOUS
    <2> QED
      BY <2>1, <2>2, <2>3, OwnStep
  <1>8. ClientTypeOK'
    BY <1>2 DEF ClientTypeOK
  <1> QED
    BY <1>2, <1>5, <1>6, <1>7, <1>8 DEF ClientInv, LockInv

LEMMA StopKeeps ==
  ASSUME ClientInv, ConnTypeOK, NEW k \in Clients, Stop(k) \/ Destroy(k)
  PROVE  /\ ClientInv' /\ Drift
         /\ \/ CloseSocket(k) /\ \A u \in Threads : ClientOf[u] = k /\ Sends(u) =>
                                    call[u].at \notin Using
            \/ socket' = socket /\ \A c \in Conns : conn'[c] = conn[c] \/ Shuts(c)
  <1>1. ClientTypeOK /\ LockInv /\ ClientOK(k)
    BY DEF ClientInv, LockInv
  <1>2. CASE /\ Stop(k) /\ in_flight[k] > 0
    <2>1. /\ should_close' = [should_close EXCEPT ![k] = TRUE]
          /\ stopped' = [stopped EXCEPT ![k] = TRUE]
          /\ UNCHANGED <<in_flight, locked_by, plan, call, results, socket>>
          /\ IF socket[k] = None THEN UNCHANGED conn ELSE ClientShutsDown(socket[k])
      BY <1>2 DEF Stop
    <2>2. /\ Drift /\ \A c \in Conns : conn'[c] = conn[c] \/ Shuts(c)
          /\ \A c \in Conns : Live(c) => Live(c)'
      <3>1. CASE socket[k] = None
        BY <2>1, <3>1 DEF Drift, ConnTypeOK, Live
      <3>2. CASE socket[k] # None
        <4>1. PICK c \in Conns : c = socket[k] /\ conn[c].client \in {"open", "shut"}
          BY <3>2, SocketIs
        <4>2. Drift /\ Shuts(c) /\ OnlyAt(c)
          BY <2>1, <3>2, <4>1, ShutsIs
        <4> QED
          BY <4>2 DEF Shuts, OnlyAt, Live
      <3> QED
        BY <3>1, <3>2
    <2>3. PICK s : s = socket[k]
      OBVIOUS
    <2>4. /\ s \in {None, socket[k]} /\ socket' = [socket EXCEPT ![k] = s]
          /\ s # None => Live(s)'
      BY <1>1, <2>1, <2>2, <2>3, SocketIs DEF ClientTypeOK, Live
    <2>5. should_close' \in [Clients -> BOOLEAN] /\ stopped' \in [Clients -> BOOLEAN]
      BY <1>1, <2>1 DEF ClientTypeOK
    <2>6. ClientInv'
      BY <2>1, <2>2, <2>3, <2>4, <2>5, SocketStep
    <2> QED
      BY <2>1, <2>2, <2>6
  <1>3. CASE ~ (Stop(k) /\ in_flight[k] > 0)
    <2>1. /\ CloseSocket(k)
          /\ UNCHANGED <<in_flight, locked_by, plan, call, results, should_close, stopped>>
      BY <1>3 DEF Stop, Destroy
    <2>2. \A u \in Threads : ClientOf[u] = k /\ Sends(u) => call[u].at \notin Using
      <3> SUFFICES ASSUME NEW u \in Threads, ClientOf[u] = k, Sends(u)
                   PROVE  call[u].at \notin Using
        OBVIOUS
      <3>1. /\ ThreadOK(u) /\ in_flight[k] = call[u].frames
            /\ call[u].frames \in Nat /\ in_flight[k] \in Nat
        BY <1>1, SendsAlone DEF LockInv, ClientTypeOK, CallRecords
      <3>2. CASE Stop(k)
        BY <1>3, <3>1, <3>2 DEF ThreadOK
      <3>3. CASE Destroy(k)
        BY <3>1, <3>3 DEF ThreadOK, Sends, Destroy
      <3> QED
        BY <3>2, <3>3
    <2>3. /\ Drift /\ socket' = [socket EXCEPT ![k] = None]
          /\ \A c \in Conns : c # socket[k] => conn'[c] = conn[c]
      BY <2>1, CloseSocketDoes
    <2>4. should_close' \in [Clients -> BOOLEAN] /\ stopped' \in [Clients -> BOOLEAN]
      BY <1>1, <2>1 DEF ClientTypeOK
    <2>5. \A c \in Conns : Live(c) => Live(c)' \/ c = socket[k]
      BY <2>3 DEF Live
    <2>6. ClientInv'
      BY <2>1, <2>2, <2>3, <2>4, <2>5, SocketStep
    <2> QED
      BY <2>1, <2>2, <2>3, <2>6
  <1> QED
    BY <1>2, <1>3

-----------------------------------------------------------------------------
\* Both sides: what holds of them in every state, and what the steps are.

ExchangeInv == ServerInv /\ ClientInv

\* A step of a call on the connection it uses, or another one of its thread.
Uses(t) ==
  Write(t) \/ ReadStatus(t) \/ ReadBody(t) \/ ReadTimesOut(t)

Manages(t) ==
  \/ Send(t) \/ OpenStream(t) \/ OpenSocket(t) \/ HandleResponse(t)
  \/ LeaveFrame(t) \/ Return(t)

ClientStep ==
  \/ \E t \in Threads : ClientThread(t)
  \/ \E k \in Clients : Stop(k) \/ Destroy(k)

LEMMA ExchangeSteps ==
  ASSUME [ExchangeNext]_exchangeVars
  PROVE  \/ ServerStep /\ UNCHANGED clientObjects
         \/ ClientStep /\ UNCHANGED serverVars
         \/ UNCHANGED exchangeVars
  BY DEF ExchangeNext, ServerStep, ClientStep, clientVars

LEMMA ExchangeStart == ExchangeInit => ExchangeInv
  <1> SUFFICES ASSUME ExchangeInit PROVE ExchangeInv
    OBVIOUS
  <1>1. PoolInv /\ ClientInv
    BY PoolStart, ClientStart DEF ExchangeInit, ServerInit
  <1>2. /\ conn = [c \in Conns |-> NoConn] /\ NoConn \in Connections
        /\ NoConn.client = "none"
    BY DEF ExchangeInit, ConnInit, NoConn, Connections
  <1>3. ServeOK(Fresh)
    BY ServerAssumption DEF Fresh, ServeOK, ServeRecords, Busy
  <1>4. serve = [w \in Workers |-> Fresh]
    BY DEF ExchangeInit, ServerInit
  <1>5. ServeTypeOK
    BY <1>3, <1>4 DEF ServeTypeOK, ServeOK
  <1>6. \A c \in Conns : ~ InPool(c)
    <2>1. jobs = <<>> /\ worker = [w \in Workers |-> "check"] /\ "check" \notin Conns
      BY PoolAssumption, ServerAssumption DEF ExchangeInit, ServerInit, PoolInit
    <2> QED
      BY <2>1 DEF InPool, Running
  <1> QED
    BY <1>1, <1>2, <1>5, <1>6 DEF ExchangeInv, ServerInv, ConnTypeOK, Accepted,
       Unused

\* The clients notice nothing of a step of the server but what it sends.
LEMMA ServerSpares ==
  ASSUME ClientInv, UNCHANGED clientObjects,
         \A c \in Conns : conn'[c].client = conn[c].client
  PROVE  ClientInv'
  <1>1. UNCHANGED <<socket, in_flight, should_close, locked_by, plan, call,
                    results, stopped>>
    BY DEF clientObjects
  <1>2. ClientTypeOK'
    BY <1>1 DEF ClientInv, ClientTypeOK
  <1>3. LockInv'
    BY <1>1 DEF ClientInv, LockInv, ThreadOK, ClientOK, Sends, Asks, Streaming,
       Streams
  <1>4. OwnInv'
    <2>1. /\ \A k \in Clients : socket[k] # None => socket[k] \in Conns
          /\ \A t \in Threads : Streaming(t) => call[t].sock \in Conns
      BY SMTT(30) DEF ClientInv, ClientTypeOK, CallRecords, Streaming
    <2>2. \A t \in Threads : Streaming(t)' = Streaming(t)
      BY <1>1 DEF Streaming, Streams
    <2> QED
      BY <1>1, <2>1, <2>2 DEF ClientInv, OwnInv
  <1> QED
    BY <1>2, <1>3, <1>4 DEF ClientInv

LEMMA UsesCalls ==
  ASSUME ClientInv, ConnTypeOK, NEW t \in Threads, Uses(t)
  PROVE  call[t].at \in Using /\ Calls(t)
  BY WriteCalls, ReadStatusCalls, ReadBodyCalls, ReadTimesOutCalls
     DEF Uses, Using, Write, ReadStatus, ReadBody, ReadTimesOut, Step

LEMMA ManagesKeeps ==
  ASSUME ClientInv, ConnTypeOK, Unused, NEW t \in Threads, Manages(t)
  PROVE  ClientInv' /\ Drift
  BY SendKeeps, OpenStreamKeeps, OpenSocketKeeps, HandleResponseKeeps,
     LeaveFrameKeeps, ReturnKeeps DEF Manages

LEMMA ClientStepKeeps ==
  ASSUME ExchangeInv, ClientStep, UNCHANGED serverVars
  PROVE  ExchangeInv'
  <1>1. ServerInv /\ ClientInv /\ ConnTypeOK /\ Unused
    BY DEF ExchangeInv, ServerInv
  <1>2. ASSUME NEW t \in Threads, Uses(t)
        PROVE  ExchangeInv'
    <2>1. call[t].at \in Using /\ Calls(t)
      BY <1>1, <1>2, UsesCalls
    <2>2. CallStep(t) /\ ClientInv'
      BY <2>1 DEF Calls, CallStep
    <2> QED
      BY <1>1, <2>1, <2>2, CallStepKeeps DEF ExchangeInv
  <1>3. ASSUME NEW t \in Threads, Manages(t)
        PROVE  ExchangeInv'
    BY <1>1, <1>3, ManagesKeeps, DriftKeeps DEF ExchangeInv
  <1>4. ASSUME NEW k \in Clients, Stop(k) \/ Destroy(k)
        PROVE  ExchangeInv'
    BY <1>1, <1>4, StopKeeps, DriftKeeps DEF ExchangeInv
  <1> QED
    BY <1>2, <1>3, <1>4 DEF ClientStep, ClientThread, Uses, Manages

LEMMA ExchangeStep ==
  ASSUME ExchangeInv, [ExchangeNext]_exchangeVars
  PROVE  ExchangeInv' /\ [PoolNext]_poolVars
  <1>1. CASE ServerStep /\ UNCHANGED clientObjects
    <2>1. ServerInv' /\ \A c \in Conns : conn'[c].client = conn[c].client
      BY <1>1, ServerKeeps DEF ExchangeInv
    <2>2. ClientInv'
      BY <1>1, <2>1, ServerSpares DEF ExchangeInv
    <2> QED
      BY <1>1, <2>1, <2>2, ServerInPool DEF ExchangeInv
  <1>2. CASE ClientStep /\ UNCHANGED serverVars
    BY <1>2, ClientStepKeeps DEF serverVars
  <1>3. CASE UNCHANGED exchangeVars
    <2>1. UNCHANGED <<conn, poolVars, serve, clientObjects>>
      BY <1>3 DEF exchangeVars, serverVars, clientVars
    <2>2. ClientInv'
      BY <2>1, ServerSpares DEF ExchangeInv
    <2>3. PoolInv'
      BY <2>1, PoolStep DEF ExchangeInv, ServerInv
    <2>4. ServerInv'
      BY <2>1, <2>3 DEF ExchangeInv, ServerInv, ConnTypeOK, ServeTypeOK,
         Accepted,
                        Unused, InPool, Running, poolVars
    <2> QED
      BY <2>1, <2>2, <2>4 DEF ExchangeInv
  <1> QED
    BY <1>1, <1>2, <1>3, ExchangeSteps

\* In every state of a server and its clients a connection in the pool is served
\* by one worker and used by one call, a client is locked by the thread that
\* sends, and what is on the connections are cells of requests and answers.
THEOREM ExchangeCorrect == ExchangeSpec => []ExchangeInv
  BY ExchangeStart, ExchangeStep, PTL DEF ExchangeSpec

\* The server and its clients implement the pool: its workers take the accepted
\* connections as jobs, and every other step changes nothing of it.
THEOREM PoolRefined == ExchangeSpec => PoolSpec
  <1>1. ExchangeInit => PoolInit
    BY DEF ExchangeInit, ServerInit
  <1> QED
    BY <1>1, ExchangeStep, ExchangeCorrect, PTL DEF ExchangeSpec, PoolSpec

\* An accepted connection is served by one worker, and by none a second time.
THEOREM ServedOnceCorrect == ExchangeSpec => []EachJobOnce
  <1>1. ExchangeInv => EachJobOnce
    BY DEF ExchangeInv, ServerInv, PoolInv
  <1> QED
    BY <1>1, ExchangeCorrect, PTL

-----------------------------------------------------------------------------
\* NotClosedInUse: who touches a connection.

\* Who uses the socket of a client is the call of send on it.
LEMMA SocketUser ==
  ASSUME ClientInv, NEW k \in Clients, NEW t \in Threads,
         call[t].at \in Using, call[t].sock = socket[k]
  PROVE  /\ Sends(t) /\ ClientOf[t] = k /\ call[t].frames > 0
         /\ in_flight[k] = call[t].frames /\ locked_by[k] = t
  <1>1. Asks(t) /\ call[t].sock \in Conns /\ call[t].sock # None
    BY UsingIs, ClientAssumption
  <1>2. Sends(t)
    BY <1>1 DEF Asks, ClientInv, OwnInv
  <1>3. call[t].frames > 0 /\ socket[ClientOf[t]] = call[t].sock
    BY <1>2 DEF ClientInv, LockInv, ThreadOK
  <1>4. ClientOf[t] = k
    BY <1>1, <1>3, ClientAssumption DEF ClientInv, OwnInv
  <1> QED
    BY <1>2, <1>3, <1>4, SendsAlone

\* What a step of a thread besides its exchange does to a connection.
Touches(t, k, c) ==
  \/ conn'[c] = conn[c]
  \/ Opens(c) /\ (OpenSocket(t) \/ OpenStream(t))
  \/ /\ c = socket[k] /\ Closes(c)
     /\ \/ OpenStream(t) \/ OpenSocket(t) \/ LeaveFrame(t)
        \/ HandleResponse(t) /\ ~ Streams(t)
  \/ Return(t) /\ Streaming(t) /\ c = call[t].sock /\ Closes(c)

LEMMA ManagesTouches ==
  ASSUME ClientInv, ConnTypeOK, Unused, NEW t \in Threads, Manages(t),
         NEW k \in Clients, k = ClientOf[t], NEW c \in Conns
  PROVE  Touches(t, k, c)
  <1>1. CASE conn' = conn
    BY <1>1 DEF Touches
  <1>2. ASSUME CloseSocket(k)
        PROVE  conn'[c] = conn[c] \/ (c = socket[k] /\ Closes(c))
    BY <1>2, CloseSocketDoes, ClientAssumption
  <1>3. ASSUME NEW s, NewSocket(k, s)
        PROVE  conn'[c] = conn[c] \/ Opens(c) \/ (c = socket[k] /\ Closes(c))
    BY <1>3, ClientAssumption DEF NewSocket
  <1>4. CASE OpenSocket(t)
    <2>1. PICK s, z : OpensSocket(t, k, s, z)
      BY <1>4, OpenSocketDoes
    <2> QED
      BY <1>3, <1>4, <2>1 DEF OpensSocket, Touches
  <1>5. CASE OpenStream(t)
    <2>1. PICK s, z : OpensStream(t, k, s, z)
      BY <1>5, OpenStreamDoes
    <2> QED
      BY <1>3, <1>5, <2>1 DEF OpensStream, Touches
  <1>6. CASE HandleResponse(t)
    BY <1>1, <1>2, <1>6 DEF HandleResponse, Touches
  <1>7. CASE LeaveFrame(t)
    BY <1>1, <1>2, <1>7 DEF LeaveFrame, Touches
  <1>8. CASE Return(t) /\ conn' # conn
    <2>1. Streaming(t) /\ ClientCloses(call[t].sock)
      BY <1>8 DEF Return, Step, Streaming
    <2>2. PICK d \in Conns : d = call[t].sock
      BY <2>1 DEF Streaming, ClientInv, ClientTypeOK, CallRecords
    <2>3. conn[d].client \in {"open", "shut"}
      BY <2>1, <2>2 DEF ClientInv, OwnInv
    <2>4. Closes(d) /\ OnlyAt(d)
      BY <2>1, <2>2, <2>3, ClosesIs
    <2> QED
      BY <1>8, <2>1, <2>2, <2>4 DEF Touches, OnlyAt
  <1> QED
    BY <1>1, <1>4, <1>5, <1>6, <1>7, <1>8 DEF Manages, Send

\* Nobody touches the connection that another one uses.
LEMMA ManagesSpares ==
  ASSUME ClientInv, ConnTypeOK, Unused, NEW t \in Threads, Manages(t),
         NEW u \in Threads, call[u].at \in Using,
         conn'[call[u].sock] # conn[call[u].sock]
  PROVE  u = t /\ HandleResponse(t)
  <1>1. PICK k \in Clients : k = ClientOf[t]
    BY ClientAssumption
  <1>2. PICK c \in Conns : /\ c = call[u].sock /\ conn'[c] # conn[c]
                           /\ conn[c].client \in {"open", "shut"}
    BY UsingIs
  <1>3. Touches(t, k, c)
    BY <1>1, ManagesTouches
  <1>4. CASE c = socket[k]
    <2>1. Sends(u) /\ ClientOf[u] = k /\ in_flight[k] > 0
      BY ZenonT(60), <1>2, <1>4, SocketUser
    <2>2. ~ OpenStream(t)
      <3>1. OpenStream(t) => in_flight[k] = 0
        BY <1>1 DEF OpenStream
      <3> QED
        BY <2>1, <3>1
    <2>3. OpenSocket(t) => Sends(t) /\ call[t].at \notin Using
      BY OpenSocketKeeps DEF OpenSocket, Step, Using
    <2>4. LeaveFrame(t) => Sends(t) /\ call[t].at \notin Using
      BY LeaveFrameKeeps DEF LeaveFrame, Step, Using
    <2>5. HandleResponse(t) /\ ~ Streams(t) => Sends(t)
      BY DEF HandleResponse, Step, Sends
    <2>6. c # None /\ Live(c) /\ ~ Opens(c)
      BY <1>2, ClientAssumption DEF Live, Opens
    <2>7. ~ (Streaming(t) /\ c = call[t].sock)
      BY <1>4 DEF ClientInv, OwnInv
    <2>8. Sends(t) => u = t
      BY <1>1, <2>1, SendsAlone
    <2> QED
      BY <1>2, <1>3, <2>2, <2>3, <2>4, <2>5, <2>6, <2>7, <2>8 DEF Touches
  <1>5. CASE c # socket[k]
    <2>1. Return(t) /\ Streaming(t) /\ c = call[t].sock
      BY <1>2, <1>3, <1>5 DEF Touches, Opens
    <2>2. call[t].at = "leave"
      BY <2>1 DEF Return, Step
    <2>3. u # t
      BY <2>2 DEF Using
    <2>4. Asks(u) /\ ClientOf[u] \in Clients
      BY UsingIs, ClientAssumption
    <2>5. ~ Streaming(u)
      BY <1>2, <2>1, <2>3 DEF ClientInv, OwnInv
    <2>6. socket[ClientOf[u]] = c
      BY <1>2, <2>4, <2>5 DEF Asks, ClientInv, LockInv, ThreadOK
    <2> QED
      BY <2>1, <2>4, <2>6 DEF ClientInv, OwnInv
  <1> QED
    BY <1>4, <1>5

LEMMA StopSpares ==
  ASSUME ClientInv, ConnTypeOK, NEW k \in Clients, Stop(k) \/ Destroy(k),
         NEW u \in Threads, call[u].at \in Using
  PROVE  conn'[call[u].sock] = conn[call[u].sock] \/ Shuts(call[u].sock)
  <1>1. PICK c \in Conns : c = call[u].sock
    BY UsingIs
  <1>2. CASE \A d \in Conns : conn'[d] = conn[d] \/ Shuts(d)
    BY <1>1, <1>2
  <1>3. CASE CloseSocket(k) /\ \A v \in Threads : ClientOf[v] = k /\ Sends(v) =>
                                  call[v].at \notin Using
    <2>1. c # socket[k]
      BY <1>1, <1>3, SocketUser
    <2> QED
      BY <1>1, <1>3, <2>1, CloseSocketDoes
  <1> QED
    BY <1>2, <1>3, StopKeeps

LEMMA InUse ==
  ASSUME ExchangeInv, [ExchangeNext]_exchangeVars, NEW c \in Conns,
         conn[c].client # "closed", conn'[c].client = "closed",
         NEW u \in Threads, call[u].sock = c,
         call[u].at \in {"write", "write_body", "status", "body"}
  PROVE  FALSE
  <1>1. ServerInv /\ ClientInv /\ ConnTypeOK /\ Unused /\ call[u].at \in Using
    BY DEF ExchangeInv, ServerInv, Using
  <1>2. CASE ServerStep
    BY <1>1, <1>2, ServerKeeps
  <1>3. ASSUME NEW t \in Threads, Uses(t)
        PROVE  FALSE
    <2>1. call[t].at \in Using /\ CallStep(t)
      BY SMTT(30), <1>1, <1>3, UsesCalls DEF Calls
    <2> QED
      BY <1>1, <2>1, UsingIs DEF CallStep, OnlyAt
  <1>4. ASSUME NEW t \in Threads, Manages(t)
        PROVE  FALSE
    BY <1>1, <1>4, ManagesSpares DEF HandleResponse, Step
  <1>5. ASSUME NEW k \in Clients, Stop(k) \/ Destroy(k)
        PROVE  FALSE
    BY <1>1, <1>5, StopSpares DEF Shuts
  <1>6. CASE UNCHANGED exchangeVars
    BY <1>6 DEF exchangeVars
  <1> QED
    BY <1>2, <1>3, <1>4, <1>5, <1>6, ExchangeSteps
       DEF ClientStep, ClientThread, Uses, Manages

\* The socket of a request is not closed by another thread.
THEOREM NotClosedInUseCorrect == ExchangeSpec => NotClosedInUse
  <1>1. ExchangeInv /\ [ExchangeNext]_exchangeVars =>
          (\A c \in Conns :
             conn[c].client # "closed" /\ conn'[c].client = "closed" =>
               \A t \in Threads :
                  /\ call[t].sock = c
                  /\ call[t].at \in {"write", "write_body", "status", "body"}
                  => call'[t] # call[t])
    BY InUse
  <1> QED
    BY <1>1, ExchangeCorrect, PTL DEF ExchangeSpec, NotClosedInUse

-----------------------------------------------------------------------------
\* StopCloses: a stopped call and its socket.

\* A step of a thread is about its own call and its own client.
LEMMA ManagesOthers ==
  ASSUME ClientInv, ConnTypeOK, Unused, NEW t \in Threads, Manages(t)
  PROVE  /\ \A u \in Threads \ {t} : /\ call'[u] = call[u] /\ plan'[u] = plan[u]
                                     /\ results'[u] = results[u]
         /\ \A l \in Clients \ {ClientOf[t]} :
               /\ socket'[l] = socket[l] /\ stopped'[l] = stopped[l]
               /\ should_close'[l] = should_close[l]
               /\ locked_by'[l] = locked_by[l]
  <1>1. /\ call \in [Threads -> CallRecords] /\ DOMAIN plan = Threads
        /\ DOMAIN results = Threads /\ DOMAIN socket = Clients
        /\ DOMAIN stopped = Clients /\ DOMAIN should_close = Clients
        /\ DOMAIN locked_by = Clients
    BY DEF ClientInv, ClientTypeOK
  <1>2. PICK k \in Clients : k = ClientOf[t]
    BY ClientAssumption
  <1>3. CASE Send(t)
    BY <1>1, <1>2, <1>3 DEF Send
  <1>4. CASE OpenStream(t)
    <2>1. PICK s, z : OpensStream(t, k, s, z)
      BY <1>2, <1>4, OpenStreamDoes
    <2> QED
      BY <1>1, <1>2, <1>4, <2>1 DEF OpenStream, OpensStream, CallsAre
  <1>5. CASE OpenSocket(t)
    <2>1. PICK s, z : OpensSocket(t, k, s, z)
      BY <1>2, <1>5, OpenSocketDoes
    <2> QED
      BY <1>1, <1>2, <1>5, <2>1 DEF OpenSocket, OpensSocket, CallsAre
  <1>6. CASE HandleResponse(t)
    <2>1. PICK z : HandlesResponse(t, z)
      BY <1>6, HandleResponseDoes
    <2> QED
      BY <1>1, <1>2, <1>6, <2>1
         DEF HandleResponse, HandlesResponse, CallsAre, CloseSocket
  <1>7. CASE LeaveFrame(t)
    <2>1. PICK z : CallsAre(t, z)
      BY <1>7, LeaveFrameDoes
    <2> QED
      BY <1>1, <1>2, <1>7, <2>1 DEF LeaveFrame, CallsAre, CloseSocket
  <1>8. CASE Return(t)
    BY <1>1, <1>2, <1>8 DEF Return
  <1> QED
    BY <1>3, <1>4, <1>5, <1>6, <1>7, <1>8 DEF Manages

\* A first send that was stopped closes the socket before it returns.
StopOK(t) ==
  Sends(t) /\ Hop(t) = 0 =>
     /\ call[t].at = "open" => call[t].frames = 0
     /\ stopped[ClientOf[t]] =>
           IF call[t].frames > 0 THEN should_close[ClientOf[t]]
           ELSE call[t].at = "leave" /\ socket[ClientOf[t]] = None

StopInv == \A t \in Threads : StopOK(t)

LEMMA StopKept ==
  ASSUME NEW u \in Threads, NEW k, k = ClientOf[u], StopOK(u),
         call'[u] = call[u],
         plan'[u] = plan[u], stopped'[k] = stopped[k],
         should_close'[k] = should_close[k], socket'[k] \in {socket[k], None}
  PROVE  StopOK(u)'
  BY DEF StopOK, Sends, Streams, Hop

\* A thread whose step is not about the socket of its client.
LEMMA StopOthers ==
  ASSUME ClientInv, ConnTypeOK, Unused, StopInv, NEW t \in Threads, Manages(t),
         NEW u \in Threads \ {t},
         Sends(u) /\ ClientOf[u] = ClientOf[t] =>
            /\ stopped'[ClientOf[t]] = stopped[ClientOf[t]]
            /\ should_close'[ClientOf[t]] = should_close[ClientOf[t]]
            /\ socket'[ClientOf[t]] \in {socket[ClientOf[t]], None}
  PROVE  StopOK(u)'
  <1>1. PICK k \in Clients : k = ClientOf[u]
    BY ClientAssumption
  <1>2. call'[u] = call[u] /\ plan'[u] = plan[u]
    BY ManagesOthers
  <1>3. CASE Sends(u)
    <2>1. /\ stopped'[k] = stopped[k] /\ should_close'[k] = should_close[k]
          /\ socket'[k] \in {socket[k], None}
      BY <1>1, <1>3, ManagesOthers
    <2> QED
      BY <1>1, <1>2, <2>1, StopKept DEF StopInv
  <1>4. CASE ~ Sends(u)
    BY <1>2, <1>4 DEF StopOK, Sends, Streams
  <1> QED
    BY <1>3, <1>4

LEMMA SenderStops ==
  ASSUME ClientInv, ConnTypeOK, Unused, StopInv, NEW t \in Threads,
         Manages(t), Sends(t)
  PROVE  StopInv'
  <1>1. \A u \in Threads \ {t} : StopOK(u)'
    BY SendsAlone, StopOthers
  <1>2. PICK k \in Clients : k = ClientOf[t]
    BY ClientAssumption
  <1>3. /\ call[t].at # "idle" /\ plan[t] # <<>> /\ ~ Streams(t) /\ StopOK(t)
        /\ call[t].frames \in Nat /\ call[t].req \in Requests /\ Hop(t) \in Nat
        /\ ThreadOK(t)
    BY DEF Sends, StopInv, ClientInv, LockInv, ThreadOK, Asks, Hop, Requests,
           Ids,
           ClientTypeOK, CallRecords
  <1>4. StopOK(t)'
    <2>1. CASE OpenSocket(t)
      <3>1. ~ (Hop(t) = 0 /\ stopped[k])
        <4>1. call[t].at = "open"
          BY <2>1 DEF OpenSocket, Step
        <4>2. Hop(t) = 0 /\ stopped[k] => call[t].frames = 0 /\ call[t].frames > 0
          BY <1>2, <1>3, <4>1 DEF StopOK
        <4> QED
          BY <4>2
      <3>2. PICK s, z : OpensSocket(t, k, s, z)
        BY <1>2, <2>1, OpenSocketDoes
      <3>3. stopped' = stopped /\ call'[t].req = call[t].req /\ call'[t].at # "open"
        BY <2>1, <3>2 DEF OpenSocket, OpensSocket, CallsAre
      <3>4. Hop(t)' = Hop(t)
        BY <3>3 DEF Hop
      <3> QED
        BY <1>2, <3>1, <3>3, <3>4 DEF StopOK
    <2>2. CASE HandleResponse(t)
      <3>1. PICK z : HandlesResponse(t, z)
        BY <2>2, HandleResponseDoes
      <3>2. call[t].at = "received" /\ call[t].frames > 0
        BY <1>3, <2>2 DEF HandleResponse, Step, ThreadOK, Using
      <3>3. /\ UNCHANGED <<stopped, should_close>> /\ call'[t] = z
            /\ z.frames = call[t].frames
            /\ \/ z.at = "leave" /\ z.req = call[t].req
               \/ z.req.id[3] = Hop(t) + 1
        BY <2>2, <3>1 DEF HandleResponse, HandlesResponse, CallsAre
      <3>4. \/ call'[t].at = "leave" /\ Hop(t)' = Hop(t)
            \/ Hop(t)' = Hop(t) + 1
        BY <3>3 DEF Hop
      <3> QED
        BY <1>2, <1>3, <3>2, <3>3, <3>4 DEF StopOK
    <2>3. CASE LeaveFrame(t)
      <3>1. PICK z : /\ CallsAre(t, z) /\ z.at = "leave" /\ call[t].frames > 0
                     /\ z.frames = call[t].frames - 1 /\ z.req = call[t].req
        BY <2>3, LeaveFrameDoes
      <3>2. /\ UNCHANGED <<stopped, should_close>> /\ call'[t] = z
            /\ Hop(t)' = Hop(t)
        BY <2>3, <3>1 DEF LeaveFrame, CallsAre, Hop
      <3>3. should_close[k] => socket'[k] = None
        BY <1>2, <2>3 DEF LeaveFrame, CloseSocket, ClientInv, ClientTypeOK
      <3> QED
        BY <1>2, <1>3, <3>1, <3>2, <3>3 DEF StopOK
    <2>4. CASE Return(t)
      <3>1. call'[t] = Idle
        BY <2>4 DEF Return, ClientInv, ClientTypeOK
      <3> QED
        BY <3>1, IdleIs DEF StopOK, Sends
    <2> QED
      BY <1>3, <2>1, <2>2, <2>3, <2>4 DEF Manages, Send, OpenStream, Step
  <1> QED
    BY <1>1, <1>4 DEF StopInv

LEMMA ManagesStops ==
  ASSUME ClientInv, ConnTypeOK, Unused, StopInv, NEW t \in Threads, Manages(t)
  PROVE  StopInv'
  <1>1. PICK k \in Clients : k = ClientOf[t]
    BY ClientAssumption
  <1>2. CASE Sends(t)
    BY <1>2, SenderStops
  <1>3. CASE Send(t)
    <2>1. PICK z : CallsAre(t, z) /\ z.frames = 0
      BY <1>3, SendDoes
    <2>2. /\ locked_by[k] = None /\ stopped'[k] = FALSE /\ call'[t].frames = 0
          /\ None \notin Threads
      BY <1>1, <1>3, <2>1, ClientAssumption
         DEF Send, ClientInv, ClientTypeOK, CallsAre
    <2>3. \A u \in Threads \ {t} : Sends(u) => ClientOf[u] # k
      BY <2>2, SendsAlone
    <2>4. \A u \in Threads \ {t} : StopOK(u)'
      BY <1>1, <2>3, StopOthers
    <2>5. StopOK(t)'
      BY <1>1, <2>2 DEF StopOK
    <2> QED
      BY <2>4, <2>5 DEF StopInv
  <1>4. CASE ~ Sends(t) /\ ~ Send(t)
    <2>1. OpenStream(t) \/ ((HandleResponse(t) \/ Return(t)) /\ Streams(t))
      BY <1>4, OpenSocketKeeps, LeaveFrameKeeps
         DEF Manages, HandleResponse, Return, Step, Sends
    <2>2. /\ UNCHANGED <<stopped, should_close>> /\ socket'[k] \in {socket[k], None}
      BY <1>1, <2>1 DEF OpenStream, HandleResponse, Return, ClientInv,
         ClientTypeOK
    <2>3. \A u \in Threads \ {t} : StopOK(u)'
      BY <1>1, <2>2, StopOthers
    <2>4. ~ Sends(t)'
      <3>1. CASE Return(t)
        <4>1. call'[t] = Idle
          BY <3>1 DEF Return, ClientInv, ClientTypeOK
        <4> QED
          BY <4>1, IdleIs DEF Sends
      <3>2. CASE OpenStream(t) \/ HandleResponse(t)
        <4>1. plan' = plan /\ Streams(t)
          BY <2>1, <3>2 DEF OpenStream, HandleResponse, Return, Step
        <4> QED
          BY <4>1 DEF Sends, Streams
      <3> QED
        BY <2>1, <3>1, <3>2
    <2>5. StopOK(t)'
      BY <2>4 DEF StopOK
    <2> QED
      BY <2>3, <2>5 DEF StopInv
  <1> QED
    BY <1>2, <1>3, <1>4

LEMMA StopStops ==
  ASSUME ClientInv, StopInv, NEW k \in Clients, Stop(k) \/ Destroy(k)
  PROVE  StopInv'
  <1> SUFFICES ASSUME NEW u \in Threads PROVE StopOK(u)'
    BY DEF StopInv
  <1>1. /\ StopOK(u) /\ ClientTypeOK /\ UNCHANGED <<call, plan>>
        /\ ClientOf[u] \in Clients
    BY ClientAssumption DEF StopInv, ClientInv, Stop, Destroy
  <1>2. PICK l \in Clients : l = ClientOf[u]
    BY <1>1
  <1>3. CASE k = l /\ Stop(k) /\ in_flight[k] > 0
    <2>1. should_close'[k] = TRUE
      BY <1>1, <1>3 DEF Stop, ClientTypeOK
    <2>2. Sends(u) => call[u].frames > 0
      BY <1>2, <1>3, SendsAlone
    <2>3. Sends(u)' = Sends(u) /\ Hop(u)' = Hop(u)
      BY <1>1 DEF Sends, Streams, Hop
    <2> QED
      BY <1>1, <1>2, <1>3, <2>1, <2>2, <2>3 DEF StopOK
  <1>4. CASE ~ (k = l /\ Stop(k) /\ in_flight[k] > 0)
    <2>1. /\ should_close'[l] = should_close[l] /\ stopped'[l] = stopped[l]
          /\ socket'[l] \in {socket[l], None}
      BY <1>1, <1>4 DEF Stop, Destroy, CloseSocket, ClientTypeOK
    <2> QED
      BY <1>1, <1>2, <2>1, StopKept
  <1> QED
    BY <1>3, <1>4

LEMMA UsesStops ==
  ASSUME ClientInv, ConnTypeOK, StopInv, NEW t \in Threads, Uses(t)
  PROVE  StopInv'
  <1>1. call[t].at \in Using /\ CallStep(t) /\ call'[t].at \notin {"idle", "open"}
    BY UsesCalls DEF Calls, SendsRequest, SendsContent, Abandons, TakesStatus,
       TakesBody
  <1>2. UNCHANGED <<socket, should_close, plan, stopped>>
    BY <1>1 DEF CallStep, OnlyCall
  <1>3. ASSUME NEW u \in Threads \ {t}
        PROVE  StopOK(u)'
    <2>1. StopOK(u) /\ call'[u] = call[u]
      BY <1>1 DEF StopInv, CallStep
    <2> QED
      BY <1>2, <2>1, StopKept
  <1>4. StopOK(t)'
    <2>1. Streams(t)' = Streams(t) /\ Hop(t)' = Hop(t) /\ call[t].at # "idle"
      BY <1>1, <1>2 DEF Streams, Hop, CallStep, Using
    <2>2. StopOK(t) /\ call'[t].frames = call[t].frames
          /\ (Sends(t)' => Sends(t) /\ call[t].frames > 0)
      BY <1>1, <2>1 DEF StopInv, CallStep, Sends, ClientInv, LockInv, ThreadOK
    <2> QED
      BY <1>1, <1>2, <2>1, <2>2 DEF StopOK
  <1> QED
    BY SMTT(30), <1>3, <1>4 DEF StopInv

LEMMA StopStep ==
  ASSUME ExchangeInv, StopInv, [ExchangeNext]_exchangeVars
  PROVE  StopInv'
  <1>1. ClientInv /\ ConnTypeOK /\ Unused
    BY DEF ExchangeInv, ServerInv
  <1>2. CASE UNCHANGED clientObjects
    BY <1>2 DEF clientObjects, StopInv, StopOK, Sends, Streams, Hop
  <1> QED
    BY <1>1, <1>2, UsesStops, ManagesStops, StopStops, ExchangeSteps
       DEF ClientStep, ClientThread, Uses, Manages, exchangeVars, clientVars

\* The socket is closed when a request returns during which stop was called,
\* if it is a request of send, not a stream, and was not redirected: the nested
\* send_ of a redirect forgets the call of stop.
THEOREM StopClosesCorrect == ExchangeSpec => StopCloses
  <1>1. ExchangeInit => StopInv
    BY DEF ExchangeInit, ClientInit, StopInv, StopOK, Sends, Idle
  <1>2. StopInv /\ [ExchangeNext]_exchangeVars =>
          (\A t \in Threads : Return(t) /\ ~ Streams(t) /\ Hop(t) = 0 =>
             (stopped[ClientOf[t]] => socket[ClientOf[t]] = None))
    BY DEF StopInv, StopOK, Return, Step, Sends
  <1> QED
    BY <1>1, <1>2, StopStep, ExchangeCorrect, PTL DEF ExchangeSpec, StopCloses

-----------------------------------------------------------------------------
\* HandledOnce: where the line of a request is on its way to a handler.

LEMMA ServedOK ==
  ASSUME NEW wk, NEW sv, NEW c, \A w \in Workers : ServeOK(sv[w])
  PROVE  ServeOK(Served(wk, sv, c))
  <1>1. CASE \E w \in Workers : wk[w] = c
    <2>1. PICK w \in Workers : w = CHOOSE v \in Workers : wk[v] = c
      BY <1>1
    <2> QED
      BY <1>1, <2>1 DEF Served
  <1>2. CASE ~ \E w \in Workers : wk[w] = c
    BY <1>2, FreshIs DEF Served
  <1> QED
    BY <1>1, <1>2

LEMMA InTyped ==
  ASSUME ConnTypeOK, ServeTypeOK, NEW c \in Conns
  PROVE  /\ ServeOK(Srv(c)) /\ Srv(c).buf \in Seq(UpCells)
         /\ conn[c].up \in Seq(UpCells) /\ conn[c].down \in Seq(DownCells)
         /\ In(c) \in Seq(UpCells)
  <1>1. ServeOK(Srv(c))
    BY ServedOK DEF ServeTypeOK, Srv
  <1>2. /\ Srv(c).buf \in Seq(UpCells) /\ conn[c].up \in Seq(UpCells)
        /\ conn[c].down \in Seq(DownCells)
    BY <1>1 DEF ConnTypeOK, ServeOK, ServeRecords, Connections
  <1> QED
    BY <1>1, <1>2, ConcatIs DEF In

LEMMA InStaysTyped ==
  ASSUME ConnTypeOK', ServeTypeOK', NEW c \in Conns
  PROVE  /\ ServeOK(Srv(c)') /\ Srv(c)'.buf \in Seq(UpCells)
         /\ conn'[c].up \in Seq(UpCells) /\ conn'[c].down \in Seq(DownCells)
         /\ In(c)' \in Seq(UpCells)
  <1>1. ServeOK(Srv(c)')
    BY ServedOK DEF ServeTypeOK, Srv
  <1>2. /\ Srv(c)'.buf \in Seq(UpCells) /\ conn'[c].up \in Seq(UpCells)
        /\ conn'[c].down \in Seq(DownCells)
    BY <1>1 DEF ConnTypeOK, ServeOK, ServeRecords, Connections
  <1> QED
    BY <1>1, <1>2, ConcatIs DEF In

\* Where the line of a request is on its way to its handler: the i-th of what
\* the server has still to read, or at 0 when it was read.
Lies(id, c, i) ==
  \/ /\ i = 0 /\ Srv(c).at \in {"headers", "content", "handle"}
     /\ Srv(c).req.id = id
  \/ i \in DOMAIN In(c) /\ In(c)[i].k = "line" /\ In(c)[i].req.id = id

\* What of it is left lay on c already, no two at one place.
Follows(c) ==
  \E m, n \in Nat :
     /\ m <= n
     /\ \A id \in Ids, i \in Nat :
           Lies(id, c, i)' => Lies(id, c, IF i = 0 THEN m ELSE i + n)

LEMMA FollowsDropped ==
  ASSUME NEW c \in Conns, NEW n \in Nat, Drops(In(c), n, In(c)'),
         ConnTypeOK, ServeTypeOK, ConnTypeOK', ServeTypeOK',
         \/ Srv(c)'.at \notin {"headers", "content", "handle"}
         \/ Srv(c).at \in {"headers", "content", "handle"} /\ Srv(c)'.req = Srv(c).req
  PROVE  Follows(c)
  <1>1. PICK p, q : p = In(c) /\ q = In(c)'
    OBVIOUS
  <1>2. p \in Seq(UpCells) /\ q \in Seq(UpCells)
    BY <1>1, InTyped, InStaysTyped
  <1>3. 0 \notin DOMAIN q /\ \A i \in DOMAIN q : i \in Nat /\ i # 0
    BY <1>2
  <1>4. ASSUME NEW id \in Ids, NEW i \in Nat, Lies(id, c, i)'
        PROVE  Lies(id, c, IF i = 0 THEN 0 ELSE i + n)
    <2>1. CASE i = 0
      BY <1>1, <1>3, <1>4, <2>1 DEF Lies
    <2>2. CASE i # 0
      <3>1. i \in DOMAIN q /\ q[i].k = "line" /\ q[i].req.id = id
        BY <1>1, <1>4, <2>2 DEF Lies
      <3>2. i + n \in DOMAIN p /\ q[i] = p[i + n]
        BY <1>1, <3>1 DEF Drops
      <3> QED
        BY <1>1, <2>2, <3>1, <3>2 DEF Lies
    <2> QED
      BY <2>1, <2>2
  <1> QED
    BY <1>4 DEF Follows

LEMMA FollowsLine ==
  ASSUME NEW c \in Conns, ConnTypeOK, ServeTypeOK, ConnTypeOK', ServeTypeOK',
         TakesLine(c)
  PROVE  Follows(c)
  <1>1. PICK p, q : p = In(c) /\ q = In(c)'
    OBVIOUS
  <1>2. p \in Seq(UpCells) /\ q \in Seq(UpCells) /\ p # <<>> /\ Drops(p, 1, q)
    BY <1>1, InTyped, InStaysTyped DEF TakesLine, Takes
  <1>3. 0 \notin DOMAIN q /\ 1 \in DOMAIN p
    BY <1>2
  <1>4. ASSUME NEW id \in Ids, NEW i \in Nat, Lies(id, c, i)'
        PROVE  Lies(id, c, IF i = 0 THEN 1 ELSE i + 1)
    <2>1. CASE i = 0
      BY <1>1, <1>3, <1>4, <2>1 DEF Lies, TakesLine
    <2>2. CASE i # 0
      <3>1. i \in DOMAIN q /\ q[i].k = "line" /\ q[i].req.id = id
        BY <1>1, <1>4, <2>2 DEF Lies
      <3>2. i + 1 \in DOMAIN p /\ q[i] = p[i + 1]
        BY <1>2, <3>1 DEF Drops
      <3> QED
        BY <1>1, <2>2, <3>1, <3>2 DEF Lies
    <2> QED
      BY <2>1, <2>2
  <1> QED
    BY <1>4 DEF Follows

LEMMA ServerFollows ==
  ASSUME ServerInv, ServerStep, NEW c \in Conns
  PROVE  Follows(c)
  <1>1. ConnTypeOK /\ ServeTypeOK /\ ConnTypeOK' /\ ServeTypeOK'
    BY ServerKeeps DEF ServerInv
  <1>2. ServeOK(Srv(c)) /\ In(c) \in Seq(UpCells) /\ In(c)' \in Seq(UpCells)
    BY <1>1, InTyped, InStaysTyped
  <1>3. CASE Same(c)
    <2>1. /\ \A id \in Ids, i \in Nat : Lies(id, c, i)' = Lies(id, c, i)
          /\ \A i \in Nat : i = IF i = 0 THEN 0 ELSE i + 0
      BY <1>3 DEF Same, Lies
    <2> QED
      BY <2>1 DEF Follows
  <1>4. CASE Rests(c)
    <2>1. PICK n \in Nat : Drops(In(c), n, In(c)')
      <3>1. CASE In(c)' = In(c)
        BY <1>2, <3>1, DropsNone
      <3>2. CASE In(c)' = <<>>
        <4>1. Drops(In(c), Len(In(c)), <<>>)
          BY <1>2 DEF Drops
        <4> QED
          BY <1>2, <3>2, <4>1
      <3> QED
        BY <1>4, <3>1, <3>2 DEF Rests
    <2> QED
      BY <1>1, <1>4, <2>1, FollowsDropped DEF Rests, Busy
  <1>5. CASE TakesLine(c)
    BY <1>1, <1>5, FollowsLine
  <1>6. CASE TakesHeaders(c) \/ TakesContent(c)
    <2>1. Drops(In(c), 1, In(c)')
      BY <1>6 DEF TakesHeaders, TakesContent, Takes
    <2> QED
      BY <1>1, <1>6, <2>1, FollowsDropped DEF TakesHeaders, TakesContent
  <1>7. CASE GivesUp(c) \/ Handles(c)
    <2>1. Drops(In(c), 0, In(c)')
      BY <1>2, <1>7, DropsNone DEF GivesUp, Handles
    <2> QED
      BY <1>1, <1>7, <2>1, FollowsDropped DEF GivesUp, Handles
  <1>8. CASE SendsHead(c)
    <2>1. PICK n \in Nat : Drops(In(c), n, In(c)')
      BY <1>2, <1>8, DropsNone DEF SendsHead
    <2>2. Srv(c)'.at \notin {"headers", "content", "handle"}
      <3>1. CASE Srv(c)' = [Srv(c) EXCEPT !.at = "body"]
        BY <1>2, <3>1 DEF ServeOK, ServeRecords
      <3>2. CASE Srv(c)'.at \notin Busy
        BY <3>2 DEF Busy
      <3> QED
        BY <1>8, <3>1, <3>2 DEF SendsHead
    <2> QED
      BY <1>1, <2>1, <2>2, FollowsDropped
  <1>9. CASE SendsBody(c)
    <2>1. PICK n \in Nat : Drops(In(c), n, In(c)')
      BY <1>9 DEF SendsBody
    <2> QED
      BY <1>1, <1>9, <2>1, FollowsDropped DEF SendsBody, Busy
  <1>10. Same(c) \/ Rests(c) \/ Moves(c)
    BY ServerMoves DEF Quiet, MovesAt
  <1> QED
    BY <1>3, <1>4, <1>5, <1>6, <1>7, <1>8, <1>9, <1>10 DEF Moves

\* How the request of a thread changes: not, to the next operation's, to that
\* of a redirect, or the operation is over.
Advances(t) ==
  \/ /\ results'[t] = results[t] /\ (Asks(t)' <=> Asks(t))
     /\ Asks(t) => call'[t].req = call[t].req
     /\ call[t].at \notin {"open", "write"} => call'[t].at \notin {"open", "write"}
  \/ /\ ~ Asks(t) /\ results'[t] = results[t]
     /\ Asks(t)' => /\ call'[t].req.id = <<t, Len(results[t]) + 1, 0>>
                    /\ call'[t].got = {} /\ call'[t].at \in {"open", "write"}
  \/ /\ Asks(t) /\ Asks(t)' /\ results'[t] = results[t] /\ call'[t].got = {}
     /\ call[t].at = "received" /\ call'[t].at = "open"
     /\ call'[t].req.id = <<t, Len(results[t]) + 1, Hop(t) + 1>>
  \/ /\ results'[t] = Append(results[t], call[t].got)
     /\ call[t].at = "leave" /\ call'[t] = Idle

LEMMA SameAdvances ==
  ASSUME NEW t \in Threads, call'[t] = call[t], plan'[t] = plan[t],
         results'[t] = results[t]
  PROVE  Advances(t)
  BY DEF Advances, Asks, Sends, Streaming, Streams

LEMMA ManagesAdvances ==
  ASSUME ClientInv, ConnTypeOK, Unused, NEW t \in Threads, Manages(t)
  PROVE  Advances(t)
  <1>1. PICK k \in Clients : k = ClientOf[t]
    BY ClientAssumption
  <1>2. CASE Send(t)
    <2>1. PICK z : /\ CallsAre(t, z) /\ z.at = "open" /\ z.got = {}
                   /\ z.req.id = <<t, Len(results[t]) + 1, 0>>
      BY <1>2, SendDoes
    <2>2. ~ Asks(t) /\ results' = results
      BY <1>2 DEF Send, Step, Asks, Sends, Streaming
    <2> QED
      BY <2>1, <2>2 DEF Advances, CallsAre
  <1>3. CASE OpenStream(t)
    <2>1. PICK s, z : OpensStream(t, k, s, z)
      BY <1>1, <1>3, OpenStreamDoes
    <2>2. /\ ~ Asks(t) /\ results' = results /\ Streams(t)' /\ call'[t] = z
          /\ z.got = {}
      BY <1>3, <2>1
         DEF OpenStream, Step, Asks, Sends, Streaming, Streams, OpensStream,
             CallsAre
    <2>3. CASE z.at = "write" /\ z.req.id = <<t, Len(results[t]) + 1, 0>>
      BY <2>2, <2>3 DEF Advances
    <2>4. CASE z.sock = None
      BY <2>2, <2>4 DEF Advances, Asks, Sends, Streaming
    <2> QED
      BY <2>1, <2>3, <2>4 DEF OpensStream
  <1>4. CASE OpenSocket(t)
    <2>1. PICK s, z : OpensSocket(t, k, s, z)
      BY <1>1, <1>4, OpenSocketDoes
    <2>2. /\ UNCHANGED <<results, plan>> /\ call[t].at = "open" /\ Sends(t)
      BY <1>4, OpenSocketKeeps DEF OpenSocket, Step
    <2>3. call'[t] = z /\ z.at \in {"write", "leave"} /\ z.req = call[t].req
      BY <2>1 DEF OpensSocket, CallsAre
    <2> QED
      BY SMTT(30), <2>2, <2>3 DEF Advances, Asks, Sends, Streaming, Streams
  <1>5. CASE HandleResponse(t)
    <2>1. PICK z : HandlesResponse(t, z)
      BY <1>5, HandleResponseDoes
    <2>2. /\ UNCHANGED <<results, plan>> /\ call[t].at = "received" /\ call'[t] = z
          /\ z.sock = call[t].sock /\ z.at \in {"leave", "open"}
      BY <1>5, <2>1 DEF HandleResponse, Step, HandlesResponse, CallsAre
    <2>3. /\ Asks(t)' <=> Asks(t)
          /\ ~ Streams(t) => Asks(t)
      BY <2>2 DEF Asks, Sends, Streaming, Streams
    <2> QED
      BY <2>1, <2>2, <2>3 DEF Advances, HandlesResponse
  <1>6. CASE LeaveFrame(t)
    <2>1. PICK z : /\ CallsAre(t, z) /\ z.at = "leave" /\ call[t].at = "leave"
                   /\ z.sock = call[t].sock /\ z.req = call[t].req
      BY <1>6, LeaveFrameDoes
    <2>2. UNCHANGED <<results, plan>> /\ call'[t] = z
      BY <1>6, <2>1 DEF LeaveFrame, CallsAre
    <2> QED
      BY <2>1, <2>2 DEF Advances, Asks, Sends, Streaming, Streams
  <1>7. CASE Return(t)
    BY <1>7 DEF Return, Step, Advances, ClientInv, ClientTypeOK
  <1> QED
    BY <1>2, <1>3, <1>4, <1>5, <1>6, <1>7 DEF Manages

LEMMA UsesAdvances ==
  ASSUME ClientInv, ConnTypeOK, NEW t \in Threads, Uses(t)
  PROVE  Advances(t)
  <1>1. /\ call[t].at \in Using /\ CallStep(t)
        /\ call'[t].at \notin {"idle", "open", "write"}
    BY UsesCalls DEF Calls, SendsRequest, SendsContent, Abandons, TakesStatus,
       TakesBody
  <1>2. /\ UNCHANGED <<plan, results>> /\ call[t].at # "idle"
        /\ call'[t].req = call[t].req /\ call'[t].sock = call[t].sock
    BY <1>1 DEF CallStep, OnlyCall, Using
  <1> QED
    BY SMTT(30), <1>1, <1>2 DEF Advances, Asks, Sends, Streaming, Streams

LEMMA EachAdvances ==
  ASSUME ExchangeInv, [ExchangeNext]_exchangeVars, NEW t \in Threads
  PROVE  Advances(t)
  <1>1. ClientInv /\ ConnTypeOK /\ Unused
    BY DEF ExchangeInv, ServerInv
  <1>2. CASE UNCHANGED clientObjects
    BY <1>2, SameAdvances DEF clientObjects
  <1>3. ASSUME NEW u \in Threads, Uses(u)
        PROVE  Advances(t)
    <2>1. CASE t = u
      BY <1>1, <1>3, <2>1, UsesAdvances
    <2>2. CASE t # u
      <3>1. CallStep(u)
        BY <1>1, <1>3, UsesCalls DEF Calls
      <3> QED
        BY <2>2, <3>1, SameAdvances DEF CallStep, OnlyCall
    <2> QED
      BY <2>1, <2>2
  <1>4. ASSUME NEW u \in Threads, Manages(u)
        PROVE  Advances(t)
    <2>1. CASE t = u
      BY <1>1, <1>4, <2>1, ManagesAdvances
    <2>2. CASE t # u
      BY <1>1, <1>4, <2>2, ManagesOthers, SameAdvances
    <2> QED
      BY <2>1, <2>2
  <1>5. ASSUME NEW k \in Clients, Stop(k) \/ Destroy(k)
        PROVE  Advances(t)
    BY <1>5, SameAdvances DEF Stop, Destroy
  <1> QED
    BY <1>2, <1>3, <1>4, <1>5, ExchangeSteps
       DEF ClientStep, ClientThread, Uses, Manages, exchangeVars, clientVars

\* Whose a request is, and of which of its operations.
Numbered(t) ==
  Asks(t) => call[t].req.id[1] = t /\ call[t].req.id[2] = Len(results[t]) + 1

NumberInv == \A t \in Threads : Numbered(t)

LEMMA NumberStep ==
  ASSUME ExchangeInv, NumberInv, [ExchangeNext]_exchangeVars
  PROVE  NumberInv'
  <1> SUFFICES ASSUME NEW t \in Threads PROVE Numbered(t)'
    BY DEF NumberInv
  <1>1. Advances(t) /\ Numbered(t)
    BY EachAdvances DEF NumberInv
  <1>2. call'[t] = Idle => ~ Asks(t)'
    BY IdleIs DEF Asks, Sends, Streaming
  <1> QED
    BY <1>1, <1>2 DEF Advances, Numbered

\* The requests that were written, as far as they could be.
Sent(id) ==
  LET t == id[1] IN
  \/ id[2] <= Len(results[t])
  \/ /\ id[2] = Len(results[t]) + 1 /\ Asks(t)
     /\ \/ id[3] < Hop(t)
        \/ id[3] = Hop(t) /\ call[t].at \notin {"open", "write"}

LEMMA SentStays ==
  ASSUME ExchangeInv, [ExchangeNext]_exchangeVars, NEW id \in Ids, Sent(id)
  PROVE  Sent(id)'
  <1>1. PICK t \in Threads, n \in Nat,
             h \in Nat : id[1] = t /\ id[2] = n /\ id[3] = h
    BY DEF Ids
  <1>2. Advances(t) /\ results[t] \in Seq(SUBSET Ids)
    BY EachAdvances DEF ExchangeInv, ClientInv, ClientTypeOK
  <1>3. PICK m \in Nat : m = Len(results[t])
    BY <1>2
  <1>4. Asks(t) => Hop(t) \in Nat
    BY DEF ExchangeInv, ClientInv, LockInv, ThreadOK, Hop, Requests, Ids
  <1>5. \/ n <= m
        \/ /\ n = m + 1 /\ Asks(t)
           /\ h < Hop(t) \/ (h = Hop(t) /\ call[t].at \notin {"open", "write"})
    BY <1>1, <1>3 DEF Sent
  <1>6. CASE results'[t] = Append(results[t], call[t].got)
    <2>1. Len(results'[t]) = m + 1
      BY <1>2, <1>3, <1>6
    <2> QED
      BY <1>1, <1>3, <1>5, <2>1 DEF Sent
  <1>7. CASE results'[t] = results[t] /\ n <= m
    BY <1>1, <1>3, <1>7 DEF Sent
  <1>8. CASE results'[t] = results[t] /\ ~ (n <= m)
    <2>1. \/ Asks(t)' /\ call'[t].req = call[t].req /\ Hop(t)' = Hop(t)
             /\ (call[t].at \notin {"open", "write"} => call'[t].at \notin {"open", "write"})
          \/ Asks(t)' /\ Hop(t)' = Hop(t) + 1
          \/ results'[t] = Append(results[t], call[t].got)
      BY <1>2, <1>5, <1>8 DEF Advances, Hop
    <2> QED
      BY <1>1, <1>3, <1>4, <1>5, <1>6, <1>8, <2>1 DEF Sent
  <1> QED
    BY <1>2, <1>6, <1>7, <1>8 DEF Advances

\* The line of a request that was sent lies at one place at the most, and at
\* none once the request was handled.
OneLine ==
  \A id \in Ids, c, d \in Conns, i, j \in Nat :
     Lies(id, c, i) /\ Lies(id, d, j) => c = d /\ i = j

LinesInv ==
  /\ OneLine
  /\ \A id \in Ids, c \in Conns, i \in Nat :
        Lies(id, c, i) => Sent(id) /\ id \notin handled
  /\ handled \subseteq Ids /\ \A id \in handled : Sent(id)

\* The step hands the request that was read on c to its handler.
HandsOver(c) ==
  \E id \in Ids :
     /\ Lies(id, c, 0) /\ handled' = handled \cup {id}
     /\ \A x \in Ids, j \in Nat : Lies(x, c, j)' => j # 0 /\ Lies(x, c, j)

LEMMA OneLineKept ==
  ASSUME OneLine, \A c \in Conns : Follows(c)
  PROVE  OneLine'
  <1> SUFFICES ASSUME NEW id \in Ids, NEW c \in Conns, NEW d \in Conns,
                      NEW i \in Nat, NEW j \in Nat, Lies(id, c, i)',
                      Lies(id, d, j)'
               PROVE  c = d /\ i = j
    BY DEF OneLine
  <1>1. PICK m, n \in Nat :
          /\ m <= n
          /\ \A x \in Ids, k \in Nat :
                Lies(x, c, k)' => Lies(x, c, IF k = 0 THEN m ELSE k + n)
    BY DEF Follows
  <1>2. PICK p, q \in Nat :
          \A x \in Ids, k \in Nat :
             Lies(x, d, k)' => Lies(x, d, IF k = 0 THEN p ELSE k + q)
    BY DEF Follows
  <1>3. PICK a \in Nat, b \in Nat :
          /\ a = (IF i = 0 THEN m ELSE i + n) /\ b = (IF j = 0 THEN p ELSE j + q)
    OBVIOUS
  <1>4. Lies(id, c, a) /\ Lies(id, d, b)
    BY <1>1, <1>2, <1>3
  <1>5. c = d
    BY <1>4 DEF OneLine
  <1>6. PICK e \in Nat : e = IF j = 0 THEN m ELSE j + n
    OBVIOUS
  <1>7. Lies(id, c, e)
    BY <1>1, <1>5, <1>6
  <1>8. a = e
    BY <1>4, <1>7 DEF OneLine
  <1> QED
    BY <1>1, <1>3, <1>5, <1>6, <1>8

LEMMA LinesKept ==
  ASSUME LinesInv, \A c \in Conns : Follows(c),
         \A id \in Ids : Sent(id) => Sent(id)',
         handled' = handled \/ \E c \in Conns : HandsOver(c)
  PROVE  LinesInv'
  <1>1. OneLine'
    BY OneLineKept DEF LinesInv
  <1>2. ASSUME NEW id \in Ids, NEW c \in Conns, NEW i \in Nat, Lies(id, c, i)'
        PROVE  Sent(id)' /\ id \notin handled'
    <2>1. PICK j \in Nat : Lies(id, c, j)
      BY <1>2 DEF Follows
    <2>2. Sent(id)' /\ id \notin handled
      BY <2>1 DEF LinesInv
    <2>3. ASSUME NEW d \in Conns, HandsOver(d)
          PROVE  id \notin handled'
      <3>1. PICK x \in Ids : /\ Lies(x, d, 0) /\ handled' = handled \cup {x}
                             /\ \A y \in Ids, k \in Nat :
                                   Lies(y, d, k)' => k # 0 /\ Lies(y, d, k)
        BY <2>3 DEF HandsOver
      <3>2. ASSUME id = x
            PROVE  FALSE
        <4>1. c = d
          BY <2>1, <3>1, <3>2 DEF LinesInv, OneLine
        <4>2. i # 0 /\ Lies(id, d, i)
          BY <1>2, <3>1, <4>1
        <4> QED
          BY <3>1, <3>2, <4>2 DEF LinesInv, OneLine
      <3> QED
        BY <2>2, <3>1, <3>2
    <2> QED
      BY <2>2, <2>3
  <1>3. handled' \subseteq Ids /\ \A id \in handled' : Sent(id)'
    BY DEF LinesInv, HandsOver
  <1> QED
    BY <1>1, <1>2, <1>3 DEF LinesInv

LEMMA HandlesHandsOver ==
  ASSUME ConnTypeOK, ServeTypeOK, ConnTypeOK', ServeTypeOK', NEW c \in Conns,
         Handles(c), handled' = handled \cup {Srv(c).req.id}
  PROVE  HandsOver(c)
  <1>1. Srv(c).req \in Requests
    BY InTyped DEF Handles, ServeOK, Busy
  <1>2. PICK id \in Ids : id = Srv(c).req.id
    BY <1>1 DEF Requests
  <1>3. Lies(id, c, 0)
    BY <1>2 DEF Lies, Handles
  <1>4. 0 \notin DOMAIN In(c)
    BY InTyped
  <1>5. \A x \in Ids, j \in Nat : Lies(x, c, j)' => j # 0 /\ Lies(x, c, j)
    BY <1>4 DEF Lies, Handles
  <1> QED
    BY <1>2, <1>3, <1>5 DEF HandsOver

\* What a client adds to a connection.
LEMMA InGrows ==
  ASSUME ConnTypeOK, ServeTypeOK, UNCHANGED serverVars, NEW c \in Conns,
         NEW cells \in Seq(UpCells), conn'[c].up = conn[c].up \o cells
  PROVE  /\ Srv(c)' = Srv(c) /\ In(c)' = In(c) \o cells
         /\ \A id \in Ids, i \in Nat : Lies(id, c, i)' =>
               \/ Lies(id, c, i)
               \/ \E j \in DOMAIN cells : /\ i = Len(In(c)) + j /\ cells[j].k = "line"
                                          /\ cells[j].req.id = id
  <1>1. Srv(c)' = Srv(c)
    BY DEF Srv, serverVars, poolVars
  <1>2. PICK p, q : p = Srv(c).buf /\ q = conn[c].up
    OBVIOUS
  <1>3. p \in Seq(UpCells) /\ q \in Seq(UpCells)
    BY <1>2, InTyped
  <1>4. In(c) = p \o q /\ In(c)' = p \o (q \o cells)
    BY <1>1, <1>2 DEF In
  <1>5. p \o (q \o cells) = (p \o q) \o cells
    BY <1>3
  <1>6. PICK r : r = p \o q
    OBVIOUS
  <1>7. r \in Seq(UpCells) /\ In(c) = r /\ In(c)' = r \o cells
    BY <1>3, <1>4, <1>5, <1>6
  <1>8. ASSUME NEW i \in DOMAIN (r \o cells)
        PROVE  \/ i \in DOMAIN r /\ (r \o cells)[i] = r[i]
               \/ \E j \in DOMAIN cells : i = Len(r) + j /\ (r \o cells)[i] = cells[j]
    <2>1. /\ i \in 1 .. Len(r) + Len(cells) /\ Len(r) \in Nat /\ Len(cells) \in Nat
          /\ DOMAIN r = 1 .. Len(r) /\ DOMAIN cells = 1 .. Len(cells)
          /\ \A j \in 1 .. Len(r) : (r \o cells)[j] = r[j]
          /\ \A j \in 1 .. Len(cells) : (r \o cells)[Len(r) + j] = cells[j]
      BY <1>7, ConcatIs
    <2>2. CASE i <= Len(r)
      BY <2>1, <2>2
    <2>3. CASE ~ (i <= Len(r))
      <3>1. PICK j \in 1 .. Len(cells) : i = Len(r) + j
        <4>1. i - Len(r) \in 1 .. Len(cells) /\ i = Len(r) + (i - Len(r))
          BY <2>1, <2>3
        <4> QED
          BY <4>1
      <3> QED
        BY <2>1, <3>1
    <2> QED
      BY <2>2, <2>3
  <1>9. ASSUME NEW id \in Ids, NEW i \in Nat, Lies(id, c, i)'
        PROVE  \/ Lies(id, c, i)
               \/ \E j \in DOMAIN cells : /\ i = Len(In(c)) + j /\ cells[j].k = "line"
                                          /\ cells[j].req.id = id
    BY <1>1, <1>7, <1>8, <1>9 DEF Lies
  <1> QED
    BY <1>1, <1>7, <1>9

LEMMA BeginsFollows ==
  ASSUME ConnTypeOK, ServeTypeOK, ConnTypeOK', ServeTypeOK',
         UNCHANGED serverVars,
         NEW c \in Conns, Begins(conn'[c].up, conn[c].up)
  PROVE  Follows(c)
  <1>1. Srv(c)' = Srv(c)
    BY DEF Srv, serverVars, poolVars
  <1>2. PICK p, q, r : p = Srv(c).buf /\ q = conn[c].up /\ r = conn'[c].up
    OBVIOUS
  <1>3. /\ p \in Seq(UpCells) /\ q \in Seq(UpCells) /\ r \in Seq(UpCells)
        /\ Begins(r, q) /\ In(c) = p \o q /\ In(c)' = p \o r
    BY <1>1, <1>2, InTyped, InStaysTyped DEF In
  <1>4. ASSUME NEW i \in DOMAIN (p \o r)
        PROVE  i \in DOMAIN (p \o q) /\ (p \o r)[i] = (p \o q)[i]
    BY <1>3 DEF Begins
  <1>5. \A id \in Ids, i \in Nat : Lies(id, c, i)' => Lies(id, c, i)
    BY <1>1, <1>3, <1>4 DEF Lies
  <1>6. \A i \in Nat : i = IF i = 0 THEN 0 ELSE i + 0
    OBVIOUS
  <1> QED
    BY <1>5, <1>6 DEF Follows

LEMMA DriftFollows ==
  ASSUME ServerInv, Drift, UNCHANGED serverVars, NEW c \in Conns
  PROVE  Follows(c)
  <1>1. ConnTypeOK /\ ServeTypeOK /\ ConnTypeOK' /\ ServeTypeOK'
    BY DriftKeeps DEF ServerInv
  <1>2. conn[c].up \in Seq(UpCells)
    BY <1>1, InTyped
  <1>3. Begins(conn'[c].up, conn[c].up)
    <2>1. CASE conn'[c].up = conn[c].up
      BY <1>2, <2>1, BeginsItself
    <2>2. CASE conn'[c].up = <<>>
      BY <1>2, <2>2 DEF Begins
    <2> QED
      BY <2>1, <2>2 DEF Drift, Closes, Shuts, Opens
  <1> QED
    BY <1>1, <1>3, BeginsFollows

LEMMA RequestLines ==
  ASSUME ConnTypeOK, ServeTypeOK, UNCHANGED serverVars, LinesInv,
         \A id \in Ids : Sent(id) => Sent(id)',
         NEW c \in Conns, OnlyAt(c), NEW q \in Requests,
         conn'[c].up = conn[c].up \o <<Line(q), Headers(q)>>,
         ~ Sent(q.id), Sent(q.id)'
  PROVE  LinesInv'
  <1>1. /\ \A d \in Conns : Srv(d)' = Srv(d)
        /\ \A d \in Conns \ {c} : In(d)' = In(d)
        /\ handled' = handled
    BY DEF Srv, In, OnlyAt, serverVars, poolVars
  <1>2. PICK cells, k : cells = <<Line(q), Headers(q)>> /\ k = q.id
    OBVIOUS
  <1>3. /\ cells \in Seq(UpCells) /\ k \in Ids /\ DOMAIN cells = {1, 2}
        /\ cells[1].req.id = k /\ cells[2].k # "line"
    BY <1>2 DEF Line, Headers, UpCells, Requests
  <1>4. PICK n \in Nat : n = Len(In(c)) + 1
    BY InTyped
  <1>5. ASSUME NEW id \in Ids, NEW d \in Conns, NEW i \in Nat, Lies(id, d, i)'
        PROVE  Lies(id, d, i) \/ (d = c /\ i = n /\ id = k)
    <2>1. CASE d # c
      BY <1>1, <1>5, <2>1 DEF Lies
    <2>2. CASE d = c
      <3>1. conn'[c].up = conn[c].up \o cells
        BY <1>2
      <3>2. \/ Lies(id, c, i)
            \/ \E j \in DOMAIN cells : /\ i = Len(In(c)) + j /\ cells[j].k = "line"
                                       /\ cells[j].req.id = id
        <4>1. \A x \in Ids, l \in Nat : Lies(x, c, l)' =>
                 \/ Lies(x, c, l)
                 \/ \E j \in DOMAIN cells : /\ l = Len(In(c)) + j /\ cells[j].k = "line"
                                            /\ cells[j].req.id = x
          BY ZenonT(60), <1>3, <3>1, InGrows
        <4> QED
          BY <1>5, <2>2, <4>1
      <3> QED
        BY <1>3, <1>4, <2>2, <3>2
    <2> QED
      BY <2>1, <2>2
  <1>6. \A d \in Conns, i \in Nat : ~ Lies(k, d, i)
    BY <1>2, <1>3 DEF LinesInv
  <1>7. OneLine'
    BY <1>5, <1>6 DEF LinesInv, OneLine
  <1>8. k \notin handled
    BY SMTT(30), <1>2 DEF LinesInv
  <1> QED
    BY <1>1, <1>2, <1>5, <1>7, <1>8 DEF LinesInv

LEMMA UsesLines ==
  ASSUME ExchangeInv, NumberInv, LinesInv, [ExchangeNext]_exchangeVars,
         UNCHANGED serverVars, NEW t \in Threads, Uses(t)
  PROVE  LinesInv'
  <1>1. /\ ServerInv /\ ClientInv /\ ConnTypeOK /\ ServeTypeOK
        /\ ConnTypeOK' /\ ServeTypeOK'
    BY ExchangeStep DEF ExchangeInv, ServerInv
  <1>2. call[t].at \in Using /\ Calls(t) /\ CallStep(t)
    BY <1>1, UsesCalls DEF Calls
  <1>3. PICK c, q : c = call[t].sock /\ q = call[t].req
    OBVIOUS
  <1>4. c \in Conns /\ q \in Requests /\ OnlyAt(c) /\ Asks(t)
    BY <1>1, <1>2, <1>3, UsingIs DEF CallStep
  <1>5. conn[c].up \in Seq(UpCells)
    BY <1>1, <1>4, InTyped
  <1>6. handled' = handled /\ \A id \in Ids : Sent(id) => Sent(id)'
    BY SentStays DEF serverVars
  <1>7. \A d \in Conns \ {c} : Follows(d)
    <2>1. ASSUME NEW d \in Conns \ {c}
          PROVE  Begins(conn'[d].up, conn[d].up)
      <3>1. conn'[d].up = conn[d].up /\ conn[d].up \in Seq(UpCells)
        BY <1>1, <1>4, InTyped DEF OnlyAt
      <3> QED
        BY <3>1, BeginsItself
    <2> QED
      BY <1>1, <2>1, BeginsFollows
  <1>8. CASE conn'[c].up = conn[c].up
    <2>1. Follows(c)
      BY <1>1, <1>4, <1>5, <1>8, BeginsItself, BeginsFollows
    <2> QED
      BY <1>6, <1>7, <2>1, LinesKept
  <1>9. CASE conn'[c].up = Append(conn[c].up, Content(q))
    <2>1. PICK x : x = Content(q)
      OBVIOUS
    <2>2. PICK cells : cells = <<x>>
      OBVIOUS
    <2>3. /\ cells \in Seq(UpCells) /\ conn'[c].up = conn[c].up \o cells
          /\ \A j \in DOMAIN cells : cells[j].k # "line"
      <3>1. x \in UpCells /\ x.k # "line"
        BY <1>4, <2>1 DEF Content, UpCells
      <3> QED
        BY <1>5, <1>9, <2>1, <2>2, <3>1
    <2>4. \A id \in Ids, i \in Nat : Lies(id, c, i)' => Lies(id, c, i)
      BY <1>1, <1>4, <2>3, InGrows
    <2>5. \A i \in Nat : i = IF i = 0 THEN 0 ELSE i + 0
      OBVIOUS
    <2>6. Follows(c)
      BY <2>4, <2>5 DEF Follows
    <2> QED
      BY <1>6, <1>7, <2>6, LinesKept
  <1>10. CASE /\ SendsRequest(t)
              /\ conn'[c].up = conn[c].up \o <<Line(q), Headers(q)>>
    <2>1. /\ q.id \in Ids /\ q.id[1] = t /\ q.id[2] = Len(results[t]) + 1
          /\ q.id[3] = Hop(t) /\ Hop(t) \in Nat
      BY <1>3, <1>4 DEF NumberInv, Numbered, Requests, Ids, Hop
    <2>2. Len(results[t]) \in Nat
      BY SMTT(30), <1>1 DEF ClientInv, ClientTypeOK
    <2>3. ~ Sent(q.id)
      <3>1. call[t].at \in {"open", "write"}
        BY <1>10 DEF SendsRequest
      <3>2. PICK n, h \in Nat : n = Len(results[t]) /\ h = Hop(t)
        BY <2>1, <2>2
      <3>3. PICK id : id = q.id
        OBVIOUS
      <3>4. id[1] = t /\ id[2] = n + 1 /\ id[3] = h
        BY <2>1, <3>2, <3>3
      <3>5. ~ (n + 1 <= n) /\ ~ (h < h)
        OBVIOUS
      <3>6. ~ Sent(id)
        BY <3>1, <3>2, <3>4, <3>5 DEF Sent
      <3> QED
        BY <3>3, <3>6
    <2>4. /\ results' = results /\ Hop(t)' = Hop(t) /\ Asks(t)'
          /\ call'[t].at \notin {"open", "write"}
      <3>1. UNCHANGED <<results, plan>> /\ call'[t].req = call[t].req
            /\ call'[t].sock = call[t].sock
        BY <1>2 DEF CallStep, OnlyCall
      <3>2. call'[t].at \in {"write_body", "status"} /\ call[t].at # "idle"
        BY <1>10 DEF SendsRequest
      <3> QED
        BY <1>4, <3>1, <3>2 DEF Hop, Asks, Sends, Streaming, Streams
    <2>5. Sent(q.id)'
      BY <2>1, <2>2, <2>4 DEF Sent
    <2> QED
      BY <1>1, <1>4, <1>6, <1>10, <2>3, <2>5, RequestLines
  <1> QED
    BY <1>2, <1>3, <1>8, <1>9, <1>10
       DEF Calls, SendsRequest, SendsContent, Abandons, TakesStatus, TakesBody

LEMMA LinesStep ==
  ASSUME ExchangeInv, NumberInv, LinesInv, [ExchangeNext]_exchangeVars
  PROVE  LinesInv'
  <1>1. /\ ServerInv /\ ClientInv /\ ConnTypeOK /\ ServeTypeOK /\ Unused
        /\ ConnTypeOK' /\ ServeTypeOK'
    BY ExchangeStep DEF ExchangeInv, ServerInv
  <1>2. \A id \in Ids : Sent(id) => Sent(id)'
    BY SentStays
  <1>3. CASE ServerStep
    <2>1. \A c \in Conns : Follows(c)
      BY <1>1, <1>3, ServerFollows
    <2>2. handled' = handled \/ \E c \in Conns : HandsOver(c)
      BY <1>1, <1>3, ServerMoves, HandlesHandsOver
    <2> QED
      BY <1>2, <2>1, <2>2, LinesKept
  <1>4. ASSUME Drift, UNCHANGED serverVars
        PROVE  LinesInv'
    <2>1. \A c \in Conns : Follows(c)
      BY <1>1, <1>4, DriftFollows
    <2>2. handled' = handled
      BY <1>4 DEF serverVars
    <2> QED
      BY <1>2, <2>1, <2>2, LinesKept
  <1>5. CASE ClientStep /\ UNCHANGED serverVars
    <2>1. CASE \E t \in Threads : Uses(t)
      BY <1>5, <2>1, UsesLines
    <2>2. CASE \E t \in Threads : Manages(t)
      BY <1>1, <1>4, <1>5, <2>2, ManagesKeeps
    <2>3. CASE \E k \in Clients : Stop(k) \/ Destroy(k)
      BY <1>1, <1>4, <1>5, <2>3, StopKeeps
    <2> QED
      BY <1>5, <2>1, <2>2, <2>3 DEF ClientStep, ClientThread, Uses, Manages
  <1>6. CASE UNCHANGED exchangeVars
    <2>1. Drift /\ UNCHANGED serverVars
      BY <1>1, <1>6 DEF Drift, exchangeVars
    <2> QED
      BY <1>4, <2>1
  <1> QED
    BY <1>3, <1>5, <1>6, ExchangeSteps

\* A request reaches a handler once at the most, whatever fails.
THEOREM HandledOnceCorrect == ExchangeSpec => HandledOnce
  <1>1. ExchangeInit => NumberInv
    BY IdleIs DEF ExchangeInit, ClientInit, NumberInv, Numbered, Asks, Sends,
       Streaming
  <1>2. ExchangeInit => LinesInv
    <2> SUFFICES ASSUME ExchangeInit PROVE LinesInv
      OBVIOUS
    <2>1. /\ handled = {} /\ serve = [w \in Workers |-> Fresh]
          /\ conn = [c \in Conns |-> NoConn]
      BY DEF ExchangeInit, ServerInit, ConnInit
    <2>2. \A c \in Conns : Srv(c) = Fresh /\ conn[c].up = <<>>
      BY <2>1 DEF Srv, Served, NoConn
    <2>3. \A c \in Conns : In(c) = <<>> /\ Srv(c).at = "alive"
      BY <2>2, FreshIs DEF In
    <2>4. \A id \in Ids, c \in Conns, i \in Nat : ~ Lies(id, c, i)
      BY <2>3 DEF Lies
    <2> QED
      BY <2>1, <2>4 DEF LinesInv, OneLine
  <1>3. ASSUME ExchangeInv, LinesInv, NEW w \in Workers, Handle(w)
        PROVE  serve[w].req.id \notin handled
    <2>1. PICK c \in Conns : worker[w] = c
      BY <1>3 DEF Handle, At
    <2>2. \A v \in Workers : worker[v] = worker[w] => v = w
      BY <1>3, <2>1, ServerAssumption
         DEF ExchangeInv, ServerInv, PoolInv, EachJobOnce
    <2>3. Srv(c) = serve[w]
      BY <2>1, <2>2, ServedBy DEF Srv
    <2>4. serve[w].at = "handle" /\ serve[w].req \in Requests
      BY <1>3 DEF Handle, At, ExchangeInv, ServerInv, ServeTypeOK, ServeOK, Busy
    <2>5. PICK id \in Ids : id = serve[w].req.id
      BY <2>4 DEF Requests
    <2>6. Lies(id, c, 0)
      BY <2>3, <2>4, <2>5 DEF Lies
    <2> QED
      BY <1>3, <2>5, <2>6 DEF LinesInv
  <1>4. ExchangeInv /\ LinesInv /\ [ExchangeNext]_exchangeVars =>
          (\A w \in Workers : Handle(w) => serve[w].req.id \notin handled)
    BY <1>3
  <1> QED
    BY <1>1, <1>2, <1>4, NumberStep, LinesStep, ExchangeCorrect, PTL
       DEF ExchangeSpec, HandledOnce

-----------------------------------------------------------------------------
\* PairedAnswers: an answer is of the request it is read for.

\* The cells of a request, as many as were written or are still to be.
Parts(q) == IF HasContent(q.kind) THEN 3 ELSE 2

Owed(at) == IF at = "write_body" THEN 1 ELSE 0

\* All that the server has and gets of it are cells of the request q: with
\* what it has still to read, in, and what the client owes it.
Requested(in, s, owed, q) ==
  /\ \A i \in DOMAIN in :
        /\ in[i].req = q
        /\ in[i].k = "line" =>
              i = 1 /\ s.at \notin Busy /\ Len(in) + owed <= Parts(q)
  /\ s.at \in Busy => s.req = q
  /\ s.at = "headers" => Len(in) + owed <= Parts(q) - 1
  /\ s.at = "content" => HasContent(q.kind) /\ Len(in) + owed <= 1
  /\ s.at = "handle" => Len(in) + owed = 0
  /\ s.at \in {"head", "body"} /\ s.status < 400 => Len(in) + owed = 0
  /\ s.at = "body" => s.status < 400

\* The head of an answer after which the connection is kept.
Keeps(cell) == cell.k = "head" /\ cell.status # 100 /\ ~ cell.close

Finishing(s) == s.at = "body" /\ ~ s.last /\ s.count # 1

\* The connection is at rest once an answer was read after which it is kept,
\* and when such a head is still to be read, only the content may follow it.
Answering(in, s, out, owed, at, close) ==
  /\ at = "write" \/ (at = "received" /\ ~ close) =>
        in = <<>> /\ out = <<>> /\ s.at \notin Busy
  /\ at \in {"write_body", "status"} =>
        \A i \in DOMAIN out : Keeps(out[i]) =>
           /\ Len(in) + owed = 0
           /\ \/ /\ i = Len(out)
                 /\ s.at \notin Busy \/ (out[i].more /\ Finishing(s))
              \/ i + 1 = Len(out) /\ s.at \notin Busy /\ out[i].more
  /\ at = "body" /\ ~ close =>
        /\ in = <<>> /\ Len(out) <= 1
        /\ s.at \notin Busy \/ (Finishing(s) /\ out = <<>>)

Paired(in, s, out, at, close, q) ==
  /\ Requested(in, s, Owed(at), q)
  /\ \A i \in DOMAIN out : out[i].id = q.id
  /\ Answering(in, s, out, Owed(at), at, close)

\* Nothing was answered yet after which the connection is kept.
Unanswered(out, at, close) ==
  /\ at # "write" /\ (at \in {"received", "body"} => close)
  /\ at \in {"write_body", "status"} => \A i \in DOMAIN out : ~ Keeps(out[i])

LEMMA UnansweredIs ==
  ASSUME NEW in, NEW s, NEW out, NEW at, NEW close \in BOOLEAN, NEW q,
         NEW owed, Unanswered(out, at, close)
  PROVE  Answering(in, s, out, owed, at, close)
  BY DEF Answering, Unanswered

LEMMA BusyUnanswered ==
  ASSUME NEW in \in Seq(UpCells), NEW s, NEW out \in Seq(DownCells), NEW at,
         NEW close \in BOOLEAN, NEW q, Paired(in, s, out, at, close, q),
         (s.at \in Busy /\ s.at # "body") \/ in # <<>>
  PROVE  Unanswered(out, at, close)
  <1>1. PICK owed \in Nat : owed = Owed(at)
    BY DEF Owed
  <1>2. Answering(in, s, out, owed, at, close)
    BY <1>1 DEF Paired
  <1>3. in # <<>> => Len(in) + owed # 0
    BY <1>1
  <1>4. ~ Finishing(s) \/ in # <<>>
    BY DEF Finishing
  <1> QED
    BY <1>2, <1>3, <1>4 DEF Answering, Unanswered

LEMMA AppendedIs ==
  ASSUME NEW S, NEW p \in Seq(S), NEW x \in S, NEW q, q = Append(p, x)
  PROVE  /\ q \in Seq(S) /\ Len(q) = Len(p) + 1 /\ Len(p) \in Nat
         /\ Len(q) \in DOMAIN q /\ q[Len(q)] = x
         /\ \A i \in DOMAIN q : (i \in DOMAIN p /\ q[i] = p[i]) \/ i = Len(q)
  OBVIOUS

\* The answers on their way, with one more or not.
LEMMA StillUnanswered ==
  ASSUME NEW out \in Seq(DownCells), NEW at, NEW close, NEW x \in DownCells,
         NEW out2 \in {out, Append(out, x)}, ~ Keeps(x),
         Unanswered(out, at, close)
  PROVE  Unanswered(out2, at, close)
  BY AppendedIs DEF Unanswered

LEMMA DropsIs ==
  ASSUME NEW p \in Seq(UpCells), NEW n \in Nat, NEW q \in Seq(UpCells),
         Drops(p, n, q)
  PROVE  /\ Len(q) = Len(p) - n /\ Len(p) \in Nat /\ Len(q) \in Nat
         /\ \A i \in DOMAIN q : i \in Nat \ {0} /\ i + n \in DOMAIN p /\ q[i] = p[i + n]
  BY DEF Drops

\* At most one more cell was sent.
Adds(out2, out, x) == out2 \in {out, Append(out, x)}

\* The server is between two requests, and remains there.
StaysIdle(in, s, in2, s2) ==
  s.at \notin Busy /\ s2.at \notin Busy /\ in2 \in {in, <<>>}

\* It begins with a request, ...
ReadsLine(in, s, in2, s2) ==
  /\ in # <<>> /\ Drops(in, 1, in2) /\ s.at = "line" /\ s2.req = in[1].req
  /\ IF in[1].k = "line" THEN s2.at = "headers"
     ELSE s2.at = "head" /\ s2.status = 400

\* ... reads on in the request q, ...
ReadsOn(in, s, in2, s2, q) ==
  /\ in # <<>> /\ Drops(in, 1, in2) /\ s.at \in {"headers", "content"}
  /\ s2.req = s.req
  /\ \/ s2.at = "head" /\ s2.status >= 400
     \/ s.at = "headers" /\ s2.at = "content" /\ HasContent(q.kind)
     \/ s.at = "headers" /\ s2.at = "handle" /\ ~ HasContent(q.kind)
     \/ s.at = "content" /\ s2.at = "handle"

\* ... decides on the response without reading on, ...
Decides(s, s2) ==
  /\ s2.at = "head" /\ s2.req = s.req
  /\ (s.at \in {"headers", "content"} /\ s2.status >= 400) \/ s.at = "handle"

\* ... sends its head and its content, and skips what it did not read.
HeadSent(in, s, in2, s2) ==
  /\ s.at = "head"
  /\ IF s.status = 200 THEN s2 = [s EXCEPT !.at = "body"] /\ in2 = in
     ELSE s2.at \notin Busy /\ \E n \in Nat : Drops(in, n, in2)

BodySent(in, s, in2, s2) ==
  s.at = "body" /\ s2.at \notin Busy /\ \E n \in Nat : Drops(in, n, in2)

LEMMA PairedRests ==
  ASSUME NEW in \in Seq(UpCells), NEW s \in ServeRecords,
         NEW out \in Seq(DownCells), NEW at,
         NEW close \in BOOLEAN, NEW q, Paired(in, s, out, at, close, q),
         NEW in2 \in Seq(UpCells), NEW s2 \in ServeRecords,
         NEW out2 \in Seq(DownCells),
         StaysIdle(in, s, in2, s2), Begins(out2, out)
  PROVE  Paired(in2, s2, out2, at, close, q)
  <1> USE DEF StaysIdle
  <1>1. PICK owed \in Nat : owed = Owed(at)
    BY DEF Owed
  <1>2. Requested(in, s, owed, q) /\ Answering(in, s, out, owed, at, close)
    BY <1>1 DEF Paired
  <1>3. /\ "headers" \in Busy /\ "content" \in Busy /\ "handle" \in Busy
        /\ "head" \in Busy /\ "body" \in Busy
    BY DEF Busy
  <1>4. Requested(in2, s2, owed, q)
    <2>1. s2.at \notin {"headers", "content", "handle", "head", "body"}
      BY <1>3
    <2>2. CASE in2 = in
      BY <1>2, <2>1, <2>2 DEF Requested
    <2>3. CASE in2 = <<>>
      BY <2>1, <2>3 DEF Requested
    <2> QED
      BY <2>2, <2>3
  <1>5. /\ \A i \in DOMAIN out2 : i \in DOMAIN out /\ out2[i] = out[i]
        /\ Len(out2) <= Len(out) /\ Len(out2) \in Nat /\ Len(out) \in Nat
        /\ \A i \in DOMAIN out2 : i <= Len(out2) /\ i \in Nat
    BY DEF Begins
  <1>6. /\ in = <<>> => in2 = <<>>
        /\ Len(in) + owed = 0 => Len(in2) + owed = 0
        /\ out = <<>> => out2 = <<>>
    BY <1>1, <1>5
  <1>7. ~ Finishing(s)
    BY <1>3 DEF Finishing
  <1>8. Answering(in2, s2, out2, owed, at, close)
    <2>1. ASSUME at \in {"write_body", "status"}, NEW i \in DOMAIN out2,
                 Keeps(out2[i])
          PROVE  /\ Len(in2) + owed = 0
                 /\ \/ i = Len(out2)
                    \/ i + 1 = Len(out2) /\ out2[i].more
      <3>1. i \in DOMAIN out /\ out2[i] = out[i] /\ Keeps(out[i])
        BY <1>5, <2>1
      <3>2. /\ Len(in) + owed = 0
            /\ i = Len(out) \/ (i + 1 = Len(out) /\ out[i].more)
        BY <1>2, <1>7, <2>1, <3>1 DEF Answering
      <3> QED
        BY <1>5, <1>6, <3>1, <3>2
    <2> QED
      BY <1>2, <1>5, <1>6, <1>7, <2>1 DEF Answering
  <1> QED
    BY <1>1, <1>4, <1>5, <1>8 DEF Paired

LEMMA PairedLine ==
  ASSUME NEW in \in Seq(UpCells), NEW s \in ServeRecords,
         NEW out \in Seq(DownCells), NEW at,
         NEW close \in BOOLEAN, NEW q, Paired(in, s, out, at, close, q),
         NEW in2 \in Seq(UpCells), NEW s2 \in ServeRecords,
         ReadsLine(in, s, in2, s2)
  PROVE  Paired(in2, s2, out, at, close, q)
  <1> USE DEF ReadsLine
  <1>1. PICK owed \in Nat : owed = Owed(at)
    BY DEF Owed
  <1>2. Requested(in, s, owed, q)
    BY <1>1 DEF Paired
  <1>3. /\ Len(in2) = Len(in) - 1 /\ Len(in) \in Nat
        /\ \A i \in DOMAIN in2 : /\ i \in Nat \ {0} /\ i + 1 \in DOMAIN in
                                 /\ in2[i] = in[i + 1]
    BY DropsIs
  <1>4. 1 \in DOMAIN in /\ Parts(q) \in Nat
    BY DEF Parts
  <1>5. in[1].req = q /\ \A i \in DOMAIN in2 : in2[i].req = q /\ in2[i].k # "line"
    BY <1>2, <1>3, <1>4 DEF Requested
  <1>6. Requested(in2, s2, owed, q)
    <2>1. CASE in[1].k = "line"
      <3>1. Len(in) + owed <= Parts(q)
        BY <1>2, <1>4, <2>1 DEF Requested
      <3> QED
        BY <1>3, <1>4, <1>5, <2>1, <3>1 DEF Requested, Busy
    <2>2. CASE in[1].k # "line"
      BY <1>5, <2>2 DEF Requested, Busy
    <2> QED
      BY <2>1, <2>2
  <1>7. Answering(in2, s2, out, owed, at, close)
    BY BusyUnanswered, UnansweredIs
  <1> QED
    BY <1>1, <1>6, <1>7 DEF Paired

LEMMA PairedTakes ==
  ASSUME NEW in \in Seq(UpCells), NEW s \in ServeRecords,
         NEW out \in Seq(DownCells), NEW at,
         NEW close \in BOOLEAN, NEW q \in Requests,
         Paired(in, s, out, at, close, q),
         NEW in2 \in Seq(UpCells), NEW s2 \in ServeRecords,
         ReadsOn(in, s, in2, s2, q), NEW out2, Adds(out2, out, Continue(q.id))
  PROVE  Paired(in2, s2, out2, at, close, q)
  <1> USE DEF ReadsOn, Adds
  <1>1. PICK owed \in Nat : owed = Owed(at)
    BY DEF Owed
  <1>2. Requested(in, s, owed, q)
    BY <1>1 DEF Paired
  <1>3. /\ Len(in2) = Len(in) - 1 /\ Len(in) \in Nat /\ Len(in2) \in Nat
        /\ \A i \in DOMAIN in2 : /\ i \in Nat \ {0} /\ i + 1 \in DOMAIN in
                                 /\ in2[i] = in[i + 1]
    BY DropsIs
  <1>4. s.req = q /\ \A i \in DOMAIN in2 : in2[i].req = q /\ in2[i].k # "line"
    BY <1>2, <1>3 DEF Requested, Busy
  <1>5. s2.status \in Nat
    BY DEF ServeRecords
  <1>6. Requested(in2, s2, owed, q)
    <2>1. CASE s2.at = "head" /\ s2.status >= 400
      <3>1. ~ (s2.status < 400)
        BY <1>5, <2>1
      <3> QED
        BY <1>4, <2>1, <3>1 DEF Requested, Busy
    <2>2. CASE s.at = "headers" /\ s2.at = "content" /\ HasContent(q.kind)
      <3>1. Len(in2) + owed <= 1
        BY <1>2, <1>3, <2>2 DEF Requested, Parts
      <3> QED
        BY <1>4, <2>2, <3>1 DEF Requested, Busy
    <2>3. CASE s2.at = "handle"
      <3>1. Len(in2) + owed = 0
        BY <1>2, <1>3, <2>3 DEF Requested, Parts
      <3> QED
        BY <1>4, <2>3, <3>1 DEF Requested, Busy
    <2> QED
      BY <2>1, <2>2, <2>3
  <1>7. PICK x : x = Continue(q.id)
    OBVIOUS
  <1>8. x \in DownCells /\ ~ Keeps(x) /\ x.id = q.id
    BY <1>7 DEF Continue, DownCells, Keeps, Requests
  <1>9. /\ Answering(in2, s2, out2, owed, at, close)
        /\ \A i \in DOMAIN out2 : out2[i].id = q.id
    <2>1. out2 \in {out, Append(out, x)}
      BY <1>7
    <2>2. Unanswered(out2, at, close)
      BY <1>8, <2>1, BusyUnanswered, StillUnanswered
    <2>3. \A i \in DOMAIN out : out[i].id = q.id
      BY DEF Paired
    <2> QED
      BY <1>8, <2>1, <2>2, <2>3, UnansweredIs, AppendedIs
  <1> QED
    BY <1>1, <1>6, <1>9 DEF Paired

\* The response is decided without reading on.
LEMMA PairedDecides ==
  ASSUME NEW in \in Seq(UpCells), NEW s \in ServeRecords,
         NEW out \in Seq(DownCells), NEW at, NEW close \in BOOLEAN,
         NEW q \in Requests, Paired(in, s, out, at, close, q),
         NEW s2 \in ServeRecords, Decides(s, s2)
  PROVE  Paired(in, s2, out, at, close, q)
  <1> USE DEF Decides
  <1>1. PICK owed \in Nat : owed = Owed(at)
    BY DEF Owed
  <1>2. Requested(in, s, owed, q)
    BY <1>1 DEF Paired
  <1>3. /\ \A i \in DOMAIN in : in[i].req = q /\ in[i].k # "line"
        /\ s2.req = q
    BY <1>2 DEF Requested, Busy
  <1>4. s2.status < 400 => Len(in) + owed = 0
    <2>1. s2.status \in Nat
      BY DEF ServeRecords
    <2> QED
      BY <1>2, <2>1 DEF Requested
  <1>5. Requested(in, s2, owed, q)
    BY <1>3, <1>4 DEF Requested, Busy
  <1>6. Answering(in, s2, out, owed, at, close)
    BY BusyUnanswered, UnansweredIs DEF Busy
  <1> QED
    BY <1>1, <1>5, <1>6 DEF Paired

\* What is left when the response was sent.
LEMMA RequestedDropped ==
  ASSUME NEW in \in Seq(UpCells), NEW s, NEW n \in Nat,
         NEW in2 \in Seq(UpCells),
         Drops(in, n, in2), NEW s2, NEW owed \in Nat, NEW q,
         Requested(in, s, owed, q), s.at \in Busy, s2.at \notin Busy
  PROVE  /\ Requested(in2, s2, owed, q)
         /\ Len(in) + owed = 0 => Len(in2) + owed = 0
  <1>1. /\ Len(in2) = Len(in) - n /\ Len(in) \in Nat /\ Len(in2) \in Nat
        /\ \A i \in DOMAIN in2 : /\ i \in Nat \ {0} /\ i + n \in DOMAIN in
                                 /\ in2[i] = in[i + n]
    BY DropsIs
  <1>2. \A i \in DOMAIN in2 : in2[i].req = q /\ in2[i].k # "line"
    BY <1>1 DEF Requested
  <1>3. s2.at \notin {"headers", "content", "handle", "head", "body"}
    BY DEF Busy
  <1> QED
    BY <1>1, <1>2, <1>3 DEF Requested

LEMMA PairedHead ==
  ASSUME NEW in \in Seq(UpCells), NEW s \in ServeRecords,
         NEW out \in Seq(DownCells), NEW at, NEW close \in BOOLEAN,
         NEW q \in Requests, Paired(in, s, out, at, close, q),
         NEW in2 \in Seq(UpCells), NEW s2 \in ServeRecords,
         HeadSent(in, s, in2, s2), NEW out2, Adds(out2, out, Response(s))
  PROVE  Paired(in2, s2, out2, at, close, q)
  <1> USE DEF HeadSent, Adds
  <1>1. PICK owed \in Nat : owed = Owed(at)
    BY DEF Owed
  <1>2. Requested(in, s, owed, q) /\ s.req = q /\ s.at \in Busy /\ s.status \in Nat
    BY <1>1 DEF Paired, Requested, Busy, ServeRecords
  <1>3. s.status < 400 => Len(in) + owed = 0
    BY <1>2 DEF Requested
  <1>4. s.status = 200 =>
          /\ s2.at = "body" /\ s2.req = s.req /\ s2.status = s.status
          /\ s2.last = s.last /\ s2.count = s.count
    BY DEF ServeRecords
  <1>5. Requested(in2, s2, owed, q) /\ (s.status < 400 => Len(in2) + owed = 0)
    <2>1. CASE s.status = 200
      <3>1. in2 = in /\ Len(in) + owed = 0
        BY <1>2, <1>3, <2>1
      <3>2. \A i \in DOMAIN in : in[i].req = q /\ in[i].k # "line"
        BY <1>2 DEF Requested
      <3> QED
        BY <1>2, <1>4, <2>1, <3>1, <3>2 DEF Requested
    <2>2. CASE s.status # 200
      BY SMTT(30), <1>2, <1>3, <2>2, RequestedDropped
    <2> QED
      BY <2>1, <2>2
  <1>6. PICK x : x = Response(s)
    OBVIOUS
  <1>7. /\ x \in DownCells /\ x.k = "head" /\ x.id = q.id
        /\ x.more <=> s.status = 200
        /\ Keeps(x) => s.status < 400 /\ ~ s.last /\ s.count # 1
    <2>1. PICK close2 \in BOOLEAN, more \in BOOLEAN :
            /\ close2 <=> (s.count = 1 \/ s.last \/ s.status >= 400)
            /\ more <=> s.status = 200
            /\ x = [k |-> "head", id |-> s.req.id, status |-> s.status,
                    close |-> close2, more |-> more]
      BY <1>6, ZenonT(60) DEF Response
    <2>2. q.id \in Ids
      BY DEF Requests
    <2>3. /\ x.k = "head" /\ x.id = q.id /\ x.more = more /\ x.close = close2
          /\ x \in DownCells
      BY <1>2, <2>1, <2>2 DEF DownCells
    <2> QED
      BY <1>2, <2>1, <2>3 DEF Keeps
  <1>8. Unanswered(out, at, close)
    BY <1>2, BusyUnanswered
  <1>9. \A i \in DOMAIN out2 : out2[i].id = q.id
    BY <1>6, <1>7, AppendedIs DEF Paired
  <1>10. Answering(in2, s2, out2, owed, at, close)
    <2>1. CASE out2 = out
      BY <1>8, <2>1, UnansweredIs
    <2>2. CASE out2 = Append(out, x)
      <3>1. ASSUME NEW i \in DOMAIN out2, at \in {"write_body", "status"},
                   Keeps(out2[i])
            PROVE  i = Len(out2) /\ out2[i] = x
        BY <1>7, <1>8, <2>2, <3>1, AppendedIs DEF Unanswered
      <3>2. Keeps(x) => s2.at \notin Busy \/ (x.more /\ Finishing(s2))
        BY <1>4, <1>7 DEF Finishing
      <3> QED
        BY <1>5, <1>7, <1>8, <3>1, <3>2 DEF Answering, Unanswered
    <2> QED
      BY <1>6, <2>1, <2>2
  <1> QED
    BY <1>1, <1>5, <1>9, <1>10 DEF Paired

LEMMA PairedBody ==
  ASSUME NEW in \in Seq(UpCells), NEW s \in ServeRecords,
         NEW out \in Seq(DownCells), NEW at, NEW close \in BOOLEAN,
         NEW q \in Requests, Paired(in, s, out, at, close, q),
         NEW in2 \in Seq(UpCells), NEW s2 \in ServeRecords,
         BodySent(in, s, in2, s2), NEW out2, NEW x, Adds(out2, out, x),
         x = [k |-> "content", id |-> s.req.id]
  PROVE  Paired(in2, s2, out2, at, close, q)
  <1> USE DEF BodySent, Adds
  <1>1. PICK owed \in Nat : owed = Owed(at)
    BY DEF Owed
  <1>2. /\ Requested(in, s, owed, q) /\ Answering(in, s, out, owed, at, close)
        /\ s.req = q /\ s.at \in Busy
    BY <1>1 DEF Paired, Requested, Busy
  <1>3. Len(in) + owed = 0
    BY <1>2 DEF Requested
  <1>4. Requested(in2, s2, owed, q) /\ Len(in2) + owed = 0
    BY <1>2, <1>3, RequestedDropped
  <1>5. in = <<>> /\ in2 = <<>>
    BY <1>1, <1>3, <1>4
  <1>7. x \in DownCells /\ x.id = q.id /\ ~ Keeps(x)
    BY <1>2 DEF DownCells, Keeps, Requests
  <1>8. \A i \in DOMAIN out2 : out2[i].id = q.id
    BY <1>7, AppendedIs DEF Paired
  <1>9. at # "write" /\ ~ (at = "received" /\ ~ close)
    BY <1>2 DEF Answering
  <1>10. CASE out2 = out
    <2>1. Answering(in2, s2, out, owed, at, close)
      <3>1. ASSUME at \in {"write_body", "status"}, NEW i \in DOMAIN out,
                   Keeps(out[i])
            PROVE  i = Len(out)
        BY <1>2, <3>1 DEF Answering
      <3>2. at = "body" /\ ~ close => Len(out) <= 1
        BY <1>2 DEF Answering
      <3> QED
        BY <1>4, <1>5, <1>9, <3>1, <3>2 DEF Answering
    <2> QED
      BY <1>1, <1>4, <1>8, <1>10, <2>1 DEF Paired
  <1>11. CASE out2 = Append(out, x)
    <2>1. /\ Len(out2) = Len(out) + 1 /\ Len(out) \in Nat
          /\ \A i \in DOMAIN out2 : (i \in DOMAIN out /\ out2[i] = out[i])
                                       \/ (i = Len(out2) /\ out2[i] = x)
      BY <1>7, <1>11, AppendedIs
    <2>2. ASSUME at \in {"write_body", "status"}, NEW i \in DOMAIN out2,
                 Keeps(out2[i])
          PROVE  i + 1 = Len(out2) /\ out2[i].more
      <3>1. i \in DOMAIN out /\ out2[i] = out[i] /\ Keeps(out[i])
        BY <1>7, <2>1, <2>2
      <3>2. i = Len(out) /\ out[i].more
        BY <1>2, <2>2, <3>1 DEF Answering
      <3> QED
        BY <2>1, <3>1, <3>2
    <2>3. ASSUME at = "body" /\ ~ close
          PROVE  Len(out2) <= 1
      <3>1. out = <<>>
        BY <1>2, <2>3 DEF Answering
      <3> QED
        BY <2>1, <3>1
    <2>4. Answering(in2, s2, out2, owed, at, close)
      BY <1>4, <1>5, <1>9, <2>2, <2>3 DEF Answering
    <2> QED
      BY <1>1, <1>4, <1>8, <2>4 DEF Paired
  <1> QED
    BY <1>10, <1>11

\* What a client may add to the cells of its request.
AddsRequest(in2, in, q) == in2 \in {in, in \o <<Line(q), Headers(q)>>}

AfterRequest(q) == IF HasContent(q.kind) THEN "write_body" ELSE "status"

AddsContent(in2, in, q) == in2 \in {in, Append(in, Content(q))}

LEMMA PairedRequest ==
  ASSUME NEW in \in Seq(UpCells), NEW s \in ServeRecords,
         NEW out \in Seq(DownCells), NEW close \in BOOLEAN,
         NEW q \in Requests, Paired(in, s, out, "write", close, q),
         NEW in2, AddsRequest(in2, in, q),
         NEW out2 \in Seq(DownCells), Begins(out2, out),
         NEW at2, at2 = AfterRequest(q), NEW close2 \in BOOLEAN
  PROVE  Paired(in2, s, out2, at2, close2, q)
  <1> USE DEF AddsRequest, AfterRequest
  <1>1. in = <<>> /\ out = <<>> /\ s.at \notin Busy
    BY DEF Paired, Answering
  <1>2. Line(q) \in UpCells /\ Headers(q) \in UpCells
    BY DEF Line, Headers, UpCells
  <1>3. out2 = <<>>
    BY <1>1 DEF Begins
  <1>4. in2 = <<>> \/ in2 = <<Line(q), Headers(q)>>
    BY <1>1, <1>2
  <1>5. PICK owed \in Nat : owed = Owed(at2) /\ 2 + owed = Parts(q) /\ Parts(q) \in Nat
    BY DEF Owed, Parts
  <1>6. s.at \notin {"headers", "content", "handle", "head", "body"}
    BY <1>1 DEF Busy
  <1>7. Requested(in2, s, owed, q)
    <2>1. CASE in2 = <<>>
      BY <1>1, <1>6, <2>1 DEF Requested
    <2>2. CASE in2 = <<Line(q), Headers(q)>>
      <3>1. /\ DOMAIN in2 = {1, 2} /\ Len(in2) = 2 /\ in2[1].req = q /\ in2[2].req = q
            /\ in2[2].k # "line"
        BY <2>2 DEF Line, Headers
      <3> QED
        BY <1>1, <1>5, <1>6, <3>1 DEF Requested
    <2> QED
      BY <1>4, <2>1, <2>2
  <1>8. Answering(in2, s, out2, owed, at2, close2)
    BY <1>3 DEF Answering
  <1> QED
    BY <1>3, <1>5, <1>7, <1>8 DEF Paired

LEMMA PairedContent ==
  ASSUME NEW in \in Seq(UpCells), NEW s \in ServeRecords,
         NEW out \in Seq(DownCells), NEW close \in BOOLEAN,
         NEW q \in Requests, Paired(in, s, out, "write_body", close, q),
         NEW in2, AddsContent(in2, in, q),
         NEW out2 \in Seq(DownCells), Begins(out2, out), NEW close2 \in BOOLEAN
  PROVE  Paired(in2, s, out2, "status", close2, q)
  <1> USE DEF AddsContent
  <1>1. Requested(in, s, 1, q) /\ Answering(in, s, out, 1, "write_body", close)
    BY DEF Paired, Owed
  <1>2. PICK x : x = Content(q)
    OBVIOUS
  <1>3. x \in UpCells /\ x.req = q /\ x.k # "line"
    BY <1>2 DEF Content, UpCells
  <1>4. /\ Len(in2) <= Len(in) + 1 /\ Len(in) \in Nat /\ Len(in2) \in Nat
        /\ \A i \in DOMAIN in2 : /\ in2[i].req = q
                                 /\ in2[i].k = "line" => i \in DOMAIN in /\ in2[i] = in[i]
    <2>1. CASE in2 = in
      BY <1>1, <2>1 DEF Requested
    <2>2. CASE in2 = Append(in, x)
      BY <1>1, <1>3, <2>2, AppendedIs DEF Requested
    <2> QED
      BY <1>2, <2>1, <2>2
  <1>5. Parts(q) \in Nat /\ Len(in) + 1 # 0
    BY <1>4 DEF Parts
  <1>6. Requested(in2, s, 0, q)
    <2>1. \A i \in DOMAIN in2 :
            /\ in2[i].req = q
            /\ in2[i].k = "line" => i = 1 /\ s.at \notin Busy /\ Len(in2) + 0 <= Parts(q)
      BY <1>1, <1>4, <1>5 DEF Requested
    <2>2. /\ s.at = "headers" => Len(in2) + 0 <= Parts(q) - 1
          /\ s.at = "content" => HasContent(q.kind) /\ Len(in2) + 0 <= 1
      BY <1>1, <1>4, <1>5 DEF Requested
    <2>3. s.at # "handle" /\ ~ (s.at \in {"head", "body"} /\ s.status < 400)
      BY <1>1, <1>5 DEF Requested
    <2> QED
      BY <1>1, <2>1, <2>2, <2>3 DEF Requested
  <1>7. \A i \in DOMAIN out2 : i \in DOMAIN out /\ out2[i] = out[i]
    BY DEF Begins
  <1>8. \A i \in DOMAIN out : ~ Keeps(out[i])
    BY <1>1, <1>5 DEF Answering
  <1>9. Answering(in2, s, out2, 0, "status", close2)
    BY <1>7, <1>8 DEF Answering
  <1>10. \A i \in DOMAIN out2 : out2[i].id = q.id
    BY <1>7 DEF Paired
  <1> QED
    BY <1>6, <1>9, <1>10 DEF Paired, Owed

LEMMA DroppedOutIs ==
  ASSUME NEW p \in Seq(DownCells), NEW q \in Seq(DownCells), p # <<>>,
         Drops(p, 1, q)
  PROVE  /\ Len(q) = Len(p) - 1 /\ Len(p) \in Nat /\ Len(q) \in Nat /\ 1 \in DOMAIN p
         /\ \A i \in DOMAIN q : i \in Nat \ {0} /\ i + 1 \in DOMAIN p /\ q[i] = p[i + 1]
  BY DEF Drops

\* A status that is skipped.
LEMMA PairedSkips ==
  ASSUME NEW in \in Seq(UpCells), NEW s \in ServeRecords,
         NEW out \in Seq(DownCells), NEW close \in BOOLEAN,
         NEW q \in Requests, Paired(in, s, out, "status", close, q),
         NEW out2 \in Seq(DownCells), out # <<>>, Drops(out, 1, out2),
         NEW close2 \in BOOLEAN
  PROVE  Paired(in, s, out2, "status", close2, q)
  <1>1. Requested(in, s, 0, q) /\ Answering(in, s, out, 0, "status", close)
    BY DEF Paired, Owed
  <1>2. /\ Len(out2) = Len(out) - 1 /\ Len(out) \in Nat /\ Len(out2) \in Nat
        /\ \A i \in DOMAIN out2 : /\ i \in Nat \ {0} /\ i + 1 \in DOMAIN out
                                  /\ out2[i] = out[i + 1]
    BY DroppedOutIs
  <1>3. ASSUME NEW i \in DOMAIN out2, Keeps(out2[i])
        PROVE  /\ Len(in) + 0 = 0
               /\ \/ /\ i = Len(out2)
                     /\ s.at \notin Busy \/ (out2[i].more /\ Finishing(s))
                  \/ i + 1 = Len(out2) /\ s.at \notin Busy /\ out2[i].more
    <2>1. PICK j \in DOMAIN out : j = i + 1 /\ out2[i] = out[j]
      BY <1>2
    <2>2. /\ Len(in) + 0 = 0
          /\ \/ /\ j = Len(out)
                /\ s.at \notin Busy \/ (out[j].more /\ Finishing(s))
             \/ j + 1 = Len(out) /\ s.at \notin Busy /\ out[j].more
      BY <1>1, <1>3, <2>1 DEF Answering
    <2> QED
      BY <1>2, <2>1, <2>2
  <1>4. Answering(in, s, out2, 0, "status", close2)
    BY <1>3 DEF Answering
  <1>5. \A i \in DOMAIN out2 : out2[i].id = q.id
    BY <1>2 DEF Paired
  <1> QED
    BY <1>1, <1>4, <1>5 DEF Paired, Owed

\* The status that counts.
LEMMA PairedReply ==
  ASSUME NEW in \in Seq(UpCells), NEW s \in ServeRecords,
         NEW out \in Seq(DownCells), NEW close \in BOOLEAN,
         NEW q \in Requests, Paired(in, s, out, "status", close, q),
         NEW out2 \in Seq(DownCells), out # <<>>, Drops(out, 1, out2),
         out[1].k = "head", out[1].status # 100,
         NEW at2, at2 = (IF out[1].more THEN "body" ELSE "received"),
         NEW close2 \in BOOLEAN, close2 = out[1].close
  PROVE  out[1].id = q.id /\ Paired(in, s, out2, at2, close2, q)
  <1>1. Requested(in, s, 0, q) /\ Answering(in, s, out, 0, "status", close)
    BY DEF Paired, Owed
  <1>2. /\ Len(out2) = Len(out) - 1 /\ Len(out) \in Nat /\ Len(out2) \in Nat
        /\ 1 \in DOMAIN out
        /\ \A i \in DOMAIN out2 : /\ i \in Nat \ {0} /\ i + 1 \in DOMAIN out
                                  /\ out2[i] = out[i + 1]
    BY DroppedOutIs
  <1>3. out[1].id = q.id /\ \A i \in DOMAIN out2 : out2[i].id = q.id
    BY <1>2 DEF Paired
  <1>4. ASSUME ~ close2
        PROVE  /\ in = <<>>
               /\ \/ /\ Len(out2) = 0
                     /\ s.at \notin Busy \/ (out[1].more /\ Finishing(s))
                  \/ Len(out2) = 1 /\ s.at \notin Busy /\ out[1].more
    <2>1. Keeps(out[1])
      BY <1>4 DEF Keeps
    <2>2. /\ Len(in) + 0 = 0
          /\ \/ /\ 1 = Len(out)
                /\ s.at \notin Busy \/ (out[1].more /\ Finishing(s))
             \/ 1 + 1 = Len(out) /\ s.at \notin Busy /\ out[1].more
      BY <1>1, <1>2, <2>1 DEF Answering
    <2> QED
      BY <1>2, <2>2
  <1>5. Len(out2) = 0 => out2 = <<>>
    OBVIOUS
  <1>6. Answering(in, s, out2, 0, at2, close2)
    <2>1. CASE out[1].more
      <3>1. at2 = "body"
        BY <2>1
      <3> QED
        BY SMTT(30), <1>2, <1>4, <1>5, <3>1 DEF Answering
    <2>2. CASE ~ out[1].more
      <3>1. at2 = "received"
        BY <2>2
      <3> QED
        BY <1>4, <1>5, <2>2, <3>1 DEF Answering
    <2> QED
      BY <2>1, <2>2
  <1>7. Owed(at2) = 0
    BY DEF Owed
  <1> QED
    BY <1>1, <1>3, <1>6, <1>7 DEF Paired

LEMMA PairedReceived ==
  ASSUME NEW in \in Seq(UpCells), NEW s \in ServeRecords,
         NEW out \in Seq(DownCells), NEW close \in BOOLEAN,
         NEW q \in Requests, Paired(in, s, out, "body", close, q),
         NEW out2 \in Seq(DownCells), out # <<>>, Drops(out, 1, out2)
  PROVE  out[1].id = q.id /\ Paired(in, s, out2, "received", close, q)
  <1>1. Requested(in, s, 0, q) /\ Answering(in, s, out, 0, "body", close)
    BY DEF Paired, Owed
  <1>2. /\ Len(out2) = Len(out) - 1 /\ Len(out) \in Nat /\ Len(out2) \in Nat
        /\ 1 \in DOMAIN out
        /\ \A i \in DOMAIN out2 : /\ i \in Nat \ {0} /\ i + 1 \in DOMAIN out
                                  /\ out2[i] = out[i + 1]
    BY DroppedOutIs
  <1>3. out[1].id = q.id /\ \A i \in DOMAIN out2 : out2[i].id = q.id
    BY <1>2 DEF Paired
  <1>4. ~ close => in = <<>> /\ out2 = <<>> /\ s.at \notin Busy
    <2>1. ~ close => in = <<>> /\ Len(out) <= 1 /\ s.at \notin Busy
      BY <1>1 DEF Answering
    <2> QED
      BY <1>2, <2>1
  <1>5. Answering(in, s, out2, 0, "received", close)
    BY <1>4 DEF Answering
  <1> QED
    BY <1>1, <1>3, <1>5 DEF Paired, Owed

\* A call and the answer to its request, as far as either got.
Exchange(t) ==
  LET c == call[t].sock
  IN Paired(In(c), Srv(c), Out(t), call[t].at, call[t].close, call[t].req)

LEMMA OutBegins ==
  ASSUME NEW b \in Seq(DownCells), NEW p \in Seq(DownCells),
         NEW q \in Seq(DownCells),
         Begins(q, p)
  PROVE  b \o q \in Seq(DownCells) /\ Begins(b \o q, b \o p)
  BY DEF Begins

LEMMA OutAppends ==
  ASSUME NEW b \in Seq(DownCells), NEW p \in Seq(DownCells),
         NEW x \in DownCells,
         NEW q \in {p, Append(p, x)}
  PROVE  Adds(b \o q, b \o p, x)
  <1>1. b \o Append(p, x) = Append(b \o p, x)
    OBVIOUS
  <1> QED
    BY <1>1 DEF Adds

LEMMA MovesPaired ==
  ASSUME ConnTypeOK, ServeTypeOK, ConnTypeOK', ServeTypeOK', NEW c \in Conns,
         Moves(c), NEW b \in Seq(DownCells), NEW at, NEW close \in BOOLEAN,
         NEW q \in Requests,
         Paired(In(c), Srv(c), b \o conn[c].down, at, close, q)
  PROVE  Paired(In(c)', Srv(c)', b \o conn'[c].down, at, close, q)
  <1>1. PICK in, in2, s, s2, d, d2 :
          /\ in = In(c) /\ in2 = In(c)' /\ s = Srv(c) /\ s2 = Srv(c)'
          /\ d = conn[c].down /\ d2 = conn'[c].down
    OBVIOUS
  <1>2. /\ in \in Seq(UpCells) /\ in2 \in Seq(UpCells) /\ s \in ServeRecords
        /\ s2 \in ServeRecords /\ d \in Seq(DownCells) /\ d2 \in Seq(DownCells)
    BY <1>1, InTyped, InStaysTyped DEF ServeOK
  <1>3. PICK out, out2 : out = b \o d /\ out2 = b \o d2
    OBVIOUS
  <1>4. out \in Seq(DownCells) /\ out2 \in Seq(DownCells)
    BY <1>2, <1>3
  <1>5. Paired(in, s, out, at, close, q)
    BY <1>1, <1>3
  <1>6. s.at \in Busy => s.req = q
    BY <1>5 DEF Paired, Requested
  <1>7. in # <<>> => in[1].req = q
    BY <1>2, <1>5 DEF Paired, Requested
  <1>8. SUFFICES Paired(in2, s2, out2, at, close, q)
    BY <1>1, <1>3
  <1>9. CASE TakesLine(c)
    <2>1. ReadsLine(in, s, in2, s2) /\ d2 = d
      BY <1>1, <1>9 DEF TakesLine, Takes, ReadsLine
    <2>2. Paired(in2, s2, out, at, close, q)
      BY <1>2, <1>4, <1>5, <2>1, PairedLine
    <2> QED
      BY <1>3, <2>1, <2>2
  <1>10. CASE TakesHeaders(c)
    <2>1. ReadsOn(in, s, in2, s2, q) /\ d2 \in {d, Append(d, Continue(q.id))}
      BY <1>1, <1>7, <1>10 DEF TakesHeaders, Takes, ReadsOn
    <2>2. Continue(q.id) \in DownCells
      BY DEF Continue, DownCells, Requests
    <2>3. Adds(out2, out, Continue(q.id))
      BY <1>2, <1>3, <2>1, <2>2, OutAppends
    <2> QED
      BY <1>2, <1>4, <1>5, <2>1, <2>3, PairedTakes
  <1>11. CASE TakesContent(c)
    <2>1. ReadsOn(in, s, in2, s2, q) /\ d2 = d
      BY <1>1, <1>11 DEF TakesContent, Takes, ReadsOn
    <2>2. Adds(out2, out, Continue(q.id))
      BY <1>3, <2>1 DEF Adds
    <2> QED
      BY <1>2, <1>4, <1>5, <2>1, <2>2, PairedTakes
  <1>12. CASE GivesUp(c) \/ Handles(c)
    <2>1. in2 = in /\ d2 = d /\ Decides(s, s2)
      BY <1>1, <1>12 DEF GivesUp, Handles, Decides
    <2>2. Paired(in, s2, out, at, close, q)
      BY <1>2, <1>4, <1>5, <2>1, PairedDecides
    <2> QED
      BY <1>3, <2>1, <2>2
  <1>13. CASE SendsHead(c)
    <2>1. HeadSent(in, s, in2, s2) /\ d2 \in {d, Append(d, Response(s))}
      BY <1>1, <1>13 DEF SendsHead, HeadSent
    <2>2. Response(s) \in DownCells
      <3>1. PICK close2 \in BOOLEAN, more \in BOOLEAN :
              Response(s) = [k |-> "head", id |-> s.req.id, status |-> s.status,
                             close |-> close2, more |-> more]
        BY DEF Response
      <3>2. s.req = q /\ s.status \in Nat
        BY <1>2, <1>6, <2>1 DEF Busy, ServeRecords, HeadSent
      <3> QED
        BY <3>1, <3>2 DEF DownCells, Requests
    <2>3. Adds(out2, out, Response(s))
      BY <1>2, <1>3, <2>1, <2>2, OutAppends
    <2> QED
      BY <1>2, <1>4, <1>5, <2>1, <2>3, PairedHead
  <1>14. CASE SendsBody(c)
    <2>1. PICK x : x = [k |-> "content", id |-> s.req.id]
      OBVIOUS
    <2>2. BodySent(in, s, in2, s2) /\ d2 \in {d, Append(d, x)}
      BY <1>1, <1>14, <2>1 DEF SendsBody, BodySent
    <2>3. x \in DownCells
      BY <1>6, <2>1, <2>2 DEF DownCells, Requests, Busy, BodySent
    <2>4. Adds(out2, out, x)
      BY <1>2, <1>3, <2>2, <2>3, OutAppends
    <2> QED
      BY <1>2, <1>4, <1>5, <2>1, <2>2, <2>4, PairedBody
  <1> QED
    BY <1>9, <1>10, <1>11, <1>12, <1>13, <1>14 DEF Moves

LEMMA ServerExchanges ==
  ASSUME ExchangeInv, ServerStep, UNCHANGED clientObjects, NEW t \in Threads,
         call[t].at \in Using, Exchange(t)
  PROVE  Exchange(t)'
  <1>1. /\ ServerInv /\ ClientInv /\ ConnTypeOK /\ ServeTypeOK
        /\ ConnTypeOK' /\ ServeTypeOK' /\ call' = call
    BY ServerKeeps DEF ExchangeInv, ServerInv, clientObjects
  <1>2. PICK c, b, at, close, q :
          /\ c = call[t].sock /\ b = call[t].buf /\ at = call[t].at
          /\ close = call[t].close /\ q = call[t].req
    OBVIOUS
  <1>3. /\ c \in Conns /\ q \in Requests /\ b \in Seq(DownCells) /\ close \in BOOLEAN
    BY <1>1, <1>2, UsingIs DEF CallRecords
  <1>4. Paired(In(c), Srv(c), b \o conn[c].down, at, close, q)
    BY <1>2 DEF Exchange, Out
  <1>5. SUFFICES Paired(In(c)', Srv(c)', b \o conn'[c].down, at, close, q)
    BY <1>1, <1>2 DEF Exchange, Out
  <1>6. CASE Same(c)
    BY <1>4, <1>6 DEF Same
  <1>7. CASE Rests(c)
    <2>1. PICK in, in2, s, s2, d, d2 :
            /\ in = In(c) /\ in2 = In(c)' /\ s = Srv(c) /\ s2 = Srv(c)'
            /\ d = conn[c].down /\ d2 = conn'[c].down
      OBVIOUS
    <2>2. /\ in \in Seq(UpCells) /\ s \in ServeRecords /\ s2 \in ServeRecords
          /\ in2 \in Seq(UpCells) /\ d \in Seq(DownCells) /\ d2 \in Seq(DownCells)
      BY <1>1, <1>3, <2>1, InTyped, InStaysTyped DEF ServeOK
    <2>3. PICK out, out2 : out = b \o d /\ out2 = b \o d2
      OBVIOUS
    <2>4. StaysIdle(in, s, in2, s2) /\ Begins(d2, d)
      BY <1>7, <2>1 DEF Rests, StaysIdle
    <2>5. out \in Seq(DownCells) /\ out2 \in Seq(DownCells) /\ Begins(out2, out)
      BY <1>3, <2>2, <2>3, <2>4, OutBegins
    <2>6. Paired(in, s, out, at, close, q)
      BY <1>4, <2>1, <2>3
    <2>7. Paired(in2, s2, out2, at, close, q)
      BY <1>3, <2>2, <2>4, <2>5, <2>6, PairedRests
    <2> QED
      BY <2>1, <2>3, <2>7
  <1>8. CASE Moves(c)
    BY <1>1, <1>3, <1>4, <1>8, MovesPaired
  <1>9. Same(c) \/ Rests(c) \/ Moves(c)
    BY <1>1, <1>3, ServerMoves DEF Quiet, MovesAt
  <1> QED
    BY <1>6, <1>7, <1>8, <1>9

LEMMA RequestAdded ==
  ASSUME NEW b \in Seq(UpCells), NEW u \in Seq(UpCells), NEW q \in Requests,
         NEW u2, AddsRequest(u2, u, q)
  PROVE  AddsRequest(b \o u2, b \o u, q)
  <1>1. PICK x \in UpCells, y \in UpCells : x = Line(q) /\ y = Headers(q)
    BY DEF Line, Headers, UpCells
  <1>2. b \o (u \o <<x, y>>) = (b \o u) \o <<x, y>>
    OBVIOUS
  <1>3. u2 = u \/ u2 = u \o <<x, y>>
    BY <1>1 DEF AddsRequest
  <1> QED
    BY <1>1, <1>2, <1>3 DEF AddsRequest

LEMMA ContentAdded ==
  ASSUME NEW b \in Seq(UpCells), NEW u \in Seq(UpCells), NEW q \in Requests,
         NEW u2, AddsContent(u2, u, q)
  PROVE  AddsContent(b \o u2, b \o u, q)
  <1>1. PICK x \in UpCells : x = Content(q)
    BY DEF Content, UpCells
  <1>2. b \o Append(u, x) = Append(b \o u, x)
    OBVIOUS
  <1>3. u2 = u \/ u2 = Append(u, x)
    BY <1>1 DEF AddsContent
  <1> QED
    BY <1>1, <1>2, <1>3 DEF AddsContent

\* A call and its request through a step of the call.
LEMMA CallExchanges ==
  ASSUME ExchangeInv, NEW t \in Threads, call[t].at \in Using, Calls(t),
         UNCHANGED serverVars, Exchange(t)
  PROVE  call'[t].at \in Using => Exchange(t)'
  <1> SUFFICES ASSUME call'[t].at \in Using PROVE Exchange(t)'
    OBVIOUS
  <1>1. /\ ServerInv /\ ClientInv /\ ConnTypeOK /\ ServeTypeOK /\ CallStep(t)
        /\ ConnTypeOK' /\ ClientInv'
    BY DEF ExchangeInv, ServerInv, Calls, CallStep
  <1>2. PICK c, b, b2, at, at2, close, close2, q :
          /\ c = call[t].sock /\ b = call[t].buf /\ at = call[t].at
          /\ close = call[t].close /\ q = call[t].req
          /\ b2 = call'[t].buf /\ at2 = call'[t].at /\ close2 = call'[t].close
    OBVIOUS
  <1>3. /\ c \in Conns /\ q \in Requests /\ b \in Seq(DownCells) /\ close \in BOOLEAN
        /\ b2 \in Seq(DownCells) /\ close2 \in BOOLEAN
        /\ call'[t].sock = c /\ call'[t].req = q
    BY <1>1, <1>2, UsingIs
       DEF ClientInv, ClientTypeOK, CallRecords, CallStep
  <1>4. PICK s, u, u2, d, d2, in, in2, out, out2 :
          /\ s = Srv(c) /\ u = conn[c].up /\ u2 = conn'[c].up
          /\ d = conn[c].down /\ d2 = conn'[c].down
          /\ in = s.buf \o u /\ in2 = s.buf \o u2
          /\ out = b \o d /\ out2 = b2 \o d2
    OBVIOUS
  <1>5. /\ s \in ServeRecords /\ s.buf \in Seq(UpCells) /\ u \in Seq(UpCells)
        /\ d \in Seq(DownCells)
    BY <1>1, <1>3, <1>4, InTyped DEF ServeOK
  <1>6. u2 \in Seq(UpCells) /\ d2 \in Seq(DownCells)
    BY <1>1, <1>3, <1>4 DEF ConnTypeOK, Connections
  <1>7. /\ in \in Seq(UpCells) /\ in2 \in Seq(UpCells)
        /\ out \in Seq(DownCells) /\ out2 \in Seq(DownCells)
    <2>1. in \in Seq(UpCells)
      BY <1>4, <1>5
    <2>2. in2 \in Seq(UpCells)
      BY <1>4, <1>5, <1>6
    <2>3. out \in Seq(DownCells)
      BY <1>3, <1>4, <1>5
    <2>4. out2 \in Seq(DownCells)
      BY SMTT(30), <1>3, <1>4, <1>6
    <2> QED
      BY <2>1, <2>2, <2>3, <2>4
  <1>8. /\ in = In(c) /\ out = Out(t) /\ out2 = Out(t)' /\ Srv(c)' = s /\ in2 = In(c)'
    <2>1. UNCHANGED <<worker, serve>>
      BY DEF serverVars, poolVars
    <2>2. Srv(c)' = Srv(c)
      BY <2>1 DEF Srv, Served
    <2> QED
      BY <1>2, <1>3, <1>4, <2>2 DEF In, Out
  <1>9. Paired(in, s, out, at, close, q)
    BY <1>2, <1>4, <1>8 DEF Exchange
  <1>10. SUFFICES Paired(in2, s, out2, at2, close2, q)
    BY <1>2, <1>3, <1>8 DEF Exchange
  <1>11. CASE SendsRequest(t)
    <2>1. /\ at = "write" /\ at2 = AfterRequest(q)
          /\ b2 = b /\ Begins(d2, d) /\ AddsRequest(u2, u, q)
      BY <1>2, <1>4, <1>11 DEF SendsRequest, AddsRequest, AfterRequest
    <2>2. Begins(out2, out)
      BY <1>3, <1>4, <1>5, <1>6, <2>1, OutBegins
    <2>3. AddsRequest(in2, in, q)
      <3>1. PICK v \in Seq(UpCells) : v = s.buf
        BY <1>5
      <3>2. AddsRequest(v \o u2, v \o u, q)
        BY <1>3, <1>5, <2>1, RequestAdded
      <3> QED
        BY <1>4, <3>1, <3>2
    <2>4. Paired(in, s, out, "write", close, q)
      BY <1>9, <2>1
    <2> QED
      BY SMTT(30), <1>3, <1>5, <1>7, <2>1, <2>2, <2>3, <2>4, PairedRequest
  <1>12. CASE SendsContent(t)
    <2>1. /\ at = "write_body" /\ at2 = "status"
          /\ b2 = b /\ Begins(d2, d) /\ AddsContent(u2, u, q)
      BY <1>2, <1>4, <1>12 DEF SendsContent, AddsContent
    <2>2. Begins(out2, out)
      BY <1>3, <1>4, <1>5, <1>6, <2>1, OutBegins
    <2>3. AddsContent(in2, in, q)
      <3>1. PICK v \in Seq(UpCells) : v = s.buf
        BY <1>5
      <3>2. AddsContent(v \o u2, v \o u, q)
        BY <1>3, <1>5, <2>1, ContentAdded
      <3> QED
        BY <1>4, <3>1, <3>2
    <2>4. Paired(in, s, out, "write_body", close, q)
      BY <1>9, <2>1
    <2>5. Paired(in2, s, out2, "status", close2, q)
      BY <1>3, <1>5, <1>7, <2>2, <2>3, <2>4, PairedContent
    <2> QED
      BY SMTT(30), <2>1, <2>5
  <1>13. CASE Abandons(t)
    BY <1>13 DEF Abandons, Using
  <1>14. CASE TakesStatus(t)
    <2>1. PICK cell : cell = out[1]
      OBVIOUS
    <2>2. /\ at = "status" /\ u2 = u /\ out # <<>> /\ Drops(out, 1, out2)
          /\ cell.k = "head"
          /\ IF cell.status = 100 THEN at2 = "status"
             ELSE /\ at2 = (IF cell.more THEN "body" ELSE "received")
                  /\ close2 = cell.close
      BY <1>2, <1>4, <1>8, <1>14, <2>1 DEF TakesStatus
    <2>3. Paired(in, s, out, "status", close, q) /\ in2 = in
      BY <1>4, <1>9, <2>2
    <2>4. CASE cell.status = 100
      <3>1. Paired(in, s, out2, "status", close2, q)
        BY <1>3, <1>5, <1>7, <2>2, <2>3, PairedSkips
      <3> QED
        BY <2>2, <2>3, <2>4, <3>1
    <2>5. CASE cell.status # 100
      <3>1. /\ out[1].k = "head" /\ out[1].status # 100
            /\ at2 = (IF out[1].more THEN "body" ELSE "received")
            /\ close2 = out[1].close
        BY <2>1, <2>2, <2>5
      <3>2. Paired(in, s, out2, at2, close2, q)
        BY <1>3, <1>5, <1>7, <2>2, <2>3, <3>1, PairedReply
      <3> QED
        BY <2>3, <3>2
    <2> QED
      BY <2>4, <2>5
  <1>15. CASE TakesBody(t)
    <2>1. /\ at = "body" /\ at2 = "received" /\ u2 = u /\ out # <<>>
          /\ Drops(out, 1, out2) /\ close2 = close
      BY <1>2, <1>4, <1>8, <1>15 DEF TakesBody
    <2>2. Paired(in, s, out, "body", close, q) /\ in2 = in
      BY <1>4, <1>9, <2>1
    <2>3. Paired(in, s, out2, "received", close, q)
      BY <1>3, <1>5, <1>7, <2>1, <2>2, PairedReceived
    <2> QED
      BY <2>1, <2>2, <2>3
  <1> QED
    BY <1>11, <1>12, <1>13, <1>14, <1>15 DEF Calls

\* Nothing is under way on c.
Clean(c) == In(c) = <<>> /\ conn[c].down = <<>> /\ Srv(c).at \notin Busy

LEMMA CleanStays ==
  ASSUME UNCHANGED serverVars, NEW c \in Conns, Clean(c),
         conn'[c].up = conn[c].up, conn'[c].down = conn[c].down
  PROVE  Clean(c)'
  <1>1. UNCHANGED <<worker, serve>>
    BY DEF serverVars, poolVars
  <1>2. Srv(c)' = Srv(c)
    BY <1>1 DEF Srv
  <1>3. In(c)' = In(c)
    BY <1>2 DEF In
  <1> QED
    BY <1>2, <1>3 DEF Clean

LEMMA ServerCleans ==
  ASSUME ServerInv, ServerStep, NEW c \in Conns, Clean(c)
  PROVE  Clean(c)'
  <1>1. Same(c) \/ Rests(c) \/ Moves(c)
    BY ServerMoves DEF Quiet, MovesAt
  <1>2. CASE Same(c)
    BY <1>2 DEF Same, Clean
  <1>3. CASE Rests(c)
    <2>1. conn'[c].down \in Seq(DownCells)
      BY ServerKeeps DEF ServerInv, ConnTypeOK, Connections
    <2>2. PICK d \in Seq(DownCells) : d = conn'[c].down
      BY <2>1
    <2>3. Begins(d, <<>>) => d = <<>>
      BY DEF Begins
    <2>4. conn'[c].down = <<>>
      BY <1>3, <2>2, <2>3 DEF Rests, Clean
    <2> QED
      BY <1>3, <2>4 DEF Rests, Clean
  <1>4. CASE Moves(c)
    <2>1. In(c) = <<>> /\ Srv(c).at \notin {"headers", "content", "handle", "head", "body"}
      BY DEF Clean, Busy
    <2> QED
      BY <1>4, <2>1 DEF Moves, TakesLine, TakesHeaders, GivesUp, TakesContent,
                        Handles, SendsHead, SendsBody, Takes
  <1> QED
    BY <1>1, <1>2, <1>3, <1>4

LEMMA OpensClean ==
  ASSUME ServerInv, UNCHANGED serverVars, NEW c \in Conns, Opens(c)
  PROVE  Clean(c)'
  <1>1. conn[c].server # "open"
    BY DEF ServerInv, Unused, Opens, NoConn
  <1>2. Srv(c) = Fresh
    BY <1>1, NotAccepted
  <1>3. UNCHANGED <<worker, serve>>
    BY DEF serverVars, poolVars
  <1>4. Srv(c)' = Fresh
    BY <1>2, <1>3 DEF Srv
  <1>5. conn'[c].up = <<>> /\ conn'[c].down = <<>>
    BY DEF Opens
  <1>6. In(c)' = <<>> \o <<>>
    BY <1>4, <1>5, FreshIs DEF In
  <1> QED
    BY <1>4, <1>5, <1>6, FreshIs DEF Clean

\* A request that is to be written on a connection on which nothing is.
LEMMA PairedClean ==
  ASSUME NEW s, s.at \notin Busy, NEW close, NEW q
  PROVE  Paired(<<>>, s, <<>>, "write", close, q)
  <1>1. s.at \notin {"headers", "content", "handle", "head", "body"}
    BY DEF Busy
  <1>2. Requested(<<>>, s, 0, q)
    BY <1>1 DEF Requested
  <1>3. Answering(<<>>, s, <<>>, 0, "write", close)
    BY DEF Answering
  <1> QED
    BY <1>2, <1>3 DEF Paired, Owed

LEMMA CleanExchange ==
  ASSUME NEW t \in Threads, NEW c, NEW z, Clean(c)', call'[t] = z, z.sock = c,
         z.at = "write", z.buf = <<>>
  PROVE  Exchange(t)'
  <1>1. PICK s : s = Srv(c)'
    OBVIOUS
  <1>2. /\ In(c)' = <<>> /\ conn'[c].down = <<>> /\ s.at \notin Busy
    BY <1>1 DEF Clean
  <1>3. Paired(<<>>, s, <<>> \o <<>>, "write", z.close, z.req)
    <2>1. <<>> \o <<>> = <<>>
      OBVIOUS
    <2> QED
      BY <1>2, <2>1, PairedClean
  <1> QED
    BY <1>1, <1>2, <1>3 DEF Exchange, Out

\* An exchange on which the connection is kept leaves nothing behind.
LEMMA ExchangeCleans ==
  ASSUME ClientInv, ConnTypeOK, NEW t \in Threads, Exchange(t),
         call[t].at = "received", ~ call[t].close
  PROVE  Clean(call[t].sock)
  <1>1. PICK c, b, d, in, s :
          /\ c = call[t].sock /\ b = call[t].buf /\ d = conn[c].down
          /\ in = In(c) /\ s = Srv(c)
    OBVIOUS
  <1>2. c \in Conns /\ b \in Seq(DownCells)
    BY <1>1, UsingIs DEF Using, CallRecords
  <1>3. d \in Seq(DownCells)
    BY <1>1, <1>2 DEF ConnTypeOK, Connections
  <1>4. Paired(in, s, b \o d, "received", call[t].close, call[t].req)
    BY <1>1 DEF Exchange, Out
  <1>5. in = <<>> /\ b \o d = <<>> /\ s.at \notin Busy
    BY <1>4 DEF Paired, Answering
  <1>6. d = <<>>
    BY <1>2, <1>3, <1>5
  <1> QED
    BY <1>1, <1>5, <1>6 DEF Clean

\* A request is under way on the socket of the client of t, or it failed and
\* the socket is about to be closed.
Working(t) ==
  /\ Sends(t)
  /\ \/ call[t].at \in Using
     \/ call[t].at = "leave" /\ call[t].frames > 0 /\ call[t].got = {}

SocketOK(k) ==
  socket[k] # None =>
     \/ Clean(socket[k])
     \/ \E t \in Threads : ClientOf[t] = k /\ Working(t)

\* What is answered by what a call has read.
GotOK(t) ==
  /\ call[t].got # {} => Asks(t) /\ call[t].at \notin {"open", "write", "write_body", "status"}
  /\ \A id \in call[t].got : id = call[t].req.id

PairInv ==
  /\ \A t \in Threads : GotOK(t) /\ (call[t].at \in Using => Exchange(t))
  /\ \A k \in Clients : SocketOK(k)

LEMMA WorkingStays ==
  ASSUME NEW t \in Threads, call'[t] = call[t], plan'[t] = plan[t]
  PROVE  /\ Working(t)' <=> Working(t)
         /\ GotOK(t) => GotOK(t)'
  BY DEF Working, Sends, Streams, GotOK, Asks, Streaming

LEMMA WorkingSends ==
  ASSUME ClientInv, NEW t \in Threads, Working(t)
  PROVE  /\ locked_by[ClientOf[t]] = t /\ in_flight[ClientOf[t]] > 0
         /\ \A u \in Threads : Sends(u) /\ ClientOf[u] = ClientOf[t] => u = t
  <1>1. call[t].frames > 0
    BY DEF Working, ClientInv, LockInv, ThreadOK
  <1> QED
    BY <1>1, SendsAlone DEF Working

LEMMA NothingGot ==
  ASSUME NEW t \in Threads, call'[t].got = {}
  PROVE  GotOK(t)'
  BY DEF GotOK

\* The first cell that is on its way to a call is of its request.
LEMMA FirstIs ==
  ASSUME ClientInv, ConnTypeOK, NEW t \in Threads, call[t].at \in Using,
         Exchange(t), Out(t) # <<>>
  PROVE  Out(t)[1].id = call[t].req.id
  <1>1. PICK c, b, d, q, out :
          /\ c = call[t].sock /\ b = call[t].buf /\ d = conn[c].down
          /\ q = call[t].req /\ out = b \o d /\ out = Out(t)
    BY DEF Out
  <1>2. c \in Conns /\ b \in Seq(DownCells)
    BY <1>1, UsingIs DEF CallRecords
  <1>3. d \in Seq(DownCells)
    BY <1>1, <1>2 DEF ConnTypeOK, Connections
  <1>4. out \in Seq(DownCells)
    <2>1. b \o d \in Seq(DownCells)
      BY <1>2, <1>3
    <2> QED
      BY <1>1, <2>1
  <1>5. \A i \in DOMAIN out : out[i].id = q.id
    BY <1>1 DEF Exchange, Paired
  <1> QED
    BY <1>1, <1>4, <1>5

LEMMA UsesGot ==
  ASSUME ClientInv, ConnTypeOK, NEW t \in Threads, call[t].at \in Using,
         Calls(t), Exchange(t), GotOK(t)
  PROVE  GotOK(t)'
  <1>1. CallStep(t)
    BY DEF Calls
  <1>2. /\ call'[t].req = call[t].req /\ call'[t].sock = call[t].sock
        /\ plan' = plan /\ Asks(t) /\ call[t].at # "idle"
    BY <1>1, UsingIs DEF CallStep, OnlyCall, Using
  <1>3. call'[t].at # "idle" => Asks(t)'
    BY <1>2 DEF Asks, Sends, Streaming, Streams
  <1>4. call[t].at \in {"write", "write_body", "status"} => call[t].got = {}
    BY SMTT(30) DEF GotOK
  <1>5. CASE SendsRequest(t) \/ SendsContent(t)
    BY <1>4, <1>5, NothingGot DEF SendsRequest, SendsContent
  <1>6. CASE Abandons(t)
    BY <1>4, <1>6, NothingGot DEF Abandons
  <1>7. CASE TakesStatus(t)
    <2>1. Out(t)[1].id = call[t].req.id
      BY <1>7, FirstIs DEF TakesStatus
    <2>2. CASE call'[t].got = call[t].got
      BY <1>4, <1>7, <2>2, NothingGot DEF TakesStatus
    <2>3. CASE /\ call'[t].got = {Out(t)[1].id}
               /\ call'[t].at = "body" \/ call'[t].at = "received"
      BY <1>2, <1>3, <2>1, <2>3 DEF GotOK
    <2> QED
      BY <1>7, <2>2, <2>3 DEF TakesStatus
  <1>8. CASE TakesBody(t)
    <2>1. Out(t)[1].id = call[t].req.id
      BY <1>8, FirstIs DEF TakesBody
    <2>2. /\ call'[t].got = call[t].got \cup {Out(t)[1].id}
          /\ call'[t].at = "received"
      BY <1>8 DEF TakesBody
    <2> QED
      BY <1>2, <1>3, <2>1, <2>2 DEF GotOK
  <1> QED
    BY <1>5, <1>6, <1>7, <1>8 DEF Calls

LEMMA ManagesGot ==
  ASSUME ClientInv, ConnTypeOK, Unused, NEW t \in Threads, Manages(t), GotOK(t)
  PROVE  GotOK(t)'
  <1>1. PICK k \in Clients : k = ClientOf[t]
    BY ClientAssumption
  <1>2. CASE Send(t)
    BY <1>2, SendDoes, NothingGot DEF CallsAre
  <1>3. CASE OpenStream(t)
    BY <1>1, <1>3, OpenStreamDoes, NothingGot DEF OpensStream, CallsAre
  <1>4. CASE OpenSocket(t)
    <2>1. call[t].got = {}
      BY <1>4 DEF OpenSocket, Step, GotOK
    <2>2. PICK s, z : OpensSocket(t, k, s, z)
      BY <1>1, <1>4, OpenSocketDoes
    <2> QED
      BY <2>1, <2>2, NothingGot DEF OpensSocket, CallsAre
  <1>5. CASE HandleResponse(t)
    <2>1. PICK z : HandlesResponse(t, z)
      BY <1>5, HandleResponseDoes
    <2>2. call'[t] = z /\ z.sock = call[t].sock
      BY <2>1 DEF HandlesResponse, CallsAre
    <2>3. CASE z.got = {}
      BY <2>2, <2>3, NothingGot
    <2>4. CASE z.got = call[t].got /\ z.at = "leave" /\ z.req = call[t].req
      <3>1. plan' = plan /\ call[t].at = "received"
        BY <1>5 DEF HandleResponse, Step
      <3> QED
        BY <2>2, <2>4, <3>1 DEF GotOK, Asks, Sends, Streaming, Streams
    <2> QED
      BY <2>1, <2>3, <2>4 DEF HandlesResponse
  <1>6. CASE LeaveFrame(t)
    <2>1. PICK z : /\ CallsAre(t, z) /\ z.at = "leave" /\ call[t].at = "leave"
                   /\ z.sock = call[t].sock /\ z.req = call[t].req
                   /\ z.got = call[t].got
      BY <1>6, LeaveFrameDoes
    <2>2. plan' = plan /\ call'[t] = z
      BY <1>6, <2>1 DEF LeaveFrame, CallsAre
    <2> QED
      BY <2>1, <2>2 DEF GotOK, Asks, Sends, Streaming, Streams
  <1>7. CASE Return(t)
    <2>1. call'[t] = Idle
      BY <1>7 DEF Return, ClientInv, ClientTypeOK
    <2> QED
      BY <2>1, IdleIs, NothingGot
  <1> QED
    BY <1>2, <1>3, <1>4, <1>5, <1>6, <1>7 DEF Manages

\* A socket that no request is under way on is clean.
LEMMA SocketClean ==
  ASSUME ClientInv, NEW k \in Clients, SocketOK(k), socket[k] # None,
         \A t \in Threads : ClientOf[t] = k => ~ Working(t)
  PROVE  Clean(socket[k])
  BY DEF SocketOK

LEMMA UsesSockets ==
  ASSUME ExchangeInv, NEW t \in Threads, call[t].at \in Using, Calls(t),
         UNCHANGED serverVars, GotOK(t), NEW k \in Clients, SocketOK(k)
  PROVE  SocketOK(k)'
  <1>1. ClientInv /\ CallStep(t) /\ socket' = socket /\ plan' = plan
    BY DEF ExchangeInv, Calls, CallStep, OnlyCall
  <1>2. SUFFICES ASSUME socket[k] # None
                 PROVE  \/ Clean(socket[k])'
                        \/ \E u \in Threads : ClientOf[u] = k /\ Working(u)'
    BY <1>1 DEF SocketOK
  <1>3. PICK c \in Conns : c = socket[k]
    BY <1>1, <1>2 DEF ClientInv, ClientTypeOK
  <1>4. CASE c = call[t].sock
    <2>1. Sends(t) /\ ClientOf[t] = k /\ call[t].frames > 0
      BY <1>1, <1>3, <1>4, SocketUser
    <2>2. call'[t].frames = call[t].frames
      BY <1>1 DEF CallStep
    <2>3. \/ call'[t].at \in Using
          \/ call'[t].at = "leave" /\ call'[t].got = {}
      BY DEF Calls, SendsRequest, SendsContent, Abandons, TakesStatus,
             TakesBody,
             Using, GotOK
    <2>4. Sends(t)'
      BY <1>1, <2>1, <2>3 DEF Sends, Streams, Using
    <2> QED
      BY <2>1, <2>2, <2>3, <2>4 DEF Working
  <1>5. CASE c # call[t].sock
    <2>1. conn'[c] = conn[c]
      BY <1>1, <1>3, <1>5 DEF CallStep, OnlyAt
    <2>2. CASE Clean(c)
      <3>1. Clean(c)'
        BY <2>1, <2>2, CleanStays
      <3>2. socket'[k] = c
        BY <1>1, <1>3
      <3> QED
        BY <3>1, <3>2 DEF Clean
    <2>3. CASE \E u \in Threads : ClientOf[u] = k /\ Working(u)
      <3>1. PICK u \in Threads : ClientOf[u] = k /\ Working(u)
        BY <2>3
      <3>2. u # t
        BY <1>1, <1>3, <1>5, <3>1 DEF Working, ClientInv, LockInv, ThreadOK
      <3>3. call'[u] = call[u] /\ plan'[u] = plan[u]
        BY <1>1, <3>2 DEF CallStep
      <3> QED
        BY <3>1, <3>3, WorkingStays
    <2> QED
      BY <1>2, <1>3, <2>2, <2>3 DEF SocketOK
  <1> QED
    BY <1>4, <1>5

\* The sockets of clients that the thread t does not use.
LEMMA SocketsSpared ==
  ASSUME ClientInv, NEW k \in Clients, SocketOK(k), UNCHANGED serverVars,
         socket'[k] = socket[k],
         socket[k] # None => conn'[socket[k]] = conn[socket[k]],
         \A u \in Threads : ClientOf[u] = k /\ Working(u) =>
            call'[u] = call[u] /\ plan'[u] = plan[u]
  PROVE  SocketOK(k)'
  <1> SUFFICES ASSUME socket[k] # None
               PROVE  \/ Clean(socket[k])'
                      \/ \E u \in Threads : ClientOf[u] = k /\ Working(u)'
    BY DEF SocketOK
  <1>1. PICK c \in Conns : c = socket[k]
    BY DEF ClientInv, ClientTypeOK
  <1>2. CASE Clean(c)
    <2>1. Clean(c)' /\ socket'[k] = c
      BY <1>1, <1>2, CleanStays
    <2> QED
      BY <2>1 DEF Clean
  <1>3. CASE \E u \in Threads : ClientOf[u] = k /\ Working(u)
    <2>1. PICK u \in Threads : ClientOf[u] = k /\ Working(u)
      BY <1>3
    <2> QED
      BY <2>1, WorkingStays
  <1> QED
    BY <1>1, <1>2, <1>3 DEF SocketOK

LEMMA ManagesOtherSockets ==
  ASSUME ExchangeInv, UNCHANGED serverVars, NEW t \in Threads, Manages(t),
         NEW k \in Clients, k # ClientOf[t], SocketOK(k)
  PROVE  SocketOK(k)'
  <1>1. ClientInv /\ ConnTypeOK /\ Unused
    BY DEF ExchangeInv, ServerInv
  <1>2. socket'[k] = socket[k]
    BY <1>1, ManagesOthers
  <1>3. ASSUME socket[k] # None
        PROVE  conn'[socket[k]] = conn[socket[k]]
    <2>1. PICK c \in Conns : c = socket[k] /\ conn[c].client \in {"open", "shut"}
      BY <1>1, <1>3, SocketIs
    <2>2. PICK l \in Clients : l = ClientOf[t]
      BY ClientAssumption
    <2>3. Touches(t, l, c)
      BY <1>1, <2>2, ManagesTouches
    <2>4. c # socket[l] /\ ~ (Streaming(t) /\ c = call[t].sock)
      BY <1>1, <1>3, <2>1, <2>2 DEF ClientInv, OwnInv
    <2> QED
      BY <2>1, <2>3, <2>4 DEF Touches, Opens
  <1>4. ASSUME NEW u \in Threads, ClientOf[u] = k
        PROVE  call'[u] = call[u] /\ plan'[u] = plan[u]
    BY <1>1, <1>4, ManagesOthers
  <1> QED
    BY <1>1, <1>2, <1>3, <1>4, SocketsSpared

\* Nobody sends on the client k, or a thread for which nothing is under way.
LEMMA RestingSocket ==
  ASSUME ClientInv, NEW k \in Clients, SocketOK(k), socket[k] # None,
         NEW t \in Threads, ClientOf[t] = k, ~ Working(t),
         Sends(t) \/ locked_by[k] = None \/ in_flight[k] = 0
  PROVE  Clean(socket[k])
  <1>1. ASSUME NEW u \in Threads, ClientOf[u] = k, Working(u)
        PROVE  FALSE
    <2>1. /\ locked_by[k] = u /\ in_flight[k] > 0
          /\ \A v \in Threads : Sends(v) /\ ClientOf[v] = k => v = u
      BY <1>1, WorkingSends
    <2>2. u # None /\ ~ (in_flight[k] = 0)
      BY <2>1, ClientAssumption
    <2>3. ~ Sends(t) \/ t = u
      BY <2>1
    <2> QED
      BY <1>1, <2>1, <2>2, <2>3
  <1> QED
    BY <1>1, SocketClean

LEMMA RestingStays ==
  ASSUME ClientInv, NEW k \in Clients, SocketOK(k), UNCHANGED serverVars,
         NEW t \in Threads, ClientOf[t] = k, ~ Working(t),
         Sends(t) \/ locked_by[k] = None,
         socket'[k] = None \/ (socket'[k] = socket[k] /\ conn' = conn)
  PROVE  SocketOK(k)'
  <1>1. CASE socket'[k] = None
    BY <1>1 DEF SocketOK
  <1>2. CASE socket'[k] # None
    <2>1. PICK c \in Conns : c = socket[k] /\ socket'[k] = c
      BY <1>2 DEF ClientInv, ClientTypeOK
    <2>2. Clean(c) /\ conn' = conn
      BY <1>2, <2>1, RestingSocket
    <2>3. Clean(c)'
      BY <2>2, CleanStays
    <2> QED
      BY <2>1, <2>3 DEF SocketOK, Clean
  <1> QED
    BY <1>1, <1>2

LEMMA ManagesOwnSocket ==
  ASSUME ExchangeInv, UNCHANGED serverVars, NEW t \in Threads, Manages(t),
         NEW k \in Clients, k = ClientOf[t], SocketOK(k),
         call[t].at \in Using => Exchange(t)
  PROVE  SocketOK(k)'
  <1>1. ClientInv /\ ConnTypeOK /\ Unused
    BY DEF ExchangeInv, ServerInv
  <1>2. DOMAIN socket = Clients
    BY <1>1 DEF ClientInv, ClientTypeOK
  <1>3. CASE Send(t)
    <2>1. /\ locked_by[k] = None /\ conn' = conn /\ socket' = socket
          /\ call[t].at = "idle"
      BY <1>3 DEF Send, Step
    <2>2. ~ Working(t)
      BY <2>1 DEF Working, Sends
    <2> QED
      BY <1>1, <2>1, <2>2, RestingStays
  <1>4. CASE OpenStream(t)
    BY <1>2, <1>4 DEF OpenStream, SocketOK
  <1>5. CASE OpenSocket(t)
    <2>1. PICK s, z : OpensSocket(t, k, s, z)
      BY <1>1, <1>5, OpenSocketDoes
    <2>2. socket'[k] = s /\ call'[t] = z
      BY SMTT(30), <1>2, <2>1 DEF OpensSocket, CallsAre
    <2>3. plan' = plan /\ Sends(t)
      BY <1>1, <1>5, OpenSocketKeeps DEF OpenSocket
    <2>4. CASE s = None
      BY <2>2, <2>4 DEF SocketOK
    <2>5. CASE z.at = "write"
      <3>1. Working(t)'
        BY <2>2, <2>3, <2>5 DEF Working, Sends, Streams, Using
      <3> QED
        BY <3>1 DEF SocketOK
    <2> QED
      BY <2>1, <2>4, <2>5 DEF OpensSocket
  <1>6. CASE HandleResponse(t)
    <2>1. call[t].at = "received" /\ call[t].at \in Using
      BY <1>6 DEF HandleResponse, Step, Using
    <2>2. CASE Streams(t)
      <3>1. socket' = socket /\ conn' = conn
        BY <1>6, <2>2 DEF HandleResponse
      <3>2. ~ Working(t)
        BY <2>2 DEF Working, Sends
      <3>3. ASSUME NEW u \in Threads, ClientOf[u] = k /\ Working(u)
            PROVE  call'[u] = call[u] /\ plan'[u] = plan[u]
        BY <1>1, <3>2, <3>3, ManagesOthers
      <3> QED
        BY <1>1, <3>1, <3>3, SocketsSpared
    <2>3. CASE ~ Streams(t) /\ call[t].close
      BY <1>2, <1>6, <2>3 DEF HandleResponse, CloseSocket, SocketOK
    <2>4. CASE ~ Streams(t) /\ ~ call[t].close
      <3>1. Sends(t) /\ socket[k] = call[t].sock
        BY <1>1, <2>1, <2>4 DEF Sends, ClientInv, LockInv, ThreadOK
      <3>2. socket' = socket /\ conn' = conn
        BY <1>6, <2>4 DEF HandleResponse
      <3>3. PICK c \in Conns : c = call[t].sock
        BY <1>1, <2>1, UsingIs
      <3>4. Clean(c)
        BY <1>1, <2>1, <2>4, <3>3, ExchangeCleans
      <3>5. Clean(c)' /\ socket'[k] = c
        BY <3>1, <3>2, <3>3, <3>4, CleanStays
      <3> QED
        BY <3>5 DEF SocketOK, Clean
    <2> QED
      BY <2>2, <2>3, <2>4
  <1>7. CASE LeaveFrame(t)
    <2>1. Sends(t) /\ call[t].at = "leave"
      BY <1>1, <1>7, LeaveFrameKeeps DEF LeaveFrame, Step
    <2>2. CASE CloseSocket(k)
      BY <1>2, <2>2 DEF CloseSocket, SocketOK
    <2>3. CASE call[t].got # {} /\ UNCHANGED <<socket, conn>>
      <3>1. ~ Working(t)
        BY <2>1, <2>3 DEF Working, Using
      <3> QED
        BY <1>1, <2>1, <2>3, <3>1, RestingStays
    <2> QED
      BY <1>7, <2>2, <2>3 DEF LeaveFrame
  <1>8. CASE Return(t)
    <2>1. call[t].at = "leave" /\ call[t].frames = 0 /\ socket' = socket
      BY <1>8 DEF Return, Step
    <2>2. ~ Working(t)
      BY <2>1 DEF Working, Using
    <2>3. CASE Streams(t)
      <3>1. ASSUME socket[k] # None
            PROVE  conn'[socket[k]] = conn[socket[k]]
        <4>1. PICK c \in Conns : c = socket[k] /\ conn[c].client \in {"open", "shut"}
          BY <1>1, <3>1, SocketIs
        <4>2. Touches(t, k, c)
          BY <1>1, ManagesTouches
        <4>3. ~ (Streaming(t) /\ c = call[t].sock)
          BY <1>1, <3>1, <4>1 DEF ClientInv, OwnInv
        <4>4. /\ ~ OpenStream(t) /\ ~ OpenSocket(t) /\ ~ HandleResponse(t)
              /\ ~ LeaveFrame(t)
          BY <2>1 DEF OpenStream, OpenSocket, HandleResponse, LeaveFrame, Step
        <4> QED
          BY <4>1, <4>2, <4>3, <4>4 DEF Touches
      <3>2. ASSUME NEW u \in Threads, ClientOf[u] = k /\ Working(u)
            PROVE  call'[u] = call[u] /\ plan'[u] = plan[u]
        BY <1>1, <2>2, <3>2, ManagesOthers
      <3> QED
        BY <1>1, <2>1, <3>1, <3>2, SocketsSpared
    <2>4. CASE ~ Streams(t)
      <3>1. Sends(t) /\ conn' = conn
        BY <1>8, <2>1, <2>4 DEF Sends, Return
      <3> QED
        BY <1>1, <2>1, <2>2, <3>1, RestingStays
    <2> QED
      BY <2>3, <2>4
  <1> QED
    BY <1>3, <1>4, <1>5, <1>6, <1>7, <1>8 DEF Manages

LEMMA ExchangeStays ==
  ASSUME UNCHANGED serverVars, NEW t \in Threads, call'[t] = call[t],
         Exchange(t),
         conn'[call[t].sock].up = conn[call[t].sock].up,
         conn'[call[t].sock].down = conn[call[t].sock].down
  PROVE  Exchange(t)'
  <1>1. PICK c, z : c = call[t].sock /\ z = call[t]
    OBVIOUS
  <1>2. UNCHANGED <<worker, serve>>
    BY DEF serverVars, poolVars
  <1>3. Srv(c)' = Srv(c)
    BY <1>2 DEF Srv
  <1>4. In(c)' = In(c)
    BY <1>1, <1>3 DEF In
  <1>5. Out(t)' = Out(t)
    BY <1>1 DEF Out
  <1> QED
    BY <1>1, <1>3, <1>4, <1>5 DEF Exchange

\* The connection that a request is to be written on is new or at rest.
LEMMA NewSocketClean ==
  ASSUME ExchangeInv, UNCHANGED serverVars, NEW t \in Threads,
         NEW k \in Clients,
         k = ClientOf[t], SocketOK(k), NEW s, NewSocket(k, s), s # None,
         ~ Working(t), Sends(t) \/ in_flight[k] = 0
  PROVE  Clean(s)'
  <1>1. ClientInv /\ ServerInv /\ s \in Conns
    BY DEF ExchangeInv, NewSocket
  <1>2. CASE s = socket[k] /\ conn' = conn
    <2>1. Clean(s)
      BY <1>1, <1>2, RestingSocket
    <2> QED
      BY <1>1, <1>2, <2>1, CleanStays
  <1>3. CASE Opens(s)
    BY <1>1, <1>3, OpensClean
  <1> QED
    BY <1>1, <1>2, <1>3 DEF NewSocket

LEMMA ManagesExchanges ==
  ASSUME ExchangeInv, UNCHANGED serverVars, NEW t \in Threads, Manages(t),
         NEW u \in Threads, call'[u].at \in Using,
         call[u].at \in Using => Exchange(u),
         SocketOK(ClientOf[u])
  PROVE  Exchange(u)'
  <1>1. ClientInv /\ ConnTypeOK /\ Unused
    BY DEF ExchangeInv, ServerInv
  <1>2. CASE u # t
    <2>1. call'[u] = call[u]
      BY <1>1, <1>2, ManagesOthers
    <2>2. conn'[call[u].sock] = conn[call[u].sock]
      BY <1>1, <1>2, <2>1, ManagesSpares
    <2> QED
      BY <2>1, <2>2, ExchangeStays
  <1>3. CASE u = t
    <2>1. PICK k \in Clients : k = ClientOf[t] /\ SocketOK(k)
      BY <1>3, ClientAssumption
    <2>2. CASE OpenSocket(t)
      <3>1. PICK s, z : OpensSocket(t, k, s, z)
        BY SMTT(30), <1>1, <2>1, <2>2, OpenSocketDoes
      <3>2. call[t].at = "open" /\ Sends(t)
        BY <1>1, <2>2, OpenSocketKeeps DEF OpenSocket, Step
      <3>3. ~ Working(t)
        BY <3>2 DEF Working, Using
      <3>4. call'[t] = z /\ z.at # "leave"
        BY <1>3, <3>1 DEF OpensSocket, CallsAre, Using
      <3>5. /\ s # None /\ NewSocket(k, s) /\ z.sock = s /\ z.at = "write"
            /\ z.buf = <<>>
        BY <3>1, <3>4 DEF OpensSocket
      <3>6. Clean(s)'
        BY <2>1, <3>2, <3>3, <3>5, NewSocketClean
      <3> QED
        BY <1>3, <3>4, <3>5, <3>6, CleanExchange
    <2>3. CASE OpenStream(t)
      <3>1. PICK s, z : OpensStream(t, k, s, z)
        BY <1>1, <2>1, <2>3, OpenStreamDoes
      <3>2. call[t].at = "idle" /\ in_flight[k] = 0
        BY <2>1, <2>3 DEF OpenStream, Step
      <3>3. ~ Working(t)
        BY <3>2 DEF Working, Sends
      <3>4. call'[t] = z /\ z.at # "leave"
        BY <1>3, <3>1 DEF OpensStream, CallsAre, Using
      <3>5. /\ s # None /\ NewSocket(k, s) /\ z.sock = s /\ z.at = "write"
            /\ z.buf = <<>>
        BY <3>1, <3>4 DEF OpensStream
      <3>6. Clean(s)'
        BY <2>1, <3>2, <3>3, <3>5, NewSocketClean
      <3> QED
        BY <1>3, <3>4, <3>5, <3>6, CleanExchange
    <2>4. CASE Send(t)
      BY <1>3, <2>4, SendDoes, <1>1 DEF CallsAre, Using
    <2>5. CASE HandleResponse(t)
      BY <1>1, <1>3, <2>5, HandleResponseDoes DEF HandlesResponse, CallsAre,
         Using
    <2>6. CASE LeaveFrame(t)
      BY <1>1, <1>3, <2>6, LeaveFrameDoes DEF CallsAre, Using
    <2>7. CASE Return(t)
      <3>1. call'[t] = Idle
        BY <1>1, <2>7 DEF Return, ClientInv, ClientTypeOK
      <3> QED
        BY <1>3, <3>1, IdleIs DEF Using
    <2> QED
      BY <2>2, <2>3, <2>4, <2>5, <2>6, <2>7 DEF Manages
  <1> QED
    BY <1>2, <1>3

LEMMA UsesOthers ==
  ASSUME ClientInv, NEW t \in Threads, call[t].at \in Using, Calls(t),
         UNCHANGED serverVars, NEW u \in Threads \ {t}, call'[u].at \in Using,
         call[u].at \in Using => Exchange(u)
  PROVE  Exchange(u)'
  <1>1. CallStep(t) /\ call'[u] = call[u]
    BY DEF Calls, CallStep
  <1>2. PICK c \in Conns : c = call[u].sock
    BY <1>1, UsingIs
  <1>3. c # call[t].sock
    BY <1>1, <1>2, UsedByOne
  <1>4. conn'[c] = conn[c]
    BY <1>1, <1>2, <1>3 DEF CallStep, OnlyAt
  <1> QED
    BY <1>1, <1>2, <1>4, ExchangeStays

LEMMA StopPairs ==
  ASSUME ExchangeInv, UNCHANGED serverVars, PairInv, NEW k \in Clients,
         Stop(k) \/ Destroy(k)
  PROVE  PairInv'
  <1>1. ClientInv /\ ConnTypeOK /\ call' = call /\ plan' = plan /\ DOMAIN socket = Clients
    BY DEF ExchangeInv, ServerInv, Stop, Destroy, ClientInv, ClientTypeOK
  <1>2. ASSUME NEW t \in Threads
        PROVE  GotOK(t)'
    BY <1>1, WorkingStays DEF PairInv
  <1>3. ASSUME NEW t \in Threads, call'[t].at \in Using
        PROVE  Exchange(t)'
    <2>1. call[t].at \in Using /\ Exchange(t)
      BY <1>1, <1>3 DEF PairInv
    <2>2. PICK c \in Conns : c = call[t].sock
      BY <1>1, <2>1, UsingIs
    <2>3. conn'[c] = conn[c] \/ Shuts(c)
      BY <1>1, <2>1, <2>2, StopSpares
    <2>4. conn'[c].up = conn[c].up /\ conn'[c].down = conn[c].down
      BY <2>3 DEF Shuts
    <2> QED
      BY <1>1, <2>1, <2>2, <2>4, ExchangeStays
  <1>4. ASSUME NEW l \in Clients
        PROVE  SocketOK(l)'
    <2>1. CASE CloseSocket(k) /\ l = k
      BY <1>1, <2>1 DEF CloseSocket, SocketOK
    <2>2. CASE socket'[l] = None
      BY <2>2 DEF SocketOK
    <2>3. CASE socket'[l] # None /\ ~ (CloseSocket(k) /\ l = k)
      <3>1. socket'[l] = socket[l]
        BY <1>1, <2>3, StopKeeps DEF CloseSocket
      <3>2. PICK c \in Conns : c = socket[l] /\ socket'[l] = c
        BY <1>1, <2>3, <3>1, SocketIs
      <3>3. conn'[c].up = conn[c].up /\ conn'[c].down = conn[c].down
        <4>1. CASE CloseSocket(k)
          <5>1. c # socket[k]
            BY <1>1, <2>3, <3>2, <4>1 DEF ClientInv, OwnInv
          <5> QED
            BY <1>1, <4>1, <5>1, CloseSocketDoes
        <4>2. CASE \A d \in Conns : conn'[d] = conn[d] \/ Shuts(d)
          BY <4>2 DEF Shuts
        <4> QED
          BY <1>1, <4>1, <4>2, StopKeeps
      <3>4. CASE Clean(c)
        <4>1. Clean(c)'
          BY <3>3, <3>4, CleanStays
        <4> QED
          BY <3>2, <4>1 DEF SocketOK, Clean
      <3>5. CASE \E u \in Threads : ClientOf[u] = l /\ Working(u)
        <4>1. PICK u \in Threads : ClientOf[u] = l /\ Working(u)
          BY <3>5
        <4>2. Working(u)'
          BY <1>1, <4>1, WorkingStays
        <4> QED
          BY <4>1, <4>2 DEF SocketOK
      <3> QED
        BY <2>3, <3>1, <3>2, <3>4, <3>5 DEF PairInv, SocketOK
    <2> QED
      BY <2>1, <2>2, <2>3
  <1> QED
    BY <1>2, <1>3, <1>4 DEF PairInv

LEMMA UsesPairs ==
  ASSUME ExchangeInv, UNCHANGED serverVars, PairInv, NEW t \in Threads, Uses(t)
  PROVE  PairInv'
  <1>1. ClientInv /\ ConnTypeOK
    BY DEF ExchangeInv, ServerInv
  <1>2. call[t].at \in Using /\ Calls(t)
    BY <1>1, UsesCalls
  <1>3. /\ CallStep(t) /\ plan' = plan /\ GotOK(t) /\ Exchange(t)
    BY <1>2 DEF Calls, CallStep, OnlyCall, PairInv
  <1>4. ASSUME NEW u \in Threads
        PROVE  GotOK(u)'
    <2>1. CASE u = t
      BY <1>1, <1>2, <1>3, <2>1, UsesGot
    <2>2. CASE u # t
      BY <1>3, <2>2, WorkingStays DEF CallStep, PairInv
    <2> QED
      BY <2>1, <2>2
  <1>5. ASSUME NEW u \in Threads, call'[u].at \in Using
        PROVE  Exchange(u)'
    <2>1. CASE u = t
      BY <1>2, <1>3, <1>5, <2>1, CallExchanges
    <2>2. CASE u # t
      BY <1>1, <1>2, <1>5, <2>2, UsesOthers DEF PairInv
    <2> QED
      BY <2>1, <2>2
  <1>6. ASSUME NEW k \in Clients
        PROVE  SocketOK(k)'
    BY <1>2, <1>3, UsesSockets DEF PairInv
  <1> QED
    BY <1>4, <1>5, <1>6 DEF PairInv

LEMMA ManagesPairs ==
  ASSUME ExchangeInv, UNCHANGED serverVars, PairInv, NEW t \in Threads,
         Manages(t)
  PROVE  PairInv'
  <1>1. ClientInv /\ ConnTypeOK /\ Unused
    BY DEF ExchangeInv, ServerInv
  <1>2. ASSUME NEW u \in Threads
        PROVE  GotOK(u)'
    <2>1. CASE u = t
      BY <1>1, <2>1, ManagesGot DEF PairInv
    <2>2. CASE u # t
      BY <1>1, <2>2, ManagesOthers, WorkingStays DEF PairInv
    <2> QED
      BY <2>1, <2>2
  <1>3. ASSUME NEW u \in Threads, call'[u].at \in Using
        PROVE  Exchange(u)'
    BY <1>3, ManagesExchanges, ClientAssumption DEF PairInv
  <1>4. ASSUME NEW k \in Clients
        PROVE  SocketOK(k)'
    <2>1. CASE k = ClientOf[t]
      BY <2>1, ManagesOwnSocket DEF PairInv
    <2>2. CASE k # ClientOf[t]
      BY <2>2, ManagesOtherSockets DEF PairInv
    <2> QED
      BY <2>1, <2>2
  <1> QED
    BY <1>2, <1>3, <1>4 DEF PairInv

LEMMA ServerPairs ==
  ASSUME ExchangeInv, ServerStep, UNCHANGED clientObjects, PairInv
  PROVE  PairInv'
  <1>1. /\ ServerInv /\ ClientInv /\ call' = call /\ plan' = plan
        /\ socket' = socket
    BY DEF ExchangeInv, clientObjects
  <1>2. ASSUME NEW t \in Threads
        PROVE  GotOK(t)'
    BY <1>1, WorkingStays DEF PairInv
  <1>3. ASSUME NEW t \in Threads, call'[t].at \in Using
        PROVE  Exchange(t)'
    BY <1>1, <1>3, ServerExchanges DEF PairInv
  <1>4. ASSUME NEW k \in Clients
        PROVE  SocketOK(k)'
    <2>1. CASE socket[k] = None
      BY <1>1, <2>1 DEF SocketOK
    <2>2. CASE socket[k] # None
      <3>1. PICK c \in Conns : c = socket[k] /\ socket'[k] = c
        BY <1>1, <2>2, SocketIs
      <3>2. CASE Clean(c)
        <4>1. Clean(c)'
          BY <1>1, <3>2, ServerCleans
        <4> QED
          BY <3>1, <4>1 DEF SocketOK, Clean
      <3>3. CASE \E u \in Threads : ClientOf[u] = k /\ Working(u)
        <4>1. PICK u \in Threads : ClientOf[u] = k /\ Working(u)
          BY <3>3
        <4>2. Working(u)'
          BY <1>1, <4>1, WorkingStays
        <4> QED
          BY <4>1, <4>2 DEF SocketOK
      <3> QED
        BY <2>2, <3>1, <3>2, <3>3 DEF PairInv, SocketOK
    <2> QED
      BY <2>1, <2>2
  <1> QED
    BY <1>2, <1>3, <1>4 DEF PairInv

LEMMA SamePairs ==
  ASSUME UNCHANGED exchangeVars, PairInv, ExchangeInv
  PROVE  PairInv'
  <1>1. /\ conn' = conn /\ call' = call /\ plan' = plan /\ socket' = socket
        /\ UNCHANGED serverVars
    BY DEF exchangeVars, clientVars, clientObjects
  <1>2. \A t \in Threads : GotOK(t)'
    BY <1>1, WorkingStays DEF PairInv
  <1>3. \A t \in Threads : call'[t].at \in Using => Exchange(t)'
    BY <1>1, ExchangeStays DEF PairInv
  <1>4. \A k \in Clients : SocketOK(k)'
    BY <1>1, SocketsSpared DEF PairInv, ExchangeInv
  <1> QED
    BY <1>2, <1>3, <1>4 DEF PairInv

LEMMA PairStep ==
  ASSUME ExchangeInv, PairInv, [ExchangeNext]_exchangeVars
  PROVE  PairInv'
  <1>1. ASSUME ClientStep, UNCHANGED serverVars
        PROVE  PairInv'
    <2>1. \/ \E t \in Threads : Uses(t) \/ Manages(t)
          \/ \E k \in Clients : Stop(k) \/ Destroy(k)
      BY <1>1 DEF ClientStep, ClientThread, Uses, Manages
    <2> QED
      BY <1>1, <2>1, UsesPairs, ManagesPairs, StopPairs
  <1> QED
    BY <1>1, ServerPairs, SamePairs, ExchangeSteps

LEMMA PairStart == ExchangeInit => PairInv
  <1> SUFFICES ASSUME ExchangeInit PROVE PairInv
    OBVIOUS
  <1>1. /\ call = [t \in Threads |-> Idle] /\ socket = [k \in Clients |-> None]
    BY DEF ExchangeInit, ClientInit
  <1>2. \A t \in Threads : call[t] = Idle
    BY <1>1
  <1>3. "idle" \notin Using
    BY DEF Using
  <1> QED
    BY <1>1, <1>2, <1>3, IdleIs DEF PairInv, GotOK, SocketOK

LEMMA ResultStep ==
  ASSUME ExchangeInv, NumberInv, PairInv, PairedAnswers,
         [ExchangeNext]_exchangeVars
  PROVE  PairedAnswers'
  <1> SUFFICES ASSUME NEW t \in Threads, NEW n \in DOMAIN results'[t],
                      NEW id \in results'[t][n]
               PROVE  id[1] = t /\ id[2] = n
    BY DEF PairedAnswers
  <1>1. Advances(t)
    BY EachAdvances
  <1>2. CASE results'[t] = results[t]
    BY <1>2 DEF PairedAnswers
  <1>3. CASE results'[t] = Append(results[t], call[t].got)
    <2>1. PICK r, g : r = results[t] /\ g = call[t].got
      OBVIOUS
    <2>2. r \in Seq(SUBSET Ids) /\ g \in SUBSET Ids
      BY <2>1 DEF ExchangeInv, ClientInv, ClientTypeOK, CallRecords
    <2>3. (n \in DOMAIN r /\ results'[t][n] = r[n]) \/ (n = Len(r) + 1 /\ results'[t][n] = g)
      <3>1. PICK q : q = Append(r, g)
        OBVIOUS
      <3>2. (n \in DOMAIN q => n \in DOMAIN r /\ q[n] = r[n]) \/ (n = Len(r) + 1 /\ q[n] = g)
        BY <2>2, <3>1, AppendedIs
      <3> QED
        BY <1>3, <2>1, <3>1, <3>2
    <2>4. CASE n \in DOMAIN r /\ results'[t][n] = r[n]
      BY <2>1, <2>4 DEF PairedAnswers
    <2>5. CASE n = Len(r) + 1 /\ results'[t][n] = g
      <3>1. Asks(t) /\ id = call[t].req.id
        BY <2>1, <2>5 DEF PairInv, GotOK
      <3> QED
        BY <2>1, <2>5, <3>1 DEF NumberInv, Numbered
    <2> QED
      BY <2>3, <2>4, <2>5
  <1> QED
    BY <1>1, <1>2, <1>3 DEF Advances

\* What send or a stream returns with success answers that very request or the
\* redirects it led to, never an earlier one or another thread's.
THEOREM PairedAnswersCorrect == ExchangeSpec => []PairedAnswers
  <1>1. ExchangeInit => NumberInv /\ PairedAnswers
    <2>1. ASSUME ExchangeInit
          PROVE  \A t \in Threads : call[t] = Idle /\ results[t] = <<>>
      BY <2>1 DEF ExchangeInit, ClientInit
    <2> QED
      BY <2>1, IdleIs DEF NumberInv, Numbered, Asks, Sends, Streaming,
         PairedAnswers
  <1> QED
    BY <1>1, PairStart, NumberStep, PairStep, ResultStep, ExchangeCorrect, PTL
       DEF ExchangeSpec

=============================================================================
