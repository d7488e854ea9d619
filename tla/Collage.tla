------------------------------ MODULE Collage ------------------------------
(***************************************************************************)
(* The collage service (kotichi_collage.cpp) together with the cat service *)
(* it calls.  A GET /make fetches cats in rounds of `parallelism` parallel *)
(* requests until it has need_unique different ones, packs them into a tar *)
(* and posts that.  Any number of GET /make are served at once.            *)
(*                                                                         *)
(* A picture is one cell, a tar the pictures in order and the end marker.  *)
(* HTTP is what httplib makes of it: a request is answered, or it fails,   *)
(* at the latest by its timeout, whether or not the other side has served  *)
(* it.                                                                     *)
(***************************************************************************)
EXTENDS CatBackend

CONSTANTS
  Cats,          \* the different pictures the cat service has
  Hash,          \* picture -> its 64-bit FNV-1a hash
  End,           \* the two zero blocks at the end of a tar
  need_unique,   \* cats of a collage (12 in the code)
  parallelism,   \* requests of a round (12)
  max_rounds     \* rounds (12)

ASSUME CollageAssumption ==
  /\ Cats \cup {End} \subseteq Cells /\ End \notin Cats
  /\ Cats \cap {"off", "flying", "empty"} = {}
  /\ need_unique \in Nat \ {0} /\ parallelism \in Nat \ {0}
  /\ max_rounds \in Nat

VARIABLES
  pc,       \* request -> the next step of its /make handler
  round,    \* request -> rounds that are over
  fetch,    \* request -> the futures of its round
  next,     \* request -> the future its loop waits for
  seen,     \* request -> the hashes it has seen
  cats,     \* request -> the pictures it has kept
  answer    \* request -> what it was answered

makeVars == <<pc, round, fetch, next, seen, cats, answer>>
vars == <<backendVars, makeVars>>

Futures == 1 .. parallelism

Init ==
  /\ BackendInit
  /\ pc = [m \in Makes |-> "idle"]
  /\ round = [m \in Makes |-> 0]
  /\ fetch = [m \in Makes |-> [i \in Futures |-> "off"]]
  /\ next = [m \in Makes |-> 1]
  /\ seen = [m \in Makes |-> {}] /\ cats = [m \in Makes |-> <<>>]
  /\ answer = [m \in Makes |-> "none"]

-----------------------------------------------------------------------------
Go(m, from, to) ==
  /\ pc[m] = from
  /\ pc' = [pc EXCEPT ![m] = to]

Answered(m, status) == answer' = [answer EXCEPT ![m] = status]

\* GET /make arrives.
Make(m) ==
  /\ Go(m, "idle", "round")
  /\ UNCHANGED <<backendVars, round, fetch, next, seen, cats, answer>>

Enough(m) == Len(cats[m]) >= need_unique

StartRound(m) ==
  /\ Go(m, "round", "collect")
  /\ round[m] < max_rounds /\ ~ Enough(m)
  /\ fetch' = [fetch EXCEPT ![m] = [i \in Futures |-> "flying"]]
  /\ next' = [next EXCEPT ![m] = 1]
  /\ UNCHANGED <<backendVars, round, seen, cats, answer>>

\* http_get_cat returns: some picture, or nothing when the service answered
\* an error or not in time.
Fetched(m, i) ==
  /\ fetch[m][i] = "flying"
  /\ \E bytes \in Cats \cup {"empty"} :
        fetch' = [fetch EXCEPT ![m][i] = bytes]
  /\ UNCHANGED <<backendVars, pc, round, next, seen, cats, answer>>

Keep(m, bytes) ==
  /\ seen' = [seen EXCEPT ![m] = @ \cup {Hash[bytes]}]
  /\ cats' = [cats EXCEPT ![m] = Append(@, bytes)]

\* On to the next future, unless that was the last one needed or there.
LoopOn(m) ==
  /\ next' = [next EXCEPT ![m] = @ + 1]
  /\ pc' = [pc EXCEPT ![m] = IF Len(cats'[m]) >= need_unique
                                \/ next[m] = parallelism
                             THEN "join" ELSE "collect"]

\* Mutant of Collect: the hashes are not looked at.
Mut_DuplicatesKept(m) ==
  /\ pc[m] = "collect" /\ fetch[m][next[m]] # "flying"
  /\ LET bytes == fetch[m][next[m]]
     IN IF bytes # "empty" THEN Keep(m, bytes) ELSE UNCHANGED <<seen, cats>>
  /\ LoopOn(m)
  /\ UNCHANGED <<backendVars, round, fetch, answer>>

\* The loop over the futures: it waits for one, keeps a picture it has not
\* seen, and is left as soon as there are enough.
Collect(m) ==
  /\ pc[m] = "collect" /\ fetch[m][next[m]] # "flying"
  /\ LET bytes == fetch[m][next[m]]
     IN IF bytes # "empty" /\ Hash[bytes] \notin seen[m]
        THEN Keep(m, bytes) ELSE UNCHANGED <<seen, cats>>
  /\ LoopOn(m)
  /\ UNCHANGED <<backendVars, round, fetch, answer>>

\* Mutant of JoinRound: the futures that are left are not waited for.
Mut_NotJoined(m) ==
  /\ Go(m, "join", "round")
  /\ round' = [round EXCEPT ![m] = @ + 1]
  /\ UNCHANGED <<backendVars, fetch, next, seen, cats, answer>>

\* The vector of futures is destroyed, and each of them waits for its
\* request.
JoinRound(m) ==
  /\ Go(m, "join", "round")
  /\ \A i \in Futures : fetch[m][i] # "flying"
  /\ fetch' = [fetch EXCEPT ![m] = [i \in Futures |-> "off"]]
  /\ round' = [round EXCEPT ![m] = @ + 1]
  /\ UNCHANGED <<backendVars, next, seen, cats, answer>>

\* 503, or on to the tar.
EndRounds(m) ==
  /\ round[m] >= max_rounds \/ Enough(m)
  /\ Go(m, "round", IF Enough(m) THEN "post" ELSE "answered")
  /\ Answered(m, IF Enough(m) THEN "none" ELSE "503")
  /\ UNCHANGED <<backendVars, round, fetch, next, seen, cats>>

Tar(pictures) == Append(pictures, End)

\* http_post_tar, which may not even reach the cat service.
PostTar(m) ==
  /\ Go(m, "post", "await")
  /\ \/ Receive(m, Tar(cats[m]))
     \/ UNCHANGED backendVars
  /\ UNCHANGED <<round, fetch, next, seen, cats, answer>>

Acknowledge(m) ==
  /\ handler[m] = "done"
  /\ Go(m, "await", "answered")
  /\ Answered(m, "ok")
  /\ UNCHANGED <<backendVars, round, fetch, next, seen, cats>>

\* Mutant of PostFails: the handler goes on waiting.
Mut_NoTimeout(m) ==
  /\ handler[m] = "reply" /\ Go(m, "await", "answered")
  /\ Answered(m, "502")
  /\ UNCHANGED <<backendVars, round, fetch, next, seen, cats>>

\* 502: the answer is lost or too late, the archive may be stored or not.
PostFails(m) ==
  /\ Go(m, "await", "answered")
  /\ Answered(m, "502")
  /\ UNCHANGED <<backendVars, round, fetch, next, seen, cats>>

MakeHandler(m) ==
  \/ StartRound(m) \/ Collect(m) \/ JoinRound(m) \/ EndRounds(m)
  \/ PostTar(m) \/ Acknowledge(m) \/ PostFails(m)

-----------------------------------------------------------------------------
Next ==
  \/ \E m \in Makes :
        \/ Make(m) \/ MakeHandler(m)
        \/ \E i \in Futures : Fetched(m, i)
        \/ Handler(m) /\ UNCHANGED makeVars
  \/ Tick /\ UNCHANGED makeVars

\* Every thread that can go on does, and a request ends at the latest by its
\* timeout; the cat service itself may be as slow as it likes.
Fairness ==
  \A m \in Makes : /\ WF_vars(MakeHandler(m))
                   /\ \A i \in Futures : WF_vars(Fetched(m, i))

Spec == Init /\ [][Next]_vars /\ Fairness

-----------------------------------------------------------------------------
(***************************************************************************)
(* Properties.                                                             *)
(***************************************************************************)
MakeSteps == {"idle", "round", "collect", "join", "post", "await", "answered"}

\* Every variable stays in its type; the rounds never exceed their number.
TypeOK ==
  /\ BackendTypeOK
  /\ pc \in [Makes -> MakeSteps]
  /\ round \in [Makes -> 0 .. max_rounds]
  /\ fetch \in [Makes -> [Futures -> {"off", "flying", "empty"} \cup Cats]]
  /\ next \in [Makes -> 1 .. parallelism + 1]
  /\ seen \in [Makes -> SUBSET {Hash[c] : c \in Cats}]
  /\ cats \in [Makes -> Seq(Cats)]
  /\ \A m \in Makes : Len(cats[m]) <= need_unique
  /\ answer \in [Makes -> {"none", "ok", "502", "503"}]

Different(pictures) ==
  \A i, j \in DOMAIN pictures : Hash[pictures[i]] = Hash[pictures[j]] => i = j

\* An OK stands for a tar of need_unique different cats that the cat service
\* has been through with; a 503 is given only after all rounds, and then
\* nothing is ever uploaded.
AnswersTrue ==
  \A m \in Makes :
     /\ answer[m] = "ok" =>
           /\ Len(cats[m]) = need_unique /\ Different(cats[m])
           /\ handler[m] = "done" /\ body[m] = Tar(cats[m])
     /\ answer[m] = "503" =>
           /\ round[m] = max_rounds /\ Len(cats[m]) < need_unique
           /\ handler[m] = "none"

\* No fetch outlives its round: the threads refer to variables of the handler
\* and must be gone when it goes on.
NoFetchOutlives ==
  \A m \in Makes :
     pc[m] \notin {"collect", "join"} =>
        \A i \in Futures : fetch[m][i] # "flying"

\* Every GET /make is answered, even by 502 or 503, whatever the cat service
\* does or fails to do.
MakesEnd == \A m \in Makes : pc[m] = "round" ~> pc[m] = "answered"

=============================================================================
