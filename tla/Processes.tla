------------------------------ MODULE Processes ------------------------------
(***************************************************************************)
(* Programs that start another one or become a daemon, and what they make  *)
(* of the file descriptors they were started with: launcherProg.cpp,       *)
(* nohup2.cpp, dup2.c, daemon.c and daemon-v2.c.  Each is a process that   *)
(* forks at most twice: the first, the second and the third process.  What *)
(* a process does is a script, a sequence of calls; a call that fails and  *)
(* is looked at ends the process.                                          *)
(***************************************************************************)
EXTENDS Naturals, Sequences

CONSTANT MaxFd   \* descriptors are 0 .. MaxFd

ASSUME ProcessesAssumption == MaxFd \in Nat /\ MaxFd >= 5

VARIABLES
  program,  \* which of the programs is run
  start,    \* [fds, pidfile]: what it finds when it is started
  pc,       \* process -> its next call
  state,    \* process -> "off", "on", "target", "exited" or "killed"
  status,   \* process -> its exit status, or the signal that killed it
  fds,      \* process -> descriptor -> file
  opened,   \* process -> file -> the descriptor that open returned for it
  session,  \* process -> "login", which the hangup reaches, or "own"
  signals,  \* process -> the signals it ignores or handles
  pidfile,  \* "none", "stale" of an earlier daemon, "empty" or "written"
  unchecked \* a call failed and nobody looked

procVars == <<pc, state, status, fds, opened, session, signals>>
processesVars == <<program, start, procVars, pidfile, unchecked>>

Programs == {"launcher", "nohup2", "dup2", "daemon", "daemon-v2"}
Daemons == {"daemon", "daemon-v2"}
Procs == {"first", "second", "third"}
Child == [first |-> "second", second |-> "third"]
Fds == 0 .. MaxFd
Closed == "closed"
FileNames == {"out.txt", "err.txt", "null", "alive", "foo"}

HUP == 1
TERM == 15

-----------------------------------------------------------------------------
(***************************************************************************)
(* The programs.                                                           *)
(***************************************************************************)
Call(c) == [call |-> c, file |-> "", fd |-> 0]
Open(f) == [call |-> "open", file |-> f, fd |-> 0]
Dup2(f, to) == [call |-> "dup2", file |-> f, fd |-> to]
Close(f) == [call |-> "close", file |-> f, fd |-> 0]
CloseAbove2(f) == [call |-> "close_above_2", file |-> f, fd |-> 0]
CloseFd(n) == [call |-> "close_fd", file |-> "", fd |-> n]

launcher ==
  [first |-> <<Call("fork"), Call("wait")>>,
   second |-> <<Open("out.txt"), Open("err.txt"), Dup2("out.txt", 1),
                Dup2("err.txt", 2), Close("out.txt"), Close("err.txt"),
                Call("exec")>>,
   third |-> <<>>]

\* Mutant of nohup2: the descriptor is closed whatever it is.
Mut_AlwaysClosed ==
  [first |-> <<Call("fork"), Call("exit")>>,
   second |-> <<Call("setsid"), Call("fork"), Call("exit")>>,
   third |-> <<Call("ignore"), Open("null"), Dup2("null", 0), Dup2("null", 1),
               Dup2("null", 2), Close("null"), Call("exec")>>]

nohup2 ==
  [first |-> <<Call("fork"), Call("exit")>>,
   second |-> <<Call("setsid"), Call("fork"), Call("exit")>>,
   third |-> <<Call("ignore"), Open("null"), Dup2("null", 0), Dup2("null", 1),
               Dup2("null", 2), CloseAbove2("null"), Call("exec")>>]

dup2 ==
  [first |-> <<Open("foo"), Dup2("foo", 1), Close("foo"), Call("work")>>,
   second |-> <<>>, third |-> <<>>]

\* The second process of a daemon writes the process identifier of the third.
DaemonParent ==
  <<Call("setsid"), Call("fork"), Call("create_pidfile"),
    Call("write_pidfile"), Call("exit")>>

DaemonStreams ==
  <<Open("alive"), CloseFd(0), CloseFd(1), CloseFd(2),
    Call("open_null"), Call("open_null"), Call("open_null")>>

daemon ==
  [first |-> <<Call("fork"), Call("exit")>>, second |-> DaemonParent,
   third |-> DaemonStreams \o <<Call("work")>>]

daemon_v2 ==
  [daemon EXCEPT !.third = DaemonStreams \o <<Call("sigaction"), Call("work")>>]

Script(p) ==
  CASE program = "launcher" -> launcher[p]
    [] program = "nohup2" -> nohup2[p]
    [] program = "dup2" -> dup2[p]
    [] program = "daemon" -> daemon[p]
    [] OTHER -> daemon_v2[p]

ProcessesInit ==
  /\ program \in Programs
  /\ start \in [fds : {[n \in Fds |-> IF n \in open THEN "tty" ELSE Closed] :
                         open \in SUBSET (0 .. 2)},
                pidfile : {"none", "stale"}]
  /\ pc = [p \in Procs |-> 1]
  /\ state = [p \in Procs |-> IF p = "first" THEN "on" ELSE "off"]
  /\ status = [p \in Procs |-> 0]
  /\ fds = [p \in Procs |-> start.fds]
  /\ opened = [p \in Procs |-> [f \in FileNames |-> 0]]
  /\ session = [p \in Procs |-> "login"]
  /\ signals = [p \in Procs |-> {}]
  /\ pidfile = start.pidfile /\ unchecked = FALSE

-----------------------------------------------------------------------------
(***************************************************************************)
(* The calls.                                                              *)
(***************************************************************************)
Now(p) == Script(p)[pc[p]]
At(p, c) == state[p] = "on" /\ Now(p).call = c
Step(p) == pc' = [pc EXCEPT ![p] = @ + 1] /\ UNCHANGED <<state, status>>

Same == UNCHANGED <<program, start>>

\* exit, _exit, or a return from main.
Ends(p, code) ==
  /\ state' = [state EXCEPT ![p] = "exited"]
  /\ status' = [status EXCEPT ![p] = code]
  /\ UNCHANGED pc

ErrorCode(p) == IF p = "first" \/ program \in Daemons THEN 1 ELSE 127

Fails(p) ==
  /\ Ends(p, ErrorCode(p))
  /\ UNCHANGED <<fds, opened, session, signals, pidfile, unchecked>>

Fork(p) ==
  /\ At(p, "fork")
  /\ \/ LET c == Child[p]
        IN /\ pc' = [pc EXCEPT ![p] = @ + 1]
           /\ state' = [state EXCEPT ![c] = "on"]
           /\ fds' = [fds EXCEPT ![c] = fds[p]]
           /\ session' = [session EXCEPT ![c] = session[p]]
           /\ UNCHANGED <<status, opened, signals, pidfile, unchecked>>
     \/ Fails(p)

\* The lowest free descriptor.
Lowest(p) ==
  CHOOSE n \in Fds : fds[p][n] = Closed /\ \A m \in 0 .. n - 1 : fds[p][m] # Closed

OpenFile(p) ==
  /\ At(p, "open")
  /\ \/ /\ Step(p)
        /\ fds' = [fds EXCEPT ![p][Lowest(p)] = Now(p).file]
        /\ opened' = [opened EXCEPT ![p][Now(p).file] = Lowest(p)]
        /\ UNCHANGED <<session, signals, pidfile, unchecked>>
     \/ Fails(p)

\* The daemons do not look whether /dev/null could be opened.
OpenNull(p) ==
  /\ At(p, "open_null") /\ Step(p)
  /\ \/ fds' = [fds EXCEPT ![p][Lowest(p)] = "null"] /\ UNCHANGED unchecked
     \/ unchecked' = TRUE /\ UNCHANGED fds
  /\ UNCHANGED <<opened, session, signals, pidfile>>

\* dup2, and close of what open returned or of a number.
SetFd(p, n, file) ==
  /\ Step(p) /\ fds' = [fds EXCEPT ![p][n] = file]
  /\ UNCHANGED <<opened, session, signals, pidfile, unchecked>>

Duplicate(p) ==
  /\ At(p, "dup2")
  /\ SetFd(p, Now(p).fd, fds[p][opened[p][Now(p).file]])

CloseOpened(p) ==
  /\ state[p] = "on" /\ Now(p).call \in {"close", "close_above_2"}
  /\ LET n == opened[p][Now(p).file]
     IN SetFd(p, n, IF Now(p).call = "close" \/ n > 2 THEN Closed ELSE fds[p][n])

CloseNumber(p) == At(p, "close_fd") /\ SetFd(p, Now(p).fd, Closed)

\* setsid; signal(SIGHUP, SIG_IGN); sigaction for SIGTERM, and the others that
\* sigHandler treats alike.
Detach(p) ==
  /\ \/ /\ At(p, "setsid") /\ session' = [session EXCEPT ![p] = "own"]
        /\ UNCHANGED signals
     \/ /\ At(p, "ignore") /\ signals' = [signals EXCEPT ![p] = @ \cup {HUP}]
        /\ UNCHANGED session
     \/ /\ At(p, "sigaction") /\ signals' = [signals EXCEPT ![p] = @ \cup {TERM}]
        /\ UNCHANGED session
  /\ Step(p) /\ UNCHANGED <<fds, opened, pidfile, unchecked>>

\* fopen of the pid file, which may fail, then fprintf and fclose, which
\* nobody looks at; the file may have been removed in between.
WritePidfile(p) ==
  \/ At(p, "create_pidfile") /\ Fails(p)
  \/ /\ \/ At(p, "create_pidfile") /\ pidfile' = "empty" /\ UNCHANGED unchecked
        \/ /\ At(p, "write_pidfile") /\ UNCHANGED unchecked
           /\ pidfile' = IF pidfile = "none" THEN "none" ELSE "written"
        \/ At(p, "write_pidfile") /\ UNCHANGED pidfile /\ unchecked' = TRUE
     /\ Step(p)
     /\ UNCHANGED <<fds, opened, session, signals>>

\* execvp, which may fail; a daemon or dup2.c begins its own work.
Run(p) ==
  \/ At(p, "exec") /\ Fails(p)
  \/ /\ At(p, "exec") \/ At(p, "work")
     /\ state' = [state EXCEPT ![p] = "target"]
     /\ UNCHANGED <<pc, status, fds, opened, session, signals, pidfile, unchecked>>

Exit(p) ==
  /\ \/ At(p, "exit") /\ Ends(p, 0)
     \/ /\ At(p, "wait") /\ state[Child[p]] \in {"exited", "killed"}
        /\ Ends(p, IF state[Child[p]] = "exited" THEN status[Child[p]]
                   ELSE 128 + status[Child[p]])
     \/ /\ state[p] = "target" /\ program \notin Daemons
        /\ \E code \in {0, 1} : Ends(p, code)
  /\ UNCHANGED <<fds, opened, session, signals, pidfile, unchecked>>

-----------------------------------------------------------------------------
(***************************************************************************)
(* The terminal is closed, or somebody stops what runs.                    *)
(***************************************************************************)
Alive(p) == state[p] \in {"on", "target"}

Hangup ==
  LET hit == {p \in Procs : Alive(p) /\ session[p] = "login" /\ HUP \notin signals[p]}
  IN /\ hit # {}
     /\ state' = [p \in Procs |-> IF p \in hit THEN "killed" ELSE state[p]]
     /\ status' = [p \in Procs |-> IF p \in hit THEN HUP ELSE status[p]]
     /\ UNCHANGED <<program, start, pc, fds, opened, session, signals, pidfile,
                    unchecked>>

Killed(p, signal) ==
  /\ state' = [state EXCEPT ![p] = "killed"]
  /\ status' = [status EXCEPT ![p] = signal]
  /\ UNCHANGED <<pc, pidfile>>

MayTerminate(p) ==
  IF program \in Daemons THEN p = "third" /\ Alive(p) ELSE state[p] = "target"

\* Mutant of Terminate: the result of unlink is not looked at.
Mut_UnlinkUnseen(p) ==
  /\ MayTerminate(p)
  /\ IF TERM \in signals[p] THEN Ends(p, 0) /\ pidfile' = "none"
     ELSE Killed(p, TERM)
  /\ UNCHANGED <<program, start, fds, opened, session, signals, unchecked>>

\* SIGTERM kills a process, or sigHandler of daemon-v2 removes the pid file.
Terminate(p) ==
  /\ MayTerminate(p)
  /\ IF TERM \in signals[p]
     THEN Ends(p, IF pidfile = "none" THEN 1 ELSE 0) /\ pidfile' = "none"
     ELSE Killed(p, TERM)
  /\ UNCHANGED <<program, start, fds, opened, session, signals, unchecked>>

Calls(p) ==
  \/ Fork(p) \/ OpenFile(p) \/ OpenNull(p) \/ Duplicate(p) \/ CloseOpened(p)
  \/ CloseNumber(p) \/ Detach(p) \/ WritePidfile(p) \/ Run(p) \/ Exit(p)

ProcessesNext ==
  \/ \E p \in Procs : Calls(p) /\ Same
  \/ \E p \in Procs : Terminate(p)
  \/ Hangup

ProcessesSpec == ProcessesInit /\ [][ProcessesNext]_processesVars

-----------------------------------------------------------------------------
(***************************************************************************)
(* Properties.                                                             *)
(***************************************************************************)
\* The descriptors of a process: these, and none else.
Has(p, map) == \A n \in Fds : fds[p][n] = IF n \in DOMAIN map THEN map[n] ELSE start.fds[n]

StartedWith(set) == \A n \in set : start.fds[n] # Closed

\* What is run has its streams where they belong and no descriptor besides,
\* also when it was started with closed ones: nohup2 and the daemons with any
\* of them closed, launcher and dup2 as long as the ones that they replace
\* are open.  The alive file of a daemon is still open when all three were.
\* No hangup reaches the target of nohup2 or a daemon, whenever it comes.
TargetsPrepared ==
  \A p \in Procs : state[p] = "target" =>
     CASE program = "launcher" ->
            StartedWith({1, 2}) =>
              Has(p, [n \in {1, 2} |-> IF n = 1 THEN "out.txt" ELSE "err.txt"])
       [] program = "dup2" -> StartedWith({1}) => Has(p, [n \in {1} |-> "foo"])
       [] program = "nohup2" ->
            Has(p, [n \in 0 .. 2 |-> "null"]) /\ session[p] = "own" /\ HUP \in signals[p]
       [] OTHER ->
            /\ ~ unchecked =>
                 Has(p, [n \in 0 .. 3 |->
                           IF n < 3 THEN "null"
                           ELSE IF StartedWith(0 .. 2) THEN "alive" ELSE Closed])
            /\ session[p] = "own"

\* A daemon whose starter reported success has its identifier in the pid
\* file as long as it lives, and when sigHandler has stopped it, the pid file
\* is gone, or the daemon reports by its status that it was not there yet.
\* Left out is a write that failed unseen; and, for the second half, a pid file
\* that an earlier daemon left: the handler can remove that one and end with
\* status 0 before the starter's fopen makes another.
PidFileTrue ==
  program \in Daemons =>
    /\ /\ state["second"] = "exited" /\ status["second"] = 0
       /\ Alive("third") /\ ~ unchecked
       => pidfile = "written"
    /\ /\ state["third"] = "exited" /\ TERM \in signals["third"]
       /\ pidfile # "none" /\ start.pidfile = "none"
       => status["third"] = 1

=============================================================================
