-------------------------------- MODULE Hide --------------------------------
(***************************************************************************)
(* hideFile.cpp: --hide moves a file from the current directory into       *)
(* .dark, --unhide moves it back.  Any number of runs, each action one     *)
(* system call, and a user who creates files in the current directory.     *)
(*                                                                         *)
(* A directory maps names to files.  A file is a model value, so that one  *)
(* that a rename replaces is seen to be gone.  There may be one symbolic   *)
(* link with a relative target: access(2) follows it from the directory it *)
(* is in, lstat(2) and rename(2) do not follow it.                         *)
(***************************************************************************)
EXTENDS Naturals, FiniteSets

CONSTANTS
  Runs,           \* the runs of the program, each starts once
  Names,          \* the file names
  Files,          \* the files the user may create
  Links,          \* those that are symbolic links
  Target,         \* link -> the name it refers to
  NoFile,         \* no file
  RunPolicy,      \* "serial": one run at a time; "overlap": any number
  CreatePolicy,   \* "idle": files are created between runs; "any": whenever
  MaxKills        \* how many runs may be killed

ASSUME HideAssumption ==
  /\ NoFile \notin Files
  /\ Links \subseteq Files /\ Target \in [Links -> Names]
  /\ \A k, l \in Links : k = l
  /\ RunPolicy \in {"serial", "overlap"}
  /\ CreatePolicy \in {"idle", "any"}
  /\ MaxKills \in Nat

VARIABLES
  cur, dark,   \* the current directory and .dark: name -> file, or NoFile
  darkMode,    \* .dark: "absent", "create" (0700) or "final" (0300)
  created,     \* the files the user has created so far
  call, job,   \* run -> its next call, and its command line
  killed       \* the runs that were killed before that call

hideVars == <<cur, dark, darkMode, created, call, job, killed>>

Jobs == {"hide", "unhide"} \X Names

HideInit ==
  /\ cur = [n \in Names |-> NoFile] /\ dark = [n \in Names |-> NoFile]
  /\ darkMode = "absent" /\ created = {}
  /\ call = [x \in Runs |-> "off"] /\ killed = {}
  /\ job \in [Runs -> Jobs]

-----------------------------------------------------------------------------
Over == {"done", "failed"}
Active == {x \in Runs : call[x] \notin {"off"} \cup Over} \ killed

\* The user makes a new file, or a link, under a name that is free.
Create(f, n) ==
  /\ CreatePolicy = "any" \/ Active = {}
  /\ f \notin created /\ cur[n] = NoFile
  /\ cur' = [cur EXCEPT ![n] = f]
  /\ created' = created \cup {f}
  /\ UNCHANGED <<dark, darkMode, call, job, killed>>

Begin(x) ==
  /\ call[x] = "off"
  /\ RunPolicy = "serial" => Active = {}
  /\ call' = [call EXCEPT ![x] = "lstat"]
  /\ UNCHANGED <<cur, dark, darkMode, created, job, killed>>

Kill(x) ==
  /\ x \in Active /\ Cardinality(killed) < MaxKills
  /\ killed' = killed \cup {x}
  /\ UNCHANGED <<cur, dark, darkMode, created, call, job>>

-----------------------------------------------------------------------------
\* The call at `from` succeeds and leads on, or fails and ends the run.
Call(x, mode, from, success, to) ==
  /\ x \notin killed /\ job[x][1] = mode /\ call[x] = from
  /\ call' = [call EXCEPT ![x] = IF success THEN to ELSE "failed"]
  /\ UNCHANGED <<created, job, killed>>

NameOf(x) == job[x][2]

\* access(F_OK): a link exists only if its target does, next to it.
Accessible(dir, n) ==
  /\ dir[n] # NoFile
  /\ dir[n] \in Links => LET t == dir[Target[dir[n]]]
                         IN t # NoFile /\ t \notin Links

\* lstat of the source: there is such an entry, and it is no directory.
FindSource(x) ==
  /\ \/ Call(x, "hide", "lstat", cur[NameOf(x)] # NoFile, "mkdir")
     \/ Call(x, "unhide", "lstat", dark[NameOf(x)] # NoFile, "access")
  /\ UNCHANGED <<cur, dark, darkMode>>

\* mkdir; that .dark exists already is no error.
MakeDark(x) ==
  /\ Call(x, "hide", "mkdir", TRUE, "access")
  /\ darkMode' = IF darkMode = "absent" THEN "create" ELSE darkMode
  /\ UNCHANGED <<cur, dark>>

\* Mutant of CheckDestination: --unhide does not look at the destination.
Mut_UnhideUnchecked(x) ==
  /\ \/ Call(x, "hide", "access", ~ Accessible(dark, NameOf(x)), "rename")
     \/ Call(x, "unhide", "access", TRUE, "rename")
  /\ UNCHANGED <<cur, dark, darkMode>>

\* Nothing that is there already may be replaced.
CheckDestination(x) ==
  /\ \/ Call(x, "hide", "access", ~ Accessible(dark, NameOf(x)), "rename")
     \/ Call(x, "unhide", "access", ~ Accessible(cur, NameOf(x)), "rename")
  /\ UNCHANGED <<cur, dark, darkMode>>

\* rename(2) replaces whatever is there by now, and fails only when the
\* source is gone.
Rename(x) ==
  LET n == NameOf(x)
  IN /\ \/ /\ Call(x, "hide", "rename", cur[n] # NoFile, "chmod")
           /\ IF cur[n] # NoFile
              THEN /\ dark' = [dark EXCEPT ![n] = cur[n]]
                   /\ cur' = [cur EXCEPT ![n] = NoFile]
              ELSE UNCHANGED <<cur, dark>>
        \/ /\ Call(x, "unhide", "rename", dark[n] # NoFile, "chmod")
           /\ IF dark[n] # NoFile
              THEN /\ cur' = [cur EXCEPT ![n] = dark[n]]
                   /\ dark' = [dark EXCEPT ![n] = NoFile]
              ELSE UNCHANGED <<cur, dark>>
     /\ UNCHANGED darkMode

\* set_dark_final_mode, and the report of success.
SetFinalMode(x) ==
  /\ \E mode \in {"hide", "unhide"} : Call(x, mode, "chmod", TRUE, "done")
  /\ darkMode' = "final"
  /\ UNCHANGED <<cur, dark>>

Run(x) == \/ FindSource(x) \/ MakeDark(x) \/ CheckDestination(x)
          \/ Rename(x) \/ SetFinalMode(x)

HideNext == \/ \E f \in Files, n \in Names : Create(f, n)
            \/ \E x \in Runs : Begin(x) \/ Kill(x) \/ Run(x)

HideSpec == HideInit /\ [][HideNext]_hideVars

-----------------------------------------------------------------------------
(***************************************************************************)
(* Properties.                                                             *)
(***************************************************************************)

\* Every variable stays in its type, and a file can only be hidden once
\* there is a directory to hide it in.
HideTypeOK ==
  /\ cur \in [Names -> Files \cup {NoFile}]
  /\ dark \in [Names -> Files \cup {NoFile}]
  /\ darkMode \in {"absent", "create", "final"}
  /\ created \subseteq Files /\ killed \subseteq Runs
  /\ job \in [Runs -> Jobs]
  /\ call \in [Runs -> {"off", "lstat", "mkdir", "access", "rename", "chmod"}
                       \cup Over]
  /\ darkMode = "absent" => \A n \in Names : dark[n] = NoFile

Places(f) == {n \in Names : cur[n] = f} \X {"cur"}
               \cup {n \in Names : dark[n] = f} \X {"dark"}

\* No file of the user is ever lost or doubled: each is in one of the two
\* directories, under one name.  (A link that dangles may be replaced.)
NothingLost == \A f \in created \ Links : Cardinality(Places(f)) = 1

=============================================================================
