------------------------------ MODULE HttpRouting ------------------------------
(***************************************************************************)
(* Which file or which handler of a server (httplib.h) answers a request:  *)
(* the directories that are mounted, then the handlers in the order they   *)
(* were added, whose patterns have parameters (class PathParamsMatcher).   *)
(* A path is a sequence of letters; a parameter of a pattern is one symbol.*)
(***************************************************************************)
EXTENDS Naturals, Sequences, SequencesExt

CONSTANTS
  Routes,      \* what can be asked, and of which server
  ParamNames,  \* the parameters of patterns
  Files,       \* the files below a mounted directory, as paths without "/"
  Dirs         \* its directories

VARIABLES
  route,    \* [path, mount, pattern]
  outcome   \* [kind, to, params]

routeVars == <<route, outcome>>

Outcome(kind, to, params) == [kind |-> kind, to |-> to, params |-> params]

RouteInit == route \in Routes /\ outcome = Outcome("", <<>>, {})

-----------------------------------------------------------------------------
(***************************************************************************)
(* Patterns with parameters.                                               *)
(***************************************************************************)
ParamsAt(pattern) ==
  SetToSortSeq({i \in DOMAIN pattern : pattern[i] \in ParamNames},
               LAMBDA i, j : i < j)

\* The constructor: the fragments before the parameters, and what follows the
\* last one and its "/".
static_fragments(pattern) ==
  LET at == ParamsAt(pattern)
      n == Len(at)
      begin(i) == IF i = 1 THEN 1 ELSE at[i - 1] + 2
      before == [i \in 1 .. n |-> SubSeq(pattern, begin(i), at[i] - 1)]
      after == SubSeq(pattern, begin(n + 1), Len(pattern))
  IN IF begin(n + 1) <= Len(pattern) THEN Append(before, after) ELSE before

NoMatch == [ok |-> FALSE, pos |-> 0, params |-> {}]

\* One fragment, and the parameter that follows it.
MatchFragment(path, fragment, name, st) ==
  LET pos == st.pos + Len(fragment)
      seps == {i \in DOMAIN path : i > pos /\ path[i] = "/"}
      sep == IF seps = {} THEN Len(path)
             ELSE (CHOOSE i \in seps : \A j \in seps : i <= j) - 1
  IN IF pos > Len(path) \/ SubSeq(path, st.pos + 1, pos) # fragment THEN NoMatch
     ELSE IF name = "" THEN [st EXCEPT !.pos = pos]
     ELSE [st EXCEPT !.pos = sep + 1,
             !.params = @ \cup {<<name, SubSeq(path, pos + 1, sep)>>}]

\* Mutant of Match: the path may be longer than the pattern.
Mut_MatchesPrefix(path, pattern) ==
  LET at == ParamsAt(pattern)
      fragments == static_fragments(pattern)
      step(st, i) ==
        IF st.ok
        THEN MatchFragment(path, fragments[i],
                           IF i > Len(at) THEN "" ELSE pattern[at[i]], st)
        ELSE st
  IN FoldLeft(step, [NoMatch EXCEPT !.ok = TRUE],
              [i \in DOMAIN fragments |-> i])

\* PathParamsMatcher::match.
Match(path, pattern) ==
  LET at == ParamsAt(pattern)
      fragments == static_fragments(pattern)
      step(st, i) ==
        IF st.ok
        THEN MatchFragment(path, fragments[i],
                           IF i > Len(at) THEN "" ELSE pattern[at[i]], st)
        ELSE st
      end == FoldLeft(step, [NoMatch EXCEPT !.ok = TRUE],
                      [i \in DOMAIN fragments |-> i])
  IN [end EXCEPT !.ok = @ /\ end.pos >= Len(path)]

-----------------------------------------------------------------------------
(***************************************************************************)
(* Files.                                                                  *)
(***************************************************************************)
Components(path) ==
  LET add(parts, c) ==
        IF c = "/" THEN Append(parts, <<>>)
        ELSE [parts EXCEPT ![Len(parts)] = Append(@, c)]
  IN SelectSeq(FoldLeft(add, << <<>> >>, path), LAMBDA p : p # <<>>)

Up(part) == part = <<".", ".">>
Here(part) == part = <<".">>

\* is_valid_path: the level never falls below the one it starts with.
is_valid_path(path) ==
  LET step(level, part) ==
        IF level = -1 \/ Here(part) THEN level
        ELSE IF Up(part) THEN level - 1 ELSE level + 1
  IN FoldLeft(step, 0, Components(path)) # -1

Outside == << <<"..">> >>
Nowhere == << <<"/">> >>

\* What the kernel finds under a path: the names that are left of it, unless
\* the path leads out of the directory or through what is no directory.
Resolved(path) ==
  LET step(names, part) ==
        IF names = Outside THEN names
        ELSE IF names \notin Dirs THEN Nowhere
        ELSE CASE Up(part) -> IF names = <<>> THEN Outside ELSE Front(names)
               [] Here(part) -> names
               [] OTHER -> Append(names, part)
  IN FoldLeft(step, <<>>, Components(path))

\* handle_file_request: a directory is answered by a redirect to the path
\* with a slash, below the mount point.
handle_file_request ==
  LET sub_path == <<"/">> \o SubSeq(route.path, Len(route.mount) + 1, Len(route.path))
      path == IF Last(sub_path) = "/" THEN sub_path \o <<"index">> ELSE sub_path
  IN IF ~ IsPrefix(route.mount, route.path) \/ ~ is_valid_path(sub_path)
     THEN Outcome("none", <<>>, {})
     ELSE IF Resolved(path) \in Dirs
     THEN Outcome("redirect", sub_path \o <<"/">>, {})
     ELSE IF Resolved(path) \in Files \cup {Outside}
     THEN Outcome("file", Resolved(path), {})
     ELSE Outcome("none", <<>>, {})

\* routing of a GET: a file, or the handler, or neither.
RouteNext ==
  /\ outcome.kind = "" /\ UNCHANGED route
  /\ LET file == handle_file_request
         match == Match(route.path, route.pattern)
     IN outcome' = IF file.kind = "none" /\ match.ok
                   THEN Outcome("handler", <<>>, match.params) ELSE file

-----------------------------------------------------------------------------
(***************************************************************************)
(* Properties.                                                             *)
(***************************************************************************)
\* The pattern with values for its parameters.
Instance(pattern, value) ==
  FlattenSeq([i \in DOMAIN pattern |->
                IF pattern[i] \in ParamNames THEN value[pattern[i]]
                ELSE <<pattern[i]>>])

\* p is the path q, but for a slash that may follow the last parameter.
SamePath(p, q) ==
  \/ p = q
  \/ Last(route.pattern) \in ParamNames /\ q = Append(p, "/")
  \/ /\ Len(route.pattern) > 1 /\ Last(Front(route.pattern)) \in ParamNames
     /\ Last(p) = "/" /\ q = Front(p)

Values == [ParamNames -> ToSet(Components(route.path)) \cup {<<>>}]

\* A path reaches the handler exactly when it is the pattern with values for
\* its parameters, and the handler is given these values; a file that is
\* served lies in the mounted directory, and it is found under its own name.
RoutedRight ==
  /\ outcome.kind = "handler" =>
       \E v \in Values :
          /\ SamePath(Instance(route.pattern, v), route.path)
          /\ outcome.params =
               {<<n, v[n]>> : n \in ParamNames \cap ToSet(route.pattern)}
  /\ outcome.kind = "none" =>
       /\ \A v \in Values : ~ SamePath(Instance(route.pattern, v), route.path)
       /\ \A f \in Files :
            route.path # route.mount
                         \o FlattenSeq([i \in 1 .. 2 * Len(f) - 1 |->
                              IF i % 2 = 0 THEN <<"/">> ELSE f[(i + 1) \div 2]])
  /\ outcome.kind = "file" => outcome.to \in Files

=============================================================================
