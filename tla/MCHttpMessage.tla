---------------------------- MODULE MCHttpMessage ----------------------------
(***************************************************************************)
(* The inputs of HttpMessage: short texts and paths made of the characters *)
(* the code treats in a way of their own, ranges of contents of three      *)
(* bytes, forms whose contents look like the ends of lines and delimiters. *)
(***************************************************************************)
EXTENDS HttpMessage, HttpText

UpTo(S, n) == UNION {[1 .. k -> S] : k \in 0 .. n}

-----------------------------------------------------------------------------
\* Forms: the first part has any content, a second one a plain one; one form
\* has more parts than are accepted.  Some contents begin like the delimiter.
SomeContents ==
  UpTo({"cr", "lf", "-", "b", "a"}, 2)
  \cup {<<"cr", "lf", "-", "-", "a", "b">>, <<"cr", "cr", "lf", "-", "-">>}

Field(c) == [head |-> "field", type |-> FALSE, content |-> c]
File(c) == [head |-> "file", type |-> TRUE, content |-> c]

MCForms ==
  {<<File(c)>> : c \in SomeContents}
  \cup {<<Field(c), File(<<"a">>)>> : c \in SomeContents}
  \cup {[i \in 1 .. MaxParts + 1 |-> Field(<<"a">>)]}

MCEpilogues == {<<>>, <<"cr", "lf">>}

-----------------------------------------------------------------------------
\* Ranges: every one and every pair within three bytes, some sequences of
\* four, and more than RangeMax.
OneRange == {<<a, b>> : a, b \in -1 .. 3}

SomeRanges == {<<0, 0>>, <<0, 1>>, <<1, -1>>, <<-1, 1>>}

RangeLists ==
  UpTo(OneRange, 2) \cup [1 .. 4 -> SomeRanges] \cup {[i \in 1 .. 5 |-> <<0, 0>>]}

Answered(sources, statuses) ==
  [source : sources, length : {0, 1, 3}, own : statuses, ranges : RangeLists,
   match : {"absent"}, since : {"absent"}, if_range : {"absent"}, head : {FALSE}]

MCRequests ==
  Answered({"body", "provider"}, {0, 200, 206}) \cup Answered({"chunked"}, {0})
  \cup [source : {"file"}, length : {0, 3}, own : {0},
        ranges : {<<>>, << <<0, 1>> >>, << <<-1, 1>> >>},
        match : {"absent", "hit", "miss"},
        since : {"absent", "unmodified", "modified"},
        if_range : {"absent", "tag", "modified", "unmodified"}, head : BOOLEAN]

-----------------------------------------------------------------------------
\* Targets: the parameters apart from the path, or in a query of its own.  The
\* paths have numbers of all lengths of utf-8, a surrogate, one cut off; the
\* texts and the queries what strtoul takes for a number.
TargetPaths ==
  {<<"/">> \o p : p \in UpTo({"a", "/", " ", "+", ";"}, 2)}
  \cup {<<"/", "a", "%", "2", "0">>, <<"/", "%", "0">>, <<"/", "%", "+", "2">>}
  \cup {<<"/", "%", "u">> \o n :
          n \in {<<"0", "0", "2", "A">>, <<"0", "0", "a", "2">>,
                 <<"d", "8", "a", "a", "a">>, <<"a", "a", "2", "a">>,
                 <<"0", "a", "0">>}}

TargetTexts ==
  UpTo({"a", " ", "+", "%", "&", "=", "#", "?"}, 1)
  \cup {<<"%", "2", "0">>, <<"=", "=">>, <<"+", " ">>, <<" ", "a">>,
        <<"%", "%">>, <<"a", "&">>, <<"%", "+", "2">>, <<"%", " ", "2">>}

TargetQueries ==
  UpTo({"a", "=", "&", "+", "%", "2", " "}, 4) \cup {<<"a", "=", "%", "-", "2">>}

TwoParams == {<< <<k, <<"b">> >>, << <<"c">>, v>> >> :
                k, v \in TargetTexts \ {<<>>}}

MCTargets ==
  LET asked ==
        [path : TargetPaths,
         params : {<<>>} \cup {<< <<k, v>> >> : k, v \in TargetTexts},
         by : {"Get", "Request"}]
        \cup [path : {<<"/", "a", "?">> \o q : q \in TargetQueries},
              params : {<<>>}, by : {"Get"}]
        \cup [path : {<<"/", "?", "a">>, <<"/", "a", "?", "a", "=", "+">>,
                      <<"/", "?">>},
              params : TwoParams, by : {"Get", "Request"}]
      bytes(s) == Text(s)
      pair(p) == <<bytes(p[1]), bytes(p[2])>>
  IN {[t EXCEPT !.path = bytes(@), !.params = [i \in DOMAIN @ |-> pair(@[i])]] :
        t \in asked}
     \cup [path : {<<47, 9, 128, 255>>}, params : {<< << <<10, 255>>, <<0, 9>> >> >>},
           by : {"Get", "Request"}]

-----------------------------------------------------------------------------
\* Routes: two parameters; a directory d with an index, and other files.
MCParamNames == {":x", ":y"}

Patterns ==
  {<<"/", ":x">>, <<"/", ":x", "/">>, <<"/", ":x", "/", ":y">>,
   <<"/", "a", "/", ":x">>, <<"/", ":x", "/", "a">>,
   <<"/", ":x", "/", "a", "/", ":y">>}

MCFiles == {<< <<"a">> >>, << <<"d">>, <<"i">> >>, << <<"d">>, <<"index">> >>}

MCDirs == {<<>>, << <<"d">> >>}

Rooted(S, n) == {<<"/">> \o p : p \in UpTo(S, n)}

MCRoutes ==
  [path : Rooted({"/", "a", "d"}, 4) \cup Rooted({"/", "a", "."}, 5),
   mount : {<<"/">>}, pattern : Patterns]
  \cup [path : Rooted({"/", "a", "d", "i"}, 4), mount : {<<"/", "a", "/">>},
        pattern : {<<"/", ":x">>}]

-----------------------------------------------------------------------------
\* Events: with an identifier or without, with a type or without; the last
\* one has an identifier.
Event(i, t) == [id |-> i, type |-> t]

MCFeeds ==
  {<<Event(TRUE, ""), Event(FALSE, "t"), Event(TRUE, "")>>,
   <<Event(TRUE, "t"), Event(TRUE, "")>>}

=============================================================================
