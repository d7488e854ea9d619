------------------------------ MODULE HttpTarget ------------------------------
(***************************************************************************)
(* The target of a request (httplib.h): the client puts it together from a *)
(* path and parameters, encodes and writes it, and the server reads and    *)
(* decodes the path and the parameters.  A text is a sequence of bytes.    *)
(***************************************************************************)
EXTENDS HttpText

CONSTANT Targets   \* what clients ask for

VARIABLES
  target,   \* [path, params, by]: by is how the parameters were given
  arrived   \* [read, path, params] of the Request of the server

targetVars == <<target, arrived>>

TargetInit ==
  /\ target \in Targets
  /\ arrived = [read |-> "", path |-> <<>>, params |-> {}]

-----------------------------------------------------------------------------
(***************************************************************************)
(* divide and split; split trims the pieces and leaves out empty ones.     *)
(***************************************************************************)
Position(s, d) ==
  LET at == {i \in DOMAIN s : s[i] = Byte[d]}
  IN IF at = {} THEN Len(s) + 1 ELSE CHOOSE i \in at : \A j \in at : i <= j

Left(s, d) == SubSeq(s, 1, Position(s, d) - 1)
Right(s, d) == SubSeq(s, Position(s, d) + 1, Len(s))

Trimmed(s) ==
  LET black == {i \in DOMAIN s : s[i] \notin Blank}
  IN IF black = {} THEN <<>>
     ELSE SubSeq(s, CHOOSE i \in black : \A j \in black : i <= j,
                    CHOOSE i \in black : \A j \in black : i >= j)

Split(s, d) ==
  LET add(pieces, c) ==
        IF c = Byte[d] THEN Append(pieces, <<>>)
        ELSE [pieces EXCEPT ![Len(pieces)] = Append(@, c)]
      pieces == FoldLeft(add, << <<>> >>, s)
  IN SelectSeq([i \in DOMAIN pieces |-> Trimmed(pieces[i])], LAMBDA p : p # <<>>)

\* The pieces a and b of a list, with d between those that are not empty.
Joined(a, b, d) == IF a = <<>> THEN b ELSE a \o Text(<<d>>) \o b

-----------------------------------------------------------------------------
(***************************************************************************)
(* The client.                                                             *)
(***************************************************************************)
params_to_query_str(params) ==
  FoldLeft(LAMBDA text, p :
             Joined(text, encode_query_component(p[1]) \o Text(<<"=">>)
                          \o encode_query_component(p[2]), "&"), <<>>, params)

append_query_params(path, params) ==
  path \o Text(<<IF Position(path, "?") \in 2 .. Len(path) THEN "&" ELSE "?">>)
  \o params_to_query_str(params)

\* A pair is kept with or without its equals sign.
normalize_query_string(query) ==
  LET add(text, p) ==
        IF Left(p, "=") = <<>> THEN text
        ELSE Joined(text,
               encode_query_component(decode_query_component(Left(p, "=")))
               \o (IF Position(p, "=") > Len(p) THEN <<>>
                   ELSE Text(<<"=">>) \o encode_query_component(
                                     decode_query_component(Right(p, "=")))),
               "&")
  IN FoldLeft(add, <<>>, Split(query, "&"))

\* write_request, after Get has added its parameters to the path.
RequestTarget ==
  LET path == IF target.by = "Get" /\ target.params # <<>>
              THEN append_query_params(target.path, target.params)
              ELSE target.path
      path_part == encode_path(Left(path, "?"))
      query == normalize_query_string(Right(path, "?"))
  IN IF Right(path, "?") # <<>>
     THEN IF query = <<>> THEN path_part ELSE path_part \o Text(<<"?">>) \o query
     ELSE IF target.by = "Request" /\ target.params # <<>>
     THEN append_query_params(path_part, target.params)
     ELSE path_part

-----------------------------------------------------------------------------
(***************************************************************************)
(* The server.                                                             *)
(***************************************************************************)
parse_query_text(text) ==
  LET pairs == Split(text, "&")
  IN {<<decode_query_component(Left(pairs[i], "=")),
        decode_query_component(Right(pairs[i], "="))>> :
      i \in {j \in DOMAIN pairs : Left(pairs[j], "=") # <<>>}}

\* parse_request_line: three words, and the target without its fragment.
ReadRequestLine(line) ==
  LET words == Split(line, " ")
      read == Left(words[2], "#")
  IN arrived' = IF Len(words) # 3
                THEN [arrived EXCEPT !.read = "refused"]
                ELSE [read |-> "read",
                      path |-> decode_path_component(Left(read, "?")),
                      params |-> parse_query_text(Right(read, "?"))]

TargetNext ==
  /\ arrived.read = ""
  /\ ReadRequestLine(Text(<<"G", "E", "T", " ">>) \o RequestTarget
                     \o Text(<<" ", "H", "T", "T", "P", "/", "1", ".", "1">>))
  /\ UNCHANGED target

-----------------------------------------------------------------------------
(***************************************************************************)
(* Properties.                                                             *)
(***************************************************************************)
\* The parameters the caller gave, those in the path among them; when both
\* are given by a Request, only those in the path are sent.
GivenParams ==
  LET inPath == parse_query_text(Right(target.path, "?"))
      given == {target.params[i] : i \in {j \in DOMAIN target.params :
                                            target.params[j][1] # <<>>}}
  IN IF target.by = "Request" /\ Right(target.path, "?") # <<>> THEN inPath
     ELSE inPath \cup given

Texts ==
  {target.path} \cup UNION {{p[1], p[2]} : p \in ToSet(target.params)}

\* The path and the parameters that were asked for are those that arrive,
\* whatever bytes are in them.  A path and a query in it mean what the server
\* reads in them, and that the client decodes and encodes them on the way
\* changes nothing of it; what is given apart arrives as it is.  And what the
\* other encoders write is read back by their decoders.
TargetArrives ==
  /\ arrived.read # "refused"
  /\ arrived.read = "read" /\ Byte["#"] \notin ToSet(target.path) =>
       /\ arrived.path = decode_path_component(Left(target.path, "?"))
       /\ arrived.params = GivenParams
  /\ \A s \in Texts :
       /\ decode_path_component(encode_path_component(s)) = s
       /\ decode_uri(encode_uri(s)) = s
       /\ decode_uri(encode_uri_component(s)) = s

=============================================================================
