------------------------------- MODULE HttpText -------------------------------
(***************************************************************************)
(* The encoders and decoders of httplib.h for paths, queries and URIs.  A  *)
(* text is a sequence of bytes, and Byte is the value of a character.      *)
(***************************************************************************)
EXTENDS Integers, Sequences, SequencesExt

Ascii ==   \* from 32 on
  <<" ", "!", "quote", "#", "$", "%", "&", "'", "(", ")", "*", "+", ",", "-", ".", "/",
    "0", "1", "2", "3", "4", "5", "6", "7", "8", "9", ":", ";", "<", "=", ">", "?",
    "@", "A", "B", "C", "D", "E", "F", "G", "H", "I", "J", "K", "L", "M", "N", "O",
    "P", "Q", "R", "S", "T", "U", "V", "W", "X", "Y", "Z", "[", "backslash", "]", "^",
    "_", "grave", "a", "b", "c", "d", "e", "f", "g", "h", "i", "j", "k", "l", "m", "n",
    "o", "p", "q", "r", "s", "t", "u", "v", "w", "x", "y", "z", "{", "|", "}", "~">>

Byte == [c \in ToSet(Ascii) |-> CHOOSE b \in 32 .. 126 : Ascii[b - 31] = c]

Text(s) == [i \in DOMAIN s |-> Byte[s[i]]]
OneOf(chars) == {Byte[c] : c \in chars}

Blank == {9, 32}             \* is_space_or_tab
Space == {9, 10, 11, 12, 13, 32}
Alnum == (48 .. 57) \cup (65 .. 90) \cup (97 .. 122)
Hex == (48 .. 57) \cup (65 .. 70) \cup (97 .. 102)

Digit(b) == CASE b <= 57 -> b - 48 [] b \in 65 .. 70 -> b - 55 [] OTHER -> b - 87

-----------------------------------------------------------------------------
(***************************************************************************)
(* Encoding: a byte that is not plain becomes a number of two digits.      *)
(***************************************************************************)
Number(b) ==
  LET digit(n) == IF n < 10 THEN 48 + n ELSE 55 + n
  IN <<Byte["%"], digit(b \div 16), digit(b % 16)>>

Encode(s, plain) ==
  FlattenSeq([i \in DOMAIN s |-> IF s[i] \in plain THEN <<s[i]>> ELSE Number(s[i])])

Unreserved == Alnum \cup OneOf({"-", ".", "_", "~"})

\* encode_path leaves alone what the caller may have encoded already, and
\* ends at a NUL.
encode_path(s) ==
  LET nul == SelectInSeq(s, LAMBDA b : b = 0)
  IN Encode(IF nul = 0 THEN s ELSE SubSeq(s, 1, nul - 1),
            (0 .. 127) \ ({10, 13} \cup OneOf({" ", "+", "'", ",", ";"})))

encode_path_component(s) ==
  Encode(s, Unreserved \cup OneOf({"!", "$", "&", "'", "(", ")", "*", "+", ",", ";",
                                   "=", ":", "@"}))

uri_component == Alnum \cup OneOf({"-", "_", ".", "!", "~", "*", "'", "(", ")"})

encode_uri_component(s) == Encode(s, uri_component)

encode_uri(s) ==
  Encode(s, uri_component \cup OneOf({";", "/", "?", ":", "@", "&", "=", "+", "$",
                                      ",", "#"}))

query_component ==
  Unreserved \cup OneOf({"!", "$", "'", "(", ")", "*", ",", ";", ":", "@", "/", "?"})

\* Mutant of encode_query_component: a plus sign is left alone.
Mut_PlusKept(s) ==
  LET e == Encode(s, query_component \cup OneOf({" ", "+"}))
  IN [i \in DOMAIN e |-> IF e[i] = Byte[" "] THEN Byte["+"] ELSE e[i]]

\* With space_as_plus: a space becomes a plus sign, a plus sign a number.
encode_query_component(s) ==
  LET e == Encode(s, query_component \cup OneOf({" "}))
  IN [i \in DOMAIN e |-> IF e[i] = Byte[" "] THEN Byte["+"] ELSE e[i]]

-----------------------------------------------------------------------------
(***************************************************************************)
(* Decoding: what is read at i, and from how many bytes.  A percent sign   *)
(* that begins no number is kept.                                          *)
(***************************************************************************)
Read(bytes, length) == [bytes |-> bytes, length |-> length]
Kept(s, i) == Read(<<s[i]>>, 1)

\* from_hex_to_i.
IsHex(s, i, n) == i + n - 1 <= Len(s) /\ \A j \in i .. i + n - 1 : s[j] \in Hex
FromHex(s, i, n) ==
  FoldLeft(LAMBDA v, b : 16 * v + Digit(b), 0, SubSeq(s, i, i + n - 1))

ReadUri(s, i) ==
  IF s[i] = Byte["%"] /\ IsHex(s, i + 1, 2)
  THEN Read(<<FromHex(s, i + 1, 2)>>, 3) ELSE Kept(s, i)

\* Of the codes of four digits; a surrogate gives nothing.
to_utf8(code) ==
  CASE code < 128 -> <<code>>
    [] code \in 128 .. 2047 -> <<192 + code \div 64, 128 + (code % 64)>>
    [] code \in 55296 .. 57343 -> <<>>
    [] OTHER -> <<224 + code \div 4096, 128 + ((code \div 64) % 64), 128 + (code % 64)>>

\* In a path a number may also be %u and four digits.
ReadPath(s, i) ==
  IF s[i] # Byte["%"] \/ i = Len(s) \/ s[i + 1] # Byte["u"] THEN ReadUri(s, i)
  ELSE IF IsHex(s, i + 2, 4) THEN Read(to_utf8(FromHex(s, i + 2, 4)), 6)
  ELSE Kept(s, i)

\* In a query, with plus_as_space.  strtoul reads the two characters: in the
\* place of the first digit there may be white space or a sign, and a minus
\* sign counts.
ReadQuery(s, i) ==
  IF s[i] = Byte["+"] THEN Read(<<Byte[" "]>>, 1)
  ELSE IF s[i] # Byte["%"] \/ i + 2 > Len(s) \/ s[i + 2] \notin Hex THEN Kept(s, i)
  ELSE IF s[i + 1] \in Space \cup {Byte["+"]} THEN Read(<<Digit(s[i + 2])>>, 3)
  ELSE IF s[i + 1] = Byte["-"] THEN Read(<<(256 - Digit(s[i + 2])) % 256>>, 3)
  ELSE ReadUri(s, i)

Decode(s, read) ==   \* read is what the decoder reads at each place
  LET from[i \in 1 .. Len(s) + 1] ==
        IF i > Len(s) THEN <<>> ELSE read[i].bytes \o from[i + read[i].length]
  IN from[1]

\* And decode_uri_component.
decode_uri(s) == Decode(s, [i \in DOMAIN s |-> ReadUri(s, i)])

decode_path_component(s) == Decode(s, [i \in DOMAIN s |-> ReadPath(s, i)])

decode_query_component(s) == Decode(s, [i \in DOMAIN s |-> ReadQuery(s, i)])

=============================================================================
