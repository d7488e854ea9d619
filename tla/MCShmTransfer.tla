--------------------------- MODULE MCShmTransfer ---------------------------
(***************************************************************************)
(* Instances of ShmTransfer for TLC: directories with up to MaxEntries     *)
(* entries of every kind (empty, exactly a slot, longer than a slot, no    *)
(* regular file, unreadable).                                              *)
(***************************************************************************)
EXTENDS ShmTransfer, SequencesExt, TLC

CONSTANT MaxEntries

\* One name per position, so that the names of a directory differ.
Kinds == [regular : BOOLEAN, readable : BOOLEAN, size : 0 .. MAX_FILESIZE + 1]
Shapes == {k \in Kinds : k.size = 1 \/ Sendable(k)}

NameList == SetToSeq(Names)

MCInputs ==
  UNION {{[i \in 1 .. n |-> [name     |-> NameList[i],
                             regular  |-> s[i].regular,
                             readable |-> s[i].readable,
                             size     |-> s[i].size]]
            : s \in [1 .. n -> Shapes]} : n \in 0 .. MaxEntries}

=============================================================================
