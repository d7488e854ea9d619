------------------------------ MODULE ShmBuffer ------------------------------
(***************************************************************************)
(* The shared-memory segment of the 1shmem programs (shared.h): a ring of  *)
(* MAX_FILES file slots with a write index and a read index, and what the  *)
(* producer puts into a slot.                                              *)
(*                                                                         *)
(* A file's bytes are abstracted to their number: the name says which file *)
(* it is, and a slot holds the first data_len bytes of it.                 *)
(***************************************************************************)
EXTENDS Naturals

CONSTANTS
  MAX_FILES,      \* slots of the ring (8 in the code)
  MAX_FILESIZE,   \* bytes of a file a slot can hold (64 KiB in the code)
  Names,          \* the file names that may occur in a directory
  NoName          \* the empty name of a zero-initialised slot

ASSUME BufferAssumption ==
  /\ MAX_FILES \in Nat \ {0}
  /\ MAX_FILESIZE \in Nat
  /\ NoName \notin Names

SlotIdx == 0 .. MAX_FILES - 1

FileSlot == [eof      : BOOLEAN,
             filename : Names \cup {NoName},
             data_len : 0 .. MAX_FILESIZE]

\* FileSlot slot{}: what a fresh segment holds, too.
ZeroSlot == [eof |-> FALSE, filename |-> NoName, data_len |-> 0]

\* The end-of-transfer marker of the producer.
EofSlot == [eof |-> TRUE, filename |-> NoName, data_len |-> 0]

(***************************************************************************)
(* A directory entry as the producer sees it: what readdir says of its     *)
(* type, whether it can be opened for reading, and its size.               *)
(***************************************************************************)
DirEntry == [name : Names, regular : BOOLEAN, readable : BOOLEAN, size : Nat]

\* The producer skips everything else with `continue`.
Sendable(e) == e.regular /\ e.readable

\* file.read(slot.data, MAX_FILESIZE) keeps the head of a longer file.
SlotFor(e) == [eof      |-> FALSE,
               filename |-> e.name,
               data_len |-> IF e.size <= MAX_FILESIZE THEN e.size
                                                      ELSE MAX_FILESIZE]

\* (idx + 1) % MAX_FILES, for the write index and the read index alike.
Advance(idx) == (idx + 1) % MAX_FILES

==============================================================================
