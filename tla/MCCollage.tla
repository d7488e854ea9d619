----------------------------- MODULE MCCollage -----------------------------
(***************************************************************************)
(* Instances of Collage for TLC.  Two of the three pictures are one cat,   *)
(* as far as their hashes tell.                                            *)
(***************************************************************************)
EXTENDS Collage

CONSTANTS tom, tim, ann

MCHash == [c \in {tom, tim, ann} |-> IF c = ann THEN 2 ELSE 1]
MCCells == {tom, tim, ann, End}

=============================================================================
