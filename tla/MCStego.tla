------------------------------ MODULE MCStego ------------------------------
(***************************************************************************)
(* Instances of Stego for TLC: an empty message and one of two cells.      *)
(***************************************************************************)
EXTENDS Stego, TLC

CONSTANT a1

MCMsgLen == [a \in Adders |-> IF a = a1 THEN 0 ELSE 2]
MCSizes == 0 .. 3

\* The runs of one mode are interchangeable, but for the messages.
Symmetry == Permutations(Adders \ {a1}) \cup Permutations(Readers)
              \cup Permutations(Clearers)

=============================================================================
