------------------------------ MODULE MCHide ------------------------------
(***************************************************************************)
(* Instances of Hide for TLC.                                              *)
(***************************************************************************)
EXTENDS Hide, TLC

\* One link, to a name that a file or the link itself may have.
CONSTANTS link, named
OneLink == {link}
OneTarget == [l \in OneLink |-> named]

\* The runs are interchangeable, and so are the other files.
Symmetry == Permutations(Runs) \cup Permutations(Files \ OneLink)

=============================================================================
