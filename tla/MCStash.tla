------------------------------ MODULE MCStash ------------------------------
(***************************************************************************)
(* Instances of Stash for TLC.                                             *)
(***************************************************************************)
EXTENDS Stash, TLC

\* An empty file, one shorter than the head, one as long, one longer.
MCSizes == {0, HEAD - 1, HEAD, HEAD + 1}

\* The runs of one mode are interchangeable.
Symmetry == Permutations(Distorters) \cup Permutations(Restorers)

=============================================================================
