--------------------------- MODULE MCShmLifecycle ---------------------------
(***************************************************************************)
(* Instances of ShmLifecycle for TLC: which producer has how many files,   *)
(* and two users.  One starts a producer and two consumers anyhow and may  *)
(* kill two of them; the other runs one pair of programs after the other.  *)
(***************************************************************************)
EXTENDS ShmLifecycle

CONSTANTS p1, p2

MCFilesOf == [p \in Producers |-> IF p = p1 THEN 3 ELSE 2]

MCUsers ==
  {[runs |-> {p1} \cup Consumers, policy |-> "any", crashes |-> 2],
   [runs |-> Producers \cup Consumers, policy |-> "sessions", crashes |-> 0]}

=============================================================================
