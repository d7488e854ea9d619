---------------------------- MODULE FileChannel ----------------------------
(***************************************************************************)
(* What the shared-memory transfer of 1shmem promises, with neither slots  *)
(* nor semaphores: a bounded first-in first-out channel that is closed by  *)
(* an end marker.  `sent` is everything ever put into the channel,         *)
(* `received` everything ever taken out of it; what is in transit is the   *)
(* part of `sent` beyond `received`.                                       *)
(***************************************************************************)
EXTENDS Naturals, Sequences

CONSTANTS
  Capacity,   \* items that can be in transit at once
  Items,      \* what can be sent, the end marker included
  Eof         \* the end marker

VARIABLES sent, received

vars == <<sent, received>>

InTransit == Len(sent) - Len(received)

\* The end marker has gone through this end of the channel.
Closed(s) == s # <<>> /\ s[Len(s)] = Eof

Init == sent = <<>> /\ received = <<>>

Send(x) == /\ ~ Closed(sent)
           /\ InTransit < Capacity
           /\ sent' = Append(sent, x)
           /\ UNCHANGED received

Receive == /\ ~ Closed(received)
           /\ InTransit > 0
           /\ received' = Append(received, sent[Len(received) + 1])
           /\ UNCHANGED sent

Next == (\E x \in Items : Send(x)) \/ Receive

Safety == Init /\ [][Next]_vars

\* Whatever was sent is eventually received.
Spec == Safety /\ WF_vars(Receive)

=============================================================================
