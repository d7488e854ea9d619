---------------------------- MODULE PasswordLock ----------------------------
(***************************************************************************)
(* What the locked screen of kernel.c promises: it opens when, and only    *)
(* when, the text typed since the last attempt is the password.            *)
(***************************************************************************)
EXTENDS Naturals, Sequences

CONSTANTS Keys, Password,
          Limit           \* the characters an attempt can have

VARIABLES text, open

Init == text = <<>> /\ open = FALSE

\* A character beyond the limit is dropped, which is no step at all.
Type(k) ==
  /\ ~ open /\ Len(text) < Limit
  /\ text' = Append(text, k) /\ UNCHANGED open

Erase ==
  /\ ~ open /\ text # <<>>
  /\ text' = SubSeq(text, 1, Len(text) - 1) /\ UNCHANGED open

Submit ==
  /\ ~ open
  /\ IF text = Password THEN open' = TRUE /\ UNCHANGED text
                        ELSE text' = <<>> /\ UNCHANGED open

Next == (\E k \in Keys : Type(k)) \/ Erase \/ Submit

Spec == Init /\ [][Next]_<<text, open>>

=============================================================================
