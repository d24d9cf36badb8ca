------------------------------ MODULE MCJournal ------------------------------
(* Two sensors with a provider each. *)
EXTENDS Journal
CONSTANTS s1, s2, b1, b2
Sensors == [b \in {b1, b2} |-> IF b = b1 THEN s1 ELSE s2]
=============================================================================
