------------------------------- MODULE MCFeed -------------------------------
(* A sensor with two workers, as under two brokers. *)
EXTENDS Feed, TLC
CONSTANTS wA, wB, s
OneSensor == [w \in {wA, wB} |-> s]
Workers == Permutations({wA, wB})
=============================================================================
