------------------------------ MODULE MCBroker ------------------------------
(* Small instances of a broker process for TLC. *)
EXTENDS Broker
=============================================================================
