----------------------------- MODULE MCFailover -----------------------------
(* Small instances of the whole failover system for TLC. *)
EXTENDS Failover
=============================================================================
