----------------------------- MODULE MCGateLink -----------------------------
(* Small instances of a broker's gate connection for TLC. *)
EXTENDS GateLink
=============================================================================
