------------------------------- MODULE MCGate -------------------------------
(* Small instances of the publication gate for TLC. *)
EXTENDS Gate, TLC

\* No action tells one pipeline from another.
PipelineSymmetry == Permutations(Pipeline)
=============================================================================
