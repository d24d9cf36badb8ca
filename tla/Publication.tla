---------------------------- MODULE Publication ----------------------------
(***************************************************************************)
(* What the publication gate promises its consumers, without brokers,      *)
(* heartbeats, files or crashes: a single growing log of accepted results. *)
(*                                                                         *)
(*  - the windows accepted for one pipeline strictly increase, so a window *)
(*    is accepted at most once;                                            *)
(*  - epochs never go back along the log (fencing);                        *)
(*  - all results accepted in one epoch come from one broker.              *)
(*                                                                         *)
(* Gate.tla is shown to implement this specification, with TLC and, for    *)
(* every value of the constants, with TLAPS (GateProofs.tla).              *)
(***************************************************************************)
EXTENDS Integers, Sequences

CONSTANTS Result       \* records with fields pipeline, window, epoch, broker

VARIABLE published     \* the results accepted so far, oldest first

\* r may follow old in the log.
MayFollow(old, r) ==
    /\ old.pipeline = r.pipeline => old.window < r.window
    /\ old.epoch <= r.epoch
    /\ old.epoch = r.epoch => old.broker = r.broker

Init == published = << >>

Accept(r) ==
    /\ \A i \in 1..Len(published) : MayFollow(published[i], r)
    /\ published' = Append(published, r)

Next == \E r \in Result : Accept(r)

Spec == Init /\ [][Next]_published
=============================================================================
