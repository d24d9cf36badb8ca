------------------------------ MODULE GateLink ------------------------------
(***************************************************************************)
(* A broker's side of its gate connection: the main loop of                *)
(* src/broker/broker_main.c.  Each turn sends the results of one batch,    *)
(* reading one frame after each, then perhaps a heartbeat, reading one     *)
(* frame after it.  Every read gives up after 2 s and whatever frame it    *)
(* returns is taken as the answer: nothing ties a reply to its request, so *)
(* a reply that comes after its read gave up is read by the next one.      *)
(*                                                                         *)
(* What a result contains does not matter here, only that one is sent.     *)
(***************************************************************************)
EXTENDS Integers, Sequences

CONSTANTS
    MaxBatch,     \* bound: results sent in one turn (QUEUE_CAP in the code)
    MaxSkip,      \* bound: turns between two heartbeats (the 150 ms period)
    MaxEpoch,     \* bound: the gate's last epoch
    MaxTimeouts   \* bound: reads that give up

VARIABLES
    pc,         \* turn, work, ack (awaiting RESULT_ACK), status (awaiting STATUS_REPLY)
    todo,       \* results of the batch not yet sent
    skipped,    \* turns since the last heartbeat
    requests,   \* frames the gate has not handled
    replies,    \* frames from the gate not yet read
    belief,     \* current_epoch_belief
    epoch,      \* the gate's epoch
    up,         \* the gate process and the connection are there
    timeouts    \* reads that gave up so far

vars == <<pc, todo, skipped, requests, replies, belief, epoch, up, timeouts>>

Ack == [kind |-> "RESULT_ACK"]
Status(e) == [kind |-> "STATUS_REPLY", epoch |-> e]

TypeOK ==
    /\ pc \in {"turn", "work", "ack", "status"}
    /\ todo \in 0..MaxBatch
    /\ skipped \in 0..MaxSkip
    /\ requests \in Seq({"RESULT_PUBLISH", "HEARTBEAT"})
    /\ replies \in Seq({Ack} \cup {Status(e) : e \in 0..MaxEpoch})
    /\ belief \in 0..MaxEpoch
    /\ epoch \in 0..MaxEpoch
    /\ up \in BOOLEAN
    /\ timeouts \in 0..MaxTimeouts

Init ==
    /\ pc = "turn"
    /\ todo = 0
    /\ skipped = 0
    /\ requests = << >>
    /\ replies = << >>
    /\ belief = 0
    /\ epoch = 0
    /\ up = TRUE
    /\ timeouts = 0
-----------------------------------------------------------------------------
(***************************************************************************)
(* The broker.                                                             *)
(***************************************************************************)

\* A turn begins with n queued observations.
Drain(n) ==
    /\ pc = "turn"
    /\ pc' = "work"
    /\ todo' = n
    /\ UNCHANGED <<skipped, requests, replies, belief, epoch, up, timeouts>>

\* Process one observation and send its result; a failed send is ignored.
SendResult ==
    /\ pc = "work"
    /\ todo > 0
    /\ IF up
       THEN /\ requests' = Append(requests, "RESULT_PUBLISH")
            /\ pc' = "ack"
            /\ UNCHANGED todo
       ELSE /\ UNCHANGED <<requests, pc>>
            /\ todo' = todo - 1
    /\ UNCHANGED <<skipped, replies, belief, epoch, up, timeouts>>

\* The batch is done: a heartbeat if the period has passed.
SendHeartbeat ==
    /\ pc = "work"
    /\ todo = 0
    /\ skipped' = 0
    /\ requests' = IF up THEN Append(requests, "HEARTBEAT") ELSE requests
    /\ pc' = IF up THEN "status" ELSE "turn"
    /\ UNCHANGED <<todo, replies, belief, epoch, up, timeouts>>

SkipHeartbeat ==
    /\ pc = "work"
    /\ todo = 0
    /\ skipped < MaxSkip
    /\ skipped' = skipped + 1
    /\ pc' = "turn"
    /\ UNCHANGED <<todo, requests, replies, belief, epoch, up, timeouts>>

\* The frame read after a result is dropped, whatever it is.
ReadAck ==
    /\ pc = "ack"
    /\ replies # << >>
    /\ replies' = Tail(replies)
    /\ pc' = "work"
    /\ todo' = todo - 1
    /\ UNCHANGED <<skipped, requests, belief, epoch, up, timeouts>>

\* Mutant of ReadStatus: the message type is not looked at.
ReadStatus_AnyFrame ==
    /\ pc = "status"
    /\ replies # << >>
    /\ replies' = Tail(replies)
    /\ belief' = IF Head(replies).kind = "STATUS_REPLY" THEN Head(replies).epoch ELSE 0
    /\ pc' = "turn"
    /\ UNCHANGED <<todo, skipped, requests, epoch, up, timeouts>>

\* The frame read after a heartbeat counts only if it is a STATUS_REPLY.
ReadStatus ==
    /\ pc = "status"
    /\ replies # << >>
    /\ replies' = Tail(replies)
    /\ belief' = IF Head(replies).kind = "STATUS_REPLY" THEN Head(replies).epoch ELSE belief
    /\ pc' = "turn"
    /\ UNCHANGED <<todo, skipped, requests, epoch, up, timeouts>>

\* A read returns without a frame: the gate is gone, or 2 s have passed.
ReadNothing ==
    /\ pc \in {"ack", "status"}
    /\ replies = << >>
    /\ \/ ~up /\ UNCHANGED timeouts
       \/ up /\ timeouts < MaxTimeouts /\ timeouts' = timeouts + 1
    /\ pc' = IF pc = "ack" THEN "work" ELSE "turn"
    /\ todo' = IF pc = "ack" THEN todo - 1 ELSE todo
    /\ UNCHANGED <<skipped, requests, replies, belief, epoch, up>>
-----------------------------------------------------------------------------
(***************************************************************************)
(* The gate, as a broker sees it: connection_thread of gate_main.c answers *)
(* each frame with one frame, in order.  Gate.tla has what it decides.     *)
(***************************************************************************)

Answer(request) == IF request = "HEARTBEAT" THEN Status(epoch) ELSE Ack

GateAnswers ==
    /\ up
    /\ requests # << >>
    /\ replies' = Append(replies, Answer(Head(requests)))
    /\ requests' = Tail(requests)
    /\ UNCHANGED <<pc, todo, skipped, belief, epoch, up, timeouts>>

\* A promotion, on a heartbeat of either broker.
GatePromotes ==
    /\ up
    /\ epoch < MaxEpoch
    /\ epoch' = epoch + 1
    /\ UNCHANGED <<pc, todo, skipped, requests, replies, belief, up, timeouts>>

\* The gate dies; frames it sent may still be read, and a restarted gate
\* listens on another port, so this connection never comes back.
GateDies ==
    /\ up
    /\ up' = FALSE
    /\ requests' = << >>
    /\ UNCHANGED <<pc, todo, skipped, replies, belief, epoch, timeouts>>

Broker ==
    \/ \E n \in 0..MaxBatch : Drain(n)
    \/ SendResult
    \/ SendHeartbeat
    \/ SkipHeartbeat
    \/ ReadAck
    \/ ReadStatus
    \/ ReadNothing

Next == Broker \/ GateAnswers \/ GatePromotes \/ GateDies

\* The broker's loop never blocks for good (every read and send has a
\* timeout) and the gate's thread answers every frame it reads.
Spec == Init /\ [][Next]_vars /\ WF_vars(Broker) /\ WF_vars(GateAnswers)
-----------------------------------------------------------------------------
(***************************************************************************)
(* Properties.                                                             *)
(***************************************************************************)

\* What a broker believes never goes back, however late its replies are and
\* whichever request they are taken to answer.
BeliefNeverRegresses == [][belief' >= belief]_vars

\* docs/ARCHITECTURE.md: the STATUS_REPLY "is how a broker learns it has been
\* granted or has lost ownership", with a latency "bounded by the heartbeat
\* interval".  Once the gate stays at an epoch, its brokers come to know it.
BeliefCatchesUp ==
    \A e \in 0..MaxEpoch : <>[](epoch = e) => <>(belief = e \/ ~up)
=============================================================================
