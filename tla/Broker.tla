------------------------------- MODULE Broker -------------------------------
(***************************************************************************)
(* A broker process: the intake of the journal's stream (Intake.tla) and   *)
(* the connection to the gate (GateLink.tla) around the one main loop of   *)
(* src/broker/broker_main.c.  The loop takes the queue as its batch,       *)
(* processes each entry and sends its result, waiting for an answer after  *)
(* each, and sends a heartbeat only between two batches.  The reader       *)
(* thread goes on meanwhile.                                               *)
(***************************************************************************)
EXTENDS Integers, Sequences

CONSTANTS
    QueueCap,     \* QUEUE_CAP
    RingCapacity, \* RING_CAPACITY of the journal
    MaxWindow,    \* bound: windows streamed
    MaxLosses,    \* bound: frames lost between journal and broker
    MaxSkip,      \* bound: turns between two heartbeats
    MaxEpoch,     \* bound: the gate's last epoch
    MaxTimeouts   \* bound: reads of the gate's answers that give up

ASSUME BrokerConstants ==
    /\ {QueueCap, RingCapacity} \subseteq Nat \ {0}
    /\ {MaxWindow, MaxLosses, MaxSkip, MaxEpoch, MaxTimeouts} \subseteq Nat

VARIABLES
    sending, sent, frames, pending, alive, queue, batch, last, losses, entered, done,
    pc, skipped, requests, replies, belief, epoch, up, timeouts

inVars == <<sending, sent, frames, pending, alive, queue, batch, last, losses, entered, done>>
gateVars == <<skipped, requests, replies, belief, epoch, up, timeouts>>
vars == <<inVars, pc, gateVars>>

\* The results the link has not seen answered: the entries of the batch, and
\* the one whose answer is awaited.
Unanswered == Len(batch) + (IF pc = "ack" THEN 1 ELSE 0)

In == INSTANCE Intake
Link == INSTANCE GateLink WITH MaxBatch <- QueueCap - 1, todo <- Unanswered

Init ==
    /\ In!Init
    /\ Link!Init
-----------------------------------------------------------------------------
\* Mutant of Turn: the queue is taken whenever there is something in it.
Turn_AnyTime ==
    \/ /\ queue # << >>
       /\ batch' = queue
       /\ queue' = << >>
       /\ UNCHANGED <<sending, sent, frames, pending, alive, last, losses, entered, done>>
       /\ UNCHANGED <<pc, gateVars>>
    \/ /\ queue = << >>
       /\ UNCHANGED inVars
       /\ Link!Drain(0)

\* A turn begins: the whole queue becomes the batch, which may be empty.
Turn ==
    \/ In!Drain /\ Link!Drain(Len(queue))
    \/ queue = << >> /\ UNCHANGED inVars /\ Link!Drain(0)

\* The next entry is processed and its result sent.
PublishNext == In!Process /\ Link!SendResult

\* Between batches, and for the answers, only the gate connection is used.
Talk ==
    /\ UNCHANGED inVars
    /\ \/ Link!SendHeartbeat
       \/ Link!SkipHeartbeat
       \/ Link!ReadAck
       \/ Link!ReadStatus
       \/ Link!ReadNothing

Loop == Turn \/ PublishNext \/ Talk

\* journal_reader_thread and the journal at the other end.
Reader ==
    /\ UNCHANGED <<pc, gateVars>>
    /\ \/ \E lost \in BOOLEAN : In!SendFrame(lost)
       \/ \E decodes \in BOOLEAN : In!ReadData(decodes) \/ In!ReadDecision(decodes)
       \/ In!ReaderEnds

Gate ==
    /\ UNCHANGED inVars
    /\ Link!GateAnswers \/ Link!GatePromotes \/ Link!GateDies

Next == Loop \/ Reader \/ Gate

\* The main loop runs for ever and every wait in it has a timeout; the gate
\* answers every frame it reads.
Spec ==
    /\ Init /\ [][Next]_vars
    /\ WF_vars(Loop)
    /\ WF_vars(UNCHANGED inVars /\ Link!GateAnswers)
-----------------------------------------------------------------------------
(***************************************************************************)
(* Properties.                                                             *)
(***************************************************************************)

\* See Intake.tla: one lost frame never pairs an observation with the
\* decision of another.
OneLossNeverMispairs == In!OneLossNeverMispairs

\* See Intake.tla: entries are processed in the order of the stream, and so
\* windows in increasing order unless the stream was lapped.
ProcessedInOrder == In!ProcessedInOrder

\* See Intake.tla: windows are processed in increasing order by construction.
IncreasingByConstruction == In!IncreasingByConstruction

\* See Intake.tla: whatever got into the queue is processed, also when the
\* gate is gone and when answers come late or not at all.
QueuedIsProcessed == In!QueuedIsProcessed

\* The process with its two threads implements the specification of its gate
\* connection, fairness included, so everything shown of GateLink.tla, such
\* as that a late reply cannot make the believed epoch go back, is true of it.
LinkSpec == Link!Spec

\* See GateLink.tla: the epoch the broker believes in never goes back.
BeliefNeverRegresses == Link!BeliefNeverRegresses
=============================================================================
