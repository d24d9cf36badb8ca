------------------------------- MODULE Intake -------------------------------
(***************************************************************************)
(* How a broker takes in the journal's stream (src/broker/broker_main.c):  *)
(* a reader thread pairs each REPLAY_DATA frame with the next              *)
(* ADMISSION_DECISION frame and queues the pair; the main loop drains the  *)
(* queue and processes one entry after the other.  An observation and its  *)
(* decision are represented by the cursor at which the journal's streaming *)
(* thread read them from its ring; sent says which window was there.       *)
(*                                                                         *)
(* The journal ignores the result of its sends, so a frame may be missing  *)
(* from the stream; a full queue drops the entry without a trace.  The     *)
(* ring goes on while the stream does, so what is read at a cursor may be  *)
(* a newer window that has overwritten the cursor's own.                   *)
(***************************************************************************)
EXTENDS Integers, Sequences

CONSTANTS
    QueueCap,      \* QUEUE_CAP; the queue holds one entry less
    RingCapacity,  \* RING_CAPACITY of the journal
    MaxWindow,     \* bound: windows in the journal, and cursors of the stream
    MaxLosses      \* bound: frames lost by failed sends, or that do not decode

VARIABLES
    sending,    \* the journal's next frame: its cursor and its type
    sent,       \* history: the window sent at each cursor, its own until one is read there
    frames,     \* frames on the connection
    pending,    \* pending_obs, or None when have_pending is 0
    alive,      \* reader_alive
    queue,      \* the queue
    batch,      \* the part of the main loop's batch not yet processed
    last,       \* the entry last processed: last_processed_window_seq is its window
    losses,     \* frames lost so far
    entered,    \* history: the entries put in the queue
    done        \* history: the entries processed

vars == <<sending, sent, frames, pending, alive, queue, batch, last, losses, entered, done>>

None == 0
Cursor == 1..MaxWindow
Window == 1..MaxWindow
Frame == [type : {"REPLAY_DATA", "ADMISSION_DECISION"}, cursor : 1..(MaxWindow + 1)]
Entry == [cursor : Cursor, obs : Cursor]

TypeOK ==
    /\ sending \in Frame
    /\ sent \in [Cursor -> Window]
    /\ frames \in Seq(Frame)
    /\ pending \in {None} \cup Cursor
    /\ alive \in BOOLEAN
    /\ queue \in Seq(Entry)
    /\ Len(queue) < QueueCap
    /\ batch \in Seq(Entry)
    /\ last \in {None} \cup Cursor
    /\ losses \in 0..MaxLosses
    /\ entered \subseteq Cursor
    /\ done \subseteq Cursor

Init ==
    /\ sending = [type |-> "REPLAY_DATA", cursor |-> 1]
    /\ sent = [c \in Cursor |-> c]
    /\ frames = << >>
    /\ pending = None
    /\ alive = TRUE
    /\ queue = << >>
    /\ batch = << >>
    /\ last = None
    /\ losses = 0
    /\ entered = {}
    /\ done = {}
-----------------------------------------------------------------------------
\* The windows that may be in the ring at the cursor: its own, or a newer one
\* in the same slot; no older than the ring still holds after the newest read.
InRing(cursor) ==
    {w \in cursor..MaxWindow :
        /\ (w - cursor) % RingCapacity = 0
        /\ \A c \in 1..(cursor - 1) : sent[c] - w < RingCapacity}

\* send_ring_entry of the journal: data, then decision, of the entry copied
\* from the ring at the cursor; either may be lost.
After(f) ==
    IF f.type = "REPLAY_DATA"
    THEN [type |-> "ADMISSION_DECISION", cursor |-> f.cursor]
    ELSE [type |-> "REPLAY_DATA", cursor |-> f.cursor + 1]

SendFrame(lost) ==
    /\ alive
    /\ sending.cursor <= MaxWindow
    /\ lost => losses < MaxLosses
    /\ IF sending.type = "REPLAY_DATA"
       THEN \E w \in InRing(sending.cursor) : sent' = [sent EXCEPT ![sending.cursor] = w]
       ELSE UNCHANGED sent
    /\ frames' = IF lost THEN frames ELSE Append(frames, sending)
    /\ losses' = IF lost THEN losses + 1 ELSE losses
    /\ sending' = After(sending)
    /\ UNCHANGED <<pending, alive, queue, batch, last, entered, done>>

\* journal_reader_thread: an observation replaces the pending one, if it
\* decodes; if not, it is as good as lost.
ReadData(decodes) ==
    /\ alive
    /\ frames # << >>
    /\ Head(frames).type = "REPLAY_DATA"
    /\ decodes \/ losses < MaxLosses
    /\ frames' = Tail(frames)
    /\ pending' = IF decodes THEN Head(frames).cursor ELSE pending
    /\ losses' = IF decodes THEN losses ELSE losses + 1
    /\ UNCHANGED <<sending, sent, alive, queue, batch, last, entered, done>>

\* Mutant of Enqueue: a full queue drops its oldest entry.
Enqueue_DropOldest(q, e) == IF Len(q) + 1 < QueueCap THEN Append(q, e) ELSE Append(Tail(q), e)

\* The queue after an entry is offered: full, it stays as it is.
Enqueue(q, e) == IF Len(q) + 1 < QueueCap THEN Append(q, e) ELSE q

\* Mutant of ReadDecision: have_pending stays set.
ReadDecision_KeepPending(decodes) ==
    LET c == Head(frames).cursor
        paired == pending # None /\ decodes
        room == Len(queue) + 1 < QueueCap
    IN  /\ alive
        /\ frames # << >>
        /\ Head(frames).type = "ADMISSION_DECISION"
        /\ frames' = Tail(frames)
        /\ queue' = IF paired THEN Enqueue(queue, [cursor |-> c, obs |-> pending]) ELSE queue
        /\ entered' = IF paired /\ room THEN entered \cup {c} ELSE entered
        /\ UNCHANGED <<sending, sent, pending, alive, batch, last, losses, done>>

\* A decision that decodes completes the pending observation, if there is one;
\* whether the two belong together is not checked.  Decoded or not, it leaves
\* nothing pending.
ReadDecision(decodes) ==
    LET c == Head(frames).cursor
        paired == pending # None /\ decodes
        room == Len(queue) + 1 < QueueCap
    IN  /\ alive
        /\ frames # << >>
        /\ Head(frames).type = "ADMISSION_DECISION"
        /\ frames' = Tail(frames)
        /\ queue' = IF paired THEN Enqueue(queue, [cursor |-> c, obs |-> pending]) ELSE queue
        /\ entered' = IF paired /\ room THEN entered \cup {c} ELSE entered
        /\ pending' = None
        /\ UNCHANGED <<sending, sent, alive, batch, last, losses, done>>

\* The connection breaks: the reader thread ends, for good.
ReaderEnds ==
    /\ alive
    /\ alive' = FALSE
    /\ frames' = << >>
    /\ UNCHANGED <<sending, sent, pending, queue, batch, last, losses, entered, done>>

\* Mutant of Drain: the entries are copied and not taken.
Drain_Copy ==
    /\ batch = << >>
    /\ queue # << >>
    /\ batch' = queue
    /\ UNCHANGED <<sending, sent, frames, pending, alive, queue, last, losses, entered, done>>

\* The main loop takes the whole queue as its batch.
Drain ==
    /\ batch = << >>
    /\ queue # << >>
    /\ batch' = queue
    /\ queue' = << >>
    /\ UNCHANGED <<sending, sent, frames, pending, alive, last, losses, entered, done>>

\* One entry of the batch is processed.
Process ==
    /\ batch # << >>
    /\ last' = Head(batch).cursor
    /\ done' = done \cup {last'}
    /\ batch' = Tail(batch)
    /\ UNCHANGED <<sending, sent, frames, pending, alive, queue, losses, entered>>

Next ==
    \/ \E lost \in BOOLEAN : SendFrame(lost)
    \/ \E decodes \in BOOLEAN : ReadData(decodes) \/ ReadDecision(decodes)
    \/ ReaderEnds
    \/ Drain
    \/ Process

\* The main loop never ends and never blocks for good.
Spec == Init /\ [][Next]_vars /\ WF_vars(Drain) /\ WF_vars(Process)
-----------------------------------------------------------------------------
(***************************************************************************)
(* Properties.                                                             *)
(***************************************************************************)

Entries == {queue[i] : i \in 1..Len(queue)} \cup {batch[i] : i \in 1..Len(batch)}

\* A single lost frame never pairs an observation with another one's window
\* and decision: the reader's have_pending flag resynchronises the stream.
OneLossNeverMispairs ==
    losses <= 1 => \A e \in Entries : e.obs = e.cursor

\* Whether the streaming thread was lapped: a window overwrote another before
\* the thread had read it.
Lapped == \E c \in Cursor : sent[c] # c

\* last_processed_window_seq and the window processed next.
NextIsNewer == sent[Head(batch).cursor] > sent[last]

\* Entries are processed in the order in which they were streamed, none of
\* them twice, whatever was lost or dropped; so, unless the streaming thread
\* was lapped, every window processed is newer than the one before.
ProcessedInOrder ==
    batch # << >> => /\ Head(batch).cursor > last
                     /\ last # None /\ ~Lapped => NextIsNewer

\* docs/ARCHITECTURE.md: "Windows are processed in increasing order by
\* construction", lapped or not.
IncreasingByConstruction ==
    batch # << >> /\ last # None => NextIsNewer

\* An entry that got into the queue is processed, also when the queue was
\* full meanwhile or the reader ended.
QueuedIsProcessed ==
    \A c \in Cursor : (c \in entered) ~> (c \in done)
=============================================================================
