------------------------------ MODULE Journal ------------------------------
(***************************************************************************)
(* The admission journal, obicall-journald: src/journal/journal_main.c     *)
(* (connections, ring, streaming) around obicall_journal_admit of          *)
(* src/core/journal.c (Admission.tla).  The segment file is Segment.tla.   *)
(*                                                                         *)
(* Every connection has a slot and a thread of its own.  Workers submit    *)
(* observations, each of which takes the next window_seq and a ring entry, *)
(* admitted or not.  A broker's thread copies the ring entry at its cursor *)
(* with the mutex held and sends it without: between the two, and between  *)
(* two entries, other threads admit observations and overwrite the ring.   *)
(***************************************************************************)
EXTENDS Admission, FiniteSets, FiniteSetsExt

CONSTANTS
    Boot,             \* source_boot_id of a worker's provider
    SensorOf,         \* the sensor_id each provider instance is configured with
    MaxTracks,        \* MAX_SENSOR_TRACKS
    RingCapacity,     \* RING_CAPACITY
    MaxConnections,   \* MAX_CONNECTIONS
    MaxSequence,      \* bound: largest sequence number submitted
    MaxTime,          \* bound: largest sample time submitted
    MaxWindow         \* bound: largest window_seq assigned; no more is submitted then

ASSUME JournalConstants ==
    /\ DOMAIN SensorOf = Boot
    /\ RingCapacity \in Nat \ {0}
    /\ MaxConnections \in Nat \ {0}
    /\ {MaxTracks, MaxSequence, MaxTime, MaxWindow} \subseteq Nat

Slot == 1..MaxConnections

Sensor == {SensorOf[b] : b \in Boot}

\* What admission looks at in an observation.
Observation == [sensor : Sensor, boot : Boot, sequence : 0..MaxSequence,
                time : 0..MaxTime, issues : {{}} \cup {{i} : i \in Issue}]

\* A ring entry is its window_seq: the decision and the observation it
\* carries play no part in the streaming.
RingEntry == 1..MaxWindow
NoEntry == 0

\* A track with data; the others are NoTrack.
Track == [hasData : {TRUE}, boot : Boot, high : 0..MaxSequence, watermark : 0..MaxTime]

\* The phases of a connection thread.  hello: in procutil_server_verify_hello;
\* request: a broker's thread awaiting REPLAY_REQUEST; stream: about to look
\* at the ring; send: holding a copied entry; worker: receiving observations.
Phase == {"free", "hello", "request", "stream", "send", "worker"}

VARIABLES
    tracks,    \* the sensor tracks in use: a function on the sensors seen
    next,      \* next_window_seq; ring_head is next - 1
    ring,      \* ring
    conns,     \* conns, with the thread's local cursor and copied entry
    last,      \* history: the window last delivered on each connection, 0 if none
    lapped,    \* history: whether a window was overwritten before this subscriber read it
    admitted   \* history: the observations admitted, oldest first

vars == <<tracks, next, ring, conns, last, lapped, admitted>>

\* next_seq_to_send and the thread's cursor agree outside the few lines
\* between cursor++ and the store, so they are one field.
NoBoot == "no boot"
FreeConn == [phase |-> "free", alive |-> FALSE, boot |-> NoBoot, cursor |-> 1,
             caughtUp |-> FALSE, entry |-> NoEntry]
Conn == [phase : Phase, alive : BOOLEAN, boot : {NoBoot} \cup Boot,
         cursor : 1..(MaxWindow + 1), caughtUp : BOOLEAN, entry : {NoEntry} \cup RingEntry]

TypeOK ==
    /\ DOMAIN tracks \subseteq Sensor
    /\ Cardinality(DOMAIN tracks) <= MaxTracks
    /\ \A s \in DOMAIN tracks : tracks[s] \in {NoTrack} \cup Track
    /\ next \in 1..(MaxWindow + 1)
    /\ ring \in [0..(RingCapacity - 1) -> {NoEntry} \cup RingEntry]
    /\ conns \in [Slot -> Conn]
    /\ last \in [Slot -> 0..MaxWindow]
    /\ lapped \in [Slot -> BOOLEAN]
    /\ admitted \in Seq(Observation)

Init ==
    /\ tracks = << >>
    /\ next = 1
    /\ ring = [k \in 0..(RingCapacity - 1) |-> NoEntry]
    /\ conns = [i \in Slot |-> FreeConn]
    /\ last = [i \in Slot |-> 0]
    /\ lapped = [i \in Slot |-> FALSE]
    /\ admitted = << >>
-----------------------------------------------------------------------------
(***************************************************************************)
(* Admission.                                                              *)
(***************************************************************************)

\* The slots compute_pending_depth_locked counts: in use, role BROKER.
Subscriber(i) == conns[i].phase \in {"request", "stream", "send"}

\* compute_pending_depth_locked: the lag of the slowest subscriber.
Pending ==
    LET cursors == {conns[i].cursor : i \in {j \in Slot : Subscriber(j)}}
    IN  IF cursors = {} \/ Min(cursors) >= next THEN 0 ELSE next - Min(cursors)

\* find_or_create_track, for a sensor that has or can get a track.
FindOrCreateTrack(s) == IF s \in DOMAIN tracks THEN tracks[s] ELSE NoTrack
HasTrack(s) == s \in DOMAIN tracks \/ Cardinality(DOMAIN tracks) < MaxTracks

\* admit_locked: an observation without a track is dropped without a window;
\* any other takes the next window and its ring entry, whatever the decision.
AdmitLocked(o) ==
    LET t == FindOrCreateTrack(o.sensor)
        reason == Admit(t, o, Pending)
    IN  \/ /\ ~HasTrack(o.sensor)
           /\ UNCHANGED vars
        \/ /\ HasTrack(o.sensor)
           /\ next <= MaxWindow
           /\ tracks' = [s \in DOMAIN tracks \cup {o.sensor} |->
                           IF s = o.sensor THEN TrackAfter(t, o, reason) ELSE tracks[s]]
           /\ next' = next + 1
           /\ ring' = [ring EXCEPT ![next % RingCapacity] = next]
           /\ admitted' = IF reason = "OK" THEN Append(admitted, o) ELSE admitted
           /\ lapped' = [i \in Slot |->
                           \/ lapped[i]
                           \/ conns[i].phase = "stream" /\ conns[i].cursor <= next - RingCapacity
                           \/ conns[i].phase = "send" /\ conns[i].cursor < next - RingCapacity]
           /\ UNCHANGED <<conns, last>>

\* handle_worker_connection: one OBSERVATION_SUBMIT, of any reading of the
\* worker's boot session, an old or a repeated one too.
Submit(i) ==
    /\ conns[i].phase = "worker"
    /\ conns[i].alive
    /\ \E o \in {o \in Observation : o.boot = conns[i].boot /\ o.sensor = SensorOf[o.boot]} : AdmitLocked(o)
-----------------------------------------------------------------------------
(***************************************************************************)
(* Connections.                                                            *)
(***************************************************************************)

\* The accept loop of main: the lowest free slot, or the socket is closed.
Accept(i) ==
    /\ conns[i].phase = "free"
    /\ \A j \in 1..(i - 1) : conns[j].phase # "free"
    /\ conns' = [conns EXCEPT ![i] = [FreeConn EXCEPT !.phase = "hello", !.alive = TRUE]]
    /\ last' = [last EXCEPT ![i] = 0]
    /\ lapped' = [lapped EXCEPT ![i] = FALSE]
    /\ UNCHANGED <<tracks, next, ring, admitted>>

\* No slot is free: the connection is closed.
Refuse ==
    /\ \A i \in Slot : conns[i].phase # "free"
    /\ UNCHANGED vars

\* connection_thread after procutil_server_verify_hello accepted a broker.
HelloBroker(i) ==
    /\ conns[i].phase = "hello"
    /\ conns[i].alive
    /\ conns' = [conns EXCEPT ![i].phase = "request"]
    /\ UNCHANGED <<tracks, next, ring, last, lapped, admitted>>

\* The same for a worker; providers alive together have different boot ids.
HelloWorker(i, boot) ==
    /\ conns[i].phase = "hello"
    /\ conns[i].alive
    /\ \A j \in Slot : conns[j].boot # boot
    /\ conns' = [conns EXCEPT ![i].phase = "worker", ![i].boot = boot]
    /\ UNCHANGED <<tracks, next, ring, last, lapped, admitted>>

\* The thread ends and frees its slot: a failed or foreign HELLO, a missing
\* or malformed REPLAY_REQUEST (5 s timeouts), a worker's connection broken.
Close(i) ==
    /\ \/ conns[i].phase \in {"hello", "request"}
       \/ conns[i].phase = "worker" /\ ~conns[i].alive
    /\ conns' = [conns EXCEPT ![i] = FreeConn]
    /\ UNCHANGED <<tracks, next, ring, last, lapped, admitted>>

\* The peer process dies.  The threads of subscribers never read again, so
\* only their sends notice it.
PeerDies(i) ==
    /\ conns[i].alive
    /\ conns' = [conns EXCEPT ![i].alive = FALSE]
    /\ UNCHANGED <<tracks, next, ring, last, lapped, admitted>>

\* Mutant of OldestAvailable: one window older than the ring retains.
OldestAvailable_OffByOne == IF next > RingCapacity THEN next - RingCapacity - 1 ELSE 1

\* handle_broker_connection: the cursor starts at the window asked for, or
\* at the oldest one retained.
OldestAvailable == IF next > RingCapacity THEN next - RingCapacity ELSE 1
ReplayRequest(i, from) ==
    /\ conns[i].phase = "request"
    /\ conns[i].alive
    /\ conns' = [conns EXCEPT ![i].phase = "stream",
                              ![i].cursor = Max({from, 1, OldestAvailable})]
    /\ UNCHANGED <<tracks, next, ring, last, lapped, admitted>>

\* The loop's first critical section: copy the entry at the cursor.
StreamRead(i) ==
    /\ conns[i].phase = "stream"
    /\ conns[i].cursor < next
    /\ conns' = [conns EXCEPT ![i].phase = "send",
                              ![i].entry = ring[conns[i].cursor % RingCapacity]]
    /\ UNCHANGED <<tracks, next, ring, last, lapped, admitted>>

\* Mutant of StreamSend: an entry that was not delivered is sent again.
StreamSend_Retry(i, delivered) ==
    /\ conns[i].phase = "send"
    /\ delivered => conns[i].alive
    /\ conns' = [conns EXCEPT ![i].phase = "stream", ![i].entry = NoEntry,
                              ![i].cursor = IF delivered THEN @ + 1 ELSE @]
    /\ last' = IF delivered THEN [last EXCEPT ![i] = conns[i].entry] ELSE last
    /\ UNCHANGED <<tracks, next, ring, lapped, admitted>>

\* send_ring_entry and the second critical section.  The results of the
\* sends are ignored: the cursor moves on whether or not the frames left.
StreamSend(i, delivered) ==
    /\ conns[i].phase = "send"
    /\ delivered => conns[i].alive
    /\ conns' = [conns EXCEPT ![i].phase = "stream", ![i].entry = NoEntry,
                              ![i].cursor = @ + 1]
    /\ last' = IF delivered THEN [last EXCEPT ![i] = conns[i].entry] ELSE last
    /\ UNCHANGED <<tracks, next, ring, lapped, admitted>>

\* Nothing left to stream for the first time: REPLAY_END.
ReplayEnd(i) ==
    /\ conns[i].phase = "stream"
    /\ conns[i].cursor >= next
    /\ ~conns[i].caughtUp
    /\ conns' = [conns EXCEPT ![i].caughtUp = TRUE]
    /\ UNCHANGED <<tracks, next, ring, last, lapped, admitted>>

Next ==
    \/ Refuse
    \/ \E i \in Slot :
          \/ Accept(i)
          \/ HelloBroker(i)
          \/ \E boot \in Boot : HelloWorker(i, boot)
          \/ Close(i)
          \/ PeerDies(i)
          \/ \E from \in 0..next : ReplayRequest(i, from)
          \/ StreamRead(i)
          \/ \E delivered \in BOOLEAN : StreamSend(i, delivered)
          \/ ReplayEnd(i)
          \/ Submit(i)

\* Every thread runs on: reads and sends have timeouts, a broken connection
\* is noticed by the thread that reads from it.
Fairness ==
    \A i \in Slot :
        /\ WF_vars(Close(i))
        /\ WF_vars(StreamRead(i))
        /\ WF_vars(\E delivered \in BOOLEAN : StreamSend(i, delivered))
        /\ WF_vars(ReplayEnd(i))

Spec == Init /\ [][Next]_vars
FairSpec == Spec /\ Fairness
-----------------------------------------------------------------------------
(***************************************************************************)
(* Properties.                                                             *)
(***************************************************************************)

\* While a source keeps its boot id, a sensor's admitted sequence numbers
\* strictly increase and its sample times never fall more than MaxLateness
\* behind any earlier one, rejections in between notwithstanding.
AdmittedInOrder == InOrderPerSession(admitted)

\* What is on its way to a subscriber none of whose windows was overwritten
\* before it read them is newer than all it got before, also when the ring
\* wraps, it started at the oldest retained window, or some sends failed.
InOrderUnlessLapped ==
    \A i \in Slot : (conns[i].phase = "send" /\ ~lapped[i]) => conns[i].entry > last[i]

\* Admitting an observation never overwrites a window some subscriber has yet
\* to read, provided --max-pending is at most the ring's capacity; only
\* rejected observations can.
AdmissionNeverLaps ==
    [][(MaxPending <= RingCapacity /\ admitted' # admitted) => lapped' = lapped]_vars

\* Pending counts from the slowest subscriber's cursor, so a cursor that stood
\* still would hold admission back for ever.  None does: a subscriber that is
\* behind, whose sends fail or whose process died too, gets past each window,
\* or loses its slot, however many observations are submitted meanwhile.
NoCursorIsStuck ==
    \A i \in Slot, c \in RingEntry :
        (Subscriber(i) /\ conns[i].cursor = c /\ c < next)
            ~> (conns[i].cursor # c \/ ~Subscriber(i))
=============================================================================
