-------------------------------- MODULE Feed --------------------------------
(***************************************************************************)
(* The data path of one sensor set, from provider to estimator:            *)
(* obicall-workerd (src/worker/worker_main.c) hosting the reference        *)
(* provider (src/providers/c_sim/provider_c_sim.c), the journal's          *)
(* admission of what it submits (Admission.tla), and the Kalman filter of  *)
(* a broker (src/core/estimator.c) that uses what was admitted.            *)
(*                                                                         *)
(* supervisor_start spawns every provider twice, under broker A and under  *)
(* broker B: several workers feed one sensor, each with a boot id of its   *)
(* own, over a connection of its own, and the journal meets their frames   *)
(* in any interleaving.  All processes read the same monotonic clock.      *)
(* Ring and queues between journal and broker keep the order of admission  *)
(* (Journal.tla, Intake.tla), so a broker uses or misses an observation in *)
(* the step that admits it.                                                *)
(***************************************************************************)
EXTENDS Admission, FiniteSets

CONSTANTS
    Worker,       \* worker processes
    SensorOf,     \* the sensor_id each worker's manifest configures
    Period,       \* update_period_ms, in ticks
    DelayBy,      \* the delay a fault file asks for, in ticks
    Gap,          \* --max-prediction-gap-s; 0 is no limit
    MaxTime,      \* bound: largest clock reading
    MaxBoot,      \* bound: provider instances created
    MaxFlight     \* bound: frames in flight on a connection

ASSUME FeedConstants ==
    /\ {DelayBy, Gap, MaxBoot, MaxFlight} \subseteq Nat
    /\ {Period, MaxTime} \subseteq Nat \ {0}
    /\ DOMAIN SensorOf = Worker

Sensor == {SensorOf[w] : w \in Worker}

\* A boot id is the clock at sim_create XOR the instance seed, here a fresh
\* number: one per provider instance, which has one connection.
Boot == 1..MaxBoot

\* The clock starts at 1: a last_emit_time_ns of 0 stands for never.
Time == 1..MaxTime
Never == 0

VARIABLES
    now,       \* CLOCK_MONOTONIC
    boots,     \* provider instances created so far
    prov,      \* the provider of each worker, or Down
    wire,      \* the connection of each instance: frames in flight, open at the journal
    tracks,    \* the journal's tracks
    est,       \* a broker's filter: kf_ready and last_update_time_ns
    admitted,  \* history: the observations admitted, oldest first
    used,      \* history: sample times of the observations the filter used
    tornAt     \* history: sequence of the first frame torn on each connection, 0 if none

vars == <<now, boots, prov, wire, tracks, est, admitted, used, tornAt>>

Sequence == 1..(MaxTime + 1)

\* enum sim_fault_mode, as far as a reading shows it: a bias changes only the
\* payload, a dropout is the action Drop.  The worker reads its fault file in
\* every turn of its loop (apply_fault_file) and passes a new content to
\* sim_submit: the file's writer chooses the mode of every poll.
FaultMode == {"NONE", "DELAY"}

\* A delayed sample may lie before the first tick.
SampleTime == (1 - DelayBy)..MaxTime

Reading == [sensor : Sensor, boot : Boot, sequence : Sequence,
            time : SampleTime, issues : {{}}]

\* A frame on a connection: a reading, whole or cut off.
Frame == [whole : BOOLEAN, reading : Reading]

Down == [up |-> FALSE]
Provider == [up : {TRUE}, boot : Boot, next : Sequence, last : {Never} \cup Time]

TypeOK ==
    /\ now \in Time
    /\ boots \in 0..MaxBoot
    /\ \A w \in Worker : prov[w] \in {Down} \cup Provider
    /\ \A b \in Boot : /\ Len(wire[b].frames) <= MaxFlight
                       /\ wire[b].frames \in Seq(Frame)
                       /\ wire[b].open \in BOOLEAN
    /\ \A s \in Sensor : tracks[s] = NoTrack \/ tracks[s].high \in Sequence
    /\ est \in [ready : BOOLEAN, time : SampleTime]
    /\ admitted \in Seq(Reading)
    /\ used \in Seq(SampleTime)
    /\ tornAt \in [Boot -> {0} \cup Sequence]

Init ==
    /\ now = 1
    /\ boots = 0
    /\ prov = [w \in Worker |-> Down]
    /\ wire = [b \in Boot |-> [frames |-> << >>, open |-> TRUE]]
    /\ tracks = [s \in Sensor |-> NoTrack]
    /\ est = [ready |-> FALSE, time |-> 1]
    /\ admitted = << >>
    /\ used = << >>
    /\ tornAt = [b \in Boot |-> 0]
-----------------------------------------------------------------------------
(***************************************************************************)
(* The worker.                                                             *)
(***************************************************************************)

\* sim_create: sequence numbers start at 1 under a new boot id.
Create(b) == [up |-> TRUE, boot |-> b, next |-> 1, last |-> Never]

\* main up to its loop.  A manifest that does not parse, an artifact that does
\* not match its digest or the ABI, a failed create or connect ends the
\* process before anything is sent: the worker stays down.
Start(w) ==
    /\ ~prov[w].up
    /\ boots < MaxBoot
    /\ boots' = boots + 1
    /\ prov' = [prov EXCEPT ![w] = Create(boots + 1)]
    /\ UNCHANGED <<now, wire, tracks, est, admitted, used, tornAt>>

\* The process dies; frames it sent stay in flight.
Dies(w) ==
    /\ prov[w].up
    /\ prov' = [prov EXCEPT ![w] = Down]
    /\ UNCHANGED <<now, boots, wire, tracks, est, admitted, used, tornAt>>

\* sim_poll_events: whether a reading is due.
Due(p) == p.last = Never \/ now - p.last >= Period

\* The reading, of the present or delayed.
Sample(w, mode) == [sensor |-> SensorOf[w], boot |-> prov[w].boot, sequence |-> prov[w].next,
              time |-> IF mode = "DELAY" THEN now - DelayBy ELSE now, issues |-> {}]

\* Mutant of Emitted: the sequence number is not advanced.
Emitted_SameSequence(p) == [p EXCEPT !.last = now]

\* Its sequence number is consumed whatever becomes of it.
Emitted(p) == [p EXCEPT !.last = now, !.next = @ + 1]

\* on_provider_event and osal_send_frame with a 2 s timeout: the frame is
\* sent, not sent (it did not validate, the connection is closed, the first
\* byte timed out) or cut off in the middle.  The worker counts what it sent
\* and otherwise ignores the outcome: it goes on with the same connection.
Forwarded(c, reading, outcome) ==
    IF outcome = "lost" THEN c
    ELSE [c EXCEPT !.frames = Append(@, [whole |-> outcome = "sent", reading |-> reading])]

\* One turn of the main loop under a dropout fault: the reading that is due is
\* dropped.
Drop(w) ==
    /\ prov[w].up
    /\ Due(prov[w])
    /\ prov' = [prov EXCEPT ![w].last = now]
    /\ UNCHANGED <<now, boots, wire, tracks, est, admitted, used, tornAt>>

\* One turn of the main loop with a reading, on time or delayed.
Poll(w, mode, outcome) ==
    LET b == prov[w].boot IN
    /\ prov[w].up
    /\ Due(prov[w])
    /\ outcome # "lost" => wire[b].open /\ Len(wire[b].frames) < MaxFlight
    /\ prov' = [prov EXCEPT ![w] = Emitted(@)]
    /\ wire' = [wire EXCEPT ![b] = Forwarded(@, Sample(w, mode), outcome)]
    /\ tornAt' = IF outcome = "torn" /\ tornAt[b] = 0
                 THEN [tornAt EXCEPT ![b] = prov[w].next] ELSE tornAt
    /\ UNCHANGED <<now, boots, tracks, est, admitted, used>>
-----------------------------------------------------------------------------
(***************************************************************************)
(* The estimator.                                                          *)
(***************************************************************************)

\* Mutant of Predicts: a reading older than the filter is let through.
Predicts_Backwards(time) == Gap > 0 => time - est.time <= Gap

\* obicall_kalman_predict: neither back in time nor across too long a gap.
Predicts(time) ==
    /\ time >= est.time
    /\ Gap > 0 => time - est.time <= Gap

\* kf_ready and obicall_kalman_init, or obicall_kalman_update_position: the
\* filter's time moves with the prediction, also if the innovation covariance
\* is then found singular and the reading not used.
Update(time, singular) ==
    IF ~est.ready THEN [ready |-> TRUE, time |-> time]
    ELSE IF Predicts(time) THEN [est EXCEPT !.time = time] ELSE est
Uses(time, singular) == ~est.ready \/ (Predicts(time) /\ ~singular)
-----------------------------------------------------------------------------
(***************************************************************************)
(* The journal.                                                            *)
(***************************************************************************)

\* handle_worker_connection takes an observation: admission, given a pipeline
\* that is or is not congested, and then the broker, whose queue may have had
\* no room (seen is FALSE).
Receive(b, pending, seen, singular) ==
    LET o == Head(wire[b].frames).reading
        reason == Admit(tracks[o.sensor], o, pending)
        reaches == reason = "OK" /\ seen
    IN  /\ wire[b].open
        /\ wire[b].frames # << >>
        /\ Head(wire[b].frames).whole
        /\ wire' = [wire EXCEPT ![b].frames = Tail(@)]
        /\ tracks' = [tracks EXCEPT ![o.sensor] = TrackAfter(@, o, reason)]
        /\ admitted' = IF reason = "OK" THEN Append(admitted, o) ELSE admitted
        /\ est' = IF reaches THEN Update(o.time, singular) ELSE est
        /\ used' = IF reaches /\ Uses(o.time, singular) THEN Append(used, o.time) ELSE used
        /\ UNCHANGED <<now, boots, prov, tornAt>>

\* Mutant of ReceiveTorn: the error is taken for a timeout.
ReceiveTorn_Retry(b) ==
    /\ wire[b].open
    /\ wire[b].frames # << >>
    /\ ~Head(wire[b].frames).whole
    /\ wire' = [wire EXCEPT ![b].frames = Tail(@)]
    /\ UNCHANGED <<now, boots, prov, tracks, est, admitted, used, tornAt>>

\* osal_recv_frame inside a frame that was cut off: whatever follows it, the
\* checksum or the timeout fails, and the journal closes the connection.
ReceiveTorn(b) ==
    /\ wire[b].open
    /\ wire[b].frames # << >>
    /\ ~Head(wire[b].frames).whole
    /\ wire' = [wire EXCEPT ![b] = [frames |-> << >>, open |-> FALSE]]
    /\ UNCHANGED <<now, boots, prov, tracks, est, admitted, used, tornAt>>

Tick ==
    /\ now < MaxTime
    /\ now' = now + 1
    /\ UNCHANGED <<boots, prov, wire, tracks, est, admitted, used, tornAt>>

Next ==
    \/ \E w \in Worker :
          \/ Start(w)
          \/ Dies(w)
          \/ Drop(w)
          \/ \E mode \in FaultMode, outcome \in {"sent", "lost", "torn"} :
                Poll(w, mode, outcome)
    \/ \E b \in Boot :
          \/ \E pending \in {0, MaxPending}, seen, singular \in BOOLEAN :
                Receive(b, pending, seen, singular)
          \/ ReceiveTorn(b)
    \/ Tick

Spec == Init /\ [][Next]_vars
-----------------------------------------------------------------------------
(***************************************************************************)
(* Properties.                                                             *)
(***************************************************************************)

\* No reading is admitted twice, although two workers of one sensor keep
\* taking its track from each other and admission then checks nothing.
NoReadingTwice ==
    \A i, j \in 1..Len(admitted) :
        (/\ admitted[i].boot = admitted[j].boot
         /\ admitted[i].sequence = admitted[j].sequence) => i = j

\* Once a frame was cut off, nothing sent after it on that connection is
\* admitted, although the worker goes on sending.
NothingAfterTear ==
    \A i \in 1..Len(admitted) :
        LET torn == tornAt[admitted[i].boot] IN torn # 0 => admitted[i].sequence < torn

\* The readings a filter uses are in order of sample time, whichever worker
\* they came from and although it meets them in order of admission.
UsedInOrder ==
    \A i, j \in 1..Len(used) : i < j => used[i] <= used[j]
=============================================================================
