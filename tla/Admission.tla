----------------------------- MODULE Admission -----------------------------
(***************************************************************************)
(* obicall_journal_admit of src/core/journal.c: the decision on one        *)
(* observation, given the track of its sensor and the depth of the         *)
(* slowest subscriber.  A track remembers one boot session, the last one   *)
(* admitted from.                                                          *)
(***************************************************************************)
EXTENDS Integers, Sequences

CONSTANTS
    ReorderWindow,   \* --reorder-window
    MaxLateness,     \* --max-lateness-ms
    MaxPending       \* --max-pending

ASSUME AdmissionConstants == {ReorderWindow, MaxLateness, MaxPending} \subseteq Nat

\* obicall_validation_issue_t: what may be wrong with an observation, the issues
\* of one part of it taken together.
Issue == {"STRUCT_SIZE", "SENSOR_ID", "FRAME_OR_UNITS", "TIME_UNCERTAINTY",
          "PAYLOAD", "COVARIANCE"}

\* obicall_observation_validate: every issue is reported, any one is an error.
Valid(o) == o.issues = {}

Reason == {"OK", "VALIDATION", "DUPLICATE", "LATE", "OVERFLOW"}

\* A track as find_or_create_track leaves it (has_data = 0).
NoTrack == [hasData |-> FALSE]

\* is_new_session of obicall_journal_admit.
NewSession(t, o) == ~t.hasData \/ t.boot # o.boot

\* Mutant of Admit: the highest sequence seen is not itself a duplicate.
Admit_StaleOffByOne(t, o, pending) ==
    IF ~Valid(o) THEN "VALIDATION"
    ELSE IF ~NewSession(t, o) /\ o.sequence < t.high
         THEN IF t.high - o.sequence > ReorderWindow THEN "LATE" ELSE "DUPLICATE"
    ELSE IF ~NewSession(t, o) /\ o.time < t.watermark - MaxLateness THEN "LATE"
    ELSE IF pending >= MaxPending THEN "OVERFLOW"
    ELSE "OK"

\* Mutant of Admit: the pending limit itself is let through.
Admit_PendingOffByOne(t, o, pending) ==
    IF ~Valid(o) THEN "VALIDATION"
    ELSE IF ~NewSession(t, o) /\ o.sequence <= t.high
         THEN IF t.high - o.sequence > ReorderWindow THEN "LATE" ELSE "DUPLICATE"
    ELSE IF ~NewSession(t, o) /\ o.time < t.watermark - MaxLateness THEN "LATE"
    ELSE IF pending > MaxPending THEN "OVERFLOW"
    ELSE "OK"

\* The decision.
Admit(t, o, pending) ==
    IF ~Valid(o) THEN "VALIDATION"
    ELSE IF ~NewSession(t, o) /\ o.sequence <= t.high
         THEN IF t.high - o.sequence > ReorderWindow THEN "LATE" ELSE "DUPLICATE"
    ELSE IF ~NewSession(t, o) /\ o.time < t.watermark - MaxLateness THEN "LATE"
    ELSE IF pending >= MaxPending THEN "OVERFLOW"
    ELSE "OK"

\* The track afterwards.
TrackAfter(t, o, reason) ==
    IF reason # "OK" THEN t
    ELSE [hasData |-> TRUE, boot |-> o.boot, high |-> o.sequence,
          watermark |-> IF NewSession(t, o) \/ o.time > t.watermark THEN o.time ELSE t.watermark]

\* Of the observations admitted, oldest first: while a sensor's source keeps
\* its boot id, sequence numbers strictly increase and sample times never
\* fall more than MaxLateness behind any earlier one.
InOrderPerSession(admitted) ==
    \A i, j \in 1..Len(admitted) :
        LET sensor == admitted[i].sensor IN
        (/\ i < j
         /\ \A k \in i..j : admitted[k].sensor = sensor => admitted[k].boot = admitted[i].boot
         /\ admitted[j].sensor = sensor)
        => /\ admitted[i].sequence < admitted[j].sequence
           /\ admitted[j].time >= admitted[i].time - MaxLateness
=============================================================================
