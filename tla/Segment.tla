------------------------------ MODULE Segment ------------------------------
(***************************************************************************)
(* The journal's durable segment: obicall_journal_append_record and        *)
(* obicall_journal_read_record of src/core/journal.c, the journal process  *)
(* that appends (admit_locked and main of src/journal/journal_main.c) and  *)
(* `obicall replay', which reads it back (cmd_replay of src/cli/main.c).   *)
(*                                                                         *)
(* A record is its window, the journal process that wrote it and whether   *)
(* its observation was admitted.  An append that is cut short leaves torn  *)
(* bytes, which no later record repairs: the checksum over header length   *)
(* and payload no longer fits from there on.                               *)
(***************************************************************************)
EXTENDS Integers, Sequences

CONSTANTS
    MaxRecords,   \* bound: observations decided, over all processes
    MaxRestarts   \* bound: restarts of the journal process

ASSUME SegmentConstants == MaxRecords \in Nat /\ MaxRestarts \in Nat

VARIABLES
    file,       \* the segment file: records and torn stretches
    next,       \* next_window_seq of the running journal process
    run,        \* restarts of the journal process so far
    decided,    \* history: every observation decided, oldest first
    durable,    \* history: the records whose append returned OBICALL_OK
    failed      \* history: some append did not return OBICALL_OK

segmentVars == <<file, next, run, decided, durable, failed>>

Record == [window : 1..MaxRecords, run : 0..MaxRestarts, admitted : BOOLEAN]

\* A stretch of bytes that decodes to no record.
Torn == [window |-> 0, run |-> 0, admitted |-> FALSE]

SegmentTypeOK ==
    /\ file \in Seq(Record \cup {Torn})
    /\ next \in 1..(MaxRecords + 1)
    /\ run \in 0..MaxRestarts
    /\ decided \in Seq(Record)
    /\ durable \subseteq Record
    /\ failed \in BOOLEAN

SegmentInit ==
    /\ file = << >>
    /\ next = 1
    /\ run = 0
    /\ decided = << >>
    /\ durable = {}
    /\ failed = FALSE

Rec(admitted) == [window |-> next, run |-> run, admitted |-> admitted]

\* What an append that does not return OBICALL_OK may leave behind: nothing,
\* torn bytes, or the whole record (fflush or fsync failed after the write).
Remains(r) == {file, Append(file, Torn), Append(file, r)}

\* admit_locked: the window is assigned whatever becomes of the append.
AppendSucceeds(admitted) ==
    /\ Len(decided) < MaxRecords
    /\ file' = Append(file, Rec(admitted))
    /\ next' = next + 1
    /\ decided' = Append(decided, Rec(admitted))
    /\ durable' = durable \cup {Rec(admitted)}
    /\ UNCHANGED <<run, failed>>

AppendFails(admitted) ==
    /\ Len(decided) < MaxRecords
    /\ file' \in Remains(Rec(admitted))
    /\ next' = next + 1
    /\ decided' = Append(decided, Rec(admitted))
    /\ failed' = TRUE
    /\ UNCHANGED <<run, durable>>

\* Mutant of Crash: the file is opened for writing, not for appending.
Crash_Truncates ==
    /\ run < MaxRestarts
    /\ file' = << >>
    /\ run' = run + 1
    /\ next' = 1
    /\ UNCHANGED <<decided, durable, failed>>

\* The process dies, perhaps inside an append, and main() runs again: the
\* file is opened for appending as it is and windows start at 1.
Crash ==
    /\ run < MaxRestarts
    /\ file' \in {file, Append(file, Torn)}
    /\ run' = run + 1
    /\ next' = 1
    /\ UNCHANGED <<decided, durable, failed>>

SegmentNext ==
    \/ \E admitted \in BOOLEAN : AppendSucceeds(admitted) \/ AppendFails(admitted)
    \/ Crash

SegmentSpec == SegmentInit /\ [][SegmentNext]_segmentVars
-----------------------------------------------------------------------------
\* Mutant of Readable: the checksum is not verified.
Readable_Unchecked(x) == TRUE

\* What obicall_journal_read_record returns of one stretch of the file.
Readable(x) == x # Torn

\* cmd_replay: the records read until the end or the first unreadable one.
Replay ==
    LET n == CHOOSE n \in 0..Len(file) :
                /\ \A i \in 1..n : Readable(file[i])
                /\ n < Len(file) => ~Readable(file[n + 1])
    IN  SubSeq(file, 1, n)

\* Mutant of Fed: rejected observations are used too.
Fed_All(records) == records

\* The observations it hands to the estimator.
Fed(records) == SelectSeq(records, LAMBDA r : r.admitted)
-----------------------------------------------------------------------------
(***************************************************************************)
(* Properties.                                                             *)
(***************************************************************************)

\* Replay invents nothing and keeps the order: it returns decisions of the
\* journal in the order they were made, whichever appends failed.
ReplayIsGenuine ==
    /\ \A i \in 1..Len(Replay) : \E k \in 1..Len(decided) : decided[k] = Replay[i]
    /\ \A i, j \in 1..Len(Replay) :
          i < j => \/ Replay[i].run < Replay[j].run
                   \/ Replay[i].run = Replay[j].run /\ Replay[i].window < Replay[j].window

\* As long as the first journal process runs and no append fails, replay
\* feeds the estimator exactly what was admitted, so what the brokers used.
ReplayMatchesLive ==
    (run = 0 /\ ~failed) => Fed(Replay) = SelectSeq(decided, LAMBDA r : r.admitted)

\* A record whose append returned OBICALL_OK stays in the file, and replay
\* gets to it unless torn bytes lie before it, which restarts never remove.
DurableUnlessTorn ==
    \A r \in durable : \E i \in 1..Len(file) :
        /\ file[i] = r
        /\ i <= Len(Replay) \/ \E k \in 1..(i - 1) : file[k] = Torn
=============================================================================
