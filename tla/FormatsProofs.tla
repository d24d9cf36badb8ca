--------------------------- MODULE FormatsProofs ---------------------------
(***************************************************************************)
(* What the program stores and what it sends.  The journal's segment: what *)
(* replay gives back of it, for every number of records and restarts and   *)
(* every pattern of failed and torn appends.  The wire codec: what every   *)
(* decoder makes of the bytes that arrive, for every message, whatever the *)
(* counts in it say.                                                       *)
(***************************************************************************)
EXTENDS Segment, Wire, WellFoundedInduction, TLAPS

-----------------------------------------------------------------------------
(***************************************************************************)
(* The segment: the inductive invariant.                                   *)
(***************************************************************************)

\* Record r was decided before record s.
Precedes(r, s) == r.run < s.run \/ (r.run = s.run /\ r.window < s.window)

\* A process assigns at most as many windows as observations were decided.
WindowsAreDecided == next <= Len(decided) + 1 /\ Len(decided) <= MaxRecords

\* Every whole record in the file is a decision, and none of a later process
\* or window than the present one.
FileIsDecided ==
    \A i \in 1..Len(file) : file[i] # Torn =>
        /\ \E k \in 1..Len(decided) : decided[k] = file[i]
        /\ file[i].run < run \/ (file[i].run = run /\ file[i].window < next)

\* Records lie in the file in the order in which they were decided.
FileIsOrdered ==
    \A i, j \in 1..Len(file) :
        (i < j /\ file[i] # Torn /\ file[j] # Torn) => Precedes(file[i], file[j])

\* What was acknowledged as durable is in the file.
DurableIsInFile == \A r \in durable : \E i \in 1..Len(file) : file[i] = r

\* Before the first failure the file is the history.
FileIsHistory == (run = 0 /\ ~failed) => file = decided

SegmentInv ==
    /\ SegmentTypeOK
    /\ WindowsAreDecided
    /\ FileIsDecided
    /\ FileIsOrdered
    /\ DurableIsInFile
    /\ FileIsHistory
-----------------------------------------------------------------------------
\* A non-empty set of natural numbers has a least element.
LEMMA LeastNatural ==
    ASSUME NEW T, T \subseteq Nat, T # {}
    PROVE  \E x \in T : \A y \in T : x <= y
<1> DEFINE Below == {p \in Nat \X Nat : p[1] < p[2]}
<1>1. IsWellFoundedOn(Below, Nat)
  BY NatLessThanWellFounded, Zenon DEF OpToRel
<1> HIDE DEF Below
<1>2. PICK x \in T : \A y \in T : ~(<<y, x>> \in Below)
  BY <1>1, WFMin
<1>3. \A y \in T : x <= y
  <2> TAKE y \in T
  <2>1. <<y, x>> \in Nat \X Nat /\ <<y, x>>[1] = y /\ <<y, x>>[2] = x
    OBVIOUS
  <2>2. ~(y < x)
    BY <1>2, <2>1 DEF Below
  <2> QED
    BY <2>2
<1> QED
  BY <1>3

\* cmd_replay returns the longest prefix of the file without torn bytes.
LEMMA ReplayIsPrefix ==
    ASSUME SegmentTypeOK
    PROVE  \E n \in 0..Len(file) :
              /\ Replay = SubSeq(file, 1, n)
              /\ Len(Replay) = n
              /\ \A i \in 1..n : Replay[i] = file[i] /\ file[i] # Torn
              /\ n < Len(file) => file[n + 1] = Torn
<1> DEFINE Stops(n) == /\ \A i \in 1..n : Readable(file[i])
                       /\ n < Len(file) => ~Readable(file[n + 1])
           torn == {i \in 1..Len(file) : ~Readable(file[i])}
<1>1. file \in Seq(Record \cup {Torn}) /\ Len(file) \in Nat
  BY DEF SegmentTypeOK
<1>2. \E n \in 0..Len(file) : Stops(n)
  <2>1. CASE torn = {}
    <3>1. Stops(Len(file))
      BY <1>1, <2>1
    <3> QED
      BY <1>1, <3>1
  <2>2. CASE torn # {}
    <3>0. torn \subseteq Nat
      BY <1>1
    <3> HIDE DEF torn
    <3>1. PICK t \in torn : \A u \in torn : t <= u
      BY <2>2, <3>0, LeastNatural
    <3> USE DEF torn
    <3>2. t - 1 \in 0..Len(file) /\ Stops(t - 1)
      BY <1>1, <3>1
    <3> QED
      BY <3>2
  <2> QED
    BY <2>1, <2>2
<1>3. PICK n \in 0..Len(file) : Stops(n) /\ Replay = SubSeq(file, 1, n)
  BY <1>2 DEF Replay
<1>4. Len(Replay) = n /\ \A i \in 1..n : Replay[i] = file[i]
  BY <1>1, <1>3
<1> QED
  BY <1>3, <1>4 DEF Readable
-----------------------------------------------------------------------------
(***************************************************************************)
(* SegmentInit and the steps.                                                     *)
(***************************************************************************)

\* An empty segment is in the invariant.
LEMMA InitSegment == SegmentInit => SegmentInv
<1> SUFFICES ASSUME SegmentInit PROVE SegmentInv
  OBVIOUS
<1>1. /\ file = << >> /\ decided = << >> /\ next = 1 /\ run = 0 /\ durable = {}
      /\ failed = FALSE /\ Len(file) = 0 /\ Len(decided) = 0 /\ 1..Len(file) = {}
  BY DEF SegmentInit
<1>2. SegmentTypeOK /\ WindowsAreDecided
  <2>1. file \in Seq(Record \cup {Torn}) /\ decided \in Seq(Record)
    BY <1>1
  <2>2. next \in 1..(MaxRecords + 1) /\ run \in 0..MaxRestarts
    BY <1>1, SegmentConstants
  <2>3. failed \in BOOLEAN /\ durable \subseteq Record
    BY <1>1, Zenon
  <2>4. WindowsAreDecided
    BY <1>1, SegmentConstants DEF WindowsAreDecided
  <2> QED
    BY <2>1, <2>2, <2>3, <2>4 DEF SegmentTypeOK
<1>3. FileIsDecided /\ FileIsOrdered
  BY <1>1 DEF FileIsDecided, FileIsOrdered
<1>4. DurableIsInFile /\ FileIsHistory
  BY <1>1 DEF DurableIsInFile, FileIsHistory
<1> QED
  BY <1>2, <1>3, <1>4 DEF SegmentInv

\* The record the next append writes is a record, of the running process and
\* later than every one in the file.
LEMMA NextRecord ==
    ASSUME SegmentInv, Len(decided) < MaxRecords, NEW admitted \in BOOLEAN
    PROVE  /\ Rec(admitted) \in Record
           /\ Rec(admitted) # Torn
           /\ Rec(admitted).run = run /\ Rec(admitted).window = next
           /\ \A i \in 1..Len(file) : file[i] # Torn => Precedes(file[i], Rec(admitted))
<1> USE SegmentConstants
<1>1. next \in 1..MaxRecords /\ run \in 0..MaxRestarts
  BY DEF SegmentInv, SegmentTypeOK, WindowsAreDecided
<1>2. Rec(admitted).run = run /\ Rec(admitted).window = next
  BY DEF Rec
<1>3. Rec(admitted) \in Record
  BY <1>1 DEF Rec, Record
<1>4. Rec(admitted) # Torn
  BY <1>1, <1>2 DEF Torn
<1>5. \A i \in 1..Len(file) : file[i] # Torn => Precedes(file[i], Rec(admitted))
  BY <1>2 DEF SegmentInv, FileIsDecided, Precedes
<1> QED
  BY <1>2, <1>3, <1>4, <1>5

\* What an append or a crash leaves in the file keeps it in order and within
\* the decisions: the file as it was, torn bytes behind it, or the record
\* that was just decided.
LEMMA FileGrows ==
    ASSUME SegmentInv, NEW r \in Record \cup {Torn}, file' \in {file, Append(file, r)},
           decided' \in Seq(Record), Len(decided) <= Len(decided'),
           \A k \in 1..Len(decided) : decided'[k] = decided[k],
           r # Torn => \E k \in 1..Len(decided') : decided'[k] = r,
           r # Torn => \A i \in 1..Len(file) : file[i] # Torn => Precedes(file[i], r),
           run' \in Nat, next' \in Nat,
           run < run' \/ (run = run' /\ next <= next'),
           r # Torn => r.run = run' /\ r.window < next'
    PROVE  /\ file' \in Seq(Record \cup {Torn})
           /\ FileIsDecided' /\ FileIsOrdered'
           /\ \A s \in durable : \E i \in 1..Len(file') : file'[i] = s
<1>1. /\ file \in Seq(Record \cup {Torn}) /\ Len(file) \in Nat
      /\ decided \in Seq(Record) /\ Len(decided) \in Nat /\ Len(decided') \in Nat
      /\ next \in Nat /\ run \in Nat
  BY SegmentConstants DEF SegmentInv, SegmentTypeOK
<1>2. /\ file' \in Seq(Record \cup {Torn})
      /\ Len(file) <= Len(file') /\ Len(file') <= Len(file) + 1
      /\ \A i \in 1..Len(file) : file'[i] = file[i]
      /\ Len(file') = Len(file) + 1 => file'[Len(file) + 1] = r
      /\ Len(file') \in Nat
  <2>1. CASE file' = file
    BY <1>1, <2>1
  <2>2. CASE file' = Append(file, r)
    BY <1>1, <2>2
  <2> QED
    BY <2>1, <2>2
<1>3. \A i \in 1..Len(file') :
         i \in 1..Len(file) \/ (i = Len(file) + 1 /\ Len(file') = Len(file) + 1)
  BY <1>1, <1>2
<1>4. FileIsDecided'
  <2> SUFFICES ASSUME NEW i \in 1..Len(file'), file'[i] # Torn
               PROVE  /\ \E k \in 1..Len(decided') : decided'[k] = file'[i]
                      /\ file'[i].run < run' \/ (file'[i].run = run' /\ file'[i].window < next')
    BY DEF FileIsDecided
  <2>1. CASE i \in 1..Len(file)
    <3>1. /\ file'[i] = file[i]
          /\ file[i].run < run \/ (file[i].run = run /\ file[i].window < next)
      BY <1>2, <2>1 DEF SegmentInv, FileIsDecided
    <3>2. PICK k \in 1..Len(decided) : decided[k] = file[i]
      BY <1>2, <2>1 DEF SegmentInv, FileIsDecided
    <3>3. k \in 1..Len(decided') /\ decided'[k] = file'[i]
      BY <1>1, <3>1, <3>2
    <3>4. file[i].run \in Nat /\ file[i].window \in Nat
      <4>1. file[i] \in Record \cup {Torn}
        BY <1>1, <2>1
      <4>2. file[i] \in Record
        BY <1>2, <2>1, <4>1
      <4> QED
        <5>1. \A x \in Record : x.run \in 0..MaxRestarts /\ x.window \in 1..MaxRecords
          BY DEF Record
        <5> QED
          BY <4>2, <5>1, SegmentConstants
    <3>5. file[i].run < run' \/ (file[i].run = run' /\ file[i].window < next')
      BY <1>1, <3>1, <3>4
    <3> QED
      BY <3>1, <3>3, <3>5
  <2>2. CASE i = Len(file) + 1 /\ Len(file') = Len(file) + 1
    BY <1>2, <2>2
  <2> QED
    BY <1>3, <2>1, <2>2
<1>5. FileIsOrdered'
  <2> SUFFICES ASSUME NEW i \in 1..Len(file'), NEW j \in 1..Len(file'),
                      i < j, file'[i] # Torn, file'[j] # Torn
               PROVE  Precedes(file'[i], file'[j])
    BY DEF FileIsOrdered, Precedes
  <2>1. i \in 1..Len(file)
    BY <1>1, <1>2, <1>3
  <2>2. CASE j \in 1..Len(file)
    BY <1>2, <2>1, <2>2 DEF SegmentInv, FileIsOrdered
  <2>3. CASE j = Len(file) + 1 /\ Len(file') = Len(file) + 1
    <3>1. file'[j] = r /\ file'[i] = file[i]
      BY <1>2, <2>1, <2>3
    <3> QED
      BY <2>1, <3>1
  <2> QED
    BY <1>3, <2>2, <2>3
<1>6. \A s \in durable : \E i \in 1..Len(file') : file'[i] = s
  <2> TAKE s \in durable
  <2>1. PICK i \in 1..Len(file) : file[i] = s
    BY DEF SegmentInv, DurableIsInFile
  <2>2. i \in 1..Len(file') /\ file'[i] = s
    BY <1>1, <1>2, <2>1
  <2> QED
    BY <2>2
<1> QED
  BY <1>2, <1>4, <1>5, <1>6

\* admit_locked preserves the invariant when the append succeeds.
LEMMA AppendSucceedsSegment ==
    ASSUME SegmentInv, NEW admitted \in BOOLEAN, AppendSucceeds(admitted)
    PROVE  SegmentInv'
<1> DEFINE r == Rec(admitted)
<1> USE SegmentConstants
<1>1. /\ r \in Record /\ r # Torn /\ r.run = run /\ r.window = next
      /\ \A i \in 1..Len(file) : file[i] # Torn => Precedes(file[i], r)
  BY NextRecord DEF AppendSucceeds
<1>2. /\ file' = Append(file, r) /\ next' = next + 1 /\ decided' = Append(decided, r)
      /\ durable' = durable \cup {r} /\ run' = run /\ failed' = failed
      /\ Len(decided) < MaxRecords
  BY DEF AppendSucceeds
<1> HIDE DEF r
<1>3. /\ next \in Nat /\ run \in 0..MaxRestarts /\ decided \in Seq(Record)
      /\ next \in 1..(Len(decided) + 1) /\ durable \subseteq Record /\ failed \in BOOLEAN
      /\ file \in Seq(Record \cup {Torn})
  BY DEF SegmentInv, SegmentTypeOK, WindowsAreDecided
<1>4. /\ decided' \in Seq(Record) /\ Len(decided') = Len(decided) + 1
      /\ \A k \in 1..Len(decided) : decided'[k] = decided[k]
      /\ decided'[Len(decided) + 1] = r /\ Len(decided) \in Nat
  BY <1>1, <1>2, <1>3
<1>5. /\ file' \in Seq(Record \cup {Torn})
      /\ FileIsDecided' /\ FileIsOrdered'
      /\ \A s \in durable : \E i \in 1..Len(file') : file'[i] = s
  <2>1. /\ Len(decided) <= Len(decided') /\ \E k \in 1..Len(decided') : decided'[k] = r
        /\ run' \in Nat /\ next' \in Nat /\ run = run' /\ next <= next'
        /\ r.run = run' /\ r.window < next'
    BY <1>1, <1>2, <1>3, <1>4
  <2> QED
    BY <1>1, <1>2, <1>4, <2>1, FileGrows
<1>6. DurableIsInFile'
  <2>1. Len(file) + 1 \in 1..Len(file') /\ file'[Len(file) + 1] = r
    BY <1>1, <1>2, <1>3
  <2> QED
    BY <1>2, <1>5, <2>1 DEF DurableIsInFile
<1>7. FileIsHistory'
  BY <1>2 DEF SegmentInv, FileIsHistory
<1>8. WindowsAreDecided' /\ SegmentTypeOK'
  BY <1>1, <1>2, <1>3, <1>4, <1>5 DEF WindowsAreDecided, SegmentTypeOK
<1> QED
  BY <1>5, <1>6, <1>7, <1>8 DEF SegmentInv

\* It preserves it when the append fails, whatever the append left behind.
LEMMA AppendFailsSegment ==
    ASSUME SegmentInv, NEW admitted \in BOOLEAN, AppendFails(admitted)
    PROVE  SegmentInv'
<1> DEFINE r == Rec(admitted)
<1> USE SegmentConstants
<1>1. /\ r \in Record /\ r # Torn /\ r.run = run /\ r.window = next
      /\ \A i \in 1..Len(file) : file[i] # Torn => Precedes(file[i], r)
  BY NextRecord DEF AppendFails
<1>2. /\ file' \in {file, Append(file, Torn), Append(file, r)}
      /\ next' = next + 1 /\ decided' = Append(decided, r)
      /\ durable' = durable /\ run' = run /\ failed' = TRUE
      /\ Len(decided) < MaxRecords
  BY DEF AppendFails, Remains
<1> HIDE DEF r
<1>3. /\ next \in Nat /\ run \in 0..MaxRestarts /\ decided \in Seq(Record)
      /\ next \in 1..(Len(decided) + 1) /\ durable \subseteq Record
  BY DEF SegmentInv, SegmentTypeOK, WindowsAreDecided
<1>4. /\ decided' \in Seq(Record) /\ Len(decided') = Len(decided) + 1
      /\ \A k \in 1..Len(decided) : decided'[k] = decided[k]
      /\ decided'[Len(decided) + 1] = r /\ Len(decided) \in Nat
  BY <1>1, <1>2, <1>3
<1>5. /\ file' \in Seq(Record \cup {Torn})
      /\ FileIsDecided' /\ FileIsOrdered'
      /\ \A s \in durable : \E i \in 1..Len(file') : file'[i] = s
  <2>0. /\ Len(decided) <= Len(decided') /\ \E k \in 1..Len(decided') : decided'[k] = r
        /\ run' \in Nat /\ next' \in Nat /\ run = run' /\ next <= next'
        /\ r.run = run' /\ r.window < next'
    BY <1>1, <1>2, <1>3, <1>4
  <2>1. CASE file' \in {file, Append(file, Torn)}
    BY <1>4, <2>0, <2>1, FileGrows
  <2>2. CASE file' = Append(file, r)
    BY <1>1, <1>4, <2>0, <2>2, FileGrows
  <2> QED
    BY <1>2, <2>1, <2>2
<1>6. DurableIsInFile' /\ FileIsHistory'
  BY <1>2, <1>5 DEF DurableIsInFile, FileIsHistory
<1>7. WindowsAreDecided' /\ SegmentTypeOK'
  BY <1>1, <1>2, <1>3, <1>4, <1>5 DEF WindowsAreDecided, SegmentTypeOK
<1> QED
  BY <1>5, <1>6, <1>7 DEF SegmentInv

\* A restart preserves it: windows start again, but of a later process.
LEMMA CrashSegment ==
    ASSUME SegmentInv, Crash
    PROVE  SegmentInv'
<1> USE SegmentConstants
<1>1. /\ run < MaxRestarts /\ file' \in {file, Append(file, Torn)}
      /\ run' = run + 1 /\ next' = 1
      /\ decided' = decided /\ durable' = durable /\ failed' = failed
  BY DEF Crash
<1>2. /\ run \in 0..MaxRestarts /\ decided \in Seq(Record) /\ Len(decided) \in Nat
      /\ durable \subseteq Record /\ failed \in BOOLEAN /\ Len(decided) <= MaxRecords
  BY DEF SegmentInv, SegmentTypeOK, WindowsAreDecided
<1>3. /\ file' \in Seq(Record \cup {Torn})
      /\ FileIsDecided' /\ FileIsOrdered'
      /\ \A s \in durable : \E i \in 1..Len(file') : file'[i] = s
  BY <1>1, <1>2, FileGrows
<1>4. DurableIsInFile' /\ FileIsHistory'
  BY <1>1, <1>2, <1>3 DEF DurableIsInFile, FileIsHistory
<1>5. WindowsAreDecided' /\ SegmentTypeOK'
  BY <1>1, <1>2, <1>3 DEF WindowsAreDecided, SegmentTypeOK
<1> QED
  BY <1>3, <1>4, <1>5 DEF SegmentInv

\* The segment's invariant holds whatever appends fail and however often the
\* journal process restarts; in particular the model is type correct.
THEOREM SegmentCorrect == SegmentSpec => [](SegmentInv /\ SegmentTypeOK)
<1>1. SegmentInv /\ UNCHANGED segmentVars => SegmentInv'
  BY DEF SegmentInv, SegmentTypeOK, WindowsAreDecided, FileIsDecided, FileIsOrdered,
         DurableIsInFile, FileIsHistory, Precedes, segmentVars
<1>2. SegmentInv /\ [SegmentNext]_segmentVars => SegmentInv'
  BY <1>1, AppendSucceedsSegment, AppendFailsSegment, CrashSegment DEF SegmentNext
<1>3. SegmentInv => SegmentTypeOK
  BY DEF SegmentInv
<1> QED
  BY InitSegment, <1>2, <1>3, PTL DEF SegmentSpec
-----------------------------------------------------------------------------
(***************************************************************************)
(* What replay gives back.                                                 *)
(***************************************************************************)

\* `obicall replay' returns decisions of the journal, in the order in which
\* they were made, whichever appends failed and whatever was torn.
THEOREM ReplayGenuine == SegmentSpec => []ReplayIsGenuine
<1>1. SegmentInv => ReplayIsGenuine
  <2> SUFFICES ASSUME SegmentInv PROVE ReplayIsGenuine
    OBVIOUS
  <2>1. SegmentTypeOK /\ FileIsDecided /\ FileIsOrdered
    BY DEF SegmentInv
  <2>2. PICK n \in 0..Len(file) :
           Len(Replay) = n /\ \A i \in 1..n : Replay[i] = file[i] /\ file[i] # Torn
    BY <2>1, ReplayIsPrefix
  <2>3. \A i \in 1..n : i \in 1..Len(file)
    BY <2>1 DEF SegmentTypeOK
  <2>4. \A i \in 1..Len(Replay) : \E k \in 1..Len(decided) : decided[k] = Replay[i]
    BY <2>1, <2>2, <2>3 DEF FileIsDecided
  <2>5. \A i, j \in 1..Len(Replay) : i < j => Precedes(Replay[i], Replay[j])
    BY <2>1, <2>2, <2>3 DEF FileIsOrdered
  <2> QED
    BY <2>4, <2>5 DEF ReplayIsGenuine, Precedes
<1> QED
  BY <1>1, SegmentCorrect, PTL

\* Until a process dies or an append fails, replay feeds the estimator what
\* the live brokers were fed.
THEOREM ReplayLive == SegmentSpec => []ReplayMatchesLive
<1>1. SegmentInv => ReplayMatchesLive
  <2> SUFFICES ASSUME SegmentInv, run = 0, ~failed
               PROVE  Fed(Replay) = SelectSeq(decided, LAMBDA r : r.admitted)
    BY DEF ReplayMatchesLive
  <2>1. SegmentTypeOK /\ file = decided
    BY DEF SegmentInv, FileIsHistory
  <2>2. decided \in Seq(Record) /\ Len(file) \in Nat
    BY <2>1 DEF SegmentTypeOK
  <2>3. PICK n \in 0..Len(file) : /\ Replay = SubSeq(file, 1, n)
                                  /\ n < Len(file) => file[n + 1] = Torn
    BY <2>1, ReplayIsPrefix
  <2>4. n = Len(file)
    <3>1. SUFFICES ASSUME n < Len(file) PROVE FALSE
      BY <2>2
    <3>2. n + 1 \in 1..Len(file)
      BY <2>2, <3>1
    <3>3. Torn \in Record
      BY <2>1, <2>2, <2>3, <3>1, <3>2
    <3> QED
      BY <3>3, SegmentConstants DEF Torn, Record
  <2>5. Replay = decided
    BY <2>1, <2>2, <2>3, <2>4
  <2> QED
    BY <2>5 DEF Fed
<1> QED
  BY <1>1, SegmentCorrect, PTL

\* A record whose append was acknowledged stays in the file, and replay gets
\* to it unless torn bytes lie before it.
THEOREM DurableIsKept == SegmentSpec => []DurableUnlessTorn
<1>1. SegmentInv => DurableUnlessTorn
  <2> SUFFICES ASSUME SegmentInv, NEW r \in durable
               PROVE  \E i \in 1..Len(file) :
                         /\ file[i] = r
                         /\ i <= Len(Replay) \/ \E k \in 1..(i - 1) : file[k] = Torn
    BY DEF DurableUnlessTorn
  <2>1. SegmentTypeOK
    BY DEF SegmentInv
  <2>2. PICK i \in 1..Len(file) : file[i] = r
    BY DEF SegmentInv, DurableIsInFile
  <2>3. PICK n \in 0..Len(file) :
           Len(Replay) = n /\ (n < Len(file) => file[n + 1] = Torn)
    BY <2>1, ReplayIsPrefix
  <2>4. Len(file) \in Nat /\ r # Torn
    BY <2>1, SegmentConstants DEF SegmentTypeOK, Record, Torn
  <2>5. i <= n \/ \E k \in 1..(i - 1) : file[k] = Torn
    <3>1. CASE i <= n
      BY <3>1
    <3>2. CASE ~(i <= n)
      <4>1. n < Len(file) /\ file[n + 1] = Torn /\ n + 1 <= i
        BY <2>3, <2>4, <3>2
      <4>2. n + 1 # i
        BY <2>2, <2>4, <4>1
      <4>3. n + 1 \in 1..(i - 1)
        BY <2>4, <4>1, <4>2
      <4> QED
        BY <4>1, <4>3
    <3> QED
      BY <3>1, <3>2
  <2> QED
    BY <2>2, <2>3, <2>5
<1> QED
  BY <1>1, SegmentCorrect, PTL

-----------------------------------------------------------------------------
(***************************************************************************)
(* The wire codec: the lists of fields.                                    *)
(***************************************************************************)

\* The elements of an array whose count is n.
Power(n, power) == IF power = 1 THEN n ELSE n * n

\* The j-th field is the count of the array at i: refused above a limit for
\* which the array of the structure is large enough, except for the bytes of
\* an event, which are compared with the storage instead.
Counts(list, j, i) ==
    /\ list[j].op = "count" /\ list[j].name = list[i].of
    /\ list[i].op = "array" => Power(list[j].cap, list[i].power) <= Capacity[list[i].name]

\* A list of fields a decoder is safe with: its count stands before every
\* array, and no two counts share a name.
Sound(list) ==
    /\ Len(list) \in Nat
    /\ \A i \in 1..Len(list) :
          /\ list[i].width \in Nat
          /\ list[i].op = "count" => list[i].cap \in Nat /\ list[i].width = 4
          /\ list[i].op \in {"array", "blob"} => \E j \in 1..(i - 1) : Counts(list, j, i)
          /\ list[i].op = "array" => Capacity[list[i].name] \in Nat
          /\ list[i].op = "blob" => list[i].power = 1 /\ Capacity[list[i].name] = Storage
    /\ \A i, j \in 1..Len(list) :
          (list[i].op = "count" /\ list[j].op = "count" /\ list[i].name = list[j].name) => i = j

\* A field that is neither a count nor has one.
Plain(f) == f.op \in {"field", "dropped"} /\ f.width \in Nat

\* The arrays of the native structures, one by one.
LEMMA CapacityFacts ==
    /\ Capacity["payload"] = 6 /\ Capacity["cov"] = 36 /\ Capacity["source"] = 8
    /\ Capacity["mean"] = 6 /\ Capacity["stateCov"] = 36 /\ Capacity["position"] = 16
    /\ Capacity["bytes"] = Storage
BY DEF Capacity

LEMMA PayloadLimit == MaxPayload \in Nat
BY SMT DEF MaxPayload

\* The encoder and the decoder of a message have the same fields; only the size
\* of the structure is read and dropped.
Agree(e, d) ==
    /\ Len(d) = Len(e)
    /\ \A i \in 1..Len(e) :
          \/ d[i] = e[i] /\ e[i].op # "dropped" /\ e[i].name # "size"
          \/ e[i] = Field("size", 4) /\ d[i] = Dropped("size", 4)

LEMMA AgreeingIsSound ==
    ASSUME NEW e, NEW d, Sound(e), Agree(e, d)
    PROVE  Sound(d)
<1>1. /\ Len(d) = Len(e) /\ Len(e) \in Nat
      /\ \A i \in 1..Len(e) : d[i] = e[i] \/ (e[i].op = "field" /\ Plain(d[i]))
  BY DEF Agree, Sound, Plain, Field, Dropped
<1>2. \A i \in 1..Len(e) :
         /\ d[i].op \in {"count", "array", "blob"} => d[i] = e[i]
         /\ e[i].op \in {"count", "array", "blob"} => d[i] = e[i]
         /\ d[i].width \in Nat
  BY <1>1 DEF Plain, Sound
<1>3. \A i \in 1..Len(e) : d[i].op \in {"array", "blob"} =>
         \E j \in 1..(i - 1) : Counts(d, j, i)
  <2>1. ASSUME NEW i \in 1..Len(e), d[i].op \in {"array", "blob"}
        PROVE  \E j \in 1..(i - 1) : Counts(d, j, i)
    <3>1. PICK j \in 1..(i - 1) : Counts(e, j, i)
      BY <1>2, <2>1 DEF Sound
    <3>2. d[i] = e[i] /\ d[j] = e[j]
      BY <1>1, <1>2, <2>1, <3>1 DEF Counts
    <3> QED
      BY <3>1, <3>2 DEF Counts
  <2> QED
    BY <2>1
<1> QED
  BY <1>1, <1>2, <1>3 DEF Sound

\* How far the fields before each one reach when every array is full.
Reach == [
    observation |-> <<0, 4, 8, 40, 48, 56, 64, 72, 76, 84, 88, 92, 96, 100, 104,
        152, 156, 444>>,
    result |-> <<0, 4, 8, 40, 48, 52, 60, 64, 68, 72, 120, 124, 412, 444, 476, 484,
        492, 496, 752, 756>>,
    checkpoint |-> <<0, 4, 8, 40, 48, 52, 56, 104, 392, 396, 400, 404, 408, 1176,
        1184>>,
    event |-> <<0, 4, 8, 12, 16, 24, 28, 28 + Storage>>,
    auth_hello |-> <<0, 4, 8, 40>>,
    heartbeat |-> <<0, 4, 12, 20, 52, 56, 60, 68>>,
    epoch_grant |-> <<0, 8, 12, 20>>,
    epoch_revoke |-> <<0, 8, 12, 20, 24>>,
    readiness_report |-> <<0, 4, 36, 40, 48, 52>>,
    replay_request |-> <<0, 32, 40>>,
    admission_decision |-> <<0, 32, 40, 72, 80, 84, 88, 96>>,
    result_ack |-> <<0, 32, 40, 44, 48>>,
    status_reply |-> <<0, 4, 12, 16, 24, 32>>]

\* With these counts, every field ends where the table says or before.
Fits(list, reach, n) ==
    /\ reach[1] = 0
    /\ \A i \in 1..Len(list) : reach[i] \in Nat /\ reach[i + 1] \in Nat
    /\ \A i \in 1..Len(list) : /\ reach[i] + Size(list[i], n) <= reach[i + 1]
                               /\ reach[i + 1] <= reach[Len(list) + 1]

\* Most messages have no counts.
PlainMessage(e, d, reach) ==
    /\ d = e /\ Len(e) \in Nat
    /\ \A i \in 1..Len(e) :
          /\ e[i].op = "field" /\ e[i].width \in Nat /\ e[i].name # "size"
          /\ reach[i] \in Nat /\ reach[i + 1] = reach[i] + e[i].width
          /\ reach[i + 1] <= reach[Len(e) + 1]
    /\ reach[1] = 0

LEMMA PlainIsSound ==
    ASSUME NEW e, NEW d, NEW reach, PlainMessage(e, d, reach)
    PROVE  Sound(e) /\ Agree(e, d) /\ \A n : Fits(e, reach, n)
BY DEF PlainMessage, Sound, Agree, Fits, Size

LEMMA PlainCodecs ==
    /\ PlainMessage(EncodeAuthHello, DecodeAuthHello, Reach["auth_hello"])
    /\ PlainMessage(EncodeHeartbeat, DecodeHeartbeat, Reach["heartbeat"])
    /\ PlainMessage(EncodeEpochGrant, DecodeEpochGrant, Reach["epoch_grant"])
    /\ PlainMessage(EncodeEpochRevoke, DecodeEpochRevoke, Reach["epoch_revoke"])
    /\ PlainMessage(EncodeReadinessReport, DecodeReadinessReport, Reach["readiness_report"])
    /\ PlainMessage(EncodeReplayRequest, DecodeReplayRequest, Reach["replay_request"])
    /\ PlainMessage(EncodeAdmissionDecision, DecodeAdmissionDecision, Reach["admission_decision"])
    /\ PlainMessage(EncodeResultAck, DecodeResultAck, Reach["result_ack"])
    /\ PlainMessage(EncodeStatusReply, DecodeStatusReply, Reach["status_reply"])
<1>2. PlainMessage(EncodeAuthHello, DecodeAuthHello, Reach["auth_hello"])
  <2>1. DecodeAuthHello = EncodeAuthHello
    BY Zenon DEF DecodeAuthHello, EncodeAuthHello
  <2>2. Reach["auth_hello"] = <<0, 4, 8, 40>>
    BY SMT DEF Reach
  <2> QED
    BY <2>1, <2>2, SMT DEF PlainMessage, EncodeAuthHello, Field, U32
<1>3. PlainMessage(EncodeHeartbeat, DecodeHeartbeat, Reach["heartbeat"])
  <2>1. DecodeHeartbeat = EncodeHeartbeat
    BY Zenon DEF DecodeHeartbeat, EncodeHeartbeat
  <2>2. Reach["heartbeat"] = <<0, 4, 12, 20, 52, 56, 60, 68>>
    BY SMT DEF Reach
  <2> QED
    BY <2>1, <2>2, SMT DEF PlainMessage, EncodeHeartbeat, Field, U32, U64, Digest
<1>4. PlainMessage(EncodeEpochGrant, DecodeEpochGrant, Reach["epoch_grant"])
  <2>1. DecodeEpochGrant = EncodeEpochGrant
    BY Zenon DEF DecodeEpochGrant, EncodeEpochGrant
  <2>2. Reach["epoch_grant"] = <<0, 8, 12, 20>>
    BY SMT DEF Reach
  <2> QED
    BY <2>1, <2>2, SMT DEF PlainMessage, EncodeEpochGrant, Field, U32, U64
<1>5. PlainMessage(EncodeEpochRevoke, DecodeEpochRevoke, Reach["epoch_revoke"])
  <2>1. DecodeEpochRevoke = EncodeEpochRevoke
    BY Zenon DEF DecodeEpochRevoke, EncodeEpochRevoke
  <2>2. Reach["epoch_revoke"] = <<0, 8, 12, 20, 24>>
    BY SMT DEF Reach
  <2> QED
    BY <2>1, <2>2, SMT DEF PlainMessage, EncodeEpochRevoke, Field, U32, U64
<1>6. PlainMessage(EncodeReadinessReport, DecodeReadinessReport, Reach["readiness_report"])
  <2>1. DecodeReadinessReport = EncodeReadinessReport
    BY Zenon DEF DecodeReadinessReport, EncodeReadinessReport
  <2>2. Reach["readiness_report"] = <<0, 4, 36, 40, 48, 52>>
    BY SMT DEF Reach
  <2> QED
    BY <2>1, <2>2, SMT DEF PlainMessage, EncodeReadinessReport, Field, U32, U64, Digest
<1>7. PlainMessage(EncodeReplayRequest, DecodeReplayRequest, Reach["replay_request"])
  <2>1. DecodeReplayRequest = EncodeReplayRequest
    BY Zenon DEF DecodeReplayRequest, EncodeReplayRequest
  <2>2. Reach["replay_request"] = <<0, 32, 40>>
    BY SMT DEF Reach
  <2> QED
    BY <2>1, <2>2, SMT DEF PlainMessage, EncodeReplayRequest, Field, U64, Id
<1>8. PlainMessage(EncodeAdmissionDecision, DecodeAdmissionDecision, Reach["admission_decision"])
  <2>1. DecodeAdmissionDecision = EncodeAdmissionDecision
    BY Zenon DEF DecodeAdmissionDecision, EncodeAdmissionDecision
  <2>2. Reach["admission_decision"] = <<0, 32, 40, 72, 80, 84, 88, 96>>
    BY SMT DEF Reach
  <2> QED
    BY <2>1, <2>2, SMT DEF PlainMessage, EncodeAdmissionDecision, Field, U32, U64, Id
<1>9. PlainMessage(EncodeResultAck, DecodeResultAck, Reach["result_ack"])
  <2>1. DecodeResultAck = EncodeResultAck
    BY Zenon DEF DecodeResultAck, EncodeResultAck
  <2>2. Reach["result_ack"] = <<0, 32, 40, 44, 48>>
    BY SMT DEF Reach
  <2> QED
    BY <2>1, <2>2, SMT DEF PlainMessage, EncodeResultAck, Field, U32, U64, Id
<1>10. PlainMessage(EncodeStatusReply, DecodeStatusReply, Reach["status_reply"])
  <2>1. DecodeStatusReply = EncodeStatusReply
    BY Zenon DEF DecodeStatusReply, EncodeStatusReply
  <2>2. Reach["status_reply"] = <<0, 4, 12, 16, 24, 32>>
    BY SMT DEF Reach
  <2> QED
    BY <2>1, <2>2, SMT DEF PlainMessage, EncodeStatusReply, Field, U32, U64
<1> QED
  BY <1>2, <1>3, <1>4, <1>5, <1>6, <1>7, <1>8, <1>9, <1>10

\* The fields of an observation that are counts or have one.
LEMMA ObservationFields ==
    /\ Len(EncodeObservation) = 17
    /\ EncodeObservation[14] = Count("payloads", 6)
    /\ EncodeObservation[15] = Each("payload", "payloads", 1, 8)
    /\ EncodeObservation[16] = Count("covs", 36)
    /\ EncodeObservation[17] = Each("cov", "covs", 1, 8)
    /\ \A i \in 1..17 :
          \/ i \in {14, 15, 16, 17}
          \/ Plain(EncodeObservation[i]) /\ EncodeObservation[i].op = "field"
BY SMT DEF EncodeObservation, Plain, Field, U32, U64, Id

LEMMA ObservationIsSound == Sound(EncodeObservation)
<1> DEFINE list == EncodeObservation
<1>0. Len(list) = 17
  BY ObservationFields
<1>1. \A i \in 1..17 : list[i].op = "count" => i \in {14, 16}
  BY ObservationFields, SMT DEF Plain, Each, Blob
<1>2. \A i \in 1..17 : list[i].op \in {"array", "blob"} => i \in {15, 17}
  BY ObservationFields, SMT DEF Plain, Count
<1>3. Counts(list, 14, 15) /\ Counts(list, 16, 17)
  BY ObservationFields, WireConstants, CapacityFacts, SMT DEF Counts, Count, Each, Blob, Power
<1>4. \A i \in 1..17 :
         /\ list[i].width \in Nat
         /\ list[i].op = "count" => list[i].cap \in Nat /\ list[i].width = 4
         /\ list[i].op = "array" => Capacity[list[i].name] \in Nat
         /\ list[i].op = "blob" => list[i].power = 1 /\ Capacity[list[i].name] = Storage
  BY ObservationFields, WireConstants, CapacityFacts, PayloadLimit, SMT DEF Plain, Count, Each, Blob
<1>5. \A i, j \in 1..17 :
         (list[i].op = "count" /\ list[j].op = "count" /\ list[i].name = list[j].name) => i = j
  BY ObservationFields, <1>1, SMT DEF Count
<1> HIDE DEF list
<1>6. \A i \in 1..17 : list[i].op \in {"array", "blob"} => \E j \in 1..(i - 1) : Counts(list, j, i)
  <2> SUFFICES ASSUME NEW i \in 1..17, list[i].op \in {"array", "blob"}
               PROVE  \E j \in 1..(i - 1) : Counts(list, j, i)
    OBVIOUS
  <2>1. CASE i = 15
    <3>1. 14 \in 1..(i - 1)
      BY <2>1
    <3> QED
      BY <1>3, <2>1, <3>1
  <2>2. CASE i = 17
    <3>1. 16 \in 1..(i - 1)
      BY <2>2
    <3> QED
      BY <1>3, <2>2, <3>1
  <2> QED
    BY <1>2, <2>1, <2>2
<1>7. Sound(list)
  BY <1>0, <1>4, <1>5, <1>6, SMT DEF Sound
<1> QED
  BY <1>7 DEF list

LEMMA ObservationAgrees == Agree(EncodeObservation, DecodeObservation)
BY SMT DEF Agree, EncodeObservation, DecodeObservation, Field, Dropped, Count, Each, U32, U64, Id

LEMMA ObservationFits ==
    ASSUME NEW n, n["payloads"] \in 0..6, n["covs"] \in 0..36
    PROVE  Fits(EncodeObservation, Reach["observation"], n)
<1> DEFINE reach == <<0, 4, 8, 40, 48, 56, 64, 72, 76, 84, 88, 92, 96, 100, 104, 152, 156, 444>>
<1>1. Reach["observation"] = reach
  BY SMT DEF Reach
<1>2. \A i \in 1..17 : /\ reach[i] \in Nat /\ reach[i + 1] \in Nat
                       /\ reach[i + 1] <= reach[18]
  BY WireConstants, SMT
<1>3. \A i \in 1..17 : i \in {15, 17} \/ reach[i] + EncodeObservation[i].width = reach[i + 1]
  BY SMT DEF EncodeObservation, Count, Field, U32, U64, Id
<1>4. Size(EncodeObservation[15], n) = n["payloads"] * 8
  BY ObservationFields, SMT DEF Size, Elements, Each
<1>5. Size(EncodeObservation[17], n) = n["covs"] * 8
  BY ObservationFields, SMT DEF Size, Elements, Each
<1>6. \A i \in 1..17 : i \in {15, 17} \/ Size(EncodeObservation[i], n) = EncodeObservation[i].width
  BY ObservationFields, SMT DEF Size, Plain, Count
<1>7. /\ reach[15] + Size(EncodeObservation[15], n) <= reach[16]
      /\ reach[17] + Size(EncodeObservation[17], n) <= reach[18]
  BY <1>4, <1>5, WireConstants, SMT
<1> HIDE DEF reach
<1>8. \A i \in 1..17 : reach[i] + Size(EncodeObservation[i], n) <= reach[i + 1]
  BY <1>2, <1>3, <1>6, <1>7, SMT
<1> QED
  BY <1>1, <1>2, <1>8, ObservationFields, SMT DEF Fits, reach

\* The fields of a result that are counts or have one.
LEMMA ResultFields ==
    /\ Len(EncodeResult) = 19
    /\ EncodeResult[9] = Count("payloads", 6)
    /\ EncodeResult[10] = Each("payload", "payloads", 1, 8)
    /\ EncodeResult[11] = Count("covs", 36)
    /\ EncodeResult[12] = Each("cov", "covs", 1, 8)
    /\ EncodeResult[17] = Count("sources", 8)
    /\ EncodeResult[18] = Each("source", "sources", 1, 32)
    /\ \A i \in 1..19 :
          \/ i \in {9, 10, 11, 12, 17, 18}
          \/ Plain(EncodeResult[i]) /\ EncodeResult[i].op = "field"
BY SMT DEF EncodeResult, Plain, Field, U32, U64, Id, Digest

LEMMA ResultIsSound == Sound(EncodeResult)
<1> DEFINE list == EncodeResult
<1>0. Len(list) = 19
  BY ResultFields
<1>1. \A i \in 1..19 : list[i].op = "count" => i \in {9, 11, 17}
  BY ResultFields, SMT DEF Plain, Each, Blob
<1>2. \A i \in 1..19 : list[i].op \in {"array", "blob"} => i \in {10, 12, 18}
  BY ResultFields, SMT DEF Plain, Count
<1>3. Counts(list, 9, 10) /\ Counts(list, 11, 12) /\ Counts(list, 17, 18)
  BY ResultFields, WireConstants, CapacityFacts, SMT DEF Counts, Count, Each, Blob, Power
<1>4. \A i \in 1..19 :
         /\ list[i].width \in Nat
         /\ list[i].op = "count" => list[i].cap \in Nat /\ list[i].width = 4
         /\ list[i].op = "array" => Capacity[list[i].name] \in Nat
         /\ list[i].op = "blob" => list[i].power = 1 /\ Capacity[list[i].name] = Storage
  BY ResultFields, WireConstants, CapacityFacts, PayloadLimit, SMT DEF Plain, Count, Each, Blob
<1>5. \A i, j \in 1..19 :
         (list[i].op = "count" /\ list[j].op = "count" /\ list[i].name = list[j].name) => i = j
  BY ResultFields, <1>1, SMT DEF Count
<1> HIDE DEF list
<1>6. \A i \in 1..19 : list[i].op \in {"array", "blob"} => \E j \in 1..(i - 1) : Counts(list, j, i)
  <2> SUFFICES ASSUME NEW i \in 1..19, list[i].op \in {"array", "blob"}
               PROVE  \E j \in 1..(i - 1) : Counts(list, j, i)
    OBVIOUS
  <2>1. CASE i = 10
    <3>1. 9 \in 1..(i - 1)
      BY <2>1
    <3> QED
      BY <1>3, <2>1, <3>1
  <2>2. CASE i = 12
    <3>1. 11 \in 1..(i - 1)
      BY <2>2
    <3> QED
      BY <1>3, <2>2, <3>1
  <2>3. CASE i = 18
    <3>1. 17 \in 1..(i - 1)
      BY <2>3
    <3> QED
      BY <1>3, <2>3, <3>1
  <2> QED
    BY <1>2, <2>1, <2>2, <2>3
<1>7. Sound(list)
  BY <1>0, <1>4, <1>5, <1>6, SMT DEF Sound
<1> QED
  BY <1>7 DEF list

LEMMA ResultAgrees == Agree(EncodeResult, DecodeResult)
BY SMT DEF Agree, EncodeResult, DecodeResult, Field, Dropped, Count, Each, U32, U64, Id, Digest

LEMMA ResultFits ==
    ASSUME NEW n, n["payloads"] \in 0..6, n["covs"] \in 0..36, n["sources"] \in 0..8
    PROVE  Fits(EncodeResult, Reach["result"], n)
<1> DEFINE reach == <<0, 4, 8, 40, 48, 52, 60, 64, 68, 72, 120, 124,
                    412, 444, 476, 484, 492, 496, 752, 756>>
<1>1. Reach["result"] = reach
  BY SMT DEF Reach
<1>2. \A i \in 1..19 : /\ reach[i] \in Nat /\ reach[i + 1] \in Nat
                       /\ reach[i + 1] <= reach[20]
  BY WireConstants, SMT
<1>3. \A i \in 1..19 : i \in {10, 12, 18} \/ reach[i] + EncodeResult[i].width = reach[i + 1]
  BY SMT DEF EncodeResult, Count, Field, U32, U64, Id, Digest
<1>4. Size(EncodeResult[10], n) = n["payloads"] * 8
  BY ResultFields, SMT DEF Size, Elements, Each
<1>5. Size(EncodeResult[12], n) = n["covs"] * 8
  BY ResultFields, SMT DEF Size, Elements, Each
<1>6. Size(EncodeResult[18], n) = n["sources"] * 32
  BY ResultFields, SMT DEF Size, Elements, Each
<1>7. \A i \in 1..19 : i \in {10, 12, 18} \/ Size(EncodeResult[i], n) = EncodeResult[i].width
  BY ResultFields, SMT DEF Size, Plain, Count
<1>8. /\ reach[10] + Size(EncodeResult[10], n) <= reach[11]
      /\ reach[12] + Size(EncodeResult[12], n) <= reach[13]
      /\ reach[18] + Size(EncodeResult[18], n) <= reach[19]
  BY <1>4, <1>5, <1>6, WireConstants, SMT
<1> HIDE DEF reach
<1>9. \A i \in 1..19 : reach[i] + Size(EncodeResult[i], n) <= reach[i + 1]
  BY <1>2, <1>3, <1>7, <1>8, SMT
<1> QED
  BY <1>1, <1>2, <1>9, ResultFields, SMT DEF Fits, reach

\* The fields of a checkpoint that are counts or have one.
LEMMA CheckpointFields ==
    /\ Len(EncodeCheckpoint) = 14
    /\ EncodeCheckpoint[6] = Count("dim", 6)
    /\ EncodeCheckpoint[7] = Each("mean", "dim", 1, 8)
    /\ EncodeCheckpoint[8] = Each("stateCov", "dim", 2, 8)
    /\ EncodeCheckpoint[12] = Count("tracked", 16)
    /\ EncodeCheckpoint[13] = Each("position", "tracked", 1, 48)
    /\ \A i \in 1..14 :
          \/ i \in {6, 7, 8, 12, 13}
          \/ Plain(EncodeCheckpoint[i]) /\ EncodeCheckpoint[i].op = "field"
BY SMT DEF EncodeCheckpoint, Plain, Field, U32, U64, Id

LEMMA CheckpointIsSound == Sound(EncodeCheckpoint)
<1> DEFINE list == EncodeCheckpoint
<1>0. Len(list) = 14
  BY CheckpointFields
<1>1. \A i \in 1..14 : list[i].op = "count" => i \in {6, 12}
  BY CheckpointFields, SMT DEF Plain, Each, Blob
<1>2. \A i \in 1..14 : list[i].op \in {"array", "blob"} => i \in {7, 8, 13}
  BY CheckpointFields, SMT DEF Plain, Count
<1>3. Counts(list, 6, 7) /\ Counts(list, 6, 8) /\ Counts(list, 12, 13)
  BY CheckpointFields, WireConstants, CapacityFacts, SMT DEF Counts, Count, Each, Blob, Power
<1>4. \A i \in 1..14 :
         /\ list[i].width \in Nat
         /\ list[i].op = "count" => list[i].cap \in Nat /\ list[i].width = 4
         /\ list[i].op = "array" => Capacity[list[i].name] \in Nat
         /\ list[i].op = "blob" => list[i].power = 1 /\ Capacity[list[i].name] = Storage
  BY CheckpointFields, WireConstants, CapacityFacts, PayloadLimit, SMT DEF Plain, Count, Each, Blob
<1>5. \A i, j \in 1..14 :
         (list[i].op = "count" /\ list[j].op = "count" /\ list[i].name = list[j].name) => i = j
  BY CheckpointFields, <1>1, SMT DEF Count
<1> QED
  BY <1>0, <1>2, <1>3, <1>4, <1>5, SMT DEF Sound

LEMMA CheckpointAgrees == Agree(EncodeCheckpoint, DecodeCheckpoint)
BY SMT DEF Agree, EncodeCheckpoint, DecodeCheckpoint, Field, Dropped, Count, Each, U32, U64, Id

LEMMA CheckpointFits ==
    ASSUME NEW n, n["dim"] \in 0..6, n["tracked"] \in 0..16
    PROVE  Fits(EncodeCheckpoint, Reach["checkpoint"], n)
<1> DEFINE reach == <<0, 4, 8, 40, 48, 52, 56, 104, 392, 396, 400, 404, 408, 1176, 1184>>
<1>1. Reach["checkpoint"] = reach
  BY SMT DEF Reach
<1>2. \A i \in 1..14 : /\ reach[i] \in Nat /\ reach[i + 1] \in Nat
                       /\ reach[i + 1] <= reach[15]
  BY WireConstants, SMT
<1>3. \A i \in 1..14 : i \in {7, 8, 13} \/ reach[i] + EncodeCheckpoint[i].width = reach[i + 1]
  BY SMT DEF EncodeCheckpoint, Count, Field, U32, U64, Id
<1>4. Size(EncodeCheckpoint[7], n) = n["dim"] * 8
  BY CheckpointFields, SMT DEF Size, Elements, Each
<1>5. Size(EncodeCheckpoint[8], n) = (n["dim"] * n["dim"]) * 8
  BY CheckpointFields, SMT DEF Size, Elements, Each
<1>6. Size(EncodeCheckpoint[13], n) = n["tracked"] * 48
  BY CheckpointFields, SMT DEF Size, Elements, Each
<1>7. \A i \in 1..14 : i \in {7, 8, 13} \/ Size(EncodeCheckpoint[i], n) = EncodeCheckpoint[i].width
  BY CheckpointFields, SMT DEF Size, Plain, Count
<1>8. /\ reach[7] + Size(EncodeCheckpoint[7], n) <= reach[8]
      /\ reach[8] + Size(EncodeCheckpoint[8], n) <= reach[9]
      /\ reach[13] + Size(EncodeCheckpoint[13], n) <= reach[14]
  BY <1>4, <1>5, <1>6, WireConstants, SMT
<1> HIDE DEF reach
<1>9. \A i \in 1..14 : reach[i] + Size(EncodeCheckpoint[i], n) <= reach[i + 1]
  BY <1>2, <1>3, <1>7, <1>8, SMT
<1> QED
  BY <1>1, <1>2, <1>9, CheckpointFields, SMT DEF Fits, reach

\* The fields of an event that are counts or have one.
LEMMA EventFields ==
    /\ Len(EncodeEvent) = 7
    /\ EncodeEvent[6] = Count("len", MaxPayload)
    /\ EncodeEvent[7] = Blob("bytes", "len")
    /\ \A i \in 1..7 :
          i \in {6, 7} \/ (Plain(EncodeEvent[i]) /\ EncodeEvent[i].op = "field")
BY SMT DEF EncodeEvent, Plain, Field, U32, U64

LEMMA EventIsSound == Sound(EncodeEvent)
<1> DEFINE list == EncodeEvent
<1>0. Len(list) = 7
  BY EventFields
<1>1. \A i \in 1..7 : list[i].op = "count" => i \in {6}
  BY EventFields, SMT DEF Plain, Each, Blob
<1>2. \A i \in 1..7 : list[i].op \in {"array", "blob"} => i \in {7}
  BY EventFields, SMT DEF Plain, Count
<1>3. Counts(list, 6, 7)
  BY EventFields, WireConstants, CapacityFacts, SMT DEF Counts, Count, Each, Blob, Power
<1>4. \A i \in 1..7 :
         /\ list[i].width \in Nat
         /\ list[i].op = "count" => list[i].cap \in Nat /\ list[i].width = 4
         /\ list[i].op = "array" => Capacity[list[i].name] \in Nat
         /\ list[i].op = "blob" => list[i].power = 1 /\ Capacity[list[i].name] = Storage
  BY EventFields, WireConstants, CapacityFacts, PayloadLimit, SMT DEF Plain, Count, Each, Blob
<1>5. \A i, j \in 1..7 :
         (list[i].op = "count" /\ list[j].op = "count" /\ list[i].name = list[j].name) => i = j
  BY EventFields, <1>1, SMT DEF Count
<1> QED
  BY <1>0, <1>2, <1>3, <1>4, <1>5, SMT DEF Sound

LEMMA EventAgrees == Agree(EncodeEvent, DecodeEvent)
BY SMT DEF Agree, EncodeEvent, DecodeEvent, Field, Dropped, Count, Blob, U32, U64

LEMMA EventFits ==
    ASSUME NEW n, n["len"] \in 0..Storage
    PROVE  Fits(EncodeEvent, Reach["event"], n)
<1> DEFINE reach == <<0, 4, 8, 12, 16, 24, 28, 28 + Storage>>
<1>1. Reach["event"] = reach
  BY SMT DEF Reach
<1>2. \A i \in 1..7 : /\ reach[i] \in Nat /\ reach[i + 1] \in Nat
                      /\ reach[i + 1] <= reach[8]
  BY WireConstants, SMT
<1>3. \A i \in 1..7 : i \in {7} \/ reach[i] + EncodeEvent[i].width = reach[i + 1]
  BY SMT DEF EncodeEvent, Count, Field, U32, U64
<1>4. Size(EncodeEvent[7], n) = n["len"]
  BY EventFields, SMT DEF Size, Elements, Blob
<1>5. \A i \in 1..7 : i \in {7} \/ Size(EncodeEvent[i], n) = EncodeEvent[i].width
  BY EventFields, SMT DEF Size, Plain, Count
<1>6. reach[7] + Size(EncodeEvent[7], n) <= reach[8]
  BY <1>4, WireConstants, SMT
<1> HIDE DEF reach
<1>7. \A i \in 1..7 : reach[i] + Size(EncodeEvent[i], n) <= reach[i + 1]
  BY <1>2, <1>3, <1>5, <1>6, SMT
<1> QED
  BY <1>1, <1>2, <1>7, EventFields, SMT DEF Fits, reach

\* Every codec is safe, and the decoder of a message agrees with its encoder.
LEMMA CodecsAreSound ==
    \A k \in Kind : Sound(Encoder[k]) /\ Sound(Decoder[k]) /\ Agree(Encoder[k], Decoder[k])
<1>1. \A k \in Kind : Sound(Encoder[k]) /\ Agree(Encoder[k], Decoder[k])
  BY PlainCodecs, PlainIsSound, ObservationIsSound, ResultIsSound, CheckpointIsSound, EventIsSound,
     ObservationAgrees, ResultAgrees, CheckpointAgrees, EventAgrees, SMT DEF Kind, Encoder, Decoder
<1> QED
  BY <1>1, AgreeingIsSound
-----------------------------------------------------------------------------
(***************************************************************************)
(* The inductive invariant of the codec.                                   *)
(***************************************************************************)

FieldName == UNION {{Encoder[k][i].name : i \in 1..Len(Encoder[k])} : k \in Kind}

Cell == [at : Nat, name : FieldName, size : Nat, n : Nat]

\* While a message is on its way: what it is, where the cursor is and what
\* lies in the buffer, with a number in every count.
InTransit ==
    /\ msg.kind \in Kind
    /\ \A f \in CountsOf(Encoder[msg.kind]) : msg.n[f.name] \in Nat
    /\ at \in Nat \ {0} /\ off \in Nat /\ len \in Nat
    /\ cells \in Seq(Cell)

\* The counts a decoder has taken are within their limits.
CountsWithinLimits ==
    \A i \in 1..(at - 1) :
        LET f == Decoder[msg.kind][i] IN
        f.op = "count" => /\ f.name \in DOMAIN counts
                          /\ counts[f.name] \in Nat /\ counts[f.name] <= f.cap

\* The bytes it has copied fitted the storage.
BytesWithinStorage ==
    \A i \in 1..(at - 1) :
        LET f == Decoder[msg.kind][i] IN f.op = "blob" => counts[f.of] <= Storage

WireInv ==
    /\ phase \in {"idle", "encode", "framed", "sent", "decode", "done"}
    /\ phase \in {"encode", "framed", "sent", "decode"} => InTransit
    /\ phase = "sent" => at = 1 /\ off = 0
    /\ phase = "decode" => /\ at <= Len(Decoder[msg.kind]) + 1
                           /\ off <= len
                           /\ CountsWithinLimits
                           /\ BytesWithinStorage

\* The numbers that may be found in a count are natural numbers.
LEMMA TriesAreNumbers ==
    ASSUME NEW k \in Kind
    PROVE  /\ \A f \in CountsOf(Encoder[k]) : Tries(f) \subseteq Nat
           /\ \A i \in 1..Len(Decoder[k]) :
                 Decoder[k][i].op = "count" => Tries(Decoder[k][i]) \subseteq Nat
<1>1. ASSUME NEW f, f.cap \in Nat PROVE Tries(f) \subseteq Nat
  <2>1. {0, 1, f.cap, f.cap + 1} \subseteq Nat
    BY <1>1
  <2>2. (IF f.name = "len" THEN {Storage, Storage + 1} ELSE {}) \subseteq Nat
    BY WireConstants
  <2> QED
    BY <2>1, <2>2, WireConstants DEF Tries
<1>2. Sound(Encoder[k]) /\ Sound(Decoder[k])
  BY CodecsAreSound
<1>3. \A i \in 1..Len(Encoder[k]) : Encoder[k][i].op = "count" => Encoder[k][i].cap \in Nat
  BY <1>2 DEF Sound
<1>4. \A i \in 1..Len(Decoder[k]) : Decoder[k][i].op = "count" => Decoder[k][i].cap \in Nat
  BY <1>2 DEF Sound
<1>5. \A f \in CountsOf(Encoder[k]) : f.cap \in Nat
  <2>1. DOMAIN Encoder[k] = 1..Len(Encoder[k])
    OBVIOUS
  <2> QED
    BY <1>3, <2>1 DEF CountsOf
<1> QED
  BY <1>1, <1>4, <1>5

\* The count of an array is among the counts of its message.
LEMMA ArraysAreCounted ==
    ASSUME NEW list, Sound(list), NEW i \in 1..Len(list), list[i].op \in {"array", "blob"},
           NEW n, \A j \in 1..Len(list) : list[j].op = "count" => n[list[j].name] \in Nat
    PROVE  n[list[i].of] \in Nat
<1>1. PICK j \in 1..(i - 1) : Counts(list, j, i)
  BY DEF Sound
<1>2. j \in 1..Len(list) /\ list[j].op = "count" /\ list[j].name = list[i].of
  BY <1>1 DEF Sound, Counts
<1> QED
  BY <1>2

\* A field takes a natural number of bytes when its count is one.
LEMMA SizeIsNatural ==
    ASSUME NEW f, f.width \in Nat, NEW n,
           f.op \in {"array", "blob"} => n[f.of] \in Nat
    PROVE  Size(f, n) \in Nat
<1>1. \A x, y \in Nat : x * y \in Nat
  OBVIOUS
<1>2. CASE f.op \in {"array", "blob"}
  <2>1. Elements(f, n) \in Nat
    BY <1>1, <1>2 DEF Elements
  <2> QED
    BY <1>1, <1>2, <2>1 DEF Size
<1>3. CASE ~(f.op \in {"array", "blob"})
  BY <1>3 DEF Size
<1> QED
  BY <1>2, <1>3

LEMMA ChooseInv ==
    ASSUME Choose
    PROVE  WireInv'
<1>1. PICK k \in Kind : \E b \in Buffers(k), n \in Numbers(k) :
         msg' = [kind |-> k, tx |-> b[1], rx |-> b[2], n |-> n]
  BY DEF Choose
<1>2. msg'.kind = k /\ \A f \in CountsOf(Encoder[k]) : msg'.n[f.name] \in Tries(f)
  BY <1>1 DEF Numbers
<1>3. \A f \in CountsOf(Encoder[k]) : msg'.n[f.name] \in Nat
  BY <1>2, TriesAreNumbers
<1>4. /\ at' = 1 /\ off' = 0 /\ len' = 0 /\ cells' = << >> /\ phase' \in {"done", "encode"}
  BY DEF Choose
<1>5. InTransit'
  BY <1>2, <1>3, <1>4 DEF InTransit
<1> QED
  BY <1>4, <1>5 DEF WireInv

LEMMA EncodeFieldInv ==
    ASSUME WireInv, EncodeField
    PROVE  WireInv'
<1> DEFINE list == Encoder[msg.kind]
           f == list[at]
           size == Size(f, msg.n)
<1>1. /\ phase = "encode" /\ at <= Len(list) /\ at' = at + 1
      /\ UNCHANGED <<msg, phase, len>>
  BY DEF EncodeField
<1>2. InTransit
  BY <1>1 DEF WireInv
<1>3. Sound(list)
  BY <1>2, CodecsAreSound DEF InTransit
<1>4. at \in 1..Len(list)
  BY <1>1, <1>2, <1>3 DEF InTransit, Sound
<1>5. \A i \in 1..Len(list) : list[i].op = "count" => msg.n[list[i].name] \in Nat
  <2>1. DOMAIN list = 1..Len(list)
    BY <1>2 DEF InTransit
  <2> QED
    BY <1>2, <2>1 DEF InTransit, CountsOf
<1>6. f.op \in {"array", "blob"} => msg.n[f.of] \in Nat
  BY <1>3, <1>4, <1>5, ArraysAreCounted
<1>7. size \in Nat
  BY <1>3, <1>4, <1>6, SizeIsNatural DEF Sound
<1>8. f.name \in FieldName
  BY <1>2, <1>4 DEF FieldName, InTransit
<1>9. off' \in Nat /\ cells' \in Seq(Cell)
  <2> DEFINE c == [at |-> off, name |-> f.name, size |-> size,
                   n |-> IF f.op = "count" THEN msg.n[f.name] ELSE 0]
  <2>1. (IF f.op = "count" THEN msg.n[f.name] ELSE 0) \in Nat
    BY <1>4, <1>5
  <2>2. c \in Cell
    BY <1>2, <1>7, <1>8, <2>1 DEF Cell, InTransit
  <2>3. /\ off' \in {off, off + size}
        /\ cells' \in {cells, Append(cells, c)}
    BY DEF EncodeField
  <2> HIDE DEF c, size
  <2>4. off \in Nat /\ cells \in Seq(Cell)
    BY <1>2 DEF InTransit
  <2>5. Append(cells, c) \in Seq(Cell)
    BY <2>2, <2>4
  <2> QED
    BY <1>7, <2>3, <2>4, <2>5
<1>10. InTransit'
  BY <1>1, <1>2, <1>9 DEF InTransit
<1> QED
  BY <1>1, <1>10 DEF WireInv

LEMMA EncodeEndInv ==
    ASSUME WireInv, EncodeEnd \/ DecodeEnd
    PROVE  WireInv'
<1>1. phase' \in {"framed", "done"}
  BY DEF EncodeEnd, DecodeEnd, Finish
<1>2. ASSUME phase' = "framed"
      PROVE  InTransit'
  <2>1. phase = "encode" /\ len' = off /\ UNCHANGED <<msg, at, off, cells>>
    BY <1>2 DEF EncodeEnd, DecodeEnd, Finish
  <2> QED
    BY <2>1 DEF WireInv, InTransit
<1> QED
  BY <1>1, <1>2 DEF WireInv

\* Whatever arrives is a number of bytes, and what lies in them is as before
\* but for the number in one count.
LEMMA HandOverInv ==
    ASSUME WireInv, HandOver
    PROVE  WireInv'
<1>1. InTransit
  BY DEF HandOver, WireInv
<1>2. phase' \in {"sent", "decode"} /\ at' = 1 /\ off' = 0 /\ msg' = msg
  BY DEF HandOver, Handed
<1>3. len' \in Nat /\ cells' \in Seq(Cell)
  <2>1. CASE \/ Handed("none", len) /\ UNCHANGED cells
             \/ Handed("longer", len + 1) /\ UNCHANGED cells
    BY <1>1, <2>1 DEF Handed, InTransit
  <2>2. ASSUME NEW i \in {j \in DOMAIN cells : cells[j].size > 0},
               Handed("cut", cells[i].at + cells[i].size - 1), UNCHANGED cells
        PROVE  len' \in Nat /\ cells' \in Seq(Cell)
    <3>1. cells[i] \in Cell /\ cells[i].size > 0
      BY <1>1, <2>2 DEF InTransit
    <3> QED
      BY <1>1, <2>2, <3>1 DEF Handed, InTransit, Cell
  <2>3. ASSUME NEW f \in CountsOf(Encoder[msg.kind]), NEW n \in Tries(f) \ {msg.n[f.name]},
               Handed("count", len),
               cells' = [i \in DOMAIN cells |->
                           IF cells[i].name = f.name THEN [cells[i] EXCEPT !.n = n] ELSE cells[i]]
        PROVE  len' \in Nat /\ cells' \in Seq(Cell)
    <3>1. n \in Nat
      BY <1>1, <2>3, TriesAreNumbers DEF InTransit
    <3>2. \A c \in Cell : [c EXCEPT !.n = n] \in Cell
      BY <3>1 DEF Cell
    <3>3. /\ DOMAIN cells = 1..Len(cells) /\ Len(cells) \in Nat
          /\ \A i \in DOMAIN cells : cells[i] \in Cell
      BY <1>1 DEF InTransit
    <3>4. cells' \in [1..Len(cells) -> Cell]
      BY <2>3, <3>2, <3>3
    <3>5. cells' \in Seq(Cell)
      BY <3>3, <3>4
    <3> QED
      BY <1>1, <2>3, <3>5 DEF Handed, InTransit
  <2> QED
    BY <2>1, <2>2, <2>3 DEF HandOver
<1>4. InTransit'
  BY <1>1, <1>2, <1>3 DEF InTransit
<1>5. Len(Decoder[msg.kind]) \in Nat
  BY <1>1, CodecsAreSound DEF InTransit, Sound
<1>6. /\ at' <= Len(Decoder[msg'.kind]) + 1 /\ off' <= len'
      /\ CountsWithinLimits' /\ BytesWithinStorage'
  BY <1>2, <1>3, <1>5 DEF CountsWithinLimits, BytesWithinStorage
<1> QED
  BY <1>2, <1>4, <1>6 DEF WireInv

\* What is received is what was sent, as far as it was damaged within a frame
\* that passes: its header tells that nothing was.
LEMMA IntactFrames ==
    ASSUME NEW n \in Nat, NEW h \in Headers(n), NEW s \in Streams(n), NEW cap,
           ReceiveFrame(h, s, cap)
    PROVE  h = EncodeHeader(n) /\ s.bytes = "sent" /\ HeaderLen + n <= s.len /\ h.len = n /\ n <= cap
<1> DEFINE e == EncodeHeader(n)
<1>1. /\ e.magic = "OBWF" /\ e.version = 1 /\ e.len = n
      /\ e.crc.bytes = "sent" /\ e.crc.len = n
  BY DEF EncodeHeader
<1>2. /\ h.magic = "OBWF" /\ h.version = 1
      /\ h.crc.bytes = s.bytes /\ h.crc.len = h.len
      /\ h.len <= cap /\ HeaderLen + h.len <= s.len
  BY DEF ReceiveFrame, DecodeHeader
<1>3. h = e
  <2>1. h # [e EXCEPT !.magic = "other"]
    BY <1>2 DEF EncodeHeader
  <2>2. h # [e EXCEPT !.version = 2]
    BY <1>2 DEF EncodeHeader
  <2>3. h # [e EXCEPT !.crc.bytes = "other"]
    BY <1>2 DEF EncodeHeader, Streams
  <2>4. \A m \in {n - 1, n + 1, MaxPayload + 1} : m # n => h # [e EXCEPT !.len = m]
    BY <1>2 DEF EncodeHeader
  <2>5. [e EXCEPT !.len = n] = e
    BY DEF EncodeHeader
  <2> QED
    BY <2>1, <2>2, <2>3, <2>4, <2>5 DEF Headers
<1> QED
  BY <1>1, <1>2, <1>3

LEMMA ReceiveInv ==
    ASSUME WireInv, Receive
    PROVE  WireInv' /\ (phase' = "decode" => UNCHANGED <<cells, len, damage>>)
<1>1. InTransit /\ phase = "sent" /\ at = 1 /\ off = 0 /\ UNCHANGED <<msg, at, off, ok, counts, got>>
  BY DEF Receive, WireInv
<1>2. PICK h \in Headers(len), s \in Streams(len) :
         /\ damage' = IF Intact(h, s) THEN damage ELSE "frame"
         /\ \/ /\ ReceiveFrame(h, s, msg.rx)
               /\ phase' = "decode" /\ len' = h.len /\ UNCHANGED verdict
               /\ cells' = [i \in DOMAIN cells |->
                              IF s.bytes = "sent" THEN cells[i] ELSE [cells[i] EXCEPT !.name = Junk]]
            \/ /\ ~ReceiveFrame(h, s, msg.rx)
               /\ Finish("dropped") /\ UNCHANGED <<len, cells>>
  BY DEF Receive
<1>3. CASE phase' = "done"
  BY <1>3 DEF WireInv
<1>4. CASE phase' # "done"
  <2>1. /\ ReceiveFrame(h, s, msg.rx) /\ phase' = "decode" /\ len' = h.len
        /\ cells' = [i \in DOMAIN cells |->
                       IF s.bytes = "sent" THEN cells[i] ELSE [cells[i] EXCEPT !.name = Junk]]
    BY <1>2, <1>4 DEF Finish
  <2>2. len \in Nat /\ cells \in Seq(Cell)
    BY <1>1 DEF InTransit
  <2>3. h = EncodeHeader(len) /\ s.bytes = "sent" /\ HeaderLen + len <= s.len /\ h.len = len
    BY <2>1, <2>2, IntactFrames
  <2>4. cells' = cells /\ len' = len /\ damage' = damage
    BY <1>2, <2>1, <2>2, <2>3 DEF Intact
  <2>5. InTransit'
    BY <1>1, <2>4 DEF InTransit
  <2>6. Len(Decoder[msg.kind]) \in Nat
    BY <1>1, CodecsAreSound DEF InTransit, Sound
  <2>7. /\ at' <= Len(Decoder[msg'.kind]) + 1 /\ off' <= len'
        /\ CountsWithinLimits' /\ BytesWithinStorage'
    BY <1>1, <2>2, <2>4, <2>6 DEF CountsWithinLimits, BytesWithinStorage
  <2> QED
    BY <2>1, <2>4, <2>5, <2>7 DEF WireInv
<1> QED
  BY <1>3, <1>4

\* A count is a number, whatever lies at the cursor.
LEMMA FoundIsNumber ==
    ASSUME InTransit, NEW i \in 1..Len(Decoder[msg.kind]),
           Decoder[msg.kind][i].op = "count",
           NEW v \in Found(Decoder[msg.kind][i], 4)
    PROVE  v \in Nat
<1> DEFINE f == Decoder[msg.kind][i]
           named == {j \in {c \in DOMAIN cells : cells[c].at = off /\ cells[c].size = 4} :
                       cells[j].name = f.name}
<1>1. \A j \in DOMAIN cells : cells[j].n \in Nat
  <2>1. \A j \in DOMAIN cells : cells[j] \in Cell
    BY DEF InTransit
  <2>2. \A c \in Cell : c.n \in Nat
    BY DEF Cell
  <2> QED
    BY <2>1, <2>2
<1>2. Tries(f) \subseteq Nat
  BY TriesAreNumbers DEF InTransit
<1>3. v \in (IF named = {} THEN Tries(f) ELSE {cells[j].n : j \in named})
  BY DEF Found
<1> QED
  BY <1>1, <1>2, <1>3

LEMMA DecodeFieldInv ==
    ASSUME WireInv, DecodeField
    PROVE  WireInv'
<1> DEFINE list == Decoder[msg.kind]
           f == list[at]
           size == Size(f, counts)
<1>1. /\ phase = "decode" /\ at <= Len(list) /\ UNCHANGED <<msg, cells, len>>
  BY DEF DecodeField
<1>2. InTransit /\ off <= len /\ CountsWithinLimits /\ BytesWithinStorage
  BY <1>1 DEF WireInv
<1>3. Sound(list)
  BY <1>2, CodecsAreSound DEF InTransit
<1>4. at \in 1..Len(list) /\ Len(list) \in Nat
  BY <1>1, <1>2, <1>3 DEF InTransit, Sound
<1>5. \A i \in 1..at : list[i].op \in {"array", "blob"} =>
         \E j \in 1..(i - 1) : /\ Counts(list, j, i)
                               /\ list[i].of \in DOMAIN counts /\ counts[list[i].of] \in Nat
  BY <1>2, <1>3, <1>4 DEF CountsWithinLimits, Sound, Counts
<1>6. size \in Nat
  <2>1. f.op \in {"array", "blob"} => counts[f.of] \in Nat
    BY <1>4, <1>5
  <2> QED
    BY <1>3, <1>4, <2>1, SizeIsNatural DEF Sound
<1>7. CASE phase' = "done"
  BY <1>7 DEF WireInv
<1>8. ASSUME f.op = "count", size <= len - off, NEW v \in Found(f, size), Accepts(f, v),
             counts' = [c \in DOMAIN counts \cup {f.name} |-> IF c = f.name THEN v ELSE counts[c]],
             at' = at + 1, off' = off + size, phase' = phase
      PROVE  WireInv'
  <2>1. f.width = 4 /\ f.cap \in Nat
    BY <1>3, <1>4, <1>8 DEF Sound
  <2>2. size = 4
    BY <1>8, <2>1 DEF Size
  <2>3. v \in Nat /\ v <= f.cap
    BY <1>2, <1>4, <1>8, <2>2, FoundIsNumber DEF Accepts
  <2>4. \A i \in 1..(at - 1) : list[i].op = "count" => list[i].name # f.name
    <3>1. ASSUME NEW i \in 1..(at - 1), list[i].op = "count", list[i].name = f.name
          PROVE  FALSE
      <4>1. i \in 1..Len(list) /\ i # at
        BY <1>4
      <4> QED
        BY <1>3, <1>4, <1>8, <3>1, <4>1 DEF Sound
    <3> QED
      BY <3>1
  <2>5. /\ f.name \in DOMAIN counts' /\ counts'[f.name] = v
        /\ \A c \in DOMAIN counts :
              c \in DOMAIN counts' /\ (c # f.name => counts'[c] = counts[c])
    BY <1>8
  <2>6. 1..(at' - 1) = (1..(at - 1)) \cup {at}
    BY <1>4, <1>8
  <2> HIDE DEF list, f, size
  <2>7. \A i \in 1..(at' - 1) : list[i].op = "count" =>
           /\ list[i].name \in DOMAIN counts'
           /\ counts'[list[i].name] \in Nat /\ counts'[list[i].name] <= list[i].cap
    <3>1. \A i \in 1..(at - 1) : list[i].op = "count" =>
             /\ list[i].name \in DOMAIN counts
             /\ counts[list[i].name] \in Nat /\ counts[list[i].name] <= list[i].cap
      BY <1>2 DEF CountsWithinLimits, list
    <3>2. list[at] = f
      BY DEF f
    <3> QED
      BY <2>3, <2>4, <2>5, <2>6, <3>1, <3>2
  <2>8. \A i \in 1..(at' - 1) : list[i].op = "blob" => counts'[list[i].of] <= Storage
    <3>1. ASSUME NEW i \in 1..(at - 1), list[i].op = "blob"
          PROVE  counts'[list[i].of] <= Storage
      <4>1. PICK j \in 1..(i - 1) : Counts(list, j, i) /\ list[i].of \in DOMAIN counts
        BY <1>4, <1>5, <3>1
      <4>2. j \in 1..(at - 1) /\ list[j].op = "count" /\ list[j].name = list[i].of
        BY <1>4, <4>1 DEF Counts
      <4>3. counts[list[i].of] <= Storage
        BY <1>2, <3>1 DEF BytesWithinStorage, list
      <4> QED
        BY <2>4, <2>5, <4>1, <4>2, <4>3
    <3>2. list[at].op # "blob"
      BY <1>8 DEF f
    <3> QED
      BY <2>6, <3>1, <3>2
  <2>9. CountsWithinLimits' /\ BytesWithinStorage'
    BY <1>1, <2>7, <2>8 DEF CountsWithinLimits, BytesWithinStorage, list
  <2>10. InTransit'
    BY <1>1, <1>2, <1>8, <2>2 DEF InTransit
  <2>11. at' <= Len(list) + 1 /\ off' <= len
    BY <1>2, <1>4, <1>8, <2>2 DEF InTransit
  <2> QED
    BY <1>1, <1>8, <2>9, <2>10, <2>11 DEF WireInv, list
<1>9. ASSUME f.op # "count", ~(f.op = "blob" /\ Elements(f, counts) > Storage), at' = at + 1,
             off' = IF ok /\ size <= len - off THEN off + size ELSE off,
             UNCHANGED <<phase, counts>>
      PROVE  WireInv'
  <2>1. 1..(at' - 1) = (1..(at - 1)) \cup {at}
    BY <1>4, <1>9
  <2>2. f.op = "blob" => counts[f.of] <= Storage
    <3>1. ASSUME f.op = "blob" PROVE counts[f.of] <= Storage
      <4>1. f.power = 1
        BY <1>3, <1>4, <3>1 DEF Sound
      <4>2. Elements(f, counts) = counts[f.of]
        BY <4>1 DEF Elements
      <4>3. counts[f.of] \in Nat
        BY <1>4, <1>5, <3>1
      <4> QED
        BY <1>9, <3>1, <4>2, <4>3, WireConstants
    <3> QED
      BY <3>1
  <2> HIDE DEF list, f, size
  <2>3. list[at] = f
    BY DEF f
  <2>4. \A i \in 1..(at - 1) : list[i].op = "count" =>
           /\ list[i].name \in DOMAIN counts
           /\ counts[list[i].name] \in Nat /\ counts[list[i].name] <= list[i].cap
    BY <1>2 DEF CountsWithinLimits, list
  <2>5. \A i \in 1..(at - 1) : list[i].op = "blob" => counts[list[i].of] <= Storage
    BY <1>2 DEF BytesWithinStorage, list
  <2>6. \A i \in 1..(at' - 1) : list[i].op = "count" =>
           /\ list[i].name \in DOMAIN counts
           /\ counts[list[i].name] \in Nat /\ counts[list[i].name] <= list[i].cap
    BY <1>9, <2>1, <2>3, <2>4
  <2>7. \A i \in 1..(at' - 1) : list[i].op = "blob" => counts[list[i].of] <= Storage
    BY <2>1, <2>2, <2>3, <2>5
  <2>8. CountsWithinLimits' /\ BytesWithinStorage'
    BY <1>1, <1>9, <2>6, <2>7 DEF CountsWithinLimits, BytesWithinStorage, list
  <2>9. off' \in Nat /\ off' <= len
    BY <1>2, <1>6, <1>9 DEF InTransit
  <2>10. InTransit'
    BY <1>1, <1>2, <1>9, <2>9 DEF InTransit
  <2>11. at' <= Len(list) + 1
    BY <1>4, <1>9
  <2> QED
    BY <1>1, <1>9, <2>8, <2>9, <2>10, <2>11 DEF WireInv, list
<1> QED
  BY <1>7, <1>8, <1>9 DEF DecodeField, Finish

\* Every step of the codec keeps the invariant.
LEMMA NextWire ==
    ASSUME WireInv, [WireNext]_wireVars
    PROVE  WireInv'
<1>1. CASE UNCHANGED wireVars
  BY <1>1 DEF wireVars, WireInv, InTransit, CountsWithinLimits, BytesWithinStorage
<1>2. CASE WireNext
  BY <1>2, ChooseInv, EncodeFieldInv, EncodeEndInv, HandOverInv, ReceiveInv, DecodeFieldInv DEF WireNext
<1> QED
  BY <1>1, <1>2

\* The invariant of the codec, for every message, buffer, number in a count
\* and damage on the way (wire.c with the cursors of wire_cursor.h).
THEOREM WireCorrect == WireSpec => []WireInv
<1>1. WireInit => WireInv
  BY DEF WireInit, WireInv
<1>2. WireInv /\ [WireNext]_wireVars => WireInv'
  BY NextWire
<1> QED
  BY <1>1, <1>2, PTL DEF WireSpec

\* The elements of an array decoded so far are within the structure's array.
LEMMA ElementsFit ==
    ASSUME WireInv, phase = "decode", NEW i \in 1..(at - 1),
           Decoder[msg.kind][i].op \in {"array", "blob"}
    PROVE  Elements(Decoder[msg.kind][i], counts) <= Capacity[Decoder[msg.kind][i].name]
<1> DEFINE list == Decoder[msg.kind]
           f == list[i]
<1>1. /\ InTransit /\ CountsWithinLimits /\ BytesWithinStorage /\ at <= Len(list) + 1
  BY DEF WireInv
<1>2. Sound(list)
  BY <1>1, CodecsAreSound DEF InTransit
<1>3. i \in 1..Len(list) /\ i \in Nat
  BY <1>1, <1>2 DEF InTransit, Sound
<1>4. CASE f.op = "blob"
  <2>1. f.power = 1 /\ Capacity[f.name] = Storage
    BY <1>2, <1>3, <1>4 DEF Sound
  <2>2. counts[f.of] <= Storage
    BY <1>1, <1>4 DEF BytesWithinStorage
  <2> QED
    BY <2>1, <2>2 DEF Elements
<1>5. CASE f.op = "array"
  <2>1. PICK j \in 1..(i - 1) : Counts(list, j, i)
    BY <1>2, <1>3, <1>5 DEF Sound
  <2>2. j \in 1..(at - 1) /\ j \in 1..Len(list)
    BY <1>1, <1>3, <2>1 DEF InTransit
  <2> DEFINE n == counts[f.of]
             cap == list[j].cap
             room == Capacity[f.name]
  <2>3. n \in Nat /\ n <= cap
    BY <1>1, <2>1, <2>2 DEF CountsWithinLimits, Counts
  <2>4. cap \in Nat /\ room \in Nat
    BY <1>2, <1>3, <1>5, <2>1, <2>2 DEF Sound, Counts
  <2>5. Power(cap, f.power) <= room
    BY <1>5, <2>1 DEF Counts
  <2>6. Elements(f, counts) = Power(n, f.power)
    BY DEF Elements, Power
  <2> HIDE DEF n, cap, room, f
  <2>7. \A x, y \in Nat : x <= y => (x * x <= y * y /\ x * x \in Nat /\ y * y \in Nat)
    OBVIOUS
  <2>8. Power(n, f.power) <= room
    BY <2>3, <2>4, <2>5, <2>7 DEF Power
  <2> QED
    BY <2>6, <2>8 DEF f, room
<1> QED
  BY <1>4, <1>5

\* Whatever a count that arrives says, the cursor of a decoder stays within the
\* bytes that arrived, and no array of the native structures gets more elements
\* than it has ("rather than reading out of bounds", wire.h:86).
THEOREM DecodersStayInBounds == WireSpec => []StaysInBounds
<1>1. WireInv => StaysInBounds
  BY ElementsFit DEF StaysInBounds, WireInv
<1> QED
  BY <1>1, WireCorrect, PTL

-----------------------------------------------------------------------------
(***************************************************************************)
(* A message that is not damaged decodes to what was sent, and no other    *)
(* does.                                                                   *)
(***************************************************************************)

\* Where the i-th field ends, by what lies in the buffer.
End(i) == IF i = 0 THEN 0 ELSE cells[i].at + cells[i].size

\* The first m fields lie in the buffer one behind the other.
LaidOut(m) ==
    /\ Len(cells) = m
    /\ \A i \in 1..m :
          LET f == Encoder[msg.kind][i] IN
          /\ cells[i].at = End(i - 1)
          /\ cells[i].name = f.name /\ cells[i].size = Size(f, msg.n)
          /\ f.op = "count" => cells[i].n = msg.n[f.name]
    /\ \A i, j \in 0..m : i <= j => End(i) <= End(j)

\* The value of a field, and the values of the first m fields.
Value(f) == IF f.op = "count" THEN msg.n[f.name] ELSE f.name

Values(m) ==
    {<<Encoder[msg.kind][i].name, Value(Encoder[msg.kind][i])>> :
       i \in {j \in 1..m : Encoder[msg.kind][j].name # "size"}}

\* While a message is encoded and until it arrives: its counts passed the check
\* of its encoder, and one that is sendable has had room so far.
Encoding ==
    /\ \A f \in CountsOf(Encoder[msg.kind]) : msg.n[f.name] <= f.cap
    /\ \E b \in Buffers(msg.kind) : msg.tx = b[1] /\ msg.rx = b[2]
    /\ damage = "none" /\ got = {}
    /\ at <= Len(Encoder[msg.kind]) + 1
    /\ ok => LaidOut(at - 1) /\ off = End(at - 1)
    /\ Sendable => ok /\ off <= Reach[msg.kind][at]

\* While a message with its own counts is decoded: where the cursor stands, a
\* field of the encoder begins, and what was decoded is what was encoded before
\* it.  Only a message that was cut does not have its fields.
Decoding ==
    /\ damage \in {"none", "longer", "cut"}
    /\ \A f \in CountsOf(Encoder[msg.kind]) : msg.n[f.name] <= f.cap
    /\ LaidOut(Len(Encoder[msg.kind]))
    /\ damage = "cut" => len < End(Len(Encoder[msg.kind]))
    /\ damage # "cut" => ok /\ End(Len(Encoder[msg.kind])) <= len
    /\ ok => /\ off = End(at - 1) /\ got = Values(at - 1)
             /\ \A i \in 1..(at - 1) :
                   LET f == Encoder[msg.kind][i]
                   IN  f.op = "count" => counts[f.name] = msg.n[f.name]

ExactInv ==
    /\ phase = "encode" => Encoding
    /\ phase = "framed" => Encoding /\ ok /\ at = Len(Encoder[msg.kind]) + 1 /\ len = off
    /\ (phase \in {"sent", "decode"} /\ damage # "count") => Decoding
    /\ phase = "sent" /\ damage = "none" /\ Sendable => len <= msg.rx /\ len <= MaxPayload
    /\ DecodesWhatWasSent

\* A message within its limits fits the table, field by field.
LEMMA MessageFits ==
    ASSUME NEW k \in Kind, NEW n,
           \A f \in CountsOf(Encoder[k]) : n[f.name] \in Nat /\ n[f.name] <= f.cap,
           k = "event" => n["len"] <= Storage
    PROVE  Fits(Encoder[k], Reach[k], n)
<1>1. \A i \in 1..Len(Encoder[k]) : Encoder[k][i].op = "count" =>
         n[Encoder[k][i].name] \in Nat /\ n[Encoder[k][i].name] <= Encoder[k][i].cap
  <2>1. DOMAIN Encoder[k] = 1..Len(Encoder[k])
    OBVIOUS
  <2> QED
    BY <2>1 DEF CountsOf
<1>2. CASE k = "observation"
  <2>1. Encoder[k] = EncodeObservation
    BY <1>2 DEF Encoder
  <2>2. n["payloads"] \in 0..6 /\ n["covs"] \in 0..36
    BY <1>1, <2>1, ObservationFields, SMT DEF Count
  <2> QED
    BY <1>2, <2>1, <2>2, ObservationFits
<1>3. CASE k = "result"
  <2>1. Encoder[k] = EncodeResult
    BY <1>3 DEF Encoder
  <2>2. n["payloads"] \in 0..6 /\ n["covs"] \in 0..36 /\ n["sources"] \in 0..8
    BY <1>1, <2>1, ResultFields, SMT DEF Count
  <2> QED
    BY <1>3, <2>1, <2>2, ResultFits
<1>4. CASE k = "checkpoint"
  <2>1. Encoder[k] = EncodeCheckpoint
    BY <1>4 DEF Encoder
  <2>2. n["dim"] \in 0..6 /\ n["tracked"] \in 0..16
    BY <1>1, <2>1, CheckpointFields, SMT DEF Count
  <2> QED
    BY <1>4, <2>1, <2>2, CheckpointFits
<1>5. CASE k = "event"
  <2>1. Encoder[k] = EncodeEvent
    BY <1>5 DEF Encoder
  <2>2. n["len"] \in 0..Storage
    BY <1>1, <1>5, <2>1, EventFields, WireConstants, SMT DEF Count
  <2> QED
    BY <1>5, <2>1, <2>2, EventFits
<1>6. CASE k \notin {"observation", "result", "checkpoint", "event"}
  <2>1. PlainMessage(Encoder[k], Decoder[k], Reach[k])
    BY <1>6, PlainCodecs, SMT DEF Kind, Encoder, Decoder
  <2> QED
    BY <2>1, PlainIsSound
<1> QED
  BY <1>2, <1>3, <1>4, <1>5, <1>6

\* The size of the largest message of every kind.
Largest(k) == Reach[k][Len(Encoder[k]) + 1]

LEMMA LargestMessages ==
    /\ Largest("observation") = 444
    /\ Largest("result") = 756
    /\ Largest("checkpoint") = 1184
    /\ Largest("event") = 28 + Storage
    /\ Largest("auth_hello") = 40
    /\ Largest("heartbeat") = 68
    /\ Largest("epoch_grant") = 20
    /\ Largest("epoch_revoke") = 24
    /\ Largest("readiness_report") = 52
    /\ Largest("replay_request") = 40
    /\ Largest("admission_decision") = 96
    /\ Largest("result_ack") = 48
    /\ Largest("status_reply") = 32
<1>2. Largest("observation") = 444
  <2>1. Encoder["observation"] = EncodeObservation /\ Len(EncodeObservation) = 17
    BY SMT DEF Encoder, EncodeObservation
  <2>2. Reach["observation"][18] = 444
    BY SMT DEF Reach
  <2> QED
    BY <2>1, <2>2 DEF Largest
<1>3. Largest("result") = 756
  <2>1. Encoder["result"] = EncodeResult /\ Len(EncodeResult) = 19
    BY SMT DEF Encoder, EncodeResult
  <2>2. Reach["result"][20] = 756
    BY SMT DEF Reach
  <2> QED
    BY <2>1, <2>2 DEF Largest
<1>4. Largest("checkpoint") = 1184
  <2>1. Encoder["checkpoint"] = EncodeCheckpoint /\ Len(EncodeCheckpoint) = 14
    BY SMT DEF Encoder, EncodeCheckpoint
  <2>2. Reach["checkpoint"][15] = 1184
    BY SMT DEF Reach
  <2> QED
    BY <2>1, <2>2 DEF Largest
<1>5. Largest("event") = 28 + Storage
  <2>1. Encoder["event"] = EncodeEvent /\ Len(EncodeEvent) = 7
    BY SMT DEF Encoder, EncodeEvent
  <2>2. Reach["event"][8] = 28 + Storage
    BY SMT DEF Reach
  <2> QED
    BY <2>1, <2>2 DEF Largest
<1>6. Largest("auth_hello") = 40
  <2>1. Encoder["auth_hello"] = EncodeAuthHello /\ Len(EncodeAuthHello) = 3
    BY SMT DEF Encoder, EncodeAuthHello
  <2>2. Reach["auth_hello"][4] = 40
    BY SMT DEF Reach
  <2> QED
    BY <2>1, <2>2 DEF Largest
<1>7. Largest("heartbeat") = 68
  <2>1. Encoder["heartbeat"] = EncodeHeartbeat /\ Len(EncodeHeartbeat) = 7
    BY SMT DEF Encoder, EncodeHeartbeat
  <2>2. Reach["heartbeat"][8] = 68
    BY SMT DEF Reach
  <2> QED
    BY <2>1, <2>2 DEF Largest
<1>8. Largest("epoch_grant") = 20
  <2>1. Encoder["epoch_grant"] = EncodeEpochGrant /\ Len(EncodeEpochGrant) = 3
    BY SMT DEF Encoder, EncodeEpochGrant
  <2>2. Reach["epoch_grant"][4] = 20
    BY SMT DEF Reach
  <2> QED
    BY <2>1, <2>2 DEF Largest
<1>9. Largest("epoch_revoke") = 24
  <2>1. Encoder["epoch_revoke"] = EncodeEpochRevoke /\ Len(EncodeEpochRevoke) = 4
    BY SMT DEF Encoder, EncodeEpochRevoke
  <2>2. Reach["epoch_revoke"][5] = 24
    BY SMT DEF Reach
  <2> QED
    BY <2>1, <2>2 DEF Largest
<1>10. Largest("readiness_report") = 52
  <2>1. Encoder["readiness_report"] = EncodeReadinessReport /\ Len(EncodeReadinessReport) = 5
    BY SMT DEF Encoder, EncodeReadinessReport
  <2>2. Reach["readiness_report"][6] = 52
    BY SMT DEF Reach
  <2> QED
    BY <2>1, <2>2 DEF Largest
<1>11. Largest("replay_request") = 40
  <2>1. Encoder["replay_request"] = EncodeReplayRequest /\ Len(EncodeReplayRequest) = 2
    BY SMT DEF Encoder, EncodeReplayRequest
  <2>2. Reach["replay_request"][3] = 40
    BY SMT DEF Reach
  <2> QED
    BY <2>1, <2>2 DEF Largest
<1>12. Largest("admission_decision") = 96
  <2>1. Encoder["admission_decision"] = EncodeAdmissionDecision /\ Len(EncodeAdmissionDecision) = 7
    BY SMT DEF Encoder, EncodeAdmissionDecision
  <2>2. Reach["admission_decision"][8] = 96
    BY SMT DEF Reach
  <2> QED
    BY <2>1, <2>2 DEF Largest
<1>13. Largest("result_ack") = 48
  <2>1. Encoder["result_ack"] = EncodeResultAck /\ Len(EncodeResultAck) = 4
    BY SMT DEF Encoder, EncodeResultAck
  <2>2. Reach["result_ack"][5] = 48
    BY SMT DEF Reach
  <2> QED
    BY <2>1, <2>2 DEF Largest
<1>14. Largest("status_reply") = 32
  <2>1. Encoder["status_reply"] = EncodeStatusReply /\ Len(EncodeStatusReply) = 5
    BY SMT DEF Encoder, EncodeStatusReply
  <2>2. Reach["status_reply"][6] = 32
    BY SMT DEF Reach
  <2> QED
    BY <2>1, <2>2 DEF Largest
<1> QED
  BY <1>2, <1>3, <1>4, <1>5, <1>6, <1>7, <1>8, <1>9, <1>10, <1>11, <1>12, <1>13, <1>14

\* No message that fits the table is too large for the buffers it travels in.
LEMMA BuffersAreEnough ==
    ASSUME NEW k \in Kind, NEW b \in Buffers(k)
    PROVE  /\ b[1] \in Nat /\ Largest(k) <= b[1]
           /\ k \in Framed => b[2] \in Nat /\ b[2] <= 4096 /\ Largest(k) <= b[2]
<1>1. CASE k \in Framed
  <2>1. b \in Hops[k] /\ Framed = {"observation", "admission_decision", "replay_request",
           "auth_hello", "result", "heartbeat", "result_ack", "status_reply"}
    BY <1>1, SMT DEF Buffers, Framed, Hops
  <2>2. CASE k \in {"observation", "admission_decision", "replay_request", "auth_hello"}
    BY <2>1, <2>2, LargestMessages, SMT DEF Hops
  <2>3. CASE k \in {"result", "heartbeat", "result_ack", "status_reply"}
    BY <2>1, <2>3, LargestMessages, SMT DEF Hops
  <2> QED
    BY <1>1, <2>1, <2>2, <2>3
<1>3. CASE k \notin Framed
  <2>1. b = <<ApiBuffer, ApiBuffer>>
    BY <1>3, SMT DEF Buffers
  <2>2. k \in {"checkpoint", "event", "epoch_grant", "epoch_revoke", "readiness_report"}
    BY <1>3, SMT DEF Kind, Encoder, Framed, Hops
  <2> QED
    BY <1>3, <2>1, <2>2, LargestMessages, WireConstants, ApiBufferIsEnough, SMT
<1> QED
  BY <1>1, <1>3

\* A message that is sendable fits the table.
LEMMA SendableFits ==
    ASSUME InTransit, Sendable
    PROVE  Fits(Encoder[msg.kind], Reach[msg.kind], msg.n)
BY MessageFits DEF InTransit, Sendable

LEMMA ChooseExact ==
    ASSUME Choose
    PROVE  ExactInv'
<1>1. PICK k \in Kind : \E b \in Buffers(k), n \in Numbers(k) :
         msg' = [kind |-> k, tx |-> b[1], rx |-> b[2], n |-> n]
  BY DEF Choose
<1>2. /\ msg'.kind = k
      /\ \E b \in Buffers(k) : msg'.tx = b[1] /\ msg'.rx = b[2]
      /\ \A f \in CountsOf(Encoder[k]) : msg'.n[f.name] \in Tries(f)
  BY <1>1 DEF Numbers
<1>3. \A f \in CountsOf(Encoder[k]) : msg'.n[f.name] \in Nat /\ f.cap \in Nat
  <2>1. Sound(Encoder[k]) /\ DOMAIN Encoder[k] = 1..Len(Encoder[k])
    BY CodecsAreSound
  <2> QED
    BY <1>2, <2>1, TriesAreNumbers DEF Sound, CountsOf
<1>4. /\ at' = 1 /\ off' = 0 /\ ok' = TRUE /\ cells' = << >> /\ damage' = "none" /\ got' = {}
      /\ phase' \in {"done", "encode"}
  BY DEF Choose
<1>5. CASE \E f \in CountsOf(Encoder[k]) : msg'.n[f.name] > f.cap
  <2>1. phase' = "done" /\ verdict' # "ok"
    BY <1>2, <1>5 DEF Choose
  <2>2. ~Sendable'
    BY <1>2, <1>3, <1>5 DEF Sendable
  <2> QED
    BY <2>1, <2>2 DEF ExactInv, DecodesWhatWasSent
<1>6. CASE ~ \E f \in CountsOf(Encoder[k]) : msg'.n[f.name] > f.cap
  <2>1. phase' = "encode"
    BY <1>2, <1>6 DEF Choose
  <2>2. \A f \in CountsOf(Encoder[k]) : msg'.n[f.name] <= f.cap
    BY <1>3, <1>6
  <2>3. Len(Encoder[k]) \in Nat
    BY CodecsAreSound DEF Sound
  <2>4. LaidOut(0)' /\ End(0)' = 0
    BY <1>4 DEF LaidOut, End
  <2>5. Sendable' => Reach[k][1] = 0
    <3>1. ASSUME Sendable' PROVE Reach[k][1] = 0
      <4>1. k = "event" => msg'.n["len"] <= Storage
        BY <1>2, <3>1 DEF Sendable
      <4> QED
        BY <1>3, <2>2, <4>1, MessageFits DEF Fits
    <3> QED
      BY <3>1
  <2>6. at' - 1 = 0
    BY <1>4
  <2>7. Encoding'
    BY <1>2, <1>4, <2>2, <2>3, <2>4, <2>5, <2>6 DEF Encoding
  <2> QED
    BY <2>1, <2>7 DEF ExactInv, DecodesWhatWasSent
<1> QED
  BY <1>5, <1>6

\* A field that fits is laid out behind the others.
LEMMA AppendLaysOut ==
    ASSUME NEW m \in 1..Len(Encoder[msg.kind]), LaidOut(m - 1), off = End(m - 1),
           cells \in Seq(Cell), off \in Nat, msg' = msg, Len(Encoder[msg.kind]) \in Nat,
           NEW c \in Cell, c.at = off, c.name = Encoder[msg.kind][m].name,
           c.size = Size(Encoder[msg.kind][m], msg.n),
           Encoder[msg.kind][m].op = "count" => c.n = msg.n[c.name],
           cells' = Append(cells, c)
    PROVE  LaidOut(m)' /\ End(m)' = off + c.size
<1> DEFINE list == Encoder[msg.kind]
           size == c.size
<1>1. Len(cells) = m - 1 /\ m \in Nat /\ m # 0
  BY DEF LaidOut
<1>2. /\ Len(cells') = m /\ cells'[m] = c
      /\ \A i \in 1..(m - 1) : cells'[i] = cells[i]
  BY <1>1
<1>3. \A i \in 0..(m - 1) : End(i)' = End(i)
  BY <1>1, <1>2 DEF End
<1>4. End(m)' = off + size
  BY <1>1, <1>2 DEF End
<1>5. \A i \in 0..(m - 1) : End(i) \in Nat
  <2>1. \A i \in 1..(m - 1) : cells[i] \in Cell
    BY <1>1
  <2>2. \A x \in Cell : x.at + x.size \in Nat
    BY DEF Cell
  <2> QED
    BY <1>1, <2>1, <2>2 DEF End
<1>6. \A i, j \in 0..m : i <= j => End(i)' <= End(j)'
  <2>1. \A i, j \in 0..(m - 1) : i <= j => End(i) <= End(j)
    BY DEF LaidOut
  <2>2. 0..m = (0..(m - 1)) \cup {m} /\ m - 1 \in 0..(m - 1)
    BY <1>1
  <2>3. \A i \in 0..(m - 1) : End(i) <= off /\ ~(m <= i)
    BY <1>1, <2>1
  <2>4. size \in Nat
    BY DEF Cell
  <2> HIDE DEF size
  <2>5. \A i \in 0..(m - 1) : End(i)' <= End(m)'
    <3>1. ASSUME NEW i \in 0..(m - 1) PROVE End(i)' <= End(m)'
      <4>1. End(i)' = End(i) /\ End(i) \in Nat /\ End(i) <= off
        BY <1>3, <1>5, <2>3
      <4>2. \A x, y, z \in Nat : x <= y => x <= y + z
        OBVIOUS
      <4>3. End(i) <= off + size
        BY <2>4, <4>1, <4>2
      <4> QED
        BY <1>4, <4>1, <4>3
    <3> QED
      BY <3>1
  <2>6. End(m)' <= End(m)'
    BY <1>4, <2>4
  <2> QED
    BY <1>3, <2>1, <2>2, <2>3, <2>5, <2>6
<1>7. \A i \in 1..m :
         /\ cells'[i].at = End(i - 1)'
         /\ cells'[i].name = list[i].name /\ cells'[i].size = Size(list[i], msg.n)
         /\ list[i].op = "count" => cells'[i].n = msg.n[list[i].name]
  <2>1. \A i \in 1..(m - 1) :
         /\ cells[i].at = End(i - 1)
         /\ cells[i].name = list[i].name /\ cells[i].size = Size(list[i], msg.n)
         /\ list[i].op = "count" => cells[i].n = msg.n[list[i].name]
    BY DEF LaidOut
  <2>2. 1..m = (1..(m - 1)) \cup {m} /\ \A i \in 1..m : i - 1 \in 0..(m - 1)
    BY <1>1
  <2>3. End(m - 1)' = off
    BY <1>1, <1>3, <2>2
  <2> QED
    BY <1>2, <1>3, <2>1, <2>2, <2>3
<1> QED
  BY <1>2, <1>4, <1>6, <1>7 DEF LaidOut

LEMMA EncodeFieldExact ==
    ASSUME WireInv, ExactInv, EncodeField
    PROVE  ExactInv'
<1> DEFINE list == Encoder[msg.kind]
           f == list[at]
           size == Size(f, msg.n)
           c == [at |-> off, name |-> f.name, size |-> size,
                 n |-> IF f.op = "count" THEN msg.n[f.name] ELSE 0]
<1>1. /\ phase = "encode" /\ at <= Len(list) /\ at' = at + 1
      /\ UNCHANGED <<msg, phase, damage, got>>
  BY DEF EncodeField
<1>2. InTransit /\ Encoding
  BY <1>1 DEF WireInv, ExactInv
<1>3. Sound(list)
  BY <1>2, CodecsAreSound DEF InTransit
<1>4. at \in 1..Len(list) /\ Len(list) \in Nat /\ off \in Nat
  BY <1>1, <1>2, <1>3 DEF InTransit, Sound
<1>5. \A i \in 1..Len(list) : list[i].op = "count" => msg.n[list[i].name] \in Nat
  <2>1. DOMAIN list = 1..Len(list)
    OBVIOUS
  <2> QED
    BY <1>2, <2>1 DEF InTransit, CountsOf
<1>6. size \in Nat
  <2>1. f.op \in {"array", "blob"} => msg.n[f.of] \in Nat
    BY <1>3, <1>4, <1>5, ArraysAreCounted
  <2> QED
    BY <1>3, <1>4, <2>1, SizeIsNatural DEF Sound
<1>7. c \in Cell
  <2>1. (IF f.op = "count" THEN msg.n[f.name] ELSE 0) \in Nat
    BY <1>4, <1>5
  <2>2. f.name \in FieldName
    BY <1>2, <1>4 DEF FieldName, InTransit
  <2> QED
    BY <1>4, <1>6, <2>1, <2>2 DEF Cell
<1>8. /\ ok' = (ok /\ size <= msg.tx - off)
      /\ ok' => off' = off + size /\ cells' = Append(cells, c)
  BY DEF EncodeField
<1>9. ASSUME ok'
      PROVE  (LaidOut(at - 1) /\ off = End(at - 1))'
  <2>1. ok /\ off' = off + size /\ cells' = Append(cells, c)
    BY <1>8, <1>9
  <2>2. LaidOut(at - 1) /\ off = End(at - 1) /\ cells \in Seq(Cell)
    BY <1>2, <2>1 DEF Encoding, InTransit
  <2>3. PICK m : m = at
    OBVIOUS
  <2>4. /\ c.at = off /\ c.name = f.name /\ c.size = size
        /\ f.op = "count" => c.n = msg.n[f.name]
    OBVIOUS
  <2> HIDE DEF c
  <2>5. LaidOut(m)' /\ End(m)' = off + c.size
    BY <1>1, <1>4, <1>7, <2>1, <2>2, <2>3, <2>4, AppendLaysOut
  <2>6. at' - 1 = m
    BY <1>1, <1>4, <2>3
  <2> QED
    BY <2>1, <2>4, <2>5, <2>6
<1>10. ASSUME Sendable
       PROVE  ok' /\ off' <= Reach[msg.kind][at']
  <2>1. Fits(list, Reach[msg.kind], msg.n)
    BY <1>2, <1>10, SendableFits
  <2>2. ok /\ off <= Reach[msg.kind][at]
    BY <1>2, <1>10 DEF Encoding
  <2>3. PICK b \in Buffers(msg.kind) : msg.tx = b[1]
    BY <1>2 DEF Encoding
  <2>4. msg.tx \in Nat /\ Largest(msg.kind) <= msg.tx
    BY <1>2, <2>3, BuffersAreEnough DEF InTransit
  <2> DEFINE here == Reach[msg.kind][at]
             after == Reach[msg.kind][at + 1]
             last == Largest(msg.kind)
  <2>5. here \in Nat /\ after \in Nat /\ here + size <= after /\ after <= last
    BY <1>4, <2>1 DEF Fits, Largest
  <2>6. last \in Nat
    BY <1>4, <2>1 DEF Fits, Largest
  <2>7. off <= here /\ after = Reach[msg.kind][at']
    BY <1>1, <2>2
  <2> HIDE DEF here, after, last, size
  <2>8. size <= msg.tx - off /\ off + size <= after
    BY <1>4, <1>6, <2>4, <2>5, <2>6, <2>7 DEF last
  <2> QED
    BY <1>8, <2>2, <2>7, <2>8
<1>11. Sendable' = Sendable
  BY <1>1 DEF Sendable
<1>12. Encoding'
  <2>1. at' <= Len(list) + 1
    BY <1>1, <1>4
  <2> QED
    BY <1>1, <1>2, <1>9, <1>10, <1>11, <2>1 DEF Encoding
<1> QED
  BY <1>1, <1>12 DEF ExactInv, DecodesWhatWasSent

LEMMA EncodeEndExact ==
    ASSUME WireInv, ExactInv, EncodeEnd
    PROVE  ExactInv'
<1> DEFINE list == Encoder[msg.kind]
<1>1. /\ phase = "encode" /\ at > Len(list)
      /\ UNCHANGED <<msg, at, off, ok, cells, damage, got>>
      /\ \/ ok /\ phase' = "framed" /\ len' = off
         \/ ~ok /\ phase' = "done" /\ verdict' = "too_small"
  BY DEF EncodeEnd, Finish
<1>2. InTransit /\ Encoding
  BY <1>1 DEF WireInv, ExactInv
<1>3. at = Len(list) + 1
  <2>1. Len(list) \in Nat /\ at \in Nat /\ at <= Len(list) + 1
    BY <1>2, CodecsAreSound DEF InTransit, Sound, Encoding
  <2> QED
    BY <1>1, <2>1
<1>4. Sendable' = Sendable
  BY <1>1 DEF Sendable
<1>5. Encoding'
  BY <1>1, <1>2, <1>4 DEF Encoding, LaidOut, End
<1>6. CASE phase' = "framed"
  BY <1>1, <1>3, <1>5, <1>6 DEF ExactInv, DecodesWhatWasSent
<1>7. CASE phase' = "done"
  BY <1>1, <1>2, <1>4, <1>7 DEF ExactInv, DecodesWhatWasSent, Encoding
<1> QED
  BY <1>1, <1>6, <1>7

\* A message that is sendable has room where it is received.
LEMMA SendableHasRoom ==
    ASSUME WireInv, ExactInv, phase = "framed", msg.kind \in Framed, Sendable
    PROVE  len <= msg.rx /\ len <= MaxPayload
<1>2. InTransit /\ Encoding /\ at = Len(Encoder[msg.kind]) + 1 /\ len = off
  BY DEF WireInv, ExactInv
<1>3. off <= Largest(msg.kind)
  BY <1>2 DEF Encoding, Largest
<1>4. PICK b \in Buffers(msg.kind) : msg.rx = b[2]
  BY <1>2 DEF Encoding
<1>5. msg.rx \in Nat /\ msg.rx <= 4096 /\ Largest(msg.kind) <= msg.rx
  BY <1>2, <1>4, BuffersAreEnough DEF InTransit
<1>6. Largest(msg.kind) \in Nat
  BY <1>2, LargestMessages, WireConstants DEF InTransit, Kind, Encoder
<1>7. 4096 <= MaxPayload /\ MaxPayload \in Nat
  BY SMT DEF MaxPayload
<1>8. \A w, x, y, z \in Nat :
         (w <= x /\ x <= y /\ y <= 4096 /\ 4096 <= z) => (w <= y /\ w <= z)
  OBVIOUS
<1>9. len \in Nat /\ len <= Largest(msg.kind)
  BY <1>2, <1>3 DEF InTransit
<1> QED
  BY <1>5, <1>6, <1>7, <1>8, <1>9

\* A frame that is intact and has room is received.
LEMMA IntactIsReceived ==
    ASSUME NEW n \in Nat, NEW cap, n <= cap, n <= MaxPayload, NEW s,
           s.bytes = "sent", HeaderLen + n <= s.len, s.len \in Int
    PROVE  ReceiveFrame(EncodeHeader(n), s, cap)
<1>1. DecodeHeader(EncodeHeader(n)) = "ok"
  BY PayloadLimit, SMT DEF DecodeHeader, EncodeHeader
<1>2. HeaderLen <= s.len
  BY SMT DEF HeaderLen
<1> QED
  BY <1>1, <1>2, SMT DEF ReceiveFrame, EncodeHeader

\* Where the fields of a message end, once it is laid out.
LEMMA EndsAreNumbers ==
    ASSUME NEW m \in Nat, LaidOut(m), cells \in Seq(Cell)
    PROVE  \A i \in 0..m : End(i) \in Nat /\ End(i) <= End(m)
<1>1. \A i \in 1..m : cells[i] \in Cell
  BY DEF LaidOut
<1>2. \A x \in Cell : x.at + x.size \in Nat
  BY DEF Cell
<1>3. \A i \in 0..m : End(i) \in Nat
  BY <1>1, <1>2 DEF End
<1>4. \A i \in 0..m : End(i) <= End(m)
  BY DEF LaidOut
<1> QED
  BY <1>3, <1>4

LEMMA HandOverExact ==
    ASSUME WireInv, ExactInv, HandOver
    PROVE  ExactInv'
<1> DEFINE list == Encoder[msg.kind]
<1>1. /\ phase = "framed" /\ phase' \in {"sent", "decode"} /\ msg' = msg /\ got' = got
      /\ at' = 1 /\ off' = 0 /\ ok' = TRUE
  BY DEF HandOver, Handed
<1>2. InTransit /\ Encoding /\ ok /\ at = Len(list) + 1 /\ len = off
  BY <1>1 DEF WireInv, ExactInv
<1>3. Len(list) \in Nat /\ cells \in Seq(Cell)
  BY <1>2, CodecsAreSound DEF InTransit, Sound
<1>4. LaidOut(Len(list)) /\ len = End(Len(list))
  <2>1. at - 1 = Len(list)
    BY <1>2, <1>3
  <2> QED
    BY <1>2, <2>1 DEF Encoding
<1>5. \A i \in 0..Len(list) : End(i) \in Nat /\ End(i) <= End(Len(list))
  BY <1>3, <1>4, EndsAreNumbers
<1>6. ASSUME damage' # "count"
      PROVE  Decoding'
  <2>1. /\ UNCHANGED cells /\ damage' \in {"none", "longer", "cut"}
        /\ damage' # "cut" => len' \in {len, len + 1}
        /\ damage' = "cut" => \E i \in {j \in DOMAIN cells : cells[j].size > 0} :
                                len' = cells[i].at + cells[i].size - 1
    BY <1>6 DEF HandOver, Handed
  <2>2. damage' # "cut" => End(Len(list)) <= len'
    BY <1>3, <1>4, <1>5, <2>1
  <2>3. damage' = "cut" => len' < End(Len(list))
    <3>1. ASSUME NEW i \in DOMAIN cells, len' = cells[i].at + cells[i].size - 1
          PROVE  len' < End(Len(list))
      <4>1. i \in 1..Len(list)
        BY <1>3, <1>4 DEF LaidOut
      <4>2. End(i) \in Nat /\ End(Len(list)) \in Nat /\ End(i) <= End(Len(list))
        BY <1>3, <1>5, <4>1
      <4>3. End(i) = cells[i].at + cells[i].size
        BY <4>1 DEF End
      <4>4. cells[i].at \in Nat /\ cells[i].size \in Nat
        <5>1. cells[i] \in Cell
          BY <1>3, <3>1
        <5> QED
          BY <5>1 DEF Cell
      <4> QED
        BY <3>1, <4>2, <4>3, <4>4
    <3> QED
      BY <2>1, <3>1
  <2>4. LaidOut(Len(list))' /\ End(Len(list))' = End(Len(list)) /\ End(0)' = 0
    BY <1>1, <1>4, <2>1 DEF LaidOut, End
  <2>5. at' - 1 = 0 /\ Values(0)' = {} /\ got = {}
    BY <1>1, <1>2 DEF Values, Encoding
  <2>6. \A g \in CountsOf(list) : msg.n[g.name] <= g.cap
    BY <1>2 DEF Encoding
  <2> QED
    BY <1>1, <2>1, <2>2, <2>3, <2>4, <2>5, <2>6 DEF Decoding
<1>7. ASSUME phase' = "sent", damage' = "none", Sendable'
      PROVE  (len <= msg.rx /\ len <= MaxPayload)'
  <2>1. msg.kind \in Framed /\ len' = len
    BY <1>7 DEF HandOver, Handed
  <2>2. Sendable
    BY <1>1, <1>7 DEF Sendable
  <2> QED
    BY <1>1, <2>1, <2>2, SendableHasRoom
<1> QED
  BY <1>1, <1>6, <1>7 DEF ExactInv, DecodesWhatWasSent

LEMMA ReceiveExact ==
    ASSUME WireInv, ExactInv, Receive
    PROVE  ExactInv'
<1>1. /\ InTransit /\ phase = "sent" /\ phase' \in {"decode", "done"}
      /\ UNCHANGED <<msg, at, off, ok, counts, got>>
  BY DEF Receive, WireInv, Finish
<1>2. Sendable' = Sendable
  BY <1>1 DEF Sendable
<1>3. CASE phase' = "decode"
  <2>1. UNCHANGED <<cells, len, damage>>
    BY <1>3, ReceiveInv
  <2>2. damage # "count" => Decoding'
    <3>1. ASSUME damage # "count" PROVE Decoding'
      <4>1. Decoding
        BY <1>1, <3>1 DEF ExactInv
      <4>2. \A m : End(m)' = End(m)
        BY <2>1 DEF End
      <4>3. LaidOut(Len(Encoder[msg.kind]))' = LaidOut(Len(Encoder[msg.kind]))
        BY <1>1, <2>1 DEF LaidOut, End
      <4>4. \A m : Values(m)' = Values(m)
        BY <1>1 DEF Values, Value
      <4> QED
        BY <1>1, <2>1, <4>1, <4>2, <4>3, <4>4 DEF Decoding
    <3> QED
      BY <3>1
  <2> QED
    BY <1>3, <2>1, <2>2 DEF ExactInv, DecodesWhatWasSent
<1>4. CASE phase' = "done"
  <2>1. PICK h \in Headers(len), s \in Streams(len) :
           /\ damage' = IF Intact(h, s) THEN damage ELSE "frame"
           /\ ~ReceiveFrame(h, s, msg.rx) /\ verdict' = "dropped"
    BY <1>4 DEF Receive, Finish
  <2>2. ASSUME damage' = "none", Sendable PROVE FALSE
    <3>1. Intact(h, s) /\ damage = "none"
      BY <2>1, <2>2
    <3>2. len <= msg.rx /\ len <= MaxPayload
      BY <1>1, <2>2, <3>1 DEF ExactInv
    <3>3. len \in Nat /\ s.len \in Int
      <4>1. len \in Nat
        BY <1>1 DEF InTransit
      <4> QED
        BY <4>1 DEF Streams, HeaderLen
    <3>4. h = EncodeHeader(len) /\ s.bytes = "sent" /\ HeaderLen + len <= s.len
      BY <3>1 DEF Intact
    <3> QED
      BY <2>1, <3>2, <3>3, <3>4, IntactIsReceived
  <2> QED
    BY <1>2, <1>4, <2>1, <2>2 DEF ExactInv, DecodesWhatWasSent
<1> QED
  BY <1>1, <1>3, <1>4

\* The decoder reads each field where it was written and finds its value.
LEMMA FieldIsFound ==
    ASSUME WireInv, phase = "decode", Decoding, ok, at \in 1..Len(Encoder[msg.kind])
    PROVE  LET e == Encoder[msg.kind][at]
               f == Decoder[msg.kind][at]
               size == Size(f, counts)
           IN  /\ size \in Nat /\ off + size = End(at)
               /\ f.op \in {"array", "blob"} => counts[f.of] = msg.n[f.of]
               /\ \A v \in Found(f, size) : v = Value(e)
<1> DEFINE list == Encoder[msg.kind]
           e == list[at]
           f == Decoder[msg.kind][at]
           size == Size(f, counts)
           m == Len(list)
<1>1. InTransit /\ m \in Nat /\ cells \in Seq(Cell) /\ at \in 1..m
  BY CodecsAreSound DEF WireInv, InTransit, Sound
<1>2. Sound(list) /\ Agree(list, Decoder[msg.kind])
  BY <1>1, CodecsAreSound DEF InTransit
<1>3. \/ f = e
      \/ e = Field("size", 4) /\ f = Dropped("size", 4)
  BY <1>1, <1>2 DEF Agree
<1>4. f.op \in {"array", "blob"} => f = e /\ counts[f.of] = msg.n[f.of] /\ msg.n[f.of] \in Nat
  <2>1. ASSUME f.op \in {"array", "blob"}
        PROVE  f = e /\ counts[f.of] = msg.n[f.of] /\ msg.n[f.of] \in Nat
    <3>1. f = e
      BY <1>3, <2>1 DEF Dropped
    <3>2. PICK j \in 1..(at - 1) : Counts(list, j, at)
      BY <1>1, <1>2, <2>1, <3>1 DEF Sound
    <3>3. j \in 1..m /\ list[j] \in CountsOf(list)
      BY <1>1, <3>2 DEF Counts, CountsOf
    <3>4. counts[list[j].name] = msg.n[list[j].name] /\ msg.n[list[j].name] \in Nat
      BY <1>1, <3>2, <3>3 DEF Decoding, Counts, InTransit
    <3> QED
      BY <3>1, <3>2, <3>4 DEF Counts
  <2> QED
    BY <2>1
<1>5. size = Size(e, msg.n)
  <2>1. CASE f.op \in {"array", "blob"}
    <3>1. f = e /\ counts[f.of] = msg.n[f.of]
      BY <1>4, <2>1
    <3>2. Elements(f, counts) = Elements(e, msg.n)
      BY <3>1 DEF Elements
    <3> QED
      BY <3>1, <3>2 DEF Size
  <2>2. CASE ~(f.op \in {"array", "blob"})
    <3>1. ~(e.op \in {"array", "blob"}) /\ f.width = e.width
      BY <1>3, <2>2 DEF Field, Dropped
    <3> QED
      BY <2>2, <3>1 DEF Size
  <2> QED
    BY <2>1, <2>2
<1>6. size \in Nat
  <2>1. f.width \in Nat
    BY <1>1, <1>2, <1>3 DEF Sound, Dropped
  <2> QED
    BY <1>4, <2>1, SizeIsNatural
<1>7. /\ cells[at].at = End(at - 1) /\ off = End(at - 1)
      /\ cells[at].name = e.name /\ cells[at].size = size
      /\ e.op = "count" => cells[at].n = msg.n[e.name]
  BY <1>1, <1>5 DEF Decoding, LaidOut
<1>8. off + size = End(at)
  BY <1>1, <1>7 DEF End
<1>9. \A i \in DOMAIN cells : (size # 0 /\ cells[i].at = off /\ cells[i].size = size) => i = at
  <2>1. DOMAIN cells = 1..m /\ at \in 1..m /\ off \in Nat
    BY <1>1 DEF Decoding, LaidOut, InTransit
  <2>2. /\ \A i \in 1..m : cells[i].at = End(i - 1) /\ End(i) = cells[i].at + cells[i].size
        /\ \A i, j \in 0..m : i <= j => End(i) <= End(j)
    <3>1. LaidOut(m)
      BY <1>1 DEF Decoding
    <3>2. \A i \in 1..m : cells[i].at = End(i - 1)
      BY <3>1 DEF LaidOut
    <3>3. \A i, j \in 0..m : i <= j => End(i) <= End(j)
      BY <3>1 DEF LaidOut
    <3>4. \A i \in 1..m : i # 0
      OBVIOUS
    <3>5. \A i \in 1..m : End(i) = cells[i].at + cells[i].size
      BY <3>4, Zenon DEF End
    <3> QED
      BY <3>2, <3>3, <3>5
  <2> HIDE DEF size, m
  <2>3. ASSUME NEW i \in 1..m, size # 0, cells[i].at = off, cells[i].size = size, i < at
        PROVE  FALSE
    <3>1. i \in 0..m /\ at - 1 \in 0..m /\ i <= at - 1
      BY <1>1, <2>1, <2>3
    <3>2. off + size <= off
      BY <1>7, <2>2, <2>3, <3>1
    <3> QED
      BY <1>6, <2>1, <2>3, <3>2
  <2>4. ASSUME NEW i \in 1..m, size # 0, cells[i].at = off, cells[i].size = size, i > at
        PROVE  FALSE
    <3>1. at \in 0..m /\ i - 1 \in 0..m /\ at <= i - 1
      BY <1>1, <2>1, <2>4
    <3>2. off + size <= off
      BY <1>8, <2>2, <2>4, <3>1
    <3> QED
      BY <1>6, <2>1, <2>4, <3>2
  <2> QED
    BY <1>1, <2>1, <2>3, <2>4
<1>10. ASSUME NEW v \in Found(f, size)
       PROVE  v = Value(e)
  <2> DEFINE here == {i \in DOMAIN cells : cells[i].at = off /\ cells[i].size = size}
             named == {i \in here : cells[i].name = f.name}
  <2>1. f.name = e.name /\ (f.op = "count" <=> e.op = "count")
    BY <1>3 DEF Field, Dropped
  <2>2. CASE size = 0
    <3>1. v = f.name
      BY <2>2, <1>10 DEF Found
    <3>2. e.op # "count"
      <4>1. e.op = "count" => e.width = 4
        BY <1>1, <1>2 DEF Sound
      <4> QED
        BY <1>5, <2>2, <4>1 DEF Size
    <3> QED
      BY <2>1, <3>1, <3>2 DEF Value
  <2>3. CASE size # 0
    <3>1. at \in DOMAIN cells
      BY <1>1 DEF Decoding, LaidOut
    <3>2. here = {at}
      BY <1>7, <1>9, <2>3, <3>1
    <3>3. named = {at}
      BY <1>7, <2>1, <3>2
    <3>4. v \in (IF f.op = "count"
                 THEN IF named = {} THEN Tries(f) ELSE {cells[i].n : i \in named}
                 ELSE IF here = {} THEN {Junk} ELSE {cells[i].name : i \in here})
      BY <1>10, <2>3 DEF Found
    <3> HIDE DEF here, named, size, f, e
    <3>5. v = IF f.op = "count" THEN cells[at].n ELSE cells[at].name
      BY <3>2, <3>3, <3>4
    <3> QED
      BY <1>7, <2>1, <3>5 DEF Value
  <2> QED
    BY <2>2, <2>3
<1> QED
  BY <1>4, <1>6, <1>8, <1>10

\* The bytes of an event are the only ones copied to the caller's storage.
LEMMA OnlyEventsHaveBytes ==
    ASSUME NEW k \in Kind, NEW i \in 1..Len(Decoder[k]), Decoder[k][i].op = "blob"
    PROVE  k = "event" /\ Decoder[k][i].of = "len" /\ Encoder[k][i].op = "blob"
<1>1. Decoder[k][i] = Encoder[k][i] /\ Len(Decoder[k]) = Len(Encoder[k])
  BY CodecsAreSound DEF Agree, Dropped
<1>2. CASE k \notin {"observation", "result", "checkpoint", "event"}
  <2>1. PlainMessage(Encoder[k], Decoder[k], Reach[k])
    BY <1>2, PlainCodecs, SMT DEF Kind, Encoder, Decoder
  <2> QED
    BY <1>1, <2>1 DEF PlainMessage
<1>3. CASE k = "observation"
  <2>1. Encoder[k] = EncodeObservation
    BY <1>3 DEF Encoder
  <2> QED
    BY <1>1, <2>1, ObservationFields, SMT DEF Count, Each
<1>4. CASE k = "result"
  <2>1. Encoder[k] = EncodeResult
    BY <1>4 DEF Encoder
  <2> QED
    BY <1>1, <2>1, ResultFields, SMT DEF Count, Each
<1>5. CASE k = "checkpoint"
  <2>1. Encoder[k] = EncodeCheckpoint
    BY <1>5 DEF Encoder
  <2> QED
    BY <1>1, <2>1, CheckpointFields, SMT DEF Count, Each
<1>6. CASE k = "event"
  <2>1. Encoder[k] = EncodeEvent
    BY <1>6 DEF Encoder
  <2> QED
    BY <1>1, <1>6, <2>1, EventFields, SMT DEF Count, Blob
<1> QED
  BY <1>2, <1>3, <1>4, <1>5, <1>6

LEMMA DecodeFieldExact ==
    ASSUME WireInv, ExactInv, DecodeField
    PROVE  ExactInv'
<1> DEFINE list == Encoder[msg.kind]
           e == list[at]
           f == Decoder[msg.kind][at]
           size == Size(f, counts)
<1>1. /\ phase = "decode" /\ at <= Len(Decoder[msg.kind])
      /\ phase' \in {"decode", "done"} /\ UNCHANGED <<msg, cells, len, damage>>
  BY DEF DecodeField, Finish
<1>2. CASE damage = "count"
  BY <1>1, <1>2 DEF ExactInv, DecodesWhatWasSent
<1>3. CASE damage # "count"
  <2>1. InTransit /\ Decoding
    BY <1>1, <1>3 DEF WireInv, ExactInv
  <2>2. Sound(list) /\ Agree(list, Decoder[msg.kind])
    BY <2>1, CodecsAreSound DEF InTransit
  <2>3. /\ Len(list) \in Nat /\ at \in 1..Len(list) /\ Len(Decoder[msg.kind]) = Len(list)
        /\ len \in Nat /\ off \in Nat
    BY <1>1, <2>1, <2>2 DEF InTransit, Sound, Agree
  <2>4. ok => /\ size \in Nat /\ off + size = End(at)
              /\ f.op \in {"array", "blob"} => counts[f.of] = msg.n[f.of]
              /\ \A v \in Found(f, size) : v = Value(e)
    BY <1>1, <2>1, <2>3, FieldIsFound
  <2>5. damage # "cut" => ok /\ size <= len - off
    <3>1. ASSUME damage # "cut" PROVE ok /\ size <= len - off
      <4>1. ok /\ End(Len(list)) <= len
        BY <2>1, <3>1 DEF Decoding
      <4>2. End(at) \in Nat /\ End(Len(list)) \in Nat /\ End(at) <= End(Len(list))
        BY <2>1, <2>3, EndsAreNumbers DEF Decoding, InTransit
      <4>3. size \in Nat /\ off + size = End(at)
        BY <2>4, <4>1
      <4> HIDE DEF size
      <4> QED
        BY <2>3, <4>1, <4>2, <4>3
    <3> QED
      BY <3>1
  <2>6. Sendable' = Sendable
    BY <1>1 DEF Sendable
  <2>7. CASE phase' = "done"
    <3>1. verdict' # "ok"
      BY <1>1, <2>7 DEF DecodeField, Finish
    <3>2. ASSUME damage # "cut", Sendable PROVE FALSE
      <4>1. ok /\ size <= len - off
        BY <2>5, <3>2
      <4>2. \/ \E v \in Found(f, size) : f.op = "count" /\ ~Accepts(f, v)
            \/ f.op = "blob" /\ Elements(f, counts) > Storage
        BY <1>1, <2>7, <4>1 DEF DecodeField
      <4>3. ASSUME NEW v \in Found(f, size), f.op = "count", ~Accepts(f, v) PROVE FALSE
        <5>1. f = e
          BY <2>2, <2>3, <4>3 DEF Agree, Dropped
        <5>2. v = msg.n[f.name]
          BY <2>4, <4>1, <4>3, <5>1 DEF Value
        <5>3. f \in CountsOf(list)
          BY <2>3, <4>3, <5>1 DEF CountsOf
        <5> QED
          BY <2>1, <4>3, <5>2, <5>3 DEF Decoding, Accepts
      <4>4. ASSUME f.op = "blob", Elements(f, counts) > Storage PROVE FALSE
        <5>1. msg.kind = "event" /\ f.of = "len"
          BY <2>1, <2>3, <4>4, OnlyEventsHaveBytes DEF InTransit
        <5>2. f.power = 1
          BY <2>1, <2>3, <4>4, CodecsAreSound DEF Sound, InTransit
        <5>3. Elements(f, counts) = counts["len"]
          BY <5>1, <5>2 DEF Elements
        <5>4. counts["len"] = msg.n["len"]
          BY <2>4, <4>1, <4>4, <5>1
        <5>5. msg.n["len"] <= Storage
          BY <3>2, <5>1 DEF Sendable
        <5>6. msg.n["len"] \in Nat
          <6>1. Encoder[msg.kind] = EncodeEvent
            BY <5>1 DEF Encoder
          <6>2. EncodeEvent[6] \in CountsOf(EncodeEvent) /\ EncodeEvent[6].name = "len"
            BY EventFields, SMT DEF CountsOf, Count
          <6> QED
            BY <2>1, <6>1, <6>2 DEF InTransit
        <5> QED
          BY <4>4, <5>3, <5>4, <5>5, <5>6, WireConstants
      <4> QED
        BY <4>2, <4>3, <4>4
    <3> QED
      BY <1>1, <2>1, <2>6, <2>7, <3>1, <3>2 DEF Decoding, ExactInv, DecodesWhatWasSent
  <2>8. CASE phase' = "decode"
    <3>1. /\ at' = at + 1 /\ (ok' = (ok /\ size <= len - off))
          /\ ok' => off' = off + size
      BY <1>1, <2>8 DEF DecodeField, Finish
    <3>2. ASSUME ok'
          PROVE  (/\ off = End(at - 1) /\ got = Values(at - 1)
                  /\ \A i \in 1..(at - 1) :
                        LET g == Encoder[msg.kind][i]
                        IN  g.op = "count" => counts[g.name] = msg.n[g.name])'
      <4>1. ok /\ size <= len - off /\ off' = off + size
        BY <3>1, <3>2
      <4>2. PICK m : m = at
        OBVIOUS
      <4>3. m = at' - 1 /\ m \in 1..Len(list) /\ m \in Nat /\ 1..m = (1..(m - 1)) \cup {m}
        BY <2>3, <3>1, <4>2
      <4>4. off' = End(m)'
        BY <1>1, <2>4, <4>1, <4>2 DEF End
      <4>5. got' = IF e.name = "size" THEN got ELSE got \cup {<<e.name, Value(e)>>}
        <5>1. CASE f = e /\ e.op # "dropped" /\ e.name # "size"
          <6>1. \E v \in Found(f, size) : got' = got \cup {<<f.name, v>>}
            BY <1>1, <2>8, <4>1, <5>1 DEF DecodeField, Finish
          <6> QED
            BY <2>4, <4>1, <5>1, <6>1
        <5>2. CASE e = Field("size", 4) /\ f = Dropped("size", 4)
          <6>1. f.op = "dropped" /\ e.name = "size"
            BY <5>2 DEF Field, Dropped
          <6>2. got' = got
            BY <1>1, <2>8, <6>1 DEF DecodeField, Finish
          <6> QED
            BY <6>1, <6>2
        <5> QED
          BY <2>2, <2>3, <5>1, <5>2 DEF Agree
      <4>6. got = Values(m - 1) /\ off = End(m - 1)
        BY <2>1, <4>1, <4>2 DEF Decoding
      <4>7. got' = Values(m)'
        <5>1. Values(m) = IF list[m].name = "size" THEN Values(m - 1)
                          ELSE Values(m - 1) \cup {<<list[m].name, Value(list[m])>>}
          BY <4>3 DEF Values
        <5>2. Values(m)' = Values(m)
          BY <1>1 DEF Values, Value
        <5> QED
          BY <4>2, <4>5, <4>6, <5>1, <5>2
      <4>8. \A i \in 1..m : list[i].op = "count" => counts'[list[i].name] = msg.n[list[i].name]
        <5>1. \A i \in 1..(m - 1) : list[i].op = "count" => counts[list[i].name] = msg.n[list[i].name]
          BY <2>1, <4>1, <4>2 DEF Decoding
        <5>2. CASE f.op = "count"
          <6>1. f = e
            BY <2>2, <2>3, <5>2 DEF Agree, Dropped
          <6>2. \E v \in Found(f, size) :
                   counts' = [c \in DOMAIN counts \cup {f.name} |-> IF c = f.name THEN v ELSE counts[c]]
            BY <1>1, <2>8, <5>2 DEF DecodeField, Finish
          <6>3. counts' = [c \in DOMAIN counts \cup {f.name} |->
                             IF c = f.name THEN msg.n[f.name] ELSE counts[c]]
            BY <2>4, <4>1, <5>2, <6>1, <6>2 DEF Value
          <6>4. \A i \in 1..(m - 1) : list[i].op = "count" =>
                   list[i].name \in DOMAIN counts /\ list[i].name # f.name
            <7>1. ASSUME NEW i \in 1..(m - 1), list[i].op = "count"
                  PROVE  list[i].name \in DOMAIN counts /\ list[i].name # f.name
              <8>1. i \in 1..Len(list) /\ i # m /\ i \in 1..(at - 1)
                BY <2>3, <4>2, <4>3
              <8>2. Decoder[msg.kind][i] = list[i]
                BY <2>2, <7>1, <8>1 DEF Agree, Field
              <8>3. list[i].name \in DOMAIN counts
                BY <1>1, <7>1, <8>1, <8>2 DEF WireInv, CountsWithinLimits
              <8> QED
                BY <2>2, <2>3, <4>2, <5>2, <6>1, <7>1, <8>1, <8>3 DEF Sound
            <7> QED
              BY <7>1
          <6> HIDE DEF list, f, e, size
          <6>5. /\ counts'[f.name] = msg.n[f.name] /\ list[m].name = f.name
                /\ \A c \in DOMAIN counts : c # f.name => counts'[c] = counts[c]
            BY <4>2, <6>1, <6>3 DEF e
          <6> QED
            BY <4>3, <5>1, <6>4, <6>5
        <5>3. CASE f.op # "count"
          <6>1. counts' = counts
            BY <1>1, <2>8, <5>3 DEF DecodeField, Finish
          <6>2. list[m].op # "count"
            BY <2>2, <2>3, <4>2, <5>3 DEF Agree, Field
          <6> QED
            BY <4>3, <5>1, <6>1, <6>2
        <5> QED
          BY <5>2, <5>3
      <4> QED
        BY <1>1, <4>3, <4>4, <4>7, <4>8
    <3>3. damage # "cut" => ok'
      BY <2>5, <3>1
    <3>4. LaidOut(Len(list))' /\ End(Len(list))' = End(Len(list))
      BY <1>1, <2>1 DEF Decoding, LaidOut, End
    <3>5. Decoding'
      BY <1>1, <2>1, <3>2, <3>3, <3>4 DEF Decoding
    <3> QED
      BY <2>8, <3>5 DEF ExactInv, DecodesWhatWasSent
  <2> QED
    BY <1>1, <2>7, <2>8
<1> QED
  BY <1>2, <1>3

LEMMA DecodeEndExact ==
    ASSUME WireInv, ExactInv, DecodeEnd
    PROVE  ExactInv'
<1> DEFINE list == Encoder[msg.kind]
<1>1. /\ phase = "decode" /\ at > Len(Decoder[msg.kind]) /\ phase' = "done"
      /\ verdict' = (IF ok THEN "ok" ELSE "malformed")
      /\ UNCHANGED <<msg, damage, got>>
  BY DEF DecodeEnd, Finish
<1>2. CASE damage = "count"
  BY <1>1, <1>2 DEF ExactInv, DecodesWhatWasSent
<1>3. CASE damage # "count"
  <2>1. InTransit /\ Decoding /\ at <= Len(Decoder[msg.kind]) + 1 /\ off <= len
    BY <1>1, <1>3 DEF WireInv, ExactInv
  <2>2. Sound(list) /\ Agree(list, Decoder[msg.kind])
    BY <2>1, CodecsAreSound DEF InTransit
  <2>3. /\ Len(list) \in Nat /\ Len(Decoder[msg.kind]) = Len(list) /\ len \in Nat
        /\ at - 1 = Len(list)
    BY <1>1, <2>1, <2>2 DEF InTransit, Sound, Agree
  <2>4. Sendable' = Sendable /\ Sent' = Sent
    BY <1>1 DEF Sendable, Sent
  <2>5. CASE ~ok
    <3>1. damage = "cut"
      BY <2>1, <2>5 DEF Decoding
    <3> QED
      BY <1>1, <2>5, <3>1 DEF ExactInv, DecodesWhatWasSent
  <2>6. CASE ok
    <3>1. off = End(Len(list)) /\ got = Values(Len(list))
      BY <2>1, <2>3, <2>6 DEF Decoding
    <3>2. damage \in {"none", "longer"}
      <4>1. End(Len(list)) \in Nat
        BY <2>1, <2>3, EndsAreNumbers DEF Decoding, InTransit
      <4>2. damage # "cut"
        BY <2>1, <2>3, <3>1, <4>1 DEF Decoding
      <4> QED
        BY <2>1, <4>2 DEF Decoding
    <3>3. Sendable
      <4>1. ASSUME msg.kind = "event" PROVE msg.n["len"] <= Storage
        <5>1. list = EncodeEvent
          BY <4>1 DEF Encoder
        <5>2. /\ list[6].op = "count" /\ list[6].name = "len" /\ Len(list) = 7
              /\ list[7].op = "blob" /\ list[7].of = "len"
          BY <5>1, EventFields, SMT DEF Count, Blob
        <5>3. Decoder[msg.kind][7] = list[7]
          BY <2>2, <5>2 DEF Agree, Field
        <5>4. 6 \in 1..(at - 1) /\ 7 \in 1..(at - 1)
          BY <2>3, <5>2
        <5>5. counts["len"] <= Storage
          BY <1>1, <5>2, <5>3, <5>4 DEF WireInv, BytesWithinStorage
        <5>6. counts["len"] = msg.n["len"]
          BY <2>1, <2>6, <5>2, <5>4 DEF Decoding
        <5> QED
          BY <5>5, <5>6
      <4> QED
        BY <2>1, <4>1 DEF Sendable, Decoding
    <3>4. got = Sent
      <4>1. Range(list) = {list[i] : i \in 1..Len(list)}
        BY DEF Range
      <4> QED
        BY <3>1, <4>1 DEF Sent, Values, Value
    <3> QED
      BY <1>1, <2>4, <2>6, <3>2, <3>3, <3>4 DEF ExactInv, DecodesWhatWasSent
  <2> QED
    BY <2>5, <2>6
<1> QED
  BY <1>2, <1>3

LEMMA NextExact ==
    ASSUME WireInv, ExactInv, [WireNext]_wireVars
    PROVE  ExactInv'
<1>1. CASE UNCHANGED wireVars
  <2>1. /\ UNCHANGED <<msg, phase, at, off, ok, cells, len, damage, counts, got, verdict>>
    BY <1>1 DEF wireVars
  <2>2. \A m : End(m)' = End(m) /\ LaidOut(m)' = LaidOut(m) /\ Values(m)' = Values(m)
    BY <2>1 DEF End, LaidOut, Values, Value
  <2>3. Sendable' = Sendable /\ Sent' = Sent
    BY <2>1 DEF Sendable, Sent
  <2>4. Encoding' = Encoding
    BY <2>1, <2>2, <2>3 DEF Encoding
  <2>5. Decoding' = Decoding
    BY <2>1, <2>2 DEF Decoding
  <2> QED
    BY <2>1, <2>3, <2>4, <2>5 DEF ExactInv, DecodesWhatWasSent
<1>2. CASE WireNext
  BY <1>2, ChooseExact, EncodeFieldExact, EncodeEndExact, HandOverExact, ReceiveExact,
     DecodeFieldExact, DecodeEndExact DEF WireNext
<1> QED
  BY <1>1, <1>2

\* Every message whose counts are within its limits fits the buffers it travels
\* in and decodes to the values that were encoded; one that was cut, or whose
\* frame was damaged on the link, does not decode (wire.c, osal_recv_frame).
THEOREM WhatDecodesWasSent == WireSpec => []DecodesWhatWasSent
<1>1. WireInit => ExactInv
  BY DEF WireInit, ExactInv, DecodesWhatWasSent
<1>2. WireInv /\ ExactInv /\ [WireNext]_wireVars => ExactInv'
  BY NextExact
<1>3. ExactInv => DecodesWhatWasSent
  BY DEF ExactInv
<1> QED
  BY <1>1, <1>2, <1>3, WireCorrect, PTL DEF WireSpec
=============================================================================
