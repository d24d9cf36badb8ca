---------------------------- MODULE BrokerProofs ----------------------------
(***************************************************************************)
(* A broker process, for every queue capacity, stream length, number of    *)
(* lost frames, promotions and late answers: what it takes in is paired    *)
(* and ordered right, and its gate connection behaves as GateLink.tla.     *)
(* Then the sensor policy a broker applies to each window, for every       *)
(* number of actions, every mask, numbering and cost table, every margin   *)
(* and every freshness window.                                             *)
(***************************************************************************)
EXTENDS Broker, Policy, FiniteSetTheorems, WellFoundedInduction, TLAPS

-----------------------------------------------------------------------------
(***************************************************************************)
(* The inductive invariant of the intake.                                  *)
(***************************************************************************)

\* The place of a frame in the journal's stream: data 2c - 1, decision 2c.
Place(f) == 2 * f.cursor - (IF f.type = "REPLAY_DATA" THEN 1 ELSE 0)

\* The frames still to be read, with the one the journal will send next.
Stream == Append(frames, sending)

IntakeType ==
    /\ In!TypeOK
    /\ \A i \in 1..Len(frames) : frames[i].cursor <= MaxWindow

\* The stream keeps its order and misses, from the pending observation on or
\* between any two of its frames, no more frames than were lost.
StreamHasGaps ==
    alive =>
    /\ \A i, j \in 1..Len(Stream) : i < j => Place(Stream[i]) < Place(Stream[j])
    /\ \A i, j \in 1..Len(Stream) : i < j => Place(Stream[j]) - Place(Stream[i]) <= j - i + losses
    /\ pending # In!None =>
          /\ 2 * pending - 1 < Place(Stream[1])
          /\ \A i \in 1..Len(Stream) : Place(Stream[i]) - (2 * pending - 1) <= i + losses

\* What was paired already comes before all that is still to be read.
PairedBeforeStream ==
    alive => \A i \in 1..Len(Stream) :
        /\ 2 * last < Place(Stream[i])
        /\ \A k \in 1..Len(queue) : 2 * queue[k].cursor < Place(Stream[i])
        /\ \A k \in 1..Len(batch) : 2 * batch[k].cursor < Place(Stream[i])

\* What was processed, the batch and the queue continue one another.
InLine ==
    /\ \A k \in 1..Len(batch) : last < batch[k].cursor
    /\ \A k \in 1..Len(queue) : last < queue[k].cursor
    /\ \A k, m \in 1..Len(batch) : k < m => batch[k].cursor < batch[m].cursor
    /\ \A k, m \in 1..Len(queue) : k < m => queue[k].cursor < queue[m].cursor
    /\ \A k \in 1..Len(batch), m \in 1..Len(queue) : batch[k].cursor < queue[m].cursor

\* OneLossNeverMispairs, by position.
PairedRight ==
    losses <= 1 =>
        /\ \A k \in 1..Len(queue) : queue[k].obs = queue[k].cursor
        /\ \A k \in 1..Len(batch) : batch[k].obs = batch[k].cursor

IntakeInv ==
    /\ IntakeType
    /\ StreamHasGaps
    /\ PairedBeforeStream
    /\ InLine
    /\ PairedRight
-----------------------------------------------------------------------------
(***************************************************************************)
(* The inductive invariant of the gate link.                               *)
(***************************************************************************)

IsStatus(r) == r.kind = "STATUS_REPLY"

\* The epochs in the replies continue the broker's belief, in order, up to
\* the gate's epoch.
RepliesRise ==
    /\ belief <= epoch
    /\ \A i \in 1..Len(replies) :
          IsStatus(replies[i]) => belief <= replies[i].epoch /\ replies[i].epoch <= epoch
    /\ \A i, j \in 1..Len(replies) :
          (i < j /\ IsStatus(replies[i]) /\ IsStatus(replies[j]))
          => replies[i].epoch <= replies[j].epoch

LinkInv == Link!TypeOK /\ RepliesRise

BrokerInv == IntakeInv /\ LinkInv
-----------------------------------------------------------------------------
(***************************************************************************)
(* Facts about frames and the stream.                                      *)
(***************************************************************************)

\* Places are numbers, and each frame type has its parity.
LEMMA FramePlace ==
    ASSUME NEW f \in In!Frame
    PROVE  /\ f.cursor \in Nat /\ f.cursor >= 1 /\ Place(f) \in Int
           /\ f.type \in {"REPLAY_DATA", "ADMISSION_DECISION"}
           /\ f.type = "REPLAY_DATA" => Place(f) = 2 * f.cursor - 1
           /\ f.type = "ADMISSION_DECISION" => Place(f) = 2 * f.cursor
<1>1. /\ f.cursor \in 1..(MaxWindow + 1) /\ MaxWindow \in Nat
      /\ f.type \in {"REPLAY_DATA", "ADMISSION_DECISION"}
  BY BrokerConstants DEF In!Frame
<1> QED
  BY <1>1 DEF Place

\* send_ring_entry sends the frame of the next place.
LEMMA AfterIsNext ==
    ASSUME NEW f \in In!Frame, f.cursor <= MaxWindow
    PROVE  In!After(f) \in In!Frame /\ Place(In!After(f)) = Place(f) + 1
<1>1. /\ f.cursor \in 1..(MaxWindow + 1) /\ MaxWindow \in Nat /\ f.cursor \in Nat
      /\ f.type \in {"REPLAY_DATA", "ADMISSION_DECISION"}
  BY BrokerConstants DEF In!Frame
<1>2. CASE f.type = "REPLAY_DATA"
  <2>1. In!After(f) = [type |-> "ADMISSION_DECISION", cursor |-> f.cursor]
    BY <1>2 DEF In!After
  <2>2. In!After(f) \in In!Frame
    BY <1>1, <2>1 DEF In!Frame
  <2> QED
    BY <1>1, <1>2, <2>1, <2>2 DEF Place
<1>3. CASE f.type = "ADMISSION_DECISION"
  <2>1. In!After(f) = [type |-> "REPLAY_DATA", cursor |-> f.cursor + 1]
    BY <1>3 DEF In!After
  <2>2. In!After(f) \in In!Frame
    <3>1. f.cursor + 1 \in 1..(MaxWindow + 1)
      BY <1>1
    <3> QED
      BY <2>1, <3>1 DEF In!Frame
  <2> QED
    BY <1>1, <1>3, <2>1, <2>2 DEF Place
<1> QED
  BY <1>1, <1>2, <1>3

\* The stream as a sequence.
LEMMA StreamFacts ==
    ASSUME IntakeType
    PROVE  /\ Stream \in Seq(In!Frame) /\ Len(Stream) = Len(frames) + 1 /\ Len(frames) \in Nat
           /\ \A i \in 1..Len(frames) : Stream[i] = frames[i]
           /\ Stream[Len(frames) + 1] = sending
           /\ \A i \in 1..Len(Stream) : Stream[i] \in In!Frame /\ Place(Stream[i]) \in Int
<1>1. frames \in Seq(In!Frame) /\ sending \in In!Frame
  BY DEF IntakeType, In!TypeOK
<1>2. /\ Stream \in Seq(In!Frame) /\ Len(Stream) = Len(frames) + 1 /\ Len(frames) \in Nat
      /\ \A i \in 1..Len(frames) : Stream[i] = frames[i]
      /\ Stream[Len(frames) + 1] = sending
  BY <1>1 DEF Stream
<1>3. \A i \in 1..Len(Stream) : Stream[i] \in In!Frame
  BY <1>2
<1> QED
  BY <1>2, <1>3, FramePlace

\* What the entries in the queue and the batch are.
LEMMA EntryFacts ==
    ASSUME IntakeType
    PROVE  /\ \A k \in 1..Len(queue) : queue[k] \in In!Entry /\ queue[k].cursor \in Nat
           /\ \A k \in 1..Len(batch) : batch[k] \in In!Entry /\ batch[k].cursor \in Nat
           /\ last \in Nat /\ losses \in Nat /\ pending \in Nat
           /\ Len(queue) \in Nat /\ Len(batch) \in Nat
<1>1. /\ queue \in Seq(In!Entry) /\ batch \in Seq(In!Entry)
      /\ last \in {In!None} \cup In!Cursor /\ pending \in {In!None} \cup In!Cursor
      /\ losses \in 0..MaxLosses /\ MaxWindow \in Nat /\ MaxLosses \in Nat
  BY BrokerConstants DEF IntakeType, In!TypeOK
<1>2. \A e \in In!Entry : e.cursor \in Nat
  BY <1>1 DEF In!Entry, In!Cursor
<1>3. last \in Nat /\ losses \in Nat /\ pending \in Nat
  BY <1>1 DEF In!None, In!Cursor
<1>4. /\ \A k \in 1..Len(queue) : queue[k] \in In!Entry
      /\ \A k \in 1..Len(batch) : batch[k] \in In!Entry
      /\ Len(queue) \in Nat /\ Len(batch) \in Nat
  BY <1>1
<1> QED
  BY <1>2, <1>3, <1>4
-----------------------------------------------------------------------------
(***************************************************************************)
(* The journal's end of the stream.                                        *)
(***************************************************************************)

\* A frame is sent or lost: a lost one widens the last gap by one.
LEMMA SendFrameInv ==
    ASSUME IntakeInv, NEW lost \in BOOLEAN, In!SendFrame(lost)
    PROVE  IntakeInv'
<1> DEFINE n == Len(frames)
           next == In!After(sending)
<1>1. /\ alive /\ sending.cursor <= MaxWindow
      /\ lost => losses < MaxLosses
      /\ frames' = IF lost THEN frames ELSE Append(frames, sending)
      /\ losses' = IF lost THEN losses + 1 ELSE losses
      /\ sending' = next
      /\ pending' = pending /\ alive' = alive /\ queue' = queue /\ batch' = batch
      /\ last' = last /\ entered' = entered /\ done' = done
  BY DEF In!SendFrame
<1>0. sent' \in [In!Cursor -> In!Window]
  <2>1. sent \in [In!Cursor -> In!Window]
    BY DEF IntakeInv, IntakeType, In!TypeOK
  <2>2. CASE sending.type = "REPLAY_DATA"
    <3>1. PICK w \in In!InRing(sending.cursor) : sent' = [sent EXCEPT ![sending.cursor] = w]
      BY <2>2 DEF In!SendFrame
    <3>2. sending.cursor \in Nat /\ sending.cursor >= 1
      BY FramePlace DEF IntakeInv, IntakeType, In!TypeOK
    <3>3. w \in In!Window
      <4>1. w \in sending.cursor..MaxWindow
        BY DEF In!InRing
      <4> QED
        BY <3>2, <4>1, BrokerConstants DEF In!Window
    <3> QED
      BY <2>1, <3>1, <3>3
  <2>3. CASE sending.type # "REPLAY_DATA"
    BY <2>1, <2>3 DEF In!SendFrame
  <2> QED
    BY <2>2, <2>3
<1>2. IntakeType /\ StreamHasGaps /\ PairedBeforeStream /\ InLine /\ PairedRight
  BY DEF IntakeInv
<1>3. /\ frames \in Seq(In!Frame) /\ sending \in In!Frame /\ losses \in 0..MaxLosses
      /\ MaxLosses \in Nat /\ n \in Nat /\ losses \in Nat
      /\ \A i \in 1..n : frames[i].cursor <= MaxWindow
  <2>1. frames \in Seq(In!Frame) /\ sending \in In!Frame /\ losses \in 0..MaxLosses
    BY <1>2 DEF IntakeType, In!TypeOK
  <2>2. MaxLosses \in Nat
    BY BrokerConstants
  <2>3. \A i \in 1..n : frames[i].cursor <= MaxWindow
    BY <1>2 DEF IntakeType
  <2> QED
    BY <2>1, <2>2, <2>3
<1>4. next \in In!Frame /\ Place(next) = Place(sending) + 1 /\ Place(sending) \in Int
  BY <1>1, <1>3, AfterIsNext, FramePlace
<1> HIDE DEF next
<1>5. /\ frames' \in Seq(In!Frame) /\ losses' \in 0..MaxLosses
      /\ losses <= losses' /\ losses' \in Nat
      /\ \A i \in 1..Len(frames') : frames'[i].cursor <= MaxWindow
  <2>1. CASE lost
    BY <1>1, <1>3, <2>1
  <2>2. CASE ~lost
    <3>1. /\ frames' = Append(frames, sending) /\ Len(frames') = n + 1
          /\ \A i \in 1..n : frames'[i] = frames[i]
          /\ frames'[n + 1] = sending
      BY <1>1, <1>3, <2>2
    <3> QED
      BY <1>1, <1>3, <2>2, <3>1
  <2> QED
    BY <2>1, <2>2
<1>6. IntakeType'
  BY <1>0, <1>1, <1>2, <1>4, <1>5 DEF IntakeType, In!TypeOK
<1>7. /\ Len(Stream) = n + 1 /\ Stream[n + 1] = sending
      /\ \A i \in 1..(n + 1) : Place(Stream[i]) \in Int
  BY <1>2, StreamFacts
<1>8. /\ Stream' = Append(IF lost THEN frames ELSE Stream, next)
      /\ lost => Len(Stream') = n + 1 /\ Stream'[n + 1] = next
      /\ ~lost => Len(Stream') = n + 2 /\ Stream'[n + 1] = sending /\ Stream'[n + 2] = next
      /\ \A i \in 1..n : Stream'[i] = Stream[i]
  <2>1. Stream \in Seq(In!Frame) /\ \A i \in 1..n : Stream[i] = frames[i]
    BY <1>2, StreamFacts
  <2>2. Stream' = Append(IF lost THEN frames ELSE Stream, next)
    BY <1>1 DEF Stream
  <2>3. CASE lost
    BY <1>3, <1>4, <2>1, <2>2, <2>3
  <2>4. CASE ~lost
    BY <1>3, <1>4, <1>7, <2>1, <2>2, <2>4
  <2> QED
    BY <2>2, <2>3, <2>4
<1>9. /\ \A i, j \in 1..(n + 1) : i < j => Place(Stream[i]) < Place(Stream[j])
      /\ \A i, j \in 1..(n + 1) : i < j => Place(Stream[j]) - Place(Stream[i]) <= j - i + losses
      /\ pending # In!None =>
            /\ 2 * pending - 1 < Place(Stream[1])
            /\ \A i \in 1..(n + 1) : Place(Stream[i]) - (2 * pending - 1) <= i + losses
  BY <1>1, <1>2, <1>7 DEF StreamHasGaps
<1> HIDE DEF n
<1>10. StreamHasGaps'
  <2>1. \A i, j \in 1..Len(Stream') : i < j => Place(Stream'[i]) < Place(Stream'[j])
    <3>0. \A i \in 1..n : Place(Stream[i]) < Place(sending)
      BY <1>3, <1>7, <1>9
    <3>1. CASE lost
      <4> SUFFICES ASSUME NEW i \in 1..(n + 1), NEW j \in 1..(n + 1), i < j
                   PROVE  Place(Stream'[i]) < Place(Stream'[j])
        BY <1>8, <3>1
      <4>1. i \in 1..n /\ Stream'[i] = Stream[i] /\ Place(Stream[i]) \in Int
        BY <1>3, <1>7, <1>8
      <4>2. CASE j = n + 1
        BY <1>4, <1>8, <3>0, <3>1, <4>1, <4>2
      <4>3. CASE j \in 1..n
        <5>1. j \in 1..(n + 1) /\ i \in 1..(n + 1) /\ Stream'[j] = Stream[j]
          BY <1>8, <4>3
        <5> QED
          BY <1>9, <4>1, <5>1
      <4> QED
        BY <1>3, <4>2, <4>3
    <3>2. CASE ~lost
      <4> SUFFICES ASSUME NEW i \in 1..(n + 2), NEW j \in 1..(n + 2), i < j
                   PROVE  Place(Stream'[i]) < Place(Stream'[j])
        BY <1>8, <3>2
      <4>0. \A k \in 1..(n + 1) : Stream'[k] = Stream[k]
        BY <1>3, <1>7, <1>8, <3>2
      <4>1. i \in 1..(n + 1) /\ Stream'[i] = Stream[i] /\ Place(Stream[i]) \in Int
        BY <1>3, <1>7, <4>0
      <4>2. CASE j = n + 2
        <5>1. Place(Stream[i]) <= Place(sending)
          <6>1. i = n + 1 \/ i \in 1..n
            BY <1>3, <4>1
          <6> QED
            BY <1>4, <1>7, <3>0, <4>1, <6>1
        <5> QED
          BY <1>4, <1>8, <3>2, <4>1, <4>2, <5>1
      <4>3. CASE j \in 1..(n + 1)
        BY <1>9, <4>0, <4>1, <4>3
      <4> QED
        BY <1>3, <4>2, <4>3
    <3> QED
      BY <3>1, <3>2
  <2>2. \A i, j \in 1..Len(Stream') : i < j => Place(Stream'[j]) - Place(Stream'[i]) <= j - i + losses'
    <3>1. \A i \in 1..n : Place(sending) - Place(Stream[i]) <= (n + 1) - i + losses
      BY <1>3, <1>7, <1>9
    <3>2. \A i \in 1..n : Place(next) - Place(Stream[i]) <= (n + 1) - i + (losses + 1)
      <4> SUFFICES ASSUME NEW i \in 1..n
                   PROVE  Place(next) - Place(Stream[i]) <= (n + 1) - i + (losses + 1)
        OBVIOUS
      <4>1. i \in 1..(n + 1) /\ i \in Int /\ n \in Int /\ losses \in Int
        BY <1>3
      <4>2. Place(Stream[i]) \in Int /\ Place(sending) \in Int /\ Place(next) = Place(sending) + 1
        BY <1>4, <1>7, <4>1
      <4>3. \A p, q, m \in Int : p - q <= m + losses => (p + 1) - q <= m + (losses + 1)
        BY <4>1
      <4>4. (n + 1) - i \in Int
        BY <4>1
      <4> QED
        BY <3>1, <4>2, <4>3, <4>4
    <3>3. CASE lost
      <4> SUFFICES ASSUME NEW i \in 1..(n + 1), NEW j \in 1..(n + 1), i < j
                   PROVE  Place(Stream'[j]) - Place(Stream'[i]) <= j - i + (losses + 1)
        BY <1>1, <1>8, <3>3
      <4>1. i \in 1..n /\ Stream'[i] = Stream[i] /\ Place(Stream[i]) \in Int
        BY <1>3, <1>7, <1>8
      <4>2. CASE j = n + 1
        BY <1>8, <3>2, <3>3, <4>1, <4>2
      <4>3. CASE j \in 1..n
        <5>1. j \in 1..(n + 1) /\ i \in 1..(n + 1) /\ Stream'[j] = Stream[j]
          BY <1>8, <4>3
        <5>2. Place(Stream[j]) - Place(Stream[i]) <= j - i + losses
          BY <1>9, <5>1
        <5> QED
          BY <1>3, <1>7, <4>1, <5>1, <5>2
      <4> QED
        BY <1>3, <4>2, <4>3
    <3>4. CASE ~lost
      <4> SUFFICES ASSUME NEW i \in 1..(n + 2), NEW j \in 1..(n + 2), i < j
                   PROVE  Place(Stream'[j]) - Place(Stream'[i]) <= j - i + losses
        BY <1>1, <1>8, <3>4
      <4>0. \A k \in 1..(n + 1) : Stream'[k] = Stream[k]
        BY <1>3, <1>7, <1>8, <3>4
      <4>1. i \in 1..(n + 1) /\ Stream'[i] = Stream[i] /\ Place(Stream[i]) \in Int
        BY <1>3, <1>7, <4>0
      <4>2. CASE j = n + 2
        <5>1. Stream'[j] = next
          BY <1>8, <3>4, <4>2
        <5>2. CASE i = n + 1
          BY <1>3, <1>4, <1>7, <4>1, <4>2, <5>1, <5>2
        <5>3. CASE i \in 1..n
          BY <1>3, <1>4, <3>1, <4>1, <4>2, <5>1, <5>3
        <5> QED
          BY <1>3, <4>1, <5>2, <5>3
      <4>3. CASE j \in 1..(n + 1)
        BY <1>9, <4>0, <4>1, <4>3
      <4> QED
        BY <1>3, <4>2, <4>3
    <3> QED
      BY <3>3, <3>4
  <2>3. ASSUME pending # In!None
        PROVE  /\ 2 * pending - 1 < Place(Stream'[1])
               /\ \A i \in 1..Len(Stream') : Place(Stream'[i]) - (2 * pending - 1) <= i + losses'
    <3>0. pending \in Nat
      BY <1>2, EntryFacts
    <3> DEFINE p == 2 * pending - 1
    <3>1. p \in Int /\ p < Place(Stream[1])
          /\ \A i \in 1..(n + 1) : Place(Stream[i]) - p <= i + losses
      BY <1>9, <2>3, <3>0
    <3> HIDE DEF p
    <3>2. Place(sending) - p <= (n + 1) + losses
      BY <1>3, <1>7, <3>1
    <3>3. CASE lost
      <4>1. Place(next) - p <= (n + 1) + (losses + 1)
        BY <1>3, <1>4, <3>1, <3>2
      <4>2. \A i \in 1..Len(Stream') : Place(Stream'[i]) - p <= i + (losses + 1)
        <5> SUFFICES ASSUME NEW i \in 1..(n + 1)
                     PROVE  Place(Stream'[i]) - p <= i + (losses + 1)
          BY <1>8, <3>3
        <5>1. CASE i = n + 1
          BY <1>8, <3>3, <4>1, <5>1
        <5>2. CASE i \in 1..n
          <6>1. i \in 1..(n + 1) /\ Stream'[i] = Stream[i]
            BY <1>3, <1>8, <5>2
          <6>2. Place(Stream[i]) - p <= i + losses /\ Place(Stream[i]) \in Int
            BY <1>7, <3>1, <6>1
          <6> QED
            BY <1>3, <3>1, <6>1, <6>2
        <5> QED
          BY <1>3, <5>1, <5>2
      <4>3. p < Place(Stream'[1])
        <5>1. p < Place(sending)
          <6>1. n = 0 \/ Place(Stream[1]) < Place(Stream[n + 1])
            BY <1>3, <1>9
          <6> QED
            BY <1>3, <1>7, <3>1, <6>1
        <5> QED
          BY <1>3, <1>4, <1>7, <1>8, <3>1, <3>3, <5>1
      <4> QED
        BY <1>1, <3>3, <4>2, <4>3 DEF p
    <3>4. CASE ~lost
      <4>0. \A k \in 1..(n + 1) : Stream'[k] = Stream[k]
        BY <1>3, <1>7, <1>8, <3>4
      <4>1. Place(next) - p <= (n + 2) + losses
        BY <1>3, <1>4, <3>1, <3>2
      <4>2. \A i \in 1..Len(Stream') : Place(Stream'[i]) - p <= i + losses
        <5> SUFFICES ASSUME NEW i \in 1..(n + 2)
                     PROVE  Place(Stream'[i]) - p <= i + losses
          BY <1>8, <3>4
        <5>1. CASE i = n + 2
          BY <1>8, <3>4, <4>1, <5>1
        <5>2. CASE i \in 1..(n + 1)
          BY <3>1, <4>0, <5>2
        <5> QED
          BY <1>3, <5>1, <5>2
      <4>3. p < Place(Stream'[1])
        BY <1>3, <3>1, <4>0
      <4> QED
        BY <1>1, <3>4, <4>2, <4>3 DEF p
    <3> QED
      BY <3>3, <3>4
  <2> QED
    BY <1>1, <2>1, <2>2, <2>3 DEF StreamHasGaps
<1>11. \A i \in 1..Len(Stream') :
          /\ Place(Stream'[i]) \in Int
          /\ \E j \in 1..(n + 1) : Place(Stream[j]) <= Place(Stream'[i])
  <2>1. CASE lost
    BY <1>3, <1>4, <1>7, <1>8, <2>1
  <2>2. CASE ~lost
    BY <1>3, <1>4, <1>7, <1>8, <2>2
  <2> QED
    BY <2>1, <2>2
<1>12. PairedBeforeStream'
  <2> SUFFICES ASSUME NEW i \in 1..Len(Stream')
               PROVE  /\ 2 * last < Place(Stream'[i])
                      /\ \A k \in 1..Len(queue) : 2 * queue[k].cursor < Place(Stream'[i])
                      /\ \A k \in 1..Len(batch) : 2 * batch[k].cursor < Place(Stream'[i])
    BY <1>1 DEF PairedBeforeStream
  <2>1. PICK j \in 1..(n + 1) : Place(Stream[j]) <= Place(Stream'[i])
    BY <1>11
  <2>2. /\ 2 * last < Place(Stream[j])
        /\ \A k \in 1..Len(queue) : 2 * queue[k].cursor < Place(Stream[j])
        /\ \A k \in 1..Len(batch) : 2 * batch[k].cursor < Place(Stream[j])
    BY <1>1, <1>2, <1>7 DEF PairedBeforeStream
  <2>3. Place(Stream[j]) \in Int /\ Place(Stream'[i]) \in Int
    BY <1>7, <1>11
  <2>4. \A x \in Nat : 2 * x < Place(Stream[j]) => 2 * x < Place(Stream'[i])
    BY <2>1, <2>3
  <2> QED
    BY <1>2, <2>2, <2>4, EntryFacts
<1>13. InLine' /\ PairedRight'
  BY <1>1, <1>2, <1>3, <1>5 DEF InLine, PairedRight
<1> QED
  BY <1>6, <1>10, <1>12, <1>13 DEF IntakeInv
-----------------------------------------------------------------------------
(***************************************************************************)
(* The reader thread and the main loop.                                    *)
(***************************************************************************)

\* Reading a frame leaves the rest of the stream.
LEMMA StreamTail ==
    ASSUME IntakeInv, frames # << >>, frames' = Tail(frames), sending' = sending
    PROVE  /\ frames' \in Seq(In!Frame)
           /\ \A i \in 1..Len(frames') : frames'[i].cursor <= MaxWindow
           /\ Len(Stream) >= 2 /\ Len(Stream) \in Nat
           /\ Len(Stream') = Len(Stream) - 1 /\ Len(frames') = Len(frames) - 1
           /\ \A i \in 1..Len(Stream') : Stream'[i] = Stream[i + 1]
           /\ Head(frames) = Stream[1] /\ Head(frames) \in In!Frame
           /\ Head(frames).cursor \in In!Cursor
<1>1. /\ IntakeType /\ frames \in Seq(In!Frame) /\ sending \in In!Frame
      /\ \A i \in 1..Len(frames) : frames[i].cursor <= MaxWindow
  BY DEF IntakeInv, IntakeType, In!TypeOK
<1>2. /\ Len(frames) \in Nat /\ Len(frames) >= 1
      /\ frames' \in Seq(In!Frame) /\ Len(frames') = Len(frames) - 1
      /\ \A i \in 1..Len(frames') : frames'[i] = frames[i + 1]
      /\ Head(frames) = frames[1] /\ frames[1] \in In!Frame
  BY <1>1
<1>3. \A i \in 1..Len(frames') : frames'[i].cursor <= MaxWindow
  BY <1>1, <1>2
<1>4. /\ Len(Stream) = Len(frames) + 1 /\ Stream[Len(frames) + 1] = sending
      /\ \A i \in 1..Len(frames) : Stream[i] = frames[i]
  BY <1>1, StreamFacts
<1>5. /\ Len(Stream') = Len(frames') + 1 /\ Stream'[Len(frames') + 1] = sending
      /\ \A i \in 1..Len(frames') : Stream'[i] = frames'[i]
  BY <1>1, <1>2 DEF Stream
<1>6. \A i \in 1..Len(Stream') : Stream'[i] = Stream[i + 1]
  <2> TAKE i \in 1..Len(Stream')
  <2>1. CASE i = Len(frames') + 1
    BY <1>2, <1>4, <1>5, <2>1
  <2>2. CASE i \in 1..Len(frames')
    BY <1>2, <1>4, <1>5, <2>2
  <2>3. i = Len(frames') + 1 \/ i \in 1..Len(frames')
    <3>1. Len(frames') \in Nat /\ i \in 1..(Len(frames') + 1)
      BY <1>2, <1>5
    <3> QED
      BY <3>1
  <2> QED
    BY <2>1, <2>2, <2>3
<1>7. Head(frames).cursor \in In!Cursor
  <2>1. Head(frames).cursor <= MaxWindow /\ Head(frames).cursor \in Nat /\ Head(frames).cursor >= 1
    BY <1>1, <1>2, FramePlace
  <2> QED
    BY <2>1, BrokerConstants DEF In!Cursor
<1> QED
  BY <1>2, <1>3, <1>4, <1>5, <1>6, <1>7

\* What is left of the stream keeps its order and its gaps.
LEMMA TailHasGaps ==
    ASSUME IntakeInv, alive, frames # << >>, frames' = Tail(frames), sending' = sending
    PROVE  /\ \A i, j \in 1..Len(Stream') : i < j => Place(Stream'[i]) < Place(Stream'[j])
           /\ \A i, j \in 1..Len(Stream') : i < j => Place(Stream'[j]) - Place(Stream'[i]) <= j - i + losses
           /\ \A i \in 1..Len(Stream') : /\ Place(Stream[1]) < Place(Stream'[i])
                                         /\ Place(Stream'[i]) - Place(Stream[1]) <= i + losses
<1>1. /\ Len(Stream) >= 2 /\ Len(Stream) \in Nat
      /\ Len(Stream') = Len(Stream) - 1
      /\ \A i \in 1..Len(Stream') : Stream'[i] = Stream[i + 1]
  BY StreamTail
<1>2. /\ \A i, j \in 1..Len(Stream) : i < j => Place(Stream[i]) < Place(Stream[j])
      /\ \A i, j \in 1..Len(Stream) : i < j => Place(Stream[j]) - Place(Stream[i]) <= j - i + losses
      /\ losses \in Nat /\ \A i \in 1..Len(Stream) : Place(Stream[i]) \in Int
  BY StreamFacts, EntryFacts DEF IntakeInv, StreamHasGaps
<1>3. ASSUME NEW i \in 1..Len(Stream'), NEW j \in 1..Len(Stream'), i < j
      PROVE  /\ Place(Stream'[i]) < Place(Stream'[j])
             /\ Place(Stream'[j]) - Place(Stream'[i]) <= j - i + losses
  <2>1. i + 1 \in 1..Len(Stream) /\ j + 1 \in 1..Len(Stream) /\ i + 1 < j + 1
    BY <1>1, <1>3
  <2>2. Stream'[i] = Stream[i + 1] /\ Stream'[j] = Stream[j + 1]
    BY <1>1
  <2>3. (j + 1) - (i + 1) = j - i
    BY <1>1
  <2>4. Place(Stream[j + 1]) - Place(Stream[i + 1]) <= (j + 1) - (i + 1) + losses
    BY <1>2, <2>1
  <2> QED
    BY <1>2, <2>1, <2>2, <2>3, <2>4
<1>4. ASSUME NEW i \in 1..Len(Stream')
      PROVE  Place(Stream[1]) < Place(Stream'[i]) /\ Place(Stream'[i]) - Place(Stream[1]) <= i + losses
  <2>1. 1 \in 1..Len(Stream) /\ i + 1 \in 1..Len(Stream) /\ 1 < i + 1
    BY <1>1
  <2>2. Place(Stream[i + 1]) - Place(Stream[1]) <= (i + 1) - 1 + losses
    BY <1>2, <2>1
  <2>3. (i + 1) - 1 = i
    BY <1>1
  <2> QED
    BY <1>1, <1>2, <2>1, <2>2, <2>3
<1> QED
  BY <1>3, <1>4

\* An observation replaces the pending one, unless it does not decode.
LEMMA ReadDataInv ==
    ASSUME IntakeInv, NEW decodes \in BOOLEAN, In!ReadData(decodes)
    PROVE  IntakeInv'
<1>1. /\ alive /\ frames # << >> /\ Head(frames).type = "REPLAY_DATA" /\ frames' = Tail(frames)
      /\ decodes \/ losses < MaxLosses
      /\ pending' = IF decodes THEN Head(frames).cursor ELSE pending
      /\ losses' = IF decodes THEN losses ELSE losses + 1
      /\ sending' = sending /\ sent' = sent /\ alive' = alive /\ queue' = queue /\ batch' = batch
      /\ last' = last /\ entered' = entered /\ done' = done
  BY DEF In!ReadData
<1>2. IntakeType /\ StreamHasGaps /\ PairedBeforeStream /\ InLine /\ PairedRight
  BY DEF IntakeInv
<1>0. losses \in Nat /\ losses' \in 0..MaxLosses /\ losses <= losses' /\ losses' \in Nat
  <2>1. losses \in 0..MaxLosses /\ MaxLosses \in Nat
    BY <1>2, BrokerConstants DEF IntakeType, In!TypeOK
  <2> QED
    BY <1>1, <2>1
<1>3. IntakeType'
  <2>1. pending' \in {In!None} \cup In!Cursor
    BY <1>1, <1>2, StreamTail DEF IntakeType, In!TypeOK
  <2> QED
    BY <1>0, <1>1, <1>2, <2>1, StreamTail DEF IntakeType, In!TypeOK
<1>4. /\ Len(Stream) >= 2 /\ Len(Stream) \in Nat /\ Len(Stream') = Len(Stream) - 1
      /\ \A i \in 1..Len(Stream') : i + 1 \in 1..Len(Stream) /\ Stream'[i] = Stream[i + 1]
      /\ \A i \in 1..Len(Stream) : Place(Stream[i]) \in Int
      /\ \A i \in 1..Len(Stream') : Place(Stream'[i]) \in Int
      /\ Head(frames) \in In!Frame /\ Head(frames) = Stream[1]
  <2>1. /\ Len(Stream) >= 2 /\ Len(Stream) \in Nat /\ Len(Stream') = Len(Stream) - 1
        /\ \A i \in 1..Len(Stream') : i + 1 \in 1..Len(Stream) /\ Stream'[i] = Stream[i + 1]
        /\ \A i \in 1..Len(Stream) : Place(Stream[i]) \in Int
        /\ Head(frames) \in In!Frame /\ Head(frames) = Stream[1]
    BY <1>1, <1>2, StreamTail, StreamFacts
  <2>2. \A i \in 1..Len(Stream') : Place(Stream'[i]) \in Int
    BY <2>1
  <2> QED
    BY <2>1, <2>2
<1>5. StreamHasGaps'
  <2>1. /\ \A i, j \in 1..Len(Stream') : i < j => Place(Stream'[i]) < Place(Stream'[j])
        /\ \A i, j \in 1..Len(Stream') : i < j => Place(Stream'[j]) - Place(Stream'[i]) <= j - i + losses
        /\ \A i \in 1..Len(Stream') : /\ Place(Stream[1]) < Place(Stream'[i])
                                      /\ Place(Stream'[i]) - Place(Stream[1]) <= i + losses
    BY <1>1, TailHasGaps
  <2>2. \A i, j \in 1..Len(Stream') : i < j => Place(Stream'[j]) - Place(Stream'[i]) <= j - i + losses'
    <3> SUFFICES ASSUME NEW i \in 1..Len(Stream'), NEW j \in 1..Len(Stream'), i < j
                 PROVE  Place(Stream'[j]) - Place(Stream'[i]) <= j - i + losses'
      OBVIOUS
    <3>1. Place(Stream'[j]) - Place(Stream'[i]) <= j - i + losses
      BY <2>1
    <3>2. Place(Stream'[j]) \in Int /\ Place(Stream'[i]) \in Int /\ i \in Int /\ j \in Int
      BY <1>4
    <3>3. \A x, y, z, v, a, b \in Int : x - y <= z - v + a /\ a <= b => x - y <= z - v + b
      OBVIOUS
    <3> QED
      BY <1>0, <3>1, <3>2, <3>3
  <2>3. ASSUME pending' # In!None
        PROVE  /\ 2 * pending' - 1 < Place(Stream'[1])
               /\ \A i \in 1..Len(Stream') : Place(Stream'[i]) - (2 * pending' - 1) <= i + losses'
    <3> DEFINE p == 2 * pending' - 1
    <3>0. 1 \in 1..Len(Stream')
      BY <1>4
    <3>1. CASE decodes
      <4>1. Place(Stream[1]) = p
        BY <1>1, <1>4, <3>1, FramePlace
      <4> HIDE DEF p
      <4>2. p < Place(Stream'[1]) /\ \A i \in 1..Len(Stream') : Place(Stream'[i]) - p <= i + losses'
        <5>1. losses' = losses
          BY <1>1, <3>1
        <5> QED
          BY <2>1, <3>0, <4>1, <5>1
      <4> QED
        BY <4>2 DEF p
    <3>2. CASE ~decodes
      <4>1. pending' = pending /\ losses' = losses + 1
        BY <1>1, <3>2
      <4>2. /\ p < Place(Stream[1]) /\ p \in Int
            /\ \A i \in 1..Len(Stream) : Place(Stream[i]) - p <= i + losses
        BY <1>1, <1>2, <2>3, <4>1, EntryFacts DEF StreamHasGaps
      <4> HIDE DEF p
      <4>3. ASSUME NEW i \in 1..Len(Stream')
            PROVE  p < Place(Stream'[i]) /\ Place(Stream'[i]) - p <= i + (losses + 1)
        <5>1. i \in Nat /\ Stream'[i] = Stream[i + 1] /\ Place(Stream[i + 1]) - p <= (i + 1) + losses
          BY <1>4, <4>2
        <5>2. Place(Stream[1]) < Place(Stream'[i]) /\ Place(Stream'[i]) \in Int /\ Place(Stream[1]) \in Int
          <6>1. 1 \in 1..Len(Stream)
            BY <1>4
          <6> QED
            BY <1>4, <2>1, <6>1
        <5> QED
          BY <1>0, <4>2, <5>1, <5>2
      <4> QED
        BY <3>0, <4>1, <4>3 DEF p
    <3> QED
      BY <3>1, <3>2
  <2> QED
    BY <1>1, <2>1, <2>2, <2>3 DEF StreamHasGaps
<1>6. PairedBeforeStream'
  BY <1>1, <1>2, <1>4 DEF PairedBeforeStream
<1>7. InLine' /\ PairedRight'
  BY <1>0, <1>1, <1>2 DEF InLine, PairedRight
<1> QED
  BY <1>3, <1>5, <1>6, <1>7 DEF IntakeInv

\* A decision completes the pending observation: read at the same cursor if no
\* more than one frame was lost, later than all that was paired before.
LEMMA ReadDecisionInv ==
    ASSUME IntakeInv, NEW decodes \in BOOLEAN, In!ReadDecision(decodes)
    PROVE  IntakeInv'
<1> DEFINE w == Head(frames).cursor
           e == [cursor |-> w, obs |-> pending]
<1>1. /\ alive /\ frames # << >> /\ Head(frames).type = "ADMISSION_DECISION"
      /\ frames' = Tail(frames)
      /\ pending' = In!None /\ sending' = sending /\ sent' = sent /\ alive' = alive /\ batch' = batch
      /\ last' = last /\ losses' = losses /\ done' = done
  BY DEF In!ReadDecision
<1>2. queue' = queue \/ (pending # In!None /\ Len(queue) + 1 < QueueCap /\ queue' = Append(queue, e))
  BY DEF In!ReadDecision, In!Enqueue
<1>3. entered' = entered \/ entered' = entered \cup {w}
  BY DEF In!ReadDecision
<1>4. IntakeType /\ StreamHasGaps /\ PairedBeforeStream /\ InLine /\ PairedRight
  BY DEF IntakeInv
<1>5. /\ w \in In!Cursor /\ w \in Nat /\ Place(Stream[1]) = 2 * w
  BY <1>1, StreamTail, FramePlace
<1>6. /\ pending \in Nat /\ losses \in Nat /\ last \in Nat
      /\ Len(queue) \in Nat /\ Len(batch) \in Nat
      /\ \A k \in 1..Len(queue) : queue[k].cursor \in Nat
      /\ \A k \in 1..Len(batch) : batch[k].cursor \in Nat
  BY <1>4, EntryFacts
<1>7. /\ \A k \in 1..Len(queue) : queue[k].cursor < w
      /\ \A k \in 1..Len(batch) : batch[k].cursor < w
      /\ last < w
  <2>1. 1 \in 1..Len(Stream)
    BY <1>1, StreamTail
  <2>2. /\ 2 * last < 2 * w
        /\ \A k \in 1..Len(queue) : 2 * queue[k].cursor < 2 * w
        /\ \A k \in 1..Len(batch) : 2 * batch[k].cursor < 2 * w
    BY <1>1, <1>4, <1>5, <2>1 DEF PairedBeforeStream
  <2>3. \A x \in Nat : 2 * x < 2 * w => x < w
    BY <1>5
  <2> QED
    BY <1>6, <2>2, <2>3
<1>8. (pending # In!None /\ losses <= 1) => pending = w
  <2> SUFFICES ASSUME pending # In!None, losses <= 1 PROVE pending = w
    OBVIOUS
  <2>1. 2 * pending - 1 < 2 * w /\ 2 * w - (2 * pending - 1) <= 1 + losses
    <3>1. 1 \in 1..Len(Stream)
      BY <1>1, StreamTail
    <3> QED
      BY <1>1, <1>4, <1>5, <3>1 DEF StreamHasGaps
  <2> QED
    BY <1>5, <1>6, <2>1
<1> DEFINE q == Len(queue)
<1>9. CASE queue' = queue
  <2>1. IntakeType'
    <3>1. pending' \in {In!None} \cup In!Cursor /\ entered' \subseteq In!Cursor
      BY <1>1, <1>3, <1>4, <1>5 DEF IntakeType, In!TypeOK
    <3> QED
      BY <1>1, <1>4, <1>9, <3>1, StreamTail DEF IntakeType, In!TypeOK
  <2>2. StreamHasGaps'
    BY <1>1, TailHasGaps DEF StreamHasGaps
  <2>3. PairedBeforeStream'
    <3>1. \A i \in 1..Len(Stream') : i + 1 \in 1..Len(Stream) /\ Stream'[i] = Stream[i + 1]
      BY <1>1, StreamTail
    <3> QED
      BY <1>1, <1>4, <1>9, <3>1 DEF PairedBeforeStream
  <2>4. InLine' /\ PairedRight'
    BY <1>1, <1>4, <1>9 DEF InLine, PairedRight
  <2> QED
    BY <2>1, <2>2, <2>3, <2>4 DEF IntakeInv
<1>10. CASE pending # In!None /\ q + 1 < QueueCap /\ queue' = Append(queue, e)
  <2>1. e \in In!Entry /\ e.cursor = w /\ e.obs = pending
    <3>1. pending \in In!Cursor
      BY <1>4, <1>10 DEF IntakeType, In!TypeOK
    <3> QED
      BY <1>5, <3>1 DEF In!Entry
  <2> HIDE DEF e
  <2>2. /\ queue' \in Seq(In!Entry) /\ Len(queue') = q + 1 /\ queue'[q + 1] = e
        /\ \A k \in 1..q : queue'[k] = queue[k]
    BY <1>4, <1>10, <2>1 DEF IntakeType, In!TypeOK
  <2> HIDE DEF q
  <2>3. /\ q \in Nat /\ \A k \in 1..(q + 1) : k \in 1..q \/ k = q + 1
    BY <1>6 DEF q
  <2>4. IntakeType'
    <3>1. pending' \in {In!None} \cup In!Cursor /\ entered' \subseteq In!Cursor
      BY <1>1, <1>3, <1>4, <1>5 DEF IntakeType, In!TypeOK
    <3> QED
      BY <1>1, <1>4, <1>10, <2>2, <3>1, StreamTail DEF IntakeType, In!TypeOK
  <2>5. StreamHasGaps'
    BY <1>1, TailHasGaps DEF StreamHasGaps
  <2>6. PairedBeforeStream'
    <3>1. \A i \in 1..Len(Stream') : i + 1 \in 1..Len(Stream) /\ Stream'[i] = Stream[i + 1]
      BY <1>1, StreamTail
    <3> SUFFICES ASSUME NEW i \in 1..Len(Stream')
                 PROVE  /\ 2 * last < Place(Stream'[i])
                        /\ \A k \in 1..(q + 1) : 2 * queue'[k].cursor < Place(Stream'[i])
                        /\ \A k \in 1..Len(batch) : 2 * batch[k].cursor < Place(Stream'[i])
      BY <1>1, <2>2 DEF PairedBeforeStream
    <3>2. /\ 2 * last < Place(Stream'[i])
          /\ \A k \in 1..q : 2 * queue[k].cursor < Place(Stream'[i])
          /\ \A k \in 1..Len(batch) : 2 * batch[k].cursor < Place(Stream'[i])
      BY <1>1, <1>4, <3>1 DEF PairedBeforeStream, q
    <3>3. 2 * e.cursor < Place(Stream'[i])
      BY <1>1, <1>5, <2>1, TailHasGaps
    <3> QED
      BY <2>2, <2>3, <3>2, <3>3
  <2>7. InLine'
    <3>1. /\ \A k \in 1..q : queue[k].cursor < e.cursor
          /\ \A k \in 1..Len(batch) : batch[k].cursor < e.cursor
          /\ last < e.cursor
      BY <1>7, <2>1 DEF q
    <3>2. /\ \A k \in 1..Len(batch) : last < batch[k].cursor
          /\ \A k \in 1..q : last < queue[k].cursor
          /\ \A k, m \in 1..Len(batch) : k < m => batch[k].cursor < batch[m].cursor
          /\ \A k, m \in 1..q : k < m => queue[k].cursor < queue[m].cursor
          /\ \A k \in 1..Len(batch), m \in 1..q : batch[k].cursor < queue[m].cursor
      BY <1>4 DEF InLine, q
    <3>3. \A k, m \in 1..(q + 1) : k < m => k \in 1..q
      BY <2>3
    <3>4. \A k, m \in 1..(q + 1) : k < m => queue'[k].cursor < queue'[m].cursor
      BY <2>2, <2>3, <3>1, <3>2, <3>3
    <3>5. /\ \A k \in 1..(q + 1) : last < queue'[k].cursor
          /\ \A k \in 1..Len(batch), m \in 1..(q + 1) : batch[k].cursor < queue'[m].cursor
      BY <2>2, <2>3, <3>1, <3>2
    <3> QED
      BY <1>1, <2>2, <3>2, <3>4, <3>5 DEF InLine
  <2>8. PairedRight'
    BY <1>1, <1>4, <1>8, <1>10, <2>1, <2>2, <2>3 DEF PairedRight, q
  <2> QED
    BY <2>4, <2>5, <2>6, <2>7, <2>8 DEF IntakeInv
<1> QED
  BY <1>2, <1>9, <1>10

\* The stream ends.
LEMMA ReaderEndsInv ==
    ASSUME IntakeInv, In!ReaderEnds
    PROVE  IntakeInv'
<1>1. /\ alive' = FALSE /\ frames' = << >>
      /\ sending' = sending /\ sent' = sent /\ pending' = pending /\ queue' = queue /\ batch' = batch
      /\ last' = last /\ losses' = losses /\ entered' = entered /\ done' = done
  BY DEF In!ReaderEnds
<1>2. IntakeType'
  <2>1. frames' \in Seq(In!Frame) /\ \A i \in 1..Len(frames') : frames'[i].cursor <= MaxWindow
    BY <1>1
  <2>2. alive' \in BOOLEAN
    BY <1>1, Zenon
  <2> QED
    BY <1>1, <2>1, <2>2 DEF IntakeInv, IntakeType, In!TypeOK
<1>3. StreamHasGaps' /\ PairedBeforeStream'
  BY <1>1 DEF StreamHasGaps, PairedBeforeStream
<1>4. InLine' /\ PairedRight'
  BY <1>1 DEF IntakeInv, InLine, PairedRight
<1> QED
  BY <1>2, <1>3, <1>4 DEF IntakeInv

\* The main loop takes the queue as its batch.
LEMMA DrainInv ==
    ASSUME IntakeInv, In!Drain
    PROVE  IntakeInv'
<1>1. /\ batch = << >> /\ batch' = queue /\ queue' = << >>
      /\ sending' = sending /\ sent' = sent /\ frames' = frames /\ pending' = pending /\ alive' = alive
      /\ last' = last /\ losses' = losses /\ entered' = entered /\ done' = done
  BY DEF In!Drain
<1>2. Len(queue') = 0 /\ Stream' = Stream
  BY <1>1 DEF Stream
<1>3. IntakeType'
  <2>1. queue' \in Seq(In!Entry) /\ Len(queue') < QueueCap
    BY <1>1, <1>2, BrokerConstants
  <2> QED
    BY <1>1, <2>1 DEF IntakeInv, IntakeType, In!TypeOK
<1>4. StreamHasGaps'
  BY <1>1, <1>2 DEF IntakeInv, StreamHasGaps
<1>5. PairedBeforeStream'
  BY <1>1, <1>2 DEF IntakeInv, PairedBeforeStream
<1>6. InLine' /\ PairedRight'
  BY <1>1, <1>2 DEF IntakeInv, InLine, PairedRight
<1> QED
  BY <1>3, <1>4, <1>5, <1>6 DEF IntakeInv

\* One entry is processed: it is the earliest, and later than the last one.
LEMMA ProcessInv ==
    ASSUME IntakeInv, In!Process
    PROVE  IntakeInv' /\ Len(batch') = Len(batch) - 1
<1> DEFINE b == Len(batch)
<1>1. /\ batch # << >> /\ last' = Head(batch).cursor /\ batch' = Tail(batch)
      /\ done' = done \cup {Head(batch).cursor}
      /\ sending' = sending /\ sent' = sent /\ frames' = frames /\ pending' = pending /\ alive' = alive
      /\ queue' = queue /\ losses' = losses /\ entered' = entered
  BY DEF In!Process
<1>2. IntakeType /\ StreamHasGaps /\ PairedBeforeStream /\ InLine /\ PairedRight
  BY DEF IntakeInv
<1>3. batch \in Seq(In!Entry)
  BY <1>2 DEF IntakeType, In!TypeOK
<1>4. /\ b \in Nat /\ b >= 1 /\ batch' \in Seq(In!Entry) /\ Len(batch') = b - 1
      /\ \A k \in 1..(b - 1) : batch'[k] = batch[k + 1]
      /\ Head(batch) = batch[1] /\ batch[1] \in In!Entry
  BY <1>1, <1>3
<1>5. /\ 1 \in 1..b /\ \A k \in 1..(b - 1) : k + 1 \in 1..b /\ 1 < k + 1
  BY <1>4
<1>6. /\ last' = batch[1].cursor /\ last' \in In!Cursor /\ last' \in Nat /\ last \in Nat
  <2>1. \A e \in In!Entry : e.cursor \in In!Cursor
    BY DEF In!Entry
  <2> QED
    BY <1>1, <1>2, <1>4, <2>1, <1>5, EntryFacts
<1>7. /\ \A k \in 1..b : last < batch[k].cursor
      /\ \A k, m \in 1..b : k < m => batch[k].cursor < batch[m].cursor
      /\ \A k \in 1..b, m \in 1..Len(queue) : batch[k].cursor < queue[m].cursor
      /\ \A k, m \in 1..Len(queue) : k < m => queue[k].cursor < queue[m].cursor
  BY <1>2 DEF InLine
<1> HIDE DEF b
<1>8. last' > last
  BY <1>5, <1>6, <1>7
<1>9. Stream' = Stream
  BY <1>1 DEF Stream
<1>10. IntakeType'
  <2>1. done' \subseteq In!Cursor
    BY <1>1, <1>2, <1>6 DEF IntakeType, In!TypeOK
  <2> QED
    BY <1>1, <1>2, <1>4, <1>6, <2>1 DEF IntakeType, In!TypeOK
<1>11. StreamHasGaps'
  BY <1>1, <1>2, <1>9 DEF StreamHasGaps
<1>12. PairedBeforeStream'
  <2> SUFFICES ASSUME alive, NEW i \in 1..Len(Stream)
               PROVE  /\ 2 * last' < Place(Stream[i])
                      /\ \A k \in 1..Len(queue) : 2 * queue[k].cursor < Place(Stream[i])
                      /\ \A k \in 1..(b - 1) : 2 * batch'[k].cursor < Place(Stream[i])
    BY <1>1, <1>4, <1>9 DEF PairedBeforeStream
  <2>1. /\ \A k \in 1..Len(queue) : 2 * queue[k].cursor < Place(Stream[i])
        /\ \A k \in 1..b : 2 * batch[k].cursor < Place(Stream[i])
    BY <1>2 DEF PairedBeforeStream, b
  <2> QED
    BY <1>4, <1>5, <1>6, <2>1
<1>13. InLine'
  <2>1. \A k \in 1..(b - 1) : last' < batch'[k].cursor
    BY <1>4, <1>5, <1>6, <1>7
  <2>2. \A k \in 1..Len(queue) : last' < queue[k].cursor
    BY <1>5, <1>6, <1>7
  <2>3. \A k, m \in 1..(b - 1) : k < m => batch'[k].cursor < batch'[m].cursor
    <3> SUFFICES ASSUME NEW k \in 1..(b - 1), NEW m \in 1..(b - 1), k < m
                 PROVE  batch'[k].cursor < batch'[m].cursor
      OBVIOUS
    <3>1. k + 1 \in 1..b /\ m + 1 \in 1..b /\ k + 1 < m + 1
      BY <1>5, <1>4
    <3> QED
      BY <1>4, <1>7, <3>1
  <2>4. \A k \in 1..(b - 1), m \in 1..Len(queue) : batch'[k].cursor < queue[m].cursor
    BY <1>4, <1>5, <1>7
  <2> QED
    BY <1>1, <1>4, <1>7, <2>1, <2>2, <2>3, <2>4 DEF InLine
<1>14. PairedRight'
  BY <1>1, <1>2, <1>4, <1>5 DEF PairedRight, b
<1> QED
  BY <1>4, <1>8, <1>10, <1>11, <1>12, <1>13, <1>14 DEF IntakeInv, b

\* Steps that leave the intake alone.
LEMMA IntakeStutters ==
    ASSUME IntakeInv, UNCHANGED inVars
    PROVE  IntakeInv'
<1>1. Stream' = Stream
  BY DEF Stream, inVars
<1> QED
  BY <1>1 DEF IntakeInv, IntakeType, In!TypeOK, StreamHasGaps, PairedBeforeStream, InLine,
              PairedRight, inVars
-----------------------------------------------------------------------------
(***************************************************************************)
(* The gate link.                                                          *)
(***************************************************************************)

\* What the replies on the connection are.
LEMMA ReplyFacts ==
    ASSUME LinkInv
    PROVE  /\ replies \in Seq({Link!Ack} \cup {Link!Status(e) : e \in 0..MaxEpoch})
           /\ Len(replies) \in Nat /\ belief \in 0..MaxEpoch /\ epoch \in 0..MaxEpoch
           /\ belief \in Nat /\ epoch \in Nat
           /\ \A i \in 1..Len(replies) : IsStatus(replies[i]) => replies[i].epoch \in 0..MaxEpoch
<1>1. /\ replies \in Seq({Link!Ack} \cup {Link!Status(e) : e \in 0..MaxEpoch})
      /\ belief \in 0..MaxEpoch /\ epoch \in 0..MaxEpoch /\ MaxEpoch \in Nat
  BY BrokerConstants DEF LinkInv, Link!TypeOK
<1>2. ~IsStatus(Link!Ack)
  BY DEF IsStatus, Link!Ack
<1>3. \A e \in 0..MaxEpoch : Link!Status(e).epoch = e
  BY DEF Link!Status
<1>4. \A i \in 1..Len(replies) :
         replies[i] \in {Link!Ack} \cup {Link!Status(e) : e \in 0..MaxEpoch}
  BY <1>1
<1>5. \A i \in 1..Len(replies) : IsStatus(replies[i]) => replies[i].epoch \in 0..MaxEpoch
  BY <1>2, <1>3, <1>4
<1> QED
  BY <1>1, <1>5

\* A step of the link keeps what it says of the replies, and the belief never
\* goes back.
LEMMA RepliesInv ==
    ASSUME LinkInv, Link!Next
    PROVE  RepliesRise' /\ belief' >= belief
<1>1. /\ Len(replies) \in Nat /\ belief \in Nat /\ epoch \in Nat
      /\ \A i \in 1..Len(replies) : IsStatus(replies[i]) => replies[i].epoch \in Nat
      /\ replies \in Seq({Link!Ack} \cup {Link!Status(e) : e \in 0..MaxEpoch})
  BY ReplyFacts, BrokerConstants
<1>2. RepliesRise
  BY DEF LinkInv
<1>3. CASE belief' = belief /\ epoch' = epoch /\ replies' = replies
  BY <1>1, <1>2, <1>3 DEF RepliesRise
<1>4. CASE Link!ReadAck \/ Link!ReadStatus
  <2>1. /\ replies # << >> /\ replies' = Tail(replies) /\ epoch' = epoch
        /\ belief' = belief \/ (IsStatus(Head(replies)) /\ belief' = Head(replies).epoch)
    BY <1>4 DEF Link!ReadAck, Link!ReadStatus, IsStatus
  <2> DEFINE n == Len(replies)
  <2>2. /\ n >= 1 /\ Len(replies') = n - 1 /\ Head(replies) = replies[1]
        /\ \A i \in 1..(n - 1) : replies'[i] = replies[i + 1]
    BY <1>1, <2>1
  <2>3. /\ 1 \in 1..n /\ \A i \in 1..(n - 1) : i + 1 \in 1..n /\ 1 < i + 1
    BY <1>1, <2>2
  <2> HIDE DEF n
  <2>4. /\ \A i \in 1..n : IsStatus(replies[i]) =>
              belief <= replies[i].epoch /\ replies[i].epoch <= epoch /\ replies[i].epoch \in Nat
        /\ \A i, j \in 1..n : (i < j /\ IsStatus(replies[i]) /\ IsStatus(replies[j]))
              => replies[i].epoch <= replies[j].epoch
        /\ belief <= epoch
    BY <1>1, <1>2 DEF RepliesRise, n
  <2>5. belief' >= belief /\ belief' <= epoch
    BY <1>1, <2>1, <2>2, <2>3, <2>4
  <2>6. \A i \in 1..(n - 1) : IsStatus(replies'[i]) =>
           belief' <= replies'[i].epoch /\ replies'[i].epoch <= epoch
    <3> SUFFICES ASSUME NEW i \in 1..(n - 1), IsStatus(replies'[i])
                 PROVE  belief' <= replies'[i].epoch /\ replies'[i].epoch <= epoch
      OBVIOUS
    <3>1. replies'[i] = replies[i + 1] /\ i + 1 \in 1..n /\ 1 < i + 1 /\ IsStatus(replies[i + 1])
      BY <2>2, <2>3
    <3>2. belief <= replies[i + 1].epoch /\ replies[i + 1].epoch <= epoch
      BY <2>4, <3>1
    <3>3. IsStatus(replies[1]) => replies[1].epoch <= replies[i + 1].epoch
      BY <2>3, <2>4, <3>1
    <3> QED
      BY <2>1, <2>2, <3>1, <3>2, <3>3
  <2>7. \A i, j \in 1..(n - 1) : (i < j /\ IsStatus(replies'[i]) /\ IsStatus(replies'[j]))
           => replies'[i].epoch <= replies'[j].epoch
    <3> SUFFICES ASSUME NEW i \in 1..(n - 1), NEW j \in 1..(n - 1), i < j,
                        IsStatus(replies'[i]), IsStatus(replies'[j])
                 PROVE  replies'[i].epoch <= replies'[j].epoch
      OBVIOUS
    <3>1. /\ i + 1 \in 1..n /\ j + 1 \in 1..n /\ i + 1 < j + 1
          /\ replies'[i] = replies[i + 1] /\ replies'[j] = replies[j + 1]
      BY <1>1, <2>2, <2>3 DEF n
    <3> QED
      BY <2>4, <3>1
  <2> QED
    BY <2>1, <2>2, <2>5, <2>6, <2>7 DEF RepliesRise
<1>5. CASE Link!GateAnswers
  <2> DEFINE r == Link!Answer(Head(requests))
             n == Len(replies)
  <2>1. replies' = Append(replies, r) /\ epoch' = epoch /\ belief' = belief
    BY <1>5 DEF Link!GateAnswers
  <2>2. r \in {Link!Ack, Link!Status(epoch)}
    BY DEF Link!Answer
  <2>3. IsStatus(r) => r.epoch = epoch
    BY <2>2 DEF IsStatus, Link!Ack, Link!Status
  <2> HIDE DEF r
  <2>4. /\ Len(replies') = n + 1 /\ replies'[n + 1] = r /\ n \in Nat
        /\ \A i \in 1..n : replies'[i] = replies[i]
        /\ \A i \in 1..(n + 1) : i \in 1..n \/ i = n + 1
        /\ \A i, j \in 1..(n + 1) : i < j => i \in 1..n
    BY <1>1, <2>1
  <2> HIDE DEF n
  <2>5. /\ \A i \in 1..n : IsStatus(replies[i]) =>
              belief <= replies[i].epoch /\ replies[i].epoch <= epoch
        /\ \A i, j \in 1..n : (i < j /\ IsStatus(replies[i]) /\ IsStatus(replies[j]))
              => replies[i].epoch <= replies[j].epoch
        /\ belief <= epoch
    BY <1>2 DEF RepliesRise, n
  <2>6. \A i \in 1..(n + 1) : IsStatus(replies'[i]) =>
           belief <= replies'[i].epoch /\ replies'[i].epoch <= epoch
    BY <1>1, <2>3, <2>4, <2>5
  <2>7. \A i, j \in 1..(n + 1) : (i < j /\ IsStatus(replies'[i]) /\ IsStatus(replies'[j]))
           => replies'[i].epoch <= replies'[j].epoch
    <3> SUFFICES ASSUME NEW i \in 1..(n + 1), NEW j \in 1..(n + 1), i < j,
                        IsStatus(replies'[i]), IsStatus(replies'[j])
                 PROVE  replies'[i].epoch <= replies'[j].epoch
      OBVIOUS
    <3>1. i \in 1..n /\ replies'[i] = replies[i]
      BY <2>4
    <3>2. CASE j \in 1..n
      <4>1. replies'[j] = replies[j]
        BY <2>4, <3>2
      <4> QED
        BY <2>5, <3>1, <3>2, <4>1
    <3>3. CASE j = n + 1
      <4>1. replies'[j].epoch = epoch
        BY <2>3, <2>4, <3>3
      <4> QED
        BY <2>5, <3>1, <4>1
    <3> QED
      BY <2>4, <3>2, <3>3
  <2>8. belief' <= epoch' /\ belief' >= belief
    BY <1>1, <2>1, <2>5
  <2>9. \A i \in 1..Len(replies') : IsStatus(replies'[i]) =>
           belief' <= replies'[i].epoch /\ replies'[i].epoch <= epoch'
    BY <2>1, <2>4, <2>6
  <2>10. \A i, j \in 1..Len(replies') : (i < j /\ IsStatus(replies'[i]) /\ IsStatus(replies'[j]))
            => replies'[i].epoch <= replies'[j].epoch
    BY <2>4, <2>7
  <2> QED
    BY <2>8, <2>9, <2>10 DEF RepliesRise
<1>6. CASE Link!GatePromotes
  <2>1. epoch' = epoch + 1 /\ belief' = belief /\ replies' = replies
    BY <1>6 DEF Link!GatePromotes
  <2>2. belief' <= epoch' /\ belief' >= belief
    BY <1>1, <1>2, <2>1 DEF RepliesRise
  <2>3. \A i \in 1..Len(replies) : IsStatus(replies[i]) =>
           belief <= replies[i].epoch /\ replies[i].epoch <= epoch + 1
    <3> SUFFICES ASSUME NEW i \in 1..Len(replies), IsStatus(replies[i])
                 PROVE  belief <= replies[i].epoch /\ replies[i].epoch <= epoch + 1
      OBVIOUS
    <3>1. replies[i].epoch \in Nat /\ belief <= replies[i].epoch /\ replies[i].epoch <= epoch
      BY <1>1, <1>2 DEF RepliesRise
    <3> QED
      BY <1>1, <3>1
  <2>4. \A i \in 1..Len(replies') : IsStatus(replies'[i]) =>
           belief' <= replies'[i].epoch /\ replies'[i].epoch <= epoch'
    BY <2>1, <2>3
  <2>5. \A i, j \in 1..Len(replies') : (i < j /\ IsStatus(replies'[i]) /\ IsStatus(replies'[j]))
           => replies'[i].epoch <= replies'[j].epoch
    BY <1>2, <2>1 DEF RepliesRise
  <2> QED
    BY <2>2, <2>4, <2>5 DEF RepliesRise
<1>7. CASE Link!GateDies \/ Link!SendResult \/ Link!SendHeartbeat \/ Link!SkipHeartbeat
           \/ Link!ReadNothing \/ (\E n \in 0..(QueueCap - 1) : Link!Drain(n))
  BY <1>3, <1>7 DEF Link!GateDies, Link!SendResult, Link!SendHeartbeat, Link!SkipHeartbeat,
                    Link!ReadNothing, Link!Drain
<1> QED
  BY <1>4, <1>5, <1>6, <1>7 DEF Link!Next, Link!Broker

\* Appending keeps the type of a sequence.
LEMMA AppendTyped ==
    ASSUME NEW S, NEW q \in Seq(S), NEW x \in S
    PROVE  Append(q, x) \in Seq(S)
OBVIOUS

\* A step of the link keeps its types.
LEMMA LinkTypeInv ==
    ASSUME LinkInv, Len(batch) \in Nat, Link!Next
    PROVE  Link!TypeOK'
<1>1. /\ MaxEpoch \in Nat /\ MaxSkip \in Nat /\ MaxTimeouts \in Nat /\ QueueCap \in Nat \ {0}
  BY BrokerConstants
<1>2. /\ pc \in {"turn", "work", "ack", "status"} /\ Unanswered \in 0..(QueueCap - 1)
      /\ skipped \in 0..MaxSkip /\ requests \in Seq({"RESULT_PUBLISH", "HEARTBEAT"})
      /\ replies \in Seq({Link!Ack} \cup {Link!Status(e) : e \in 0..MaxEpoch})
      /\ belief \in 0..MaxEpoch /\ epoch \in 0..MaxEpoch /\ timeouts \in 0..MaxTimeouts
  BY DEF LinkInv, Link!TypeOK
<1>3. up \in BOOLEAN
  BY DEF LinkInv, Link!TypeOK
<1>13. pc = "ack" => Unanswered - 1 \in 0..(QueueCap - 1)
  <2>1. pc = "ack" => Unanswered = Len(batch) + 1
    BY DEF Unanswered
  <2> QED
    BY <1>1, <1>2, <2>1
<1>4. ASSUME NEW n \in 0..(QueueCap - 1), Link!Drain(n) PROVE Link!TypeOK'
  BY <1>2, <1>3, <1>4 DEF Link!Drain, Link!TypeOK
<1>5. CASE Link!SendResult
  <2>1. requests' \in Seq({"RESULT_PUBLISH", "HEARTBEAT"})
    <3>1. requests' = requests \/ requests' = Append(requests, "RESULT_PUBLISH")
      BY <1>5 DEF Link!SendResult
    <3>2. "RESULT_PUBLISH" \in {"RESULT_PUBLISH", "HEARTBEAT"}
      OBVIOUS
    <3> QED
      BY <1>2, <3>1, <3>2, AppendTyped
  <2>2. Unanswered' \in 0..(QueueCap - 1) /\ pc' \in {"turn", "work", "ack", "status"}
    BY <1>1, <1>2, <1>5 DEF Link!SendResult
  <2>3. /\ skipped' = skipped /\ replies' = replies /\ belief' = belief /\ epoch' = epoch
        /\ up' = up /\ timeouts' = timeouts
    BY <1>5 DEF Link!SendResult
  <2> QED
    BY <1>2, <1>3, <2>1, <2>2, <2>3 DEF Link!TypeOK
<1>6. CASE Link!SendHeartbeat
  <2>1. /\ skipped' = 0 /\ pc' \in {"turn", "work", "ack", "status"}
        /\ Unanswered' = Unanswered /\ replies' = replies /\ belief' = belief
        /\ epoch' = epoch /\ up' = up /\ timeouts' = timeouts
    BY <1>6 DEF Link!SendHeartbeat
  <2>2. requests' \in Seq({"RESULT_PUBLISH", "HEARTBEAT"})
    BY <1>2, <1>6 DEF Link!SendHeartbeat
  <2>3. skipped' \in 0..MaxSkip
    BY <1>1, <2>1
  <2> QED
    BY <1>2, <1>3, <2>1, <2>2, <2>3 DEF Link!TypeOK
<1>7. CASE Link!SkipHeartbeat
  <2>1. /\ skipped < MaxSkip /\ skipped' = skipped + 1 /\ pc' = "turn"
        /\ Unanswered' = Unanswered /\ requests' = requests /\ replies' = replies
        /\ belief' = belief /\ epoch' = epoch /\ up' = up /\ timeouts' = timeouts
    BY <1>7 DEF Link!SkipHeartbeat
  <2>2. skipped' \in 0..MaxSkip
    BY <1>1, <1>2, <2>1
  <2> QED
    BY <1>2, <1>3, <2>1, <2>2 DEF Link!TypeOK
<1>8. CASE Link!ReadAck \/ Link!ReadStatus
  <2>1. /\ replies # << >> /\ replies' = Tail(replies) /\ pc' \in {"turn", "work", "ack", "status"}
        /\ skipped' = skipped /\ requests' = requests /\ epoch' = epoch /\ up' = up
        /\ timeouts' = timeouts
    BY <1>8 DEF Link!ReadAck, Link!ReadStatus
  <2>2. replies' \in Seq({Link!Ack} \cup {Link!Status(e) : e \in 0..MaxEpoch})
    BY <1>2, <2>1
  <2>3. belief' \in 0..MaxEpoch
    <3>1. belief' = belief \/ (IsStatus(Head(replies)) /\ belief' = Head(replies).epoch)
      BY <1>8 DEF Link!ReadAck, Link!ReadStatus, IsStatus
    <3>2. 1 \in 1..Len(replies) /\ Head(replies) = replies[1]
      BY <1>2, <2>1
    <3> QED
      BY <1>2, <3>1, <3>2, ReplyFacts
  <2>4. Unanswered' \in 0..(QueueCap - 1)
    <3>1. CASE Link!ReadAck
      BY <1>13, <3>1 DEF Link!ReadAck
    <3>2. CASE Link!ReadStatus
      BY <1>2, <3>2 DEF Link!ReadStatus
    <3> QED
      BY <1>8, <3>1, <3>2
  <2> QED
    BY <1>2, <1>3, <2>1, <2>2, <2>3, <2>4 DEF Link!TypeOK
<1>9. CASE Link!ReadNothing
  <2>1. /\ pc \in {"ack", "status"} /\ pc' \in {"turn", "work", "ack", "status"}
        /\ Unanswered' = IF pc = "ack" THEN Unanswered - 1 ELSE Unanswered
        /\ skipped' = skipped /\ requests' = requests /\ replies' = replies
        /\ belief' = belief /\ epoch' = epoch /\ up' = up
    BY <1>9 DEF Link!ReadNothing
  <2>2. timeouts' \in 0..MaxTimeouts
    <3>1. timeouts' = timeouts \/ (timeouts < MaxTimeouts /\ timeouts' = timeouts + 1)
      BY <1>9 DEF Link!ReadNothing
    <3> QED
      BY <1>1, <1>2, <3>1
  <2>3. Unanswered' \in 0..(QueueCap - 1)
    BY <1>2, <1>13, <2>1
  <2> QED
    BY <1>2, <1>3, <2>1, <2>2, <2>3 DEF Link!TypeOK
<1>10. CASE Link!GateAnswers
  <2>1. /\ replies' = Append(replies, Link!Answer(Head(requests)))
        /\ requests # << >> /\ requests' = Tail(requests)
        /\ pc' = pc /\ Unanswered' = Unanswered /\ skipped' = skipped
        /\ belief' = belief /\ epoch' = epoch /\ up' = up /\ timeouts' = timeouts
    BY <1>10 DEF Link!GateAnswers
  <2>2. Link!Answer(Head(requests)) \in {Link!Ack} \cup {Link!Status(e) : e \in 0..MaxEpoch}
    BY <1>2 DEF Link!Answer
  <2>3. replies' \in Seq({Link!Ack} \cup {Link!Status(e) : e \in 0..MaxEpoch})
    BY <1>2, <2>1, <2>2, AppendTyped
  <2>4. requests' \in Seq({"RESULT_PUBLISH", "HEARTBEAT"})
    BY <1>2, <2>1
  <2> QED
    BY <1>2, <1>3, <2>1, <2>3, <2>4 DEF Link!TypeOK
<1>11. CASE Link!GatePromotes
  <2>1. /\ epoch < MaxEpoch /\ epoch' = epoch + 1
        /\ pc' = pc /\ Unanswered' = Unanswered /\ skipped' = skipped /\ requests' = requests
        /\ replies' = replies /\ belief' = belief /\ up' = up /\ timeouts' = timeouts
    BY <1>11 DEF Link!GatePromotes
  <2>2. epoch' \in 0..MaxEpoch
    BY <1>1, <1>2, <2>1
  <2> QED
    BY <1>2, <1>3, <2>1, <2>2 DEF Link!TypeOK
<1>12. CASE Link!GateDies
  <2>1. /\ up' = FALSE /\ requests' = << >>
        /\ pc' = pc /\ Unanswered' = Unanswered /\ skipped' = skipped
        /\ replies' = replies /\ belief' = belief /\ epoch' = epoch /\ timeouts' = timeouts
    BY <1>12 DEF Link!GateDies
  <2>2. requests' \in Seq({"RESULT_PUBLISH", "HEARTBEAT"})
    BY <2>1
  <2>3. up' \in BOOLEAN
    BY <2>1, Zenon
  <2> QED
    BY <1>2, <2>1, <2>2, <2>3 DEF Link!TypeOK
<1> QED
  BY <1>4, <1>5, <1>6, <1>7, <1>8, <1>9, <1>10, <1>11, <1>12 DEF Link!Next, Link!Broker

\* Every step of the process is a step of its gate link, or none.
LEMMA StepOfLink ==
    ASSUME IntakeInv, Next
    PROVE  Link!Next \/ UNCHANGED Link!vars
<1>1. Len(queue) \in 0..(QueueCap - 1) /\ 0 \in 0..(QueueCap - 1)
  BY EntryFacts, BrokerConstants DEF IntakeInv, IntakeType, In!TypeOK
<1>2. CASE Turn
  BY <1>1, <1>2 DEF Turn, Link!Next, Link!Broker
<1>3. CASE PublishNext
  BY <1>3 DEF PublishNext, Link!Next, Link!Broker
<1>4. CASE Talk
  BY <1>4 DEF Talk, Link!Next, Link!Broker
<1>5. CASE Reader
  <2>1. batch' = batch /\ pc' = pc /\ UNCHANGED gateVars
    BY <1>5 DEF Reader, In!SendFrame, In!ReadData, In!ReadDecision, In!ReaderEnds
  <2> QED
    BY <2>1 DEF gateVars, Link!vars, Unanswered
<1>6. CASE Gate
  BY <1>6 DEF Gate, Link!Next
<1> QED
  BY <1>2, <1>3, <1>4, <1>5, <1>6 DEF Next, Loop
-----------------------------------------------------------------------------
(***************************************************************************)
(* The theorems.                                                           *)
(***************************************************************************)

\* The process starts in the invariant.
LEMMA InitBroker == Init => BrokerInv
<1> SUFFICES ASSUME Init PROVE BrokerInv
  OBVIOUS
<1> USE BrokerConstants
<1>1. /\ sending = [type |-> "REPLAY_DATA", cursor |-> 1] /\ frames = << >> /\ pending = In!None
      /\ alive = TRUE /\ queue = << >> /\ batch = << >> /\ last = In!None /\ losses = 0
      /\ entered = {} /\ done = {}
      /\ Len(frames) = 0 /\ Len(queue) = 0 /\ Len(batch) = 0
  BY DEF Init, In!Init
<1>2. sending \in In!Frame
  <2>1. 1 \in 1..(MaxWindow + 1)
    OBVIOUS
  <2> QED
    BY <1>1, <2>1 DEF In!Frame
<1>3. IntakeType
  <2>1. frames \in Seq(In!Frame) /\ queue \in Seq(In!Entry) /\ batch \in Seq(In!Entry)
    BY <1>1
  <2>2. alive \in BOOLEAN
    BY <1>1, Zenon
  <2>3. losses \in 0..MaxLosses /\ Len(queue) < QueueCap
    BY <1>1
  <2> QED
    <3>1. sent \in [In!Cursor -> In!Window]
      BY DEF Init, In!Init, In!Cursor, In!Window
    <3> QED
      BY <1>1, <1>2, <2>1, <2>2, <2>3, <3>1 DEF IntakeType, In!TypeOK
<1>4. Len(Stream) = 1 /\ Stream[1] = sending /\ Place(sending) = 1
  <2>1. Place(sending) = 1
    BY <1>1 DEF Place
  <2> QED
    BY <1>1, <1>3, <2>1, StreamFacts
<1>5. StreamHasGaps /\ PairedBeforeStream
  BY <1>1, <1>4 DEF StreamHasGaps, PairedBeforeStream, In!None
<1>6. InLine /\ PairedRight
  BY <1>1 DEF InLine, PairedRight
<1>7. /\ pc = "turn" /\ Unanswered = 0 /\ skipped = 0 /\ requests = << >> /\ replies = << >>
      /\ belief = 0 /\ epoch = 0 /\ up = TRUE /\ timeouts = 0 /\ Len(replies) = 0
  BY DEF Init, Link!Init
<1>8. Link!TypeOK
  <2>1. /\ requests \in Seq({"RESULT_PUBLISH", "HEARTBEAT"})
        /\ replies \in Seq({Link!Ack} \cup {Link!Status(e) : e \in 0..MaxEpoch})
    BY <1>7
  <2>2. up \in BOOLEAN
    BY <1>7, Zenon
  <2> QED
    BY <1>7, <2>1, <2>2 DEF Link!TypeOK
<1>9. RepliesRise
  BY <1>7 DEF RepliesRise
<1> QED
  BY <1>3, <1>5, <1>6, <1>8, <1>9 DEF BrokerInv, IntakeInv, LinkInv

\* Every step preserves the invariant.
LEMMA NextBroker == BrokerInv /\ [Next]_vars => BrokerInv'
<1> SUFFICES ASSUME BrokerInv, [Next]_vars PROVE BrokerInv'
  OBVIOUS
<1>1. IntakeInv /\ LinkInv
  BY DEF BrokerInv
<1>2. IntakeInv'
  <2>1. CASE UNCHANGED inVars
    BY <1>1, <2>1, IntakeStutters
  <2>2. CASE In!Drain \/ In!Process \/ Reader
    BY <1>1, <2>2, DrainInv, ProcessInv, SendFrameInv, ReadDataInv, ReadDecisionInv, ReaderEndsInv
       DEF Reader
  <2> QED
    BY <2>1, <2>2 DEF Next, Loop, Turn, PublishNext, Talk, Gate, vars
<1>3. ASSUME UNCHANGED Link!vars PROVE LinkInv'
  BY <1>1, <1>3 DEF LinkInv, Link!TypeOK, RepliesRise, IsStatus, Link!vars
<1>4. ASSUME Link!Next PROVE LinkInv'
  <2>1. Len(batch) \in Nat
    BY <1>1, EntryFacts DEF IntakeInv
  <2> QED
    BY <1>1, <1>4, <2>1, RepliesInv, LinkTypeInv DEF LinkInv
<1>5. UNCHANGED vars => UNCHANGED Link!vars
  BY DEF vars, inVars, gateVars, Link!vars, Unanswered
<1>6. LinkInv'
  BY <1>1, <1>3, <1>4, <1>5, StepOfLink
<1> QED
  BY <1>2, <1>6 DEF BrokerInv

\* The broker's invariant holds whatever is lost, dropped, late or gone.
THEOREM BrokerCorrect == Spec => []BrokerInv
BY InitBroker, NextBroker, PTL DEF Spec

\* One lost frame never pairs an observation with another one's window.
THEOREM PairingSurvivesOneLoss == Spec => []OneLossNeverMispairs
<1>1. BrokerInv => OneLossNeverMispairs
  BY DEF BrokerInv, IntakeInv, PairedRight, OneLossNeverMispairs, In!OneLossNeverMispairs, In!Entries
<1> QED
  BY <1>1, BrokerCorrect, PTL

\* Entries are processed in the order of the stream, none twice, whatever was
\* lost, dropped or not decoded; so, unless the streaming thread was lapped,
\* in increasing order of windows.
THEOREM ProcessingOrder == Spec => []ProcessedInOrder
<1>1. ASSUME BrokerInv PROVE ProcessedInOrder
  <2> SUFFICES ASSUME batch # << >>
               PROVE  /\ Head(batch).cursor > last
                      /\ last # In!None /\ ~In!Lapped => In!NextIsNewer
    BY DEF ProcessedInOrder, In!ProcessedInOrder
  <2>1. IntakeType /\ InLine
    BY <1>1 DEF BrokerInv, IntakeInv
  <2>2. Head(batch) = batch[1] /\ 1 \in 1..Len(batch)
    BY <2>1 DEF IntakeType, In!TypeOK
  <2>3. /\ batch[1] \in In!Entry /\ batch[1].cursor \in Nat /\ last \in Nat
        /\ last < batch[1].cursor
    BY <2>1, <2>2, EntryFacts DEF InLine
  <2>4. ASSUME last # In!None, ~In!Lapped PROVE In!NextIsNewer
    <3>1. last \in In!Cursor /\ batch[1].cursor \in In!Cursor
      BY <2>1, <2>3, <2>4 DEF IntakeType, In!TypeOK, In!Entry
    <3>2. sent[last] = last /\ sent[batch[1].cursor] = batch[1].cursor
      BY <2>4, <3>1 DEF In!Lapped
    <3> QED
      BY <2>2, <2>3, <3>2 DEF In!NextIsNewer
  <2> QED
    BY <2>2, <2>3, <2>4
<1> QED
  BY <1>1, BrokerCorrect, PTL

\* What a broker believes of the gate's epoch never goes back.
THEOREM BeliefMonotone == Spec => BeliefNeverRegresses
<1>1. BrokerInv /\ [Next]_vars => [belief' >= belief]_Link!vars
  <2> SUFFICES ASSUME BrokerInv, [Next]_vars, ~UNCHANGED Link!vars PROVE belief' >= belief
    OBVIOUS
  <2>1. UNCHANGED vars => UNCHANGED Link!vars
    BY DEF vars, inVars, gateVars, Link!vars, Unanswered
  <2>2. Link!Next
    BY <2>1, StepOfLink DEF BrokerInv
  <2> QED
    BY <2>2, RepliesInv DEF BrokerInv
<1> QED
  BY <1>1, BrokerCorrect, PTL DEF Spec, BeliefNeverRegresses, Link!BeliefNeverRegresses

\* The two threads around one main loop implement the gate connection of
\* GateLink.tla, as far as safety goes: its batch is what the broker has
\* drained and not seen answered.
THEOREM ImplementsLink == Spec => Link!Init /\ [][Link!Next]_Link!vars
<1>1. Init => Link!Init
  BY DEF Init
<1>2. BrokerInv /\ [Next]_vars => [Link!Next]_Link!vars
  <2>1. UNCHANGED vars => UNCHANGED Link!vars
    BY DEF vars, inVars, gateVars, Link!vars, Unanswered
  <2> QED
    BY <2>1, StepOfLink DEF BrokerInv
<1> QED
  BY <1>1, <1>2, BrokerCorrect, PTL DEF Spec
-----------------------------------------------------------------------------
(***************************************************************************)
(* The policy: losses.                                                     *)
(***************************************************************************)

\* A non-empty set of natural numbers has a least element.
LEMMA LeastNatural ==
    ASSUME NEW T, T \subseteq Nat, T # {}
    PROVE  \E x \in T : \A y \in T : x <= y
<1> DEFINE Below == {p \in Nat \X Nat : p[1] < p[2]}
<1>1. IsWellFoundedOn(Below, Nat)
  BY NatLessThanWellFounded, Zenon DEF OpToRel
<1> HIDE DEF Below
<1>2. PICK x \in T : \A y \in T : ~(<<y, x>> \in Below)
  BY <1>1, WFMin
<1>3. \A y \in T : x <= y
  <2> TAKE y \in T
  <2>1. <<y, x>> \in Nat \X Nat /\ <<y, x>>[1] = y /\ <<y, x>>[2] = x
    OBVIOUS
  <2>2. ~(y < x)
    BY <1>2, <2>1 DEF Below
  <2> QED
    BY <2>2
<1> QED
  BY <1>3

\* A function on a finite set attains its maximum.
LEMMA MaximumAttained ==
    ASSUME NEW S, IsFiniteSet(S), S # {}, NEW f \in [S -> Nat]
    PROVE  \E x \in S : \A y \in S : f[x] >= f[y]
<1> DEFINE HasMax(U) == \E x \in U : \A y \in U : f[x] >= f[y]
           T == {k \in Nat : \E U \in SUBSET S : U # {} /\ Cardinality(U) = k /\ ~HasMax(U)}
<1>1. \A U \in SUBSET S : IsFiniteSet(U) /\ Cardinality(U) \in Nat
  BY FS_Subset, FS_CardinalityType
<1> SUFFICES ASSUME T # {} PROVE FALSE
  BY <1>1
<1>2. PICK k \in T : \A j \in T : k <= j
  <2>1. T \subseteq Nat
    OBVIOUS
  <2> HIDE DEF T
  <2> QED
    BY <2>1, LeastNatural
<1>3. PICK U \in SUBSET S : U # {} /\ Cardinality(U) = k /\ ~HasMax(U)
  BY <1>2
<1>4. PICK x \in U : TRUE
  BY <1>3
<1> DEFINE V == U \ {x}
<1>5. V \in SUBSET S /\ Cardinality(V) = k - 1 /\ k \in Nat /\ Cardinality(V) \in Nat
  BY <1>1, <1>3, <1>4, FS_RemoveElement
<1>6. HasMax(V) \/ V = {}
  <2>1. ~(k <= k - 1)
    BY <1>5
  <2>2. k - 1 \notin T
    BY <1>2, <2>1
  <2> QED
    BY <1>5, <2>2
<1>7. \A y \in U : f[y] \in Nat
  BY <1>3
<1>8. CASE V = {}
  <2>1. \A y \in U : y = x
    BY <1>8
  <2> QED
    BY <1>3, <1>4, <1>7, <2>1
<1>9. CASE HasMax(V)
  <2>1. PICK m \in V : \A y \in V : f[m] >= f[y]
    BY <1>9
  <2>2. \A y \in U : y = x \/ y \in V
    OBVIOUS
  <2>3. CASE f[m] >= f[x]
    BY <1>3, <2>1, <2>2, <2>3
  <2>4. CASE ~(f[m] >= f[x])
    <3>1. \A y \in U : f[x] >= f[y]
      BY <1>4, <1>7, <2>1, <2>2, <2>4
    <3> QED
      BY <1>3, <1>4, <3>1
  <2> QED
    BY <2>3, <2>4
<1> QED
  BY <1>6, <1>8, <1>9

\* The worst-case loss of an action is one of its costs and no less than any.
LEMMA LossFacts ==
    ASSUME table \in Table, NEW a \in Action
    PROVE  /\ WorstCaseLoss(a) \in Nat
           /\ \E s \in Scenario : WorstCaseLoss(a) = table.cost[a][s]
           /\ \A s \in Scenario : WorstCaseLoss(a) >= table.cost[a][s]
<1> DEFINE f == table.cost[a]
           X == {table.cost[a][s] : s \in Scenario}
<1>1. f \in [Scenario -> Nat] /\ IsFiniteSet(Scenario) /\ Scenario # {}
  BY PolicyConstants
<1>2. PICK s \in Scenario : \A r \in Scenario : f[s] >= f[r]
  BY <1>1, MaximumAttained
<1>3. f[s] \in X /\ \A y \in X : f[s] >= y
  BY <1>2
<1>4. WorstCaseLoss(a) = CHOOSE x \in X : \A y \in X : x >= y
  BY DEF WorstCaseLoss, Max
<1> HIDE DEF X
<1>5. WorstCaseLoss(a) \in X /\ \A y \in X : WorstCaseLoss(a) >= y
  BY <1>3, <1>4
<1> QED
  BY <1>1, <1>5 DEF X
-----------------------------------------------------------------------------
(***************************************************************************)
(* The loop over actions.                                                  *)
(***************************************************************************)

\* The candidate after the actions below n, given those after fewer.
Candidate(eligible, f, n) ==
    IF n = 0 THEN NoAction
    ELSE IF n - 1 \in eligible /\ Better(n - 1, f[n - 1]) THEN n - 1 ELSE f[n - 1]

\* The loop's candidates exist: there is a function that satisfies their
\* recursive definition.
LEMMA ScanExists ==
    ASSUME NEW eligible, NEW N \in Nat
    PROVE  \E f : f = [n \in 0..N |-> Candidate(eligible, f, n)]
<1> DEFINE Exists(k) == \E f : f = [n \in 0..k |-> Candidate(eligible, f, n)]
           T == {k \in Nat : ~Exists(k)}
<1> SUFFICES ASSUME T # {} PROVE FALSE
  OBVIOUS
<1>1. PICK k \in T : \A j \in T : k <= j
  <2>1. T \subseteq Nat
    OBVIOUS
  <2> HIDE DEF T
  <2> QED
    BY <2>1, LeastNatural
<1>2. k \in Nat /\ ~Exists(k)
  BY <1>1
<1>3. CASE k = 0
  <2> DEFINE f == [n \in 0..0 |-> NoAction]
  <2>1. \A n \in 0..0 : Candidate(eligible, f, n) = NoAction
    BY DEF Candidate
  <2>2. f = [n \in 0..0 |-> Candidate(eligible, f, n)]
    BY <2>1
  <2> QED
    BY <1>2, <1>3, <2>2
<1>4. CASE k # 0
  <2>1. k - 1 \in Nat /\ ~(k <= k - 1)
    BY <1>2, <1>4
  <2>2. Exists(k - 1)
    BY <1>1, <2>1
  <2>3. PICK g : g = [n \in 0..(k - 1) |-> Candidate(eligible, g, n)]
    BY <2>2
  <2> DEFINE f == [n \in 0..k |-> IF n = k THEN Candidate(eligible, g, k) ELSE g[n]]
  <2>4. \A n \in 0..k : n # 0 => n - 1 \in 0..(k - 1) /\ n - 1 \in 0..k /\ n - 1 # k
    BY <1>2
  <2>5. \A n \in 0..k : n # k => n \in 0..(k - 1)
    BY <1>2
  <2>6. \A n \in 0..k : Candidate(eligible, f, n) = Candidate(eligible, g, n)
    <3>1. \A n \in 0..k : n # 0 => f[n - 1] = g[n - 1]
      BY <2>4
    <3> HIDE DEF f
    <3> QED
      BY <3>1 DEF Candidate
  <2>7. \A n \in 0..k : f[n] = Candidate(eligible, f, n)
    <3> TAKE n \in 0..k
    <3>1. CASE n = k
      BY <2>6, <3>1
    <3>2. CASE n # k
      <4>1. f[n] = g[n] /\ g[n] = Candidate(eligible, g, n)
        BY <2>3, <2>5, <3>2
      <4> QED
        BY <2>6, <4>1
    <3> QED
      BY <3>1, <3>2
  <2>8. f = [n \in 0..k |-> f[n]]
    OBVIOUS
  <2> HIDE DEF f
  <2>9. f = [n \in 0..k |-> Candidate(eligible, f, n)]
    BY <2>7, <2>8
  <2> QED
    BY <1>2, <2>9
<1> QED
  BY <1>3, <1>4

\* What the loop leaves: of the eligible actions below n, one of least loss
\* and, among equals, of least id.
Leads(a, b) ==
    \/ WorstCaseLoss(a) < WorstCaseLoss(b)
    \/ WorstCaseLoss(a) = WorstCaseLoss(b) /\ ActionId[a] <= ActionId[b]

\* The loop finds the minimax action.
LEMMA BestIsMinimax ==
    ASSUME table \in Table, NEW eligible \in SUBSET Action, eligible # {}
    PROVE  Best(eligible) \in eligible /\ \A b \in eligible : Leads(Best(eligible), b)
<1> DEFINE scan == CHOOSE f : f = [n \in 0..ActionCount |-> Candidate(eligible, f, n)]
<1>1. ActionCount \in Nat /\ \A a \in Action : ActionId[a] \in Nat /\ a \in Nat /\ a < ActionCount
  BY PolicyConstants DEF Action
<1>2. scan = [n \in 0..ActionCount |-> Candidate(eligible, scan, n)]
  BY <1>1, ScanExists
<1>3. Best(eligible) = scan[ActionCount]
  BY DEF Best, Candidate
<1> HIDE DEF scan
<1>4. \A n \in 0..ActionCount : scan[n] = Candidate(eligible, scan, n)
  BY <1>2
<1>5. \A a \in Action : WorstCaseLoss(a) \in Nat
  BY LossFacts
<1>6. \A a \in eligible : Leads(a, a)
  BY <1>1, <1>5 DEF Leads
<1>7. \A a, b, c \in eligible : Leads(a, b) /\ Leads(b, c) => Leads(a, c)
  BY <1>1, <1>5 DEF Leads
<1>8. \A a, b \in eligible : /\ Better(a, b) => Leads(a, b)
                             /\ ~Better(a, b) => Leads(b, a)
  <2>1. \A a \in eligible : a # NoAction
    BY <1>1 DEF NoAction
  <2> QED
    BY <1>1, <1>5, <2>1 DEF Leads, Better
<1> DEFINE Found(n) == \/ scan[n] = NoAction /\ \A b \in eligible : ~(b < n)
                       \/ /\ scan[n] \in eligible
                          /\ \A b \in eligible : b < n => Leads(scan[n], b)
           T == {n \in 0..ActionCount : ~Found(n)}
<1>9. T = {}
  <2> SUFFICES ASSUME T # {} PROVE FALSE
    OBVIOUS
  <2>1. PICK k \in T : \A j \in T : k <= j
    <3>1. T \subseteq Nat
      BY <1>1
    <3> HIDE DEF T
    <3> QED
      BY <3>1, LeastNatural
  <2>2. k \in 0..ActionCount /\ ~Found(k)
    BY <2>1
  <2>3. k # 0
    <3>1. 0 \in 0..ActionCount /\ \A b \in eligible : ~(b < 0)
      BY <1>1
    <3>2. scan[0] = NoAction
      BY <1>4, <3>1 DEF Candidate
    <3> QED
      BY <2>2, <3>1, <3>2
  <2> DEFINE m == k - 1
             best == scan[m]
  <2>4. m \in 0..ActionCount /\ ~(k <= m) /\ \A b \in eligible : b < k => b = m \/ b < m
    BY <1>1, <2>2, <2>3
  <2>5. Found(m)
    BY <2>1, <2>4
  <2>6. scan[k] = IF m \in eligible /\ Better(m, best) THEN m ELSE best
    BY <1>4, <2>2, <2>3 DEF Candidate
  <2> HIDE DEF m, best
  <2>7. CASE best = NoAction /\ \A b \in eligible : ~(b < m)
    <3>1. CASE m \in eligible
      <4>1. scan[k] = m
        BY <2>6, <2>7, <3>1 DEF Better
      <4>2. \A b \in eligible : b < k => b = m
        BY <2>4, <2>7
      <4> QED
        BY <1>6, <2>2, <3>1, <4>1, <4>2
    <3>2. CASE m \notin eligible
      <4>1. scan[k] = NoAction /\ \A b \in eligible : ~(b < k)
        BY <2>4, <2>6, <2>7, <3>2
      <4> QED
        BY <2>2, <4>1
    <3> QED
      BY <3>1, <3>2
  <2>8. CASE best \in eligible /\ \A b \in eligible : b < m => Leads(best, b)
    <3>1. CASE m \in eligible /\ Better(m, best)
      <4>1. scan[k] = m /\ Leads(m, best)
        BY <1>8, <2>6, <2>8, <3>1
      <4>2. \A b \in eligible : b < k => Leads(m, b)
        BY <1>6, <1>7, <2>4, <2>8, <3>1, <4>1
      <4> QED
        BY <2>2, <3>1, <4>1, <4>2
    <3>2. CASE ~(m \in eligible /\ Better(m, best))
      <4>1. scan[k] = best
        BY <2>6, <3>2
      <4>2. \A b \in eligible : b < k => Leads(best, b)
        BY <1>8, <2>4, <2>8, <3>2
      <4> QED
        BY <2>2, <2>8, <4>1, <4>2
    <3> QED
      BY <3>1, <3>2
  <2> QED
    BY <2>5, <2>7, <2>8 DEF best
<1>10. Found(ActionCount) /\ \A b \in eligible : b < ActionCount
  BY <1>1, <1>9
<1> QED
  BY <1>3, <1>10

\* No eligible action beats a by more than the margin.
Near(a, eligible) ==
    \A b \in eligible : 100 * WorstCaseLoss(b) >= WorstCaseLoss(a) * (100 - Margin)

\* A leader is within the margin of all.
LEMMA LeaderIsNear ==
    ASSUME table \in Table, NEW eligible \in SUBSET Action, NEW a \in eligible,
           \A b \in eligible : Leads(a, b)
    PROVE  Near(a, eligible)
<1>1. Margin \in 0..100 /\ \A b \in eligible : WorstCaseLoss(b) \in Nat
  BY PolicyConstants, LossFacts
<1>2. \A b \in eligible : WorstCaseLoss(a) <= WorstCaseLoss(b)
  BY <1>1 DEF Leads
<1>3. \A x \in Nat, m \in 0..100 : 100 * x >= x * (100 - m)
  <2> TAKE x \in Nat, m \in 0..100
  <2> DEFINE y == x * m
  <2>1. y \in Nat
    OBVIOUS
  <2>2. x * (100 - m) = 100 * x - y
    OBVIOUS
  <2> HIDE DEF y
  <2> QED
    BY <2>1, <2>2
<1> DEFINE x == WorstCaseLoss(a) * (100 - Margin)
<1>4. x \in Int /\ 100 * WorstCaseLoss(a) >= x
  BY <1>1, <1>3
<1> HIDE DEF x
<1>5. \A b \in eligible : 100 * WorstCaseLoss(b) >= x
  BY <1>1, <1>2, <1>4
<1> QED
  BY <1>5 DEF x, Near

\* The selection with a valid table.
LEMMA SelectionFacts ==
    ASSUME table \in Table, NEW eligible \in SUBSET Action, NEW previous,
           Valid(table), eligible # {}
    PROVE  LET a == SelectAction(eligible, previous) IN
           /\ a \in eligible
           /\ \/ \A b \in eligible : Leads(a, b)
              \/ a = previous
           /\ Near(a, eligible)
           /\ previous \in eligible /\ Near(previous, eligible) => a = previous
<1> DEFINE best == Best(eligible)
           a == SelectAction(eligible, previous)
<1>1. best \in eligible /\ \A b \in eligible : Leads(best, b)
  BY BestIsMinimax
<1>2. a = IF Holds(previous, best, eligible) THEN previous ELSE best
  BY DEF SelectAction
<1>3. \A b \in eligible : WorstCaseLoss(b) \in Nat
  BY LossFacts
<1> HIDE DEF best, a
<1> DEFINE x == WorstCaseLoss(previous) * (100 - Margin)
<1>4. CASE ~Holds(previous, best, eligible)
  <2>1. a = best /\ Near(a, eligible)
    BY <1>1, <1>2, <1>4, LeaderIsNear
  <2>2. ~(previous \in eligible /\ Near(previous, eligible))
    <3> SUFFICES ASSUME previous \in eligible, Near(previous, eligible) PROVE FALSE
      OBVIOUS
    <3>1. x \in Int
      <4>1. WorstCaseLoss(previous) \in Int /\ 100 - Margin \in Int
        BY <1>3, PolicyConstants
      <4> QED
        BY <4>1
    <3>2. 100 * WorstCaseLoss(best) < x
      BY <1>4 DEF Holds
    <3>3. 100 * WorstCaseLoss(best) >= x
      BY <1>1 DEF Near
    <3> HIDE DEF x
    <3> QED
      BY <1>1, <1>3, <3>1, <3>2, <3>3
  <2> QED
    BY <1>1, <2>1, <2>2 DEF a
<1>5. CASE Holds(previous, best, eligible)
  <2>1. a = previous /\ previous \in eligible /\ ~(100 * WorstCaseLoss(best) < x)
    BY <1>2, <1>5 DEF Holds
  <2>2. x \in Int
    <3>1. WorstCaseLoss(previous) \in Int /\ 100 - Margin \in Int
      BY <1>3, <2>1, PolicyConstants
    <3> QED
      BY <3>1
  <2>3. \A b \in eligible : WorstCaseLoss(best) <= WorstCaseLoss(b)
    BY <1>1, <1>3 DEF Leads
  <2> HIDE DEF x
  <2>4. \A b \in eligible : 100 * WorstCaseLoss(b) >= x
    BY <1>1, <1>3, <2>1, <2>2, <2>3
  <2>5. Near(previous, eligible)
    BY <2>4 DEF x, Near
  <2> QED
    BY <2>1, <2>5 DEF a
<1> QED
  BY <1>4, <1>5
-----------------------------------------------------------------------------
(***************************************************************************)
(* The main loop.                                                          *)
(***************************************************************************)

\* The inductive invariant, with the types: the decision of the last window
\* is held, was eligible for it and within the margin of all that were.
Settled ==
    out.ok => /\ Asked
              /\ held = out.action
              /\ out.action \in elig
              /\ IF Valid(table) THEN Near(out.action, elig) ELSE out.action = Baseline
PolicyInv == PolicyTypeOK /\ Settled

\* The loss of an action depends on the table alone.
LEMMA SameLoss ==
    ASSUME table' = table
    PROVE  /\ \A b : WorstCaseLoss(b)' = WorstCaseLoss(b)
           /\ \A a, eligible : Near(a, eligible)' = Near(a, eligible)
  BY DEF WorstCaseLoss, Near

\* One window: what the policy is asked and what becomes of its answer.
LEMMA WindowFacts ==
    ASSUME PolicyTypeOK, NEW s \in Sensor, NEW admitted \in BOOLEAN, NEW position \in BOOLEAN,
           NEW taken \in BOOLEAN, NEW wide \in BOOLEAN, Process(s, admitted, position, taken, wide)
    PROVE  LET selected == IF Asked THEN SelectAction(elig', held) ELSE NoAction
           IN  /\ PolicyTypeOK' /\ table' = table /\ elig' \subseteq Action
               /\ selected # NoAction => selected \in elig'
               /\ out'.ok <=> selected # NoAction
               /\ selected # NoAction => out'.action = selected /\ held' = selected
<1> DEFINE ages == IF admitted THEN Touched(s) ELSE age
           eligible == Scored(Eligible(ages))
           selected == IF Asked THEN SelectAction(eligible, held) ELSE NoAction
           mask == Configured \cap (IF selected = NoAction THEN Sensor ELSE Mask[selected])
           fused == admitted /\ position /\ s \in mask /\ (~ready \/ taken)
           degraded == wide \/ (Asked /\ EligibleCount(eligible) \in 1..(ActionCount - 1))
           status == IF ~ready' THEN "INVALID" ELSE IF degraded THEN "DEGRADED" ELSE "VALID"
<1>1. /\ age' = ages /\ elig' = eligible /\ held' = (IF selected = NoAction THEN held ELSE selected)
      /\ ready' = (ready \/ fused) /\ table' = table
      /\ out' = [ok |-> selected # NoAction, action |-> Reported(selected), status |-> status,
                 fused |-> fused]
  BY DEF Process
<1>2. DOMAIN ages \subseteq Sensor /\ ages \in [DOMAIN ages -> 0..(FreshWindow + 1)]
  <2>1. \A t \in DOMAIN age : age[t] \in 0..(FreshWindow + 1)
    BY DEF PolicyTypeOK
  <2>2. 0 \in 0..(FreshWindow + 1)
    BY PolicyConstants
  <2>3. CASE ages = age
    BY <2>3 DEF PolicyTypeOK
  <2>4. CASE ages = [t \in DOMAIN age \cup {s} |-> IF t = s THEN 0 ELSE age[t]]
    <3>1. DOMAIN ages = DOMAIN age \cup {s}
      BY <2>4
    <3>2. \A t \in DOMAIN age \cup {s} : ages[t] \in 0..(FreshWindow + 1)
      BY <2>1, <2>2, <2>4
    <3> QED
      BY <2>4, <3>1, <3>2 DEF PolicyTypeOK
  <2> QED
    BY <2>3, <2>4 DEF Touched
<1>3. eligible \subseteq Action
  BY DEF Eligible, Scored
<1>4. fused \in BOOLEAN /\ (selected # NoAction) \in BOOLEAN /\ ready' \in BOOLEAN
  BY <1>1
<1>5. status \in Status
  BY DEF Status
<1> HIDE DEF ages, eligible, fused, degraded, status
<1>7. selected # NoAction => selected \in eligible
  <2>1. CASE ~Asked
    BY <2>1
  <2>2. CASE Asked /\ Valid(table) /\ eligible # {}
    <3>1. table \in Table
      BY DEF PolicyTypeOK
    <3>2. SelectAction(eligible, held) \in eligible
      BY <1>3, <2>2, <3>1, SelectionFacts
    <3> QED
      BY <1>3, <2>2, <3>2
  <2>3. CASE Asked /\ ~(Valid(table) /\ eligible # {})
    BY <1>3, <2>3 DEF SelectAction
  <2> QED
    BY <2>1, <2>2, <2>3
<1>8. selected = IF Asked THEN SelectAction(elig', held) ELSE NoAction
  BY <1>1
<1> HIDE DEF selected
<1>9. Reported(selected) \in Action /\ (selected # NoAction => Reported(selected) = selected)
  <2>1. 0 \in Action
    BY PolicyConstants DEF Action
  <2> QED
    BY <1>3, <1>7, <2>1 DEF Reported
<1>10. out' \in Outcome
  BY <1>1, <1>4, <1>5, <1>9 DEF Outcome
<1>11. PolicyTypeOK'
  BY <1>1, <1>2, <1>3, <1>4, <1>7, <1>10 DEF PolicyTypeOK
<1>12. /\ out'.ok = (selected # NoAction) /\ out'.action = Reported(selected)
  BY <1>1
<1> QED
  BY <1>1, <1>3, <1>7, <1>8, <1>9, <1>11, <1>12

\* One window decides as the properties say.
LEMMA DecisionFacts ==
    ASSUME PolicyInv, NEW s \in Sensor, NEW admitted \in BOOLEAN, NEW position \in BOOLEAN,
           NEW taken \in BOOLEAN, NEW wide \in BOOLEAN, Process(s, admitted, position, taken, wide)
    PROVE  /\ PolicyInv' /\ table' = table
           /\ (Valid(table) /\ out'.ok) =>
                 \/ \A b \in elig' : Leads(out'.action, b)
                 \/ out'.action = held
           /\ (out.ok /\ elig' \subseteq elig /\ out.action \in elig')
                 => out'.ok /\ out'.action = out.action
<1> DEFINE a == SelectAction(elig', held)
<1>1. /\ PolicyTypeOK' /\ table' = table /\ elig' \subseteq Action
      /\ Asked /\ a # NoAction => a \in elig'
      /\ out'.ok <=> Asked /\ a # NoAction
      /\ out'.ok => out'.action = a /\ held' = a
  <2>1. LET selected == IF Asked THEN a ELSE NoAction
        IN  /\ PolicyTypeOK' /\ table' = table /\ elig' \subseteq Action
            /\ selected # NoAction => selected \in elig'
            /\ out'.ok <=> selected # NoAction
            /\ selected # NoAction => out'.action = selected /\ held' = selected
    BY WindowFacts DEF PolicyInv
  <2> QED
    BY <2>1
<1>2. ASSUME Valid(table), elig' # {}
      PROVE  /\ a \in elig' /\ a # NoAction
             /\ (\A b \in elig' : Leads(a, b)) \/ a = held
             /\ Near(a, elig')
             /\ held \in elig' /\ Near(held, elig') => a = held
  <2>1. table \in Table /\ elig' \in SUBSET Action
    BY <1>1 DEF PolicyInv, PolicyTypeOK
  <2>2. /\ a \in elig'
        /\ (\A b \in elig' : Leads(a, b)) \/ a = held
        /\ Near(a, elig')
        /\ held \in elig' /\ Near(held, elig') => a = held
    BY <1>2, <2>1, SelectionFacts
  <2>3. NoAction \notin Action
    BY DEF NoAction, Action
  <2> HIDE DEF a
  <2> QED
    BY <1>1, <2>2, <2>3
<1>3. ~Valid(table) => a = IF Baseline \in elig' THEN Baseline ELSE NoAction
  BY DEF SelectAction
<1>4. Valid(table)' = Valid(table)
  BY <1>1 DEF Valid
<1> HIDE DEF a
<1>5. Settled'
  <2>1. Near(out.action, elig)' <=> Near(out'.action, elig')
    BY <1>1 DEF Near, WorstCaseLoss
  <2>2. CASE ~out'.ok
    BY <2>2 DEF Settled
  <2>3. CASE out'.ok /\ Valid(table)
    <3>1. Asked /\ held' = out'.action /\ out'.action \in elig' /\ Near(out'.action, elig')
      BY <1>1, <1>2, <2>3
    <3> QED
      BY <1>4, <2>1, <2>3, <3>1 DEF Settled, Asked
  <2>4. CASE out'.ok /\ ~Valid(table)
    <3>1. Asked /\ held' = out'.action /\ out'.action \in elig' /\ out'.action = Baseline
      BY <1>1, <1>3, <2>4
    <3> QED
      BY <1>4, <2>4, <3>1 DEF Settled, Asked
  <2> QED
    BY <2>2, <2>3, <2>4
<1>6. ASSUME out.ok, elig' \subseteq elig, out.action \in elig'
      PROVE  out'.ok /\ out'.action = out.action
  <2>1. CASE Valid(table)
    <3>1. Near(held, elig) /\ held = out.action /\ Asked
      BY <1>6, <2>1 DEF PolicyInv, Settled
    <3>2. Near(held, elig')
      BY <1>6, <3>1 DEF Near
    <3> QED
      BY <1>1, <1>2, <1>6, <2>1, <3>1, <3>2
  <2>2. CASE ~Valid(table)
    <3>1. out.action = Baseline /\ Asked
      BY <1>6, <2>2 DEF PolicyInv, Settled
    <3>2. Baseline # NoAction
      BY DEF Baseline, NoAction
    <3> QED
      BY <1>1, <1>3, <1>6, <2>2, <3>1, <3>2
  <2> QED
    BY <2>1, <2>2
<1>7. ASSUME Valid(table), out'.ok
      PROVE  (\A b \in elig' : Leads(out'.action, b)) \/ out'.action = held
  BY <1>1, <1>2, <1>7
<1> QED
  BY <1>1, <1>5, <1>6, <1>7 DEF PolicyInv

\* A tick leaves the last decision alone.
LEMMA TickFacts ==
    ASSUME PolicyTypeOK, Tick
    PROVE  /\ PolicyTypeOK' /\ table' = table /\ held' = held /\ elig' = elig /\ out' = out
<1>1. /\ age' = [s \in DOMAIN age |-> IF age[s] <= FreshWindow THEN age[s] + 1 ELSE age[s]]
      /\ table' = table /\ held' = held /\ ready' = ready /\ elig' = elig /\ out' = out
  BY DEF Tick
<1>2. DOMAIN age' = DOMAIN age /\ age' \in [DOMAIN age' -> 0..(FreshWindow + 1)]
  <2>1. FreshWindow \in Nat /\ \A s \in DOMAIN age : age[s] \in 0..(FreshWindow + 1)
    BY PolicyConstants DEF PolicyTypeOK
  <2>2. \A s \in DOMAIN age : (IF age[s] <= FreshWindow THEN age[s] + 1 ELSE age[s]) \in 0..(FreshWindow + 1)
    BY <2>1
  <2> QED
    BY <1>1, <2>2
<1> QED
  BY <1>1, <1>2 DEF PolicyTypeOK

\* Every step, and every stuttering step, keeps the invariant.
LEMMA NextPolicy == PolicyInv /\ [PolicyNext]_policyVars => PolicyInv'
<1> SUFFICES ASSUME PolicyInv, [PolicyNext]_policyVars PROVE PolicyInv'
  OBVIOUS
<1>1. CASE table' = table /\ held' = held /\ elig' = elig /\ out' = out /\ PolicyTypeOK'
  <2>1. Settled'
    BY <1>1, SameLoss DEF PolicyInv, Settled, Asked, Valid
  <2> QED
    BY <1>1, <2>1 DEF PolicyInv
<1>2. CASE UNCHANGED policyVars
  <2>1. PolicyTypeOK'
    BY <1>2 DEF PolicyInv, PolicyTypeOK, policyVars
  <2> QED
    BY <1>1, <1>2, <2>1 DEF policyVars
<1>3. CASE Tick
  BY <1>1, <1>3, TickFacts DEF PolicyInv
<1>4. ASSUME NEW s \in Sensor, NEW admitted \in BOOLEAN, NEW position \in BOOLEAN,
             NEW taken \in BOOLEAN, NEW wide \in BOOLEAN, Process(s, admitted, position, taken, wide)
      PROVE  PolicyInv'
  BY <1>4, DecisionFacts
<1> QED
  BY <1>2, <1>3, <1>4 DEF PolicyNext

\* The invariant holds in the initial states.
LEMMA InitPolicy == PolicyInit => PolicyInv
<1> SUFFICES ASSUME PolicyInit PROVE PolicyInv
  OBVIOUS
<1>1. 0 \in Action
  BY PolicyConstants DEF Action
<1>2. out \in Outcome /\ out.ok = FALSE
  <2>1. FALSE \in BOOLEAN /\ "INVALID" \in Status
    BY DEF Status
  <2> QED
    BY <1>1, <2>1 DEF PolicyInit, Outcome
<1>3. ready \in BOOLEAN
  BY DEF PolicyInit
<1>4. age = << >> /\ DOMAIN age = {} /\ age \in [DOMAIN age -> 0..(FreshWindow + 1)]
  BY DEF PolicyInit
<1> QED
  BY <1>1, <1>2, <1>3, <1>4 DEF PolicyInit, PolicyInv, PolicyTypeOK, Settled
-----------------------------------------------------------------------------
(***************************************************************************)
(* The theorems.                                                           *)
(***************************************************************************)

\* The inductive invariant holds throughout, and with it the type invariant.
THEOREM PolicyCorrect == PolicySpec => []PolicyInv
  BY InitPolicy, NextPolicy, PTL DEF PolicySpec

\* DecisionIsNearMinimax: the loop of obicall_dgt_select_action, with its
\* tie-break and hysteresis, decides as the minimax reference says.
THEOREM NearMinimax == PolicySpec => DecisionIsNearMinimax
<1> DEFINE Decides == (Valid(table') /\ out'.ok) =>
                         /\ out'.action \in elig'
                         /\ \/ Minimax(out.action)'
                            \/ out'.action = held /\ WithinMargin(out.action)'
<1>1. ASSUME PolicyInv, [PolicyNext]_policyVars
      PROVE  Decides \/ UNCHANGED policyVars
  <2>1. PolicyInv'
    BY <1>1, NextPolicy
  <2>2. ASSUME Valid(table'), out'.ok
        PROVE  out'.action \in elig' /\ WithinMargin(out.action)'
    BY <2>1, <2>2 DEF PolicyInv, Settled, Valid, Near, WithinMargin
  <2>3. CASE Tick
    <3>1. out' = out /\ held' = held
      BY <2>3 DEF Tick
    <3>2. out'.ok => out'.action = held
      BY <2>1, <3>1 DEF PolicyInv, Settled
    <3> QED
      BY <2>2, <3>2
  <2>4. ASSUME NEW s \in Sensor, NEW admitted \in BOOLEAN, NEW position \in BOOLEAN,
               NEW taken \in BOOLEAN, NEW wide \in BOOLEAN, Process(s, admitted, position, taken, wide)
        PROVE  Decides
    <3>1. /\ table' = table
          /\ (Valid(table) /\ out'.ok) => (\A b \in elig' : Leads(out'.action, b)) \/ out'.action = held
      BY <1>1, <2>4, DecisionFacts
    <3>2. Valid(table') => Valid(table)
      BY <3>1 DEF Valid
    <3>3. ASSUME out'.action \in elig', \A b \in elig' : Leads(out'.action, b)
          PROVE  Minimax(out.action)'
      BY <3>1, <3>3 DEF Minimax, Leads, WorstCaseLoss
    <3> QED
      BY <2>2, <3>1, <3>2, <3>3
  <2> QED
    BY <1>1, <2>3, <2>4 DEF PolicyNext
<1> QED
  BY <1>1, PolicyCorrect, PTL DEF PolicySpec, DecisionIsNearMinimax

\* NoFlapping: unless the actions that compete gain one or lose it, the
\* decision of obicall_dgt_select_action is the one of the window before.
THEOREM DecisionsDoNotFlap == PolicySpec => NoFlapping
<1> DEFINE Stays == (out.ok /\ elig' \subseteq elig /\ out.action \in elig')
                       => out'.ok /\ out'.action = out.action
<1>1. ASSUME PolicyInv, [PolicyNext]_policyVars
      PROVE  Stays \/ UNCHANGED policyVars
  <2>1. CASE Tick
    BY <2>1 DEF Tick
  <2>2. ASSUME NEW s \in Sensor, NEW admitted \in BOOLEAN, NEW position \in BOOLEAN,
               NEW taken \in BOOLEAN, NEW wide \in BOOLEAN, Process(s, admitted, position, taken, wide)
        PROVE  Stays
    BY <1>1, <2>2, DecisionFacts
  <2> QED
    BY <1>1, <2>1, <2>2 DEF PolicyNext
<1> QED
  BY <1>1, PolicyCorrect, PTL DEF PolicySpec, NoFlapping
=============================================================================
