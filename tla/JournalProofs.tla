--------------------------- MODULE JournalProofs ---------------------------
(***************************************************************************)
(* The admission journal's safety, for every number of sensors, boot       *)
(* sessions, tracks and connections, every ring capacity, reorder window,  *)
(* lateness and pending limit.                                             *)
(***************************************************************************)
EXTENDS Journal, FiniteSetTheorems, WellFoundedInduction, TLAPS

-----------------------------------------------------------------------------
(***************************************************************************)
(* The inductive invariant.                                                *)
(***************************************************************************)

TracksAreFinite == IsFiniteSet(DOMAIN tracks)

\* The boot session of the i-th admission has lasted until now: its sensor
\* admitted nothing of another boot since.
SessionLasts(i) ==
    \A k \in i..Len(admitted) :
        admitted[k].sensor = admitted[i].sensor => admitted[k].boot = admitted[i].boot

\* The track of a sensor bounds all that was admitted in its present session,
\* though it stores one sequence number and one watermark.
TracksBoundSession ==
    \A i \in 1..Len(admitted) : SessionLasts(i) =>
        LET s == admitted[i].sensor IN
        /\ s \in DOMAIN tracks
        /\ tracks[s] \in Track
        /\ tracks[s].boot = admitted[i].boot
        /\ admitted[i].sequence <= tracks[s].high
        /\ admitted[i].time <= tracks[s].watermark

\* The ring holds the newest RingCapacity windows, each at its place.
RingHoldsNewest ==
    \A w \in 1..(next - 1) : next - RingCapacity <= w => ring[w % RingCapacity] = w

\* A connection that does not stream yet was sent nothing.
NothingSentYet ==
    \A i \in Slot : conns[i].phase \in {"hello", "request", "worker"} => last[i] = 0

\* The copied entry is behind the ring's head.
SendingBehindHead == \A i \in Slot : conns[i].phase = "send" => conns[i].cursor < next

\* A subscriber that was not lapped is ahead of what it was sent; the window
\* at its cursor is in the ring, or copied already.
CursorsKeepUp ==
    \A i \in Slot : ~lapped[i] =>
        /\ conns[i].phase = "stream" =>
              last[i] < conns[i].cursor /\ next - RingCapacity <= conns[i].cursor
        /\ conns[i].phase = "send" =>
              /\ last[i] < conns[i].cursor
              /\ conns[i].entry = conns[i].cursor
              /\ next - RingCapacity <= conns[i].cursor + 1

JournalInv ==
    /\ TypeOK
    /\ TracksAreFinite
    /\ TracksBoundSession
    /\ RingHoldsNewest
    /\ NothingSentYet
    /\ SendingBehindHead
    /\ CursorsKeepUp
-----------------------------------------------------------------------------
(***************************************************************************)
(* Numbers.                                                                *)
(***************************************************************************)

\* A non-empty set of natural numbers has a least element.
LEMMA LeastNatural ==
    ASSUME NEW T, T \subseteq Nat, T # {}
    PROVE  \E x \in T : \A y \in T : x <= y
<1> DEFINE Below == {p \in Nat \X Nat : p[1] < p[2]}
<1>1. IsWellFoundedOn(Below, Nat)
  BY NatLessThanWellFounded, Zenon DEF OpToRel
<1> HIDE DEF Below
<1>2. PICK x \in T : \A y \in T : ~(<<y, x>> \in Below)
  BY <1>1, WFMin
<1>3. \A y \in T : x <= y
  <2> TAKE y \in T
  <2>1. <<y, x>> \in Nat \X Nat /\ <<y, x>>[1] = y /\ <<y, x>>[2] = x
    OBVIOUS
  <2>2. ~(y < x)
    BY <1>2, <2>1 DEF Below
  <2> QED
    BY <2>2
<1> QED
  BY <1>3

\* Two windows less than the ring's capacity apart have different entries.
LEMMA EntriesDiffer ==
    ASSUME NEW n \in Nat \ {0}, NEW v \in Nat, NEW w \in Nat, v < w, w < v + n
    PROVE  v % n # w % n
<1> SUFFICES ASSUME v % n = w % n PROVE FALSE
  OBVIOUS
<1>1. \A x \in Nat : x = n * (x \div n) + (x % n) /\ x \div n \in Int /\ x % n \in Nat
  OBVIOUS
<1>2. PICK p \in Int, q \in Int : v = n * p + (v % n) /\ w = n * q + (w % n)
  BY <1>1
<1>3. w - v = n * q - n * p
  BY <1>1, <1>2
<1>4. n * q - n * p = n * (q - p)
  OBVIOUS
<1>5. \A d \in Int : ~(0 < n * d /\ n * d < n)
  OBVIOUS
<1> QED
  BY <1>3, <1>4, <1>5

\* The cursor of a new subscriber: Max of a request, 1 and the oldest window.
LEMMA MaxOfThree ==
    ASSUME NEW x \in Int, NEW y \in Int, NEW z \in Int
    PROVE  Max({x, y, z}) \in {x, y, z} /\ \A v \in {x, y, z} : v <= Max({x, y, z})
<1>1. \E m \in {x, y, z} : \A v \in {x, y, z} : m >= v
  <2>1. CASE x >= y /\ x >= z
    BY <2>1
  <2>2. CASE y >= x /\ y >= z
    BY <2>2
  <2>3. CASE z >= x /\ z >= y
    BY <2>3
  <2> QED
    BY <2>1, <2>2, <2>3
<1>2. /\ Max({x, y, z}) \in {x, y, z}
      /\ \A v \in {x, y, z} : Max({x, y, z}) >= v
  BY <1>1 DEF Max
<1> QED
  BY <1>2
-----------------------------------------------------------------------------
(***************************************************************************)
(* Admission.                                                              *)
(***************************************************************************)

\* compute_pending_depth_locked: no subscriber lags by more than Pending.
LEMMA PendingBoundsLag ==
    ASSUME TypeOK, NEW i \in Slot, Subscriber(i)
    PROVE  Pending \in Nat /\ next - Pending <= conns[i].cursor
<1> DEFINE cursors == {conns[j].cursor : j \in {k \in Slot : Subscriber(k)}}
<1>1. /\ \A j \in Slot : conns[j].cursor \in Nat
      /\ next \in Nat
  <2>1. \A c \in Conn : c.cursor \in 1..(MaxWindow + 1)
    BY DEF Conn
  <2>2. \A j \in Slot : conns[j] \in Conn
    BY DEF TypeOK
  <2>3. MaxWindow \in Nat
    BY JournalConstants
  <2> QED
    BY <2>1, <2>2, <2>3 DEF TypeOK
<1>2. cursors \subseteq Nat /\ conns[i].cursor \in cursors
  BY <1>1
<1>3. Pending = IF cursors = {} \/ Min(cursors) >= next THEN 0 ELSE next - Min(cursors)
  BY DEF Pending
<1> HIDE DEF cursors
<1>4. \E m \in cursors : \A c \in cursors : m <= c
  BY <1>2, LeastNatural
<1>5. Min(cursors) \in cursors /\ \A c \in cursors : Min(cursors) <= c
  BY <1>4 DEF Min
<1>6. Min(cursors) \in Nat /\ Min(cursors) <= conns[i].cursor /\ cursors # {}
  BY <1>2, <1>5
<1> QED
  BY <1>1, <1>3, <1>6

\* What obicall_journal_admit checked of an observation it admits.
LEMMA AdmittedWas ==
    ASSUME NEW t, NEW o, NEW pending, Admit(t, o, pending) = "OK"
    PROVE  /\ ~(pending >= MaxPending)
           /\ NewSession(t, o) \/ (~(o.sequence <= t.high) /\ ~(o.time < t.watermark - MaxLateness))
BY DEF Admit

\* The track after a decision: unchanged, or of the admitted observation's
\* session with its sequence number and a watermark not below its time; in
\* the same session both are above what the track held, but for lateness.
LEMMA TrackMovesOn ==
    ASSUME JournalInv, NEW o \in Observation, NEW t, NEW pending,
           t = FindOrCreateTrack(o.sensor)
    PROVE  LET reason == Admit(t, o, pending)
               after == TrackAfter(t, o, reason)
           IN  /\ after \in {NoTrack} \cup Track
               /\ reason # "OK" => after = t
               /\ reason = "OK" =>
                     /\ after \in Track /\ after.boot = o.boot
                     /\ after.high = o.sequence /\ o.time <= after.watermark
                     /\ (t \in Track /\ t.boot = o.boot) =>
                           /\ t.high < o.sequence
                           /\ t.watermark <= after.watermark
                           /\ t.watermark - MaxLateness <= o.time
<1> DEFINE reason == Admit(t, o, pending)
           after == TrackAfter(t, o, reason)
<1>1. {MaxSequence, MaxTime, MaxLateness} \subseteq Nat
  BY JournalConstants, AdmissionConstants
<1>2. /\ o.boot \in Boot /\ o.sequence \in 0..MaxSequence /\ o.time \in 0..MaxTime
      /\ o.sequence \in Nat /\ o.time \in Nat
  BY <1>1 DEF Observation
<1>3. t \in {NoTrack} \cup Track
  BY DEF JournalInv, TypeOK, FindOrCreateTrack
<1>4. \A x \in Track : /\ x.hasData = TRUE /\ x.boot \in Boot /\ x.high \in 0..MaxSequence
                       /\ x.watermark \in 0..MaxTime
  BY DEF Track
<1>5. \A x \in Track : x.high \in Nat /\ x.watermark \in Nat
  BY <1>1, <1>4
<1>6. CASE reason # "OK"
  <2>1. after = t
    BY <1>6 DEF TrackAfter
  <2> QED
    BY <1>3, <1>6, <2>1
<1>7. CASE reason = "OK"
  <2> DEFINE mark == IF NewSession(t, o) \/ o.time > t.watermark THEN o.time ELSE t.watermark
  <2>1. after = [hasData |-> TRUE, boot |-> o.boot, high |-> o.sequence, watermark |-> mark]
    BY <1>7 DEF TrackAfter
  <2>2. NewSession(t, o) <=> ~(t \in Track /\ t.boot = o.boot)
    <3>1. CASE t = NoTrack
      <4>1. ~NoTrack.hasData
        BY DEF NoTrack
      <4>2. NoTrack \notin Track
        BY <1>4, <4>1
      <4> QED
        BY <3>1, <4>1, <4>2 DEF NewSession
    <3>2. CASE t \in Track
      BY <1>4, <3>2 DEF NewSession
    <3> QED
      BY <1>3, <3>1, <3>2
  <2>3. mark \in 0..MaxTime /\ o.time <= mark /\ (~NewSession(t, o) => t.watermark <= mark)
    <3>1. CASE NewSession(t, o)
      BY <1>2, <3>1
    <3>2. CASE ~NewSession(t, o)
      <4>1. t \in Track
        BY <2>2, <3>2
      <4>2. t.watermark \in 0..MaxTime /\ t.watermark \in Nat
        BY <1>4, <1>5, <4>1
      <4> QED
        BY <1>2, <3>2, <4>2
    <3> QED
      BY <3>1, <3>2
  <2>4. NewSession(t, o) \/ (~(o.sequence <= t.high) /\ ~(o.time < t.watermark - MaxLateness))
    BY <1>7, AdmittedWas
  <2> HIDE DEF mark, after, reason
  <2>5. after \in Track /\ after.boot = o.boot /\ after.high = o.sequence /\ after.watermark = mark
    BY <1>2, <2>1, <2>3 DEF Track
  <2>6. ASSUME t \in Track, t.boot = o.boot
        PROVE  t.high < o.sequence /\ t.watermark <= mark /\ t.watermark - MaxLateness <= o.time
    <3>1. ~NewSession(t, o)
      BY <2>2, <2>6
    <3>2. ~(o.sequence <= t.high) /\ ~(o.time < t.watermark - MaxLateness) /\ t.watermark <= mark
      BY <2>3, <2>4, <3>1
    <3>3. t.high \in Nat /\ t.watermark \in Nat
      BY <1>5, <2>6
    <3> QED
      BY <1>1, <1>2, <3>2, <3>3
  <2> QED
    BY <1>7, <2>3, <2>5, <2>6 DEF after, reason
<1> HIDE DEF after, reason
<1> QED
  BY <1>6, <1>7 DEF after, reason

\* A window and its ring entry are assigned: the ring goes on to hold the
\* newest windows, and only subscribers counted as lapped fall out of it.
LEMMA RingMovesOn ==
    ASSUME JournalInv, next <= MaxWindow, next' = next + 1,
           ring' = [ring EXCEPT ![next % RingCapacity] = next],
           lapped' = [i \in Slot |->
                        \/ lapped[i]
                        \/ conns[i].phase = "stream" /\ conns[i].cursor <= next - RingCapacity
                        \/ conns[i].phase = "send" /\ conns[i].cursor < next - RingCapacity],
           UNCHANGED <<conns, last>>
    PROVE  /\ next' \in 1..(MaxWindow + 1)
           /\ ring' \in [0..(RingCapacity - 1) -> {NoEntry} \cup RingEntry]
           /\ lapped' \in [Slot -> BOOLEAN]
           /\ RingHoldsNewest' /\ NothingSentYet' /\ SendingBehindHead' /\ CursorsKeepUp'
<1>1. /\ MaxWindow \in Nat /\ RingCapacity \in Nat \ {0}
  BY JournalConstants
<1>2. /\ next \in Nat /\ next \in 1..MaxWindow
      /\ ring \in [0..(RingCapacity - 1) -> {NoEntry} \cup RingEntry]
      /\ \A w \in Nat : w % RingCapacity \in 0..(RingCapacity - 1)
  BY <1>1 DEF JournalInv, TypeOK
<1>3. \A i \in Slot : conns[i].cursor \in Nat
  <2>1. \A c \in Conn : c.cursor \in 1..(MaxWindow + 1)
    BY DEF Conn
  <2>2. \A i \in Slot : conns[i] \in Conn
    BY DEF JournalInv, TypeOK
  <2> QED
    BY <1>1, <2>1, <2>2
<1>4. next' \in 1..(MaxWindow + 1)
  BY <1>1, <1>2
<1>5. ring' \in [0..(RingCapacity - 1) -> {NoEntry} \cup RingEntry]
  BY <1>2 DEF RingEntry
<1>6. lapped' \in [Slot -> BOOLEAN]
  <2>1. lapped \in [Slot -> BOOLEAN]
    BY DEF JournalInv, TypeOK
  <2> QED
    BY <2>1, Zenon
<1>7. RingHoldsNewest'
  <2> SUFFICES ASSUME NEW w \in 1..(next' - 1), next' - RingCapacity <= w
               PROVE  ring'[w % RingCapacity] = w
    BY DEF RingHoldsNewest
  <2>1. CASE w = next
    BY <1>2, <2>1
  <2>2. CASE w # next
    <3>1. /\ w \in 1..(next - 1) /\ next - RingCapacity <= w
          /\ w \in Nat /\ w < next /\ next < w + RingCapacity
      BY <1>1, <1>2, <2>2
    <3>2. w % RingCapacity # next % RingCapacity
      BY <1>1, <1>2, <3>1, EntriesDiffer
    <3>3. ring[w % RingCapacity] = w
      BY <3>1 DEF JournalInv, RingHoldsNewest
    <3> QED
      BY <1>2, <3>1, <3>2, <3>3
  <2> QED
    BY <2>1, <2>2
<1>8. NothingSentYet' /\ SendingBehindHead'
  <2>1. NothingSentYet'
    BY DEF JournalInv, NothingSentYet
  <2>2. SendingBehindHead'
    <3> SUFFICES ASSUME NEW i \in Slot, conns[i].phase = "send" PROVE conns[i].cursor < next'
      BY DEF SendingBehindHead
    <3>1. conns[i].cursor < next
      BY DEF JournalInv, SendingBehindHead
    <3>2. conns[i].cursor \in Int /\ next \in Int
      BY <1>2, <1>3
    <3>3. \A x, y \in Int : x < y => x < y + 1
      OBVIOUS
    <3> QED
      BY <3>1, <3>2, <3>3
  <2> QED
    BY <2>1, <2>2
<1>9. CursorsKeepUp'
  <2> SUFFICES ASSUME NEW i \in Slot, ~lapped'[i]
               PROVE  /\ conns[i].phase = "stream" =>
                           last[i] < conns[i].cursor /\ next' - RingCapacity <= conns[i].cursor
                      /\ conns[i].phase = "send" =>
                           /\ last[i] < conns[i].cursor
                           /\ conns[i].entry = conns[i].cursor
                           /\ next' - RingCapacity <= conns[i].cursor + 1
    BY DEF CursorsKeepUp
  <2>1. /\ ~lapped[i]
        /\ conns[i].phase = "stream" => ~(conns[i].cursor <= next - RingCapacity)
        /\ conns[i].phase = "send" => ~(conns[i].cursor < next - RingCapacity)
    OBVIOUS
  <2>2. /\ conns[i].phase = "stream" => last[i] < conns[i].cursor
        /\ conns[i].phase = "send" =>
              last[i] < conns[i].cursor /\ conns[i].entry = conns[i].cursor
    BY <2>1 DEF JournalInv, CursorsKeepUp
  <2>3. /\ ~(conns[i].cursor <= next - RingCapacity) => next' - RingCapacity <= conns[i].cursor
        /\ ~(conns[i].cursor < next - RingCapacity) => next' - RingCapacity <= conns[i].cursor + 1
    <3>1. \A x, y, r \in Nat : /\ ~(x <= y - r) => (y + 1) - r <= x
                             /\ ~(x < y - r) => (y + 1) - r <= x + 1
      OBVIOUS
    <3>2. next \in Nat /\ RingCapacity \in Nat
      BY <1>1, <1>2, Zenon
    <3>3. conns[i].cursor \in Nat
      BY <1>3, Zenon
    <3>4. /\ ~(conns[i].cursor <= next - RingCapacity)
             => (next + 1) - RingCapacity <= conns[i].cursor
          /\ ~(conns[i].cursor < next - RingCapacity)
             => (next + 1) - RingCapacity <= conns[i].cursor + 1
      BY <3>1, <3>2, <3>3
    <3> QED
      BY <3>4, Zenon
  <2> QED
    BY <2>1, <2>2, <2>3
<1> QED
  BY <1>4, <1>5, <1>6, <1>7, <1>8, <1>9

\* The tracks bound their sessions after a decision, too.
LEMMA TracksMoveOn ==
    ASSUME JournalInv, NEW o \in Observation, NEW t, NEW reason, NEW pending,
           t = FindOrCreateTrack(o.sensor), reason = Admit(t, o, pending),
           tracks' = [s \in DOMAIN tracks \cup {o.sensor} |->
                        IF s = o.sensor THEN TrackAfter(t, o, reason) ELSE tracks[s]],
           admitted' = IF reason = "OK" THEN Append(admitted, o) ELSE admitted
    PROVE  TracksBoundSession'
<1> DEFINE n == Len(admitted)
           after == TrackAfter(t, o, reason)
<1>1. /\ admitted \in Seq(Observation) /\ n \in Nat
      /\ {MaxSequence, MaxTime} \subseteq Nat
  BY JournalConstants DEF JournalInv, TypeOK
<1>2. /\ o.sensor \in Sensor /\ o.sequence \in Nat /\ o.time \in Nat
      /\ \A x \in Observation : x.sequence \in Nat /\ x.time \in Nat
  BY <1>1 DEF Observation
<1>3. /\ DOMAIN tracks' = DOMAIN tracks \cup {o.sensor}
      /\ tracks'[o.sensor] = after
      /\ \A s \in DOMAIN tracks : s # o.sensor => tracks'[s] = tracks[s]
  OBVIOUS
<1>4. /\ reason # "OK" => after = t
      /\ reason = "OK" =>
           /\ after \in Track /\ after.boot = o.boot
           /\ after.high = o.sequence /\ o.time <= after.watermark
           /\ (t \in Track /\ t.boot = o.boot) =>
                 t.high < o.sequence /\ t.watermark <= after.watermark
  BY TrackMovesOn
<1>5. \A s \in DOMAIN tracks : s = o.sensor => t = tracks[s]
  BY DEF FindOrCreateTrack
<1>6. \A x \in Track : x.high \in Nat /\ x.watermark \in Nat
  BY <1>1 DEF Track
<1>7. CASE reason # "OK"
  <2> SUFFICES ASSUME NEW i \in 1..Len(admitted'), SessionLasts(i)'
               PROVE  LET s == admitted'[i].sensor IN
                      /\ s \in DOMAIN tracks'
                      /\ tracks'[s] \in Track
                      /\ tracks'[s].boot = admitted'[i].boot
                      /\ admitted'[i].sequence <= tracks'[s].high
                      /\ admitted'[i].time <= tracks'[s].watermark
    BY DEF TracksBoundSession
  <2>1. admitted' = admitted /\ SessionLasts(i)
    BY <1>7 DEF SessionLasts
  <2>2. LET s == admitted[i].sensor IN
        /\ s \in DOMAIN tracks
        /\ tracks[s] \in Track
        /\ tracks[s].boot = admitted[i].boot
        /\ admitted[i].sequence <= tracks[s].high
        /\ admitted[i].time <= tracks[s].watermark
    BY <2>1 DEF JournalInv, TracksBoundSession
  <2>3. tracks'[admitted[i].sensor] = tracks[admitted[i].sensor]
    BY <1>3, <1>4, <1>5, <1>7, <2>2
  <2> QED
    BY <1>3, <2>1, <2>2, <2>3
<1>8. CASE reason = "OK"
  <2>1. /\ admitted' = Append(admitted, o) /\ Len(admitted') = n + 1
        /\ \A k \in 1..n : admitted'[k] = admitted[k]
        /\ admitted'[n + 1] = o
    BY <1>1, <1>8
  <2> HIDE DEF n, after
  <2> SUFFICES ASSUME NEW i \in 1..(n + 1), SessionLasts(i)'
               PROVE  LET s == admitted'[i].sensor IN
                      /\ s \in DOMAIN tracks'
                      /\ tracks'[s] \in Track
                      /\ tracks'[s].boot = admitted'[i].boot
                      /\ admitted'[i].sequence <= tracks'[s].high
                      /\ admitted'[i].time <= tracks'[s].watermark
    BY <2>1 DEF TracksBoundSession
  <2>2. CASE i = n + 1
    BY <1>2, <1>3, <1>4, <1>8, <2>1, <2>2
  <2>3. CASE i # n + 1
    <3> DEFINE s == admitted[i].sensor
    <3>1. i \in 1..n /\ admitted'[i] = admitted[i]
      BY <1>1, <2>1, <2>3
    <3>2. \A k \in i..(n + 1) :
             admitted'[k].sensor = admitted[i].sensor => admitted'[k].boot = admitted[i].boot
      BY <2>1, <3>1 DEF SessionLasts
    <3>3. SessionLasts(i)
      <4>1. \A k \in i..n : k \in 1..n /\ k \in i..(n + 1)
        BY <1>1, <3>1
      <4> QED
        BY <2>1, <3>2, <4>1 DEF SessionLasts, n
    <3>4. /\ s \in DOMAIN tracks /\ tracks[s] \in Track
          /\ tracks[s].boot = admitted[i].boot
          /\ admitted[i].sequence <= tracks[s].high /\ admitted[i].time <= tracks[s].watermark
      BY <3>1, <3>3 DEF JournalInv, TracksBoundSession, n
    <3>5. CASE s # o.sensor
      BY <1>3, <3>1, <3>4, <3>5
    <3>6. CASE s = o.sensor
      <4>1. n + 1 \in i..(n + 1)
        BY <1>1, <3>1
      <4>2. o.boot = admitted[i].boot
        BY <2>1, <3>2, <3>6, <4>1
      <4>3. t = tracks[s] /\ t \in Track /\ t.boot = o.boot
        BY <1>5, <3>4, <3>6, <4>2
      <4>4. t.high < o.sequence /\ t.watermark <= after.watermark /\ after.high = o.sequence
        BY <1>4, <1>8, <4>3
      <4>5. admitted[i] \in Observation
        BY <1>1, <3>1 DEF n
      <4>6. admitted[i].sequence <= after.high /\ admitted[i].time <= after.watermark
        BY <1>2, <1>4, <1>6, <1>8, <3>4, <4>3, <4>4, <4>5
      <4> QED
        BY <1>3, <1>4, <1>8, <3>1, <3>6, <4>2, <4>6
    <3> QED
      BY <3>5, <3>6
  <2> QED
    BY <2>2, <2>3
<1> QED
  BY <1>7, <1>8

\* admit_locked preserves the invariant.
LEMMA AdmitLockedInv ==
    ASSUME JournalInv, NEW o \in Observation, AdmitLocked(o)
    PROVE  JournalInv'
<1> DEFINE t == FindOrCreateTrack(o.sensor)
           reason == Admit(t, o, Pending)
<1>1. CASE UNCHANGED vars
  BY <1>1 DEF JournalInv, TypeOK, TracksAreFinite, TracksBoundSession, SessionLasts,
              RingHoldsNewest, NothingSentYet, SendingBehindHead, CursorsKeepUp, vars
<1>2. CASE HasTrack(o.sensor) /\ ~UNCHANGED vars
  <2>1. /\ next <= MaxWindow /\ next' = next + 1
        /\ tracks' = [s \in DOMAIN tracks \cup {o.sensor} |->
                        IF s = o.sensor THEN TrackAfter(t, o, reason) ELSE tracks[s]]
        /\ ring' = [ring EXCEPT ![next % RingCapacity] = next]
        /\ admitted' = IF reason = "OK" THEN Append(admitted, o) ELSE admitted
        /\ lapped' = [i \in Slot |->
                        \/ lapped[i]
                        \/ conns[i].phase = "stream" /\ conns[i].cursor <= next - RingCapacity
                        \/ conns[i].phase = "send" /\ conns[i].cursor < next - RingCapacity]
        /\ conns' = conns /\ last' = last
    BY <1>2, Zenon DEF AdmitLocked
  <2>2. /\ next' \in 1..(MaxWindow + 1)
        /\ ring' \in [0..(RingCapacity - 1) -> {NoEntry} \cup RingEntry]
        /\ lapped' \in [Slot -> BOOLEAN]
        /\ RingHoldsNewest' /\ NothingSentYet' /\ SendingBehindHead' /\ CursorsKeepUp'
    BY <2>1, RingMovesOn
  <2>3. TracksBoundSession'
    BY <2>1, TracksMoveOn
  <2>4. TracksAreFinite' /\ Cardinality(DOMAIN tracks') <= MaxTracks
    <3>1. DOMAIN tracks' = DOMAIN tracks \cup {o.sensor}
      BY <2>1
    <3>2. /\ IsFiniteSet(DOMAIN tracks) /\ Cardinality(DOMAIN tracks) <= MaxTracks
          /\ o.sensor \in DOMAIN tracks \/ Cardinality(DOMAIN tracks) < MaxTracks
      BY <1>2 DEF JournalInv, TypeOK, TracksAreFinite, HasTrack
    <3>3. Cardinality(DOMAIN tracks) \in Nat /\ MaxTracks \in Nat
      BY <3>2, FS_CardinalityType, JournalConstants
    <3>4. /\ IsFiniteSet(DOMAIN tracks')
          /\ o.sensor \in DOMAIN tracks => Cardinality(DOMAIN tracks') = Cardinality(DOMAIN tracks)
          /\ o.sensor \notin DOMAIN tracks =>
                Cardinality(DOMAIN tracks') = Cardinality(DOMAIN tracks) + 1
      BY <3>1, <3>2, FS_AddElement
    <3> QED
      BY <3>2, <3>3, <3>4 DEF TracksAreFinite
  <2>5. /\ DOMAIN tracks' \subseteq Sensor
        /\ \A s \in DOMAIN tracks' : tracks'[s] \in {NoTrack} \cup Track
    <3>1. TrackAfter(t, o, reason) \in {NoTrack} \cup Track
      BY TrackMovesOn
    <3>2. o.sensor \in Sensor
      BY DEF Observation
    <3>3. DOMAIN tracks \subseteq Sensor /\ \A s \in DOMAIN tracks : tracks[s] \in {NoTrack} \cup Track
      BY DEF JournalInv, TypeOK
    <3> HIDE DEF t, reason
    <3> QED
      BY <2>1, <3>1, <3>2, <3>3
  <2>6. admitted' \in Seq(Observation)
    BY <2>1 DEF JournalInv, TypeOK
  <2>7. TypeOK'
    BY <2>1, <2>2, <2>4, <2>5, <2>6 DEF JournalInv, TypeOK
  <2> QED
    BY <2>2, <2>3, <2>4, <2>7 DEF JournalInv
<1> QED
  BY <1>1, <1>2 DEF AdmitLocked
-----------------------------------------------------------------------------
(***************************************************************************)
(* Connections: each step changes one slot.                                *)
(***************************************************************************)

\* A step of one connection keeps the invariant if that connection does.
LEMMA OneConnection ==
    ASSUME JournalInv, NEW i \in Slot, NEW c \in Conn, NEW l \in 0..MaxWindow, NEW p \in BOOLEAN,
           conns' = [conns EXCEPT ![i] = c],
           last' = [last EXCEPT ![i] = l],
           lapped' = [lapped EXCEPT ![i] = p],
           UNCHANGED <<tracks, next, ring, admitted>>,
           c.phase \in {"hello", "request", "worker"} => l = 0,
           c.phase = "send" => c.cursor < next,
           ~p /\ c.phase = "stream" => l < c.cursor /\ next - RingCapacity <= c.cursor,
           ~p /\ c.phase = "send" => /\ l < c.cursor /\ c.entry = c.cursor
                                     /\ next - RingCapacity <= c.cursor + 1
    PROVE  JournalInv'
<1>1. /\ conns \in [Slot -> Conn] /\ last \in [Slot -> 0..MaxWindow] /\ lapped \in [Slot -> BOOLEAN]
  BY DEF JournalInv, TypeOK
<1>2. /\ conns' \in [Slot -> Conn] /\ last' \in [Slot -> 0..MaxWindow]
      /\ lapped' \in [Slot -> BOOLEAN]
  BY <1>1, Zenon
<1>3. /\ conns'[i] = c /\ last'[i] = l /\ lapped'[i] = p
      /\ \A j \in Slot : j # i => conns'[j] = conns[j] /\ last'[j] = last[j] /\ lapped'[j] = lapped[j]
  BY <1>1, Zenon
<1>4. TypeOK'
  BY <1>2 DEF JournalInv, TypeOK
<1>5. TracksAreFinite' /\ RingHoldsNewest'
  BY DEF JournalInv, TracksAreFinite, RingHoldsNewest
<1>6. TracksBoundSession'
  BY DEF JournalInv, TracksBoundSession, SessionLasts
<1>7. NothingSentYet'
  BY <1>3 DEF JournalInv, NothingSentYet
<1>8. SendingBehindHead'
  BY <1>3 DEF JournalInv, SendingBehindHead
<1>9. CursorsKeepUp'
  <2> SUFFICES ASSUME NEW j \in Slot, ~lapped'[j]
               PROVE  /\ conns'[j].phase = "stream" =>
                           last'[j] < conns'[j].cursor /\ next - RingCapacity <= conns'[j].cursor
                      /\ conns'[j].phase = "send" =>
                           /\ last'[j] < conns'[j].cursor
                           /\ conns'[j].entry = conns'[j].cursor
                           /\ next - RingCapacity <= conns'[j].cursor + 1
    BY DEF CursorsKeepUp
  <2>1. CASE j = i
    BY <1>3, <2>1
  <2>2. CASE j # i
    BY <1>3, <2>2 DEF JournalInv, CursorsKeepUp
  <2> QED
    BY <2>1, <2>2
<1> QED
  BY <1>4, <1>5, <1>6, <1>7, <1>8, <1>9 DEF JournalInv

\* What the type invariant says of one connection.
LEMMA ConnFacts ==
    ASSUME JournalInv, NEW i \in Slot
    PROVE  /\ conns[i] \in Conn
           /\ conns[i].cursor \in 1..(MaxWindow + 1) /\ conns[i].cursor \in Nat
           /\ last[i] \in 0..MaxWindow /\ last[i] \in Nat
           /\ lapped[i] \in BOOLEAN
           /\ last = [last EXCEPT ![i] = last[i]]
           /\ lapped = [lapped EXCEPT ![i] = lapped[i]]
           /\ next \in 1..(MaxWindow + 1) /\ next \in Nat
<1>1. MaxWindow \in Nat
  BY JournalConstants
<1>2. /\ conns \in [Slot -> Conn] /\ last \in [Slot -> 0..MaxWindow] /\ lapped \in [Slot -> BOOLEAN]
      /\ next \in 1..(MaxWindow + 1)
  BY DEF JournalInv, TypeOK
<1>3. \A c \in Conn : c.cursor \in 1..(MaxWindow + 1)
  BY DEF Conn
<1>4. conns[i] \in Conn /\ last[i] \in 0..MaxWindow
  BY <1>2
<1>5. conns[i].cursor \in 1..(MaxWindow + 1)
  BY <1>3, <1>4
<1>6. lapped[i] \in BOOLEAN
  BY <1>2, Zenon
<1>7. last = [last EXCEPT ![i] = last[i]] /\ lapped = [lapped EXCEPT ![i] = lapped[i]]
  BY <1>2
<1> QED
  BY <1>1, <1>2, <1>4, <1>5, <1>6, <1>7

\* The accept loop, HELLO, the end of a thread and a peer's death keep the
\* invariant: no window is streamed yet, or nothing but alive changes.
LEMMA HandshakeInv ==
    ASSUME JournalInv, NEW i \in Slot,
           \/ Accept(i) \/ HelloBroker(i) \/ (\E boot \in Boot : HelloWorker(i, boot))
           \/ Close(i) \/ PeerDies(i)
    PROVE  JournalInv'
<1>1. MaxWindow \in Nat
  BY JournalConstants
<1>2. FreeConn \in Conn /\ [FreeConn EXCEPT !.phase = "hello", !.alive = TRUE] \in Conn
  <2>1. 1 \in 1..(MaxWindow + 1)
    BY <1>1
  <2>2. FreeConn \in Conn
    BY <2>1 DEF FreeConn, Conn, Phase
  <2>3. \A c \in Conn : [c EXCEPT !.phase = "hello", !.alive = TRUE] \in Conn
    BY DEF Conn, Phase
  <2> QED
    BY <2>2, <2>3
<1>3. FreeConn.phase = "free" /\ [FreeConn EXCEPT !.phase = "hello", !.alive = TRUE].phase = "hello"
  BY DEF FreeConn
<1>4. CASE Accept(i)
  <2>1. /\ conns' = [conns EXCEPT ![i] = [FreeConn EXCEPT !.phase = "hello", !.alive = TRUE]]
        /\ last' = [last EXCEPT ![i] = 0] /\ lapped' = [lapped EXCEPT ![i] = FALSE]
        /\ UNCHANGED <<tracks, next, ring, admitted>>
    BY <1>4 DEF Accept
  <2>2. 0 \in 0..MaxWindow /\ FALSE \in BOOLEAN
    BY <1>1
  <2> QED
    BY <1>2, <1>3, <2>1, <2>2, OneConnection
<1>5. CASE HelloBroker(i)
  <2> DEFINE c == [conns[i] EXCEPT !.phase = "request"]
  <2>1. /\ conns' = [conns EXCEPT ![i] = c] /\ last' = last /\ lapped' = lapped
        /\ UNCHANGED <<tracks, next, ring, admitted>>
        /\ conns[i].phase = "hello"
    BY <1>5 DEF HelloBroker
  <2>2. c \in Conn /\ c.phase = "request"
    BY ConnFacts DEF Conn, Phase
  <2>3. last[i] = 0
    BY <2>1 DEF JournalInv, NothingSentYet
  <2> HIDE DEF c
  <2> QED
    BY <2>1, <2>2, <2>3, ConnFacts, OneConnection
<1>6. ASSUME NEW boot \in Boot, HelloWorker(i, boot) PROVE JournalInv'
  <2> DEFINE c == [conns[i] EXCEPT !.phase = "worker", !.boot = boot]
  <2>1. /\ conns' = [conns EXCEPT ![i] = c] /\ last' = last /\ lapped' = lapped
        /\ UNCHANGED <<tracks, next, ring, admitted>>
        /\ conns[i].phase = "hello"
    BY <1>6 DEF HelloWorker
  <2>2. c \in Conn /\ c.phase = "worker"
    BY ConnFacts DEF Conn, Phase
  <2>3. last[i] = 0
    BY <2>1 DEF JournalInv, NothingSentYet
  <2> HIDE DEF c
  <2> QED
    BY <2>1, <2>2, <2>3, ConnFacts, OneConnection
<1>7. CASE Close(i)
  <2>1. /\ conns' = [conns EXCEPT ![i] = FreeConn] /\ last' = last /\ lapped' = lapped
        /\ UNCHANGED <<tracks, next, ring, admitted>>
    BY <1>7 DEF Close
  <2> QED
    BY <1>2, <1>3, <2>1, ConnFacts, OneConnection
<1>8. CASE PeerDies(i)
  <2> DEFINE c == [conns[i] EXCEPT !.alive = FALSE]
  <2>1. /\ conns' = [conns EXCEPT ![i] = c] /\ last' = last /\ lapped' = lapped
        /\ UNCHANGED <<tracks, next, ring, admitted>>
    BY <1>8 DEF PeerDies
  <2>2. /\ c \in Conn /\ c.phase = conns[i].phase
        /\ c.cursor = conns[i].cursor /\ c.entry = conns[i].entry
    BY ConnFacts DEF Conn
  <2>3. /\ c.phase \in {"hello", "request", "worker"} => last[i] = 0
        /\ c.phase = "send" => c.cursor < next
        /\ ~lapped[i] /\ c.phase = "stream" => last[i] < c.cursor /\ next - RingCapacity <= c.cursor
        /\ ~lapped[i] /\ c.phase = "send" => /\ last[i] < c.cursor /\ c.entry = c.cursor
                                             /\ next - RingCapacity <= c.cursor + 1
    BY <2>2 DEF JournalInv, NothingSentYet, SendingBehindHead, CursorsKeepUp
  <2> HIDE DEF c
  <2> QED
    BY <2>1, <2>2, <2>3, ConnFacts, OneConnection
<1> QED
  BY <1>4, <1>5, <1>6, <1>7, <1>8

\* A new subscriber starts at a window the ring retains, or at the head.
LEMMA ReplayRequestInv ==
    ASSUME JournalInv, NEW i \in Slot, NEW from \in 0..next, ReplayRequest(i, from)
    PROVE  JournalInv'
<1> DEFINE m == Max({from, 1, OldestAvailable})
           c == [conns[i] EXCEPT !.phase = "stream", !.cursor = m]
<1>1. /\ MaxWindow \in Nat /\ RingCapacity \in Nat \ {0} /\ next \in 1..(MaxWindow + 1)
      /\ next \in Nat
  BY ConnFacts, JournalConstants
<1>2. /\ conns' = [conns EXCEPT ![i] = c] /\ last' = last /\ lapped' = lapped
      /\ UNCHANGED <<tracks, next, ring, admitted>>
      /\ conns[i].phase = "request"
  BY DEF ReplayRequest
<1>3. /\ OldestAvailable \in Int /\ OldestAvailable <= next
      /\ next - RingCapacity <= OldestAvailable
  BY <1>1 DEF OldestAvailable
<1>4. m \in {from, 1, OldestAvailable} /\ \A v \in {from, 1, OldestAvailable} : v <= m
  <2>1. from \in Int /\ 1 \in Int
    BY <1>1
  <2> QED
    BY <1>3, <2>1, MaxOfThree, Zenon
<1> HIDE DEF m
<1>5. m \in 1..(MaxWindow + 1) /\ next - RingCapacity <= m /\ 0 < m
  BY <1>1, <1>3, <1>4
<1>6. c \in Conn /\ c.phase = "stream" /\ c.cursor = m
  BY <1>5, ConnFacts DEF Conn, Phase
<1>7. last[i] = 0
  BY <1>2 DEF JournalInv, NothingSentYet
<1> HIDE DEF c
<1> QED
  BY <1>2, <1>5, <1>6, <1>7, ConnFacts, OneConnection

\* The copy of the entry at the cursor is of that window, unless lapped.
LEMMA StreamReadInv ==
    ASSUME JournalInv, NEW i \in Slot, StreamRead(i)
    PROVE  JournalInv'
<1> DEFINE w == conns[i].cursor
           c == [conns[i] EXCEPT !.phase = "send", !.entry = ring[w % RingCapacity]]
<1>1. /\ MaxWindow \in Nat /\ RingCapacity \in Nat \ {0} /\ next \in Nat /\ w \in Nat
      /\ 1 <= w
  BY ConnFacts, JournalConstants
<1>2. /\ conns' = [conns EXCEPT ![i] = c] /\ last' = last /\ lapped' = lapped
      /\ UNCHANGED <<tracks, next, ring, admitted>>
      /\ conns[i].phase = "stream" /\ w < next
  BY DEF StreamRead
<1>3. ring[w % RingCapacity] \in {NoEntry} \cup RingEntry
  <2>1. w % RingCapacity \in 0..(RingCapacity - 1)
    BY <1>1
  <2> QED
    BY <2>1 DEF JournalInv, TypeOK
<1>4. /\ c \in Conn /\ c.phase = "send" /\ c.cursor = w
      /\ c.entry = ring[w % RingCapacity]
  BY <1>3, ConnFacts DEF Conn, Phase
<1>5. ~lapped[i] => /\ last[i] < w /\ next - RingCapacity <= w
                    /\ ring[w % RingCapacity] = w
  <2>1. SUFFICES ASSUME ~lapped[i]
                 PROVE  last[i] < w /\ next - RingCapacity <= w /\ ring[w % RingCapacity] = w
    OBVIOUS
  <2>2. last[i] < w /\ next - RingCapacity <= w
    BY <1>2, <2>1 DEF JournalInv, CursorsKeepUp
  <2>3. w \in 1..(next - 1)
    BY <1>1, <1>2
  <2>4. ring[w % RingCapacity] = w
    BY <2>2, <2>3 DEF JournalInv, RingHoldsNewest
  <2> QED
    BY <2>2, <2>4
<1> HIDE DEF c
<1>6. /\ c.phase = "send" => c.cursor < next
      /\ ~lapped[i] /\ c.phase = "send" => /\ last[i] < c.cursor /\ c.entry = c.cursor
                                           /\ next - RingCapacity <= c.cursor + 1
  BY <1>1, <1>2, <1>4, <1>5
<1>7. c.phase \notin {"hello", "request", "worker"} /\ c.phase # "stream"
  BY <1>4
<1>8. /\ last[i] \in 0..MaxWindow /\ lapped[i] \in BOOLEAN
      /\ last' = [last EXCEPT ![i] = last[i]] /\ lapped' = [lapped EXCEPT ![i] = lapped[i]]
  BY <1>2, ConnFacts
<1> QED
  BY <1>2, <1>4, <1>6, <1>7, <1>8, OneConnection

\* The cursor moves past the window that was sent, delivered or not.
LEMMA StreamSendInv ==
    ASSUME JournalInv, NEW i \in Slot, NEW delivered \in BOOLEAN, StreamSend(i, delivered)
    PROVE  JournalInv'
<1> DEFINE w == conns[i].cursor
           c == [conns[i] EXCEPT !.phase = "stream", !.entry = NoEntry, !.cursor = @ + 1]
           l == IF delivered THEN conns[i].entry ELSE last[i]
<1>1. /\ MaxWindow \in Nat /\ RingCapacity \in Nat \ {0} /\ next \in Nat /\ w \in Nat
      /\ next <= MaxWindow + 1 /\ last[i] \in Nat /\ last[i] \in 0..MaxWindow
  BY ConnFacts, JournalConstants
<1>2. /\ conns' = [conns EXCEPT ![i] = c] /\ lapped' = lapped
      /\ UNCHANGED <<tracks, next, ring, admitted>>
      /\ conns[i].phase = "send"
  BY DEF StreamSend
<1>3. last' = [last EXCEPT ![i] = l]
  <2>1. last' = IF delivered THEN [last EXCEPT ![i] = conns[i].entry] ELSE last
    BY DEF StreamSend
  <2> QED
    BY <2>1, ConnFacts
<1>4. w < next
  BY <1>2 DEF JournalInv, SendingBehindHead
<1>5. l \in 0..MaxWindow
  <2>1. \A x \in Conn : x.entry \in {NoEntry} \cup RingEntry
    BY DEF Conn
  <2>2. conns[i].entry \in 0..MaxWindow
    BY <1>1, <2>1, ConnFacts DEF NoEntry, RingEntry
  <2> QED
    BY <1>1, <2>2
<1>6. c \in Conn /\ c.phase = "stream" /\ c.cursor = w + 1
  <2>1. w + 1 \in 1..(MaxWindow + 1)
    BY <1>1, <1>4
  <2> QED
    BY <2>1, ConnFacts DEF Conn, Phase
<1>7. ~lapped[i] => l < w + 1 /\ next - RingCapacity <= w + 1
  <2>1. ~lapped[i] => /\ last[i] < w /\ conns[i].entry = w /\ next - RingCapacity <= w + 1
    BY <1>2 DEF JournalInv, CursorsKeepUp
  <2> QED
    BY <1>1, <2>1
<1> HIDE DEF c, l
<1> QED
  BY <1>2, <1>3, <1>5, <1>6, <1>7, ConnFacts, OneConnection

\* REPLAY_END moves nothing.
LEMMA ReplayEndInv ==
    ASSUME JournalInv, NEW i \in Slot, ReplayEnd(i)
    PROVE  JournalInv'
<1> DEFINE c == [conns[i] EXCEPT !.caughtUp = TRUE]
<1>1. /\ conns' = [conns EXCEPT ![i] = c] /\ last' = last /\ lapped' = lapped
      /\ UNCHANGED <<tracks, next, ring, admitted>>
      /\ conns[i].phase = "stream"
  BY DEF ReplayEnd
<1>2. c \in Conn /\ c.phase = "stream" /\ c.cursor = conns[i].cursor
  BY <1>1, ConnFacts DEF Conn
<1>3. ~lapped[i] => last[i] < c.cursor /\ next - RingCapacity <= c.cursor
  BY <1>1, <1>2 DEF JournalInv, CursorsKeepUp
<1> HIDE DEF c
<1> QED
  BY <1>1, <1>2, <1>3, ConnFacts, OneConnection
-----------------------------------------------------------------------------
(***************************************************************************)
(* The theorems.                                                           *)
(***************************************************************************)

\* An idle journal is in the invariant.
LEMMA InitJournal == Init => JournalInv
<1> SUFFICES ASSUME Init PROVE JournalInv
  OBVIOUS
<1>1. /\ tracks = << >> /\ next = 1 /\ admitted = << >> /\ Len(admitted) = 0
      /\ ring = [k \in 0..(RingCapacity - 1) |-> NoEntry]
      /\ conns = [i \in Slot |-> FreeConn] /\ last = [i \in Slot |-> 0]
      /\ lapped = [i \in Slot |-> FALSE]
  BY DEF Init
<1>2. DOMAIN tracks = {} /\ MaxWindow \in Nat /\ MaxTracks \in Nat
  BY <1>1, JournalConstants
<1>3. FreeConn \in Conn /\ FreeConn.phase = "free"
  <2>1. 1 \in 1..(MaxWindow + 1)
    BY <1>2
  <2> QED
    BY <2>1 DEF FreeConn, Conn, Phase
<1>4. TracksAreFinite /\ Cardinality(DOMAIN tracks) <= MaxTracks
  BY <1>2, FS_EmptySet DEF TracksAreFinite
<1>5. TypeOK
  <2>1. conns \in [Slot -> Conn]
    BY <1>1, <1>3
  <2>2. last \in [Slot -> 0..MaxWindow] /\ next \in 1..(MaxWindow + 1)
    BY <1>1, <1>2
  <2>3. lapped \in [Slot -> BOOLEAN]
    BY <1>1, Zenon
  <2>4. ring \in [0..(RingCapacity - 1) -> {NoEntry} \cup RingEntry]
    BY <1>1
  <2>5. admitted \in Seq(Observation)
    BY <1>1
  <2> QED
    BY <1>2, <1>4, <2>1, <2>2, <2>3, <2>4, <2>5 DEF TypeOK
<1>6. TracksBoundSession /\ RingHoldsNewest
  BY <1>1 DEF TracksBoundSession, RingHoldsNewest
<1>7. NothingSentYet /\ SendingBehindHead /\ CursorsKeepUp
  BY <1>1, <1>3 DEF NothingSentYet, SendingBehindHead, CursorsKeepUp
<1> QED
  BY <1>4, <1>5, <1>6, <1>7 DEF JournalInv

\* Every step preserves the invariant.
LEMMA NextJournal == JournalInv /\ [Next]_vars => JournalInv'
<1> SUFFICES ASSUME JournalInv, [Next]_vars PROVE JournalInv'
  OBVIOUS
<1>1. CASE UNCHANGED vars
  BY <1>1 DEF JournalInv, TypeOK, TracksAreFinite, TracksBoundSession, SessionLasts,
              RingHoldsNewest, NothingSentYet, SendingBehindHead, CursorsKeepUp, vars
<1>2. CASE Refuse
  BY <1>1, <1>2 DEF Refuse
<1>3. ASSUME NEW i \in Slot, Submit(i) PROVE JournalInv'
  BY <1>3, AdmitLockedInv DEF Submit
<1> QED
  BY <1>1, <1>2, <1>3, HandshakeInv, ReplayRequestInv, StreamReadInv, StreamSendInv,
     ReplayEndInv DEF Next

\* The journal's invariant holds under every interleaving of workers,
\* subscribers and failures; in particular the model is type correct.
THEOREM JournalCorrect == Spec => [](JournalInv /\ TypeOK)
<1>1. JournalInv => TypeOK
  BY DEF JournalInv
<1> QED
  BY InitJournal, NextJournal, <1>1, PTL DEF Spec

\* While a source keeps its boot id, what the journal admits of a sensor has
\* strictly increasing sequence numbers and sample times at most MaxLateness
\* behind any earlier one.
THEOREM AdmissionOrder == Spec => []AdmittedInOrder
<1> DEFINE Ordered(a) ==
       \A i, j \in 1..Len(a) :
          (/\ i < j
           /\ \A k \in i..j : a[k].sensor = a[i].sensor => a[k].boot = a[i].boot
           /\ a[j].sensor = a[i].sensor)
          => a[i].sequence < a[j].sequence /\ a[j].time >= a[i].time - MaxLateness
<1>1. AdmittedInOrder <=> Ordered(admitted)
  BY DEF AdmittedInOrder, InOrderPerSession
<1>2. Init => AdmittedInOrder
  BY <1>1 DEF Init
<1>3. ASSUME JournalInv, AdmittedInOrder, [Next]_vars PROVE AdmittedInOrder'
  <2>1. CASE admitted' = admitted
    BY <1>3, <2>1 DEF AdmittedInOrder
  <2>2. CASE admitted' # admitted
    <3>1. PICK o \in Observation : AdmitLocked(o)
      BY <1>3, <2>2 DEF Next, vars, Refuse, Accept, HelloBroker, HelloWorker, Close, PeerDies,
                       ReplayRequest, StreamRead, StreamSend, ReplayEnd, Submit
    <3> DEFINE t == FindOrCreateTrack(o.sensor)
               n == Len(admitted)
    <3>2. Admit(t, o, Pending) = "OK" /\ admitted' = Append(admitted, o)
      BY <2>2, <3>1 DEF AdmitLocked, vars
    <3>3. /\ admitted \in Seq(Observation) /\ n \in Nat
          /\ {MaxSequence, MaxTime, MaxLateness} \subseteq Nat
      BY <1>3, JournalConstants, AdmissionConstants DEF JournalInv, TypeOK
    <3>4. /\ Len(admitted') = n + 1 /\ admitted'[n + 1] = o
          /\ \A k \in 1..n : admitted'[k] = admitted[k]
      BY <3>2, <3>3
    <3>5. (t \in Track /\ t.boot = o.boot) =>
             t.high < o.sequence /\ t.watermark - MaxLateness <= o.time
      BY <1>3, <3>2, TrackMovesOn
    <3>6. /\ \A x \in Track : x.high \in Nat /\ x.watermark \in Nat
          /\ \A x \in Observation : x.sequence \in Nat /\ x.time \in Nat
      <4>1. \A x \in Track : x.high \in Nat /\ x.watermark \in Nat
        BY <3>3 DEF Track
      <4>2. \A x \in Observation : x.sequence \in Nat /\ x.time \in Nat
        BY <3>3 DEF Observation
      <4> QED
        BY <4>1, <4>2
    <3> HIDE DEF n, t
    <3>7. ASSUME NEW i \in 1..(n + 1), NEW j \in 1..(n + 1), i < j,
                 \A k \in i..j : admitted'[k].sensor = admitted'[i].sensor
                                   => admitted'[k].boot = admitted'[i].boot,
                 admitted'[j].sensor = admitted'[i].sensor
          PROVE  /\ admitted'[i].sequence < admitted'[j].sequence
                 /\ admitted'[j].time >= admitted'[i].time - MaxLateness
      <4>1. i \in 1..n /\ admitted'[i] = admitted[i] /\ \A k \in i..n : k \in 1..n
        BY <3>3, <3>4, <3>7
      <4>2. CASE j \in 1..n
        <5>1. \A k \in i..j : k \in 1..n
          BY <3>3, <4>1, <4>2
        <5>2. /\ \A k \in i..j : admitted[k].sensor = admitted[i].sensor
                                   => admitted[k].boot = admitted[i].boot
              /\ admitted[j].sensor = admitted[i].sensor
          BY <3>4, <3>7, <4>1, <4>2, <5>1
        <5> QED
          BY <1>1, <1>3, <3>4, <3>7, <4>1, <4>2, <5>2 DEF n
      <4>3. CASE j = n + 1
        <5>1. \A k \in i..n : k \in i..j
          BY <3>3, <4>3
        <5>2. SessionLasts(i)
          BY <3>4, <3>7, <4>1, <5>1 DEF SessionLasts, n
        <5>3. /\ o.sensor \in DOMAIN tracks /\ tracks[o.sensor] \in Track
              /\ tracks[o.sensor].boot = admitted[i].boot
              /\ admitted[i].sequence <= tracks[o.sensor].high
              /\ admitted[i].time <= tracks[o.sensor].watermark
          BY <1>3, <3>4, <3>7, <4>1, <4>3, <5>2 DEF JournalInv, TracksBoundSession, n
        <5>4. t = tracks[o.sensor]
          BY <5>3 DEF t, FindOrCreateTrack
        <5>5. o.boot = admitted[i].boot
          <6>1. j \in i..j
            BY <3>7
          <6> QED
            BY <3>4, <3>7, <4>1, <4>3, <6>1
        <5>6. t.high < o.sequence /\ t.watermark - MaxLateness <= o.time
          BY <3>5, <5>3, <5>4, <5>5
        <5>7. admitted[i] \in Observation
          BY <3>3, <4>1 DEF n
        <5>8. admitted[i].sequence < o.sequence /\ o.time >= admitted[i].time - MaxLateness
          <6>1. /\ admitted[i].sequence \in Int /\ admitted[i].time \in Int
                /\ o.sequence \in Int /\ o.time \in Int /\ t.high \in Int /\ t.watermark \in Int
            BY <5>3, <5>4, <5>7 DEF Observation, Track
          <6>2. admitted[i].sequence <= t.high /\ admitted[i].time <= t.watermark
            BY <5>3, <5>4
          <6>3. MaxLateness \in Nat
            BY AdmissionConstants
          <6>4. \A a, h, q \in Int : a <= h /\ h < q => a < q
            OBVIOUS
          <6>5. \A a, w, q \in Int : a <= w /\ w - MaxLateness <= q => q >= a - MaxLateness
            BY <6>3
          <6> QED
            BY <5>6, <6>1, <6>2, <6>4, <6>5
        <5> QED
          BY <3>4, <4>1, <4>3, <5>8
      <4> QED
        BY <3>3, <4>2, <4>3
    <3>8. Ordered(admitted')
      BY <3>4, <3>7
    <3> QED
      BY <3>8 DEF AdmittedInOrder, InOrderPerSession
  <2> QED
    BY <2>1, <2>2
<1> QED
  BY <1>2, <1>3, JournalCorrect, PTL DEF Spec

\* Unless it was lapped, a subscriber gets each window after the last.
THEOREM StreamOrder == Spec => []InOrderUnlessLapped
<1>1. ASSUME JournalInv PROVE InOrderUnlessLapped
  <2> SUFFICES ASSUME NEW i \in Slot, conns[i].phase = "send", ~lapped[i]
               PROVE  conns[i].entry > last[i]
    BY DEF InOrderUnlessLapped
  <2>1. last[i] < conns[i].cursor /\ conns[i].entry = conns[i].cursor
    BY <1>1 DEF JournalInv, CursorsKeepUp
  <2>2. last[i] \in Nat /\ conns[i].cursor \in Nat
    BY <1>1, ConnFacts
  <2> QED
    BY <2>1, <2>2
<1> QED
  BY <1>1, JournalCorrect, PTL

\* If --max-pending is at most the ring's capacity, an admission overwrites no
\* window a subscriber has yet to read.
THEOREM AdmissionSafe == Spec => AdmissionNeverLaps
<1> DEFINE Safe == (MaxPending <= RingCapacity /\ admitted' # admitted) => lapped' = lapped
<1>1. ASSUME JournalInv, [Next]_vars PROVE Safe
  <2> SUFFICES ASSUME MaxPending <= RingCapacity, admitted' # admitted PROVE lapped' = lapped
    OBVIOUS
  <2>1. PICK o \in Observation : AdmitLocked(o)
    BY <1>1 DEF Next, vars, Refuse, Accept, HelloBroker, HelloWorker, Close, PeerDies,
               ReplayRequest, StreamRead, StreamSend, ReplayEnd, Submit
  <2>2. /\ Admit(FindOrCreateTrack(o.sensor), o, Pending) = "OK"
        /\ lapped' = [i \in Slot |->
                        \/ lapped[i]
                        \/ conns[i].phase = "stream" /\ conns[i].cursor <= next - RingCapacity
                        \/ conns[i].phase = "send" /\ conns[i].cursor < next - RingCapacity]
    BY <2>1, Zenon DEF AdmitLocked, vars
  <2>3. ~(Pending >= MaxPending)
    BY <2>2, AdmittedWas
  <2>4. /\ MaxPending \in Nat /\ RingCapacity \in Nat /\ next \in Nat
        /\ lapped \in [Slot -> BOOLEAN] /\ TypeOK
    BY <1>1, JournalConstants, AdmissionConstants DEF JournalInv, TypeOK
  <2>5. ASSUME NEW i \in Slot, conns[i].phase \in {"stream", "send"}
        PROVE  ~(conns[i].cursor <= next - RingCapacity) /\ ~(conns[i].cursor < next - RingCapacity)
    <3>1. Subscriber(i)
      BY <2>5 DEF Subscriber
    <3>2. Pending \in Nat /\ next - Pending <= conns[i].cursor
      BY <2>4, <3>1, PendingBoundsLag
    <3>3. conns[i].cursor \in Nat
      BY <1>1, ConnFacts
    <3> QED
      BY <2>3, <2>4, <3>2, <3>3
  <2>6. \A i \in Slot :
           ~\/ conns[i].phase = "stream" /\ conns[i].cursor <= next - RingCapacity
            \/ conns[i].phase = "send" /\ conns[i].cursor < next - RingCapacity
    BY <2>5
  <2>7. lapped' = [i \in Slot |-> lapped[i]]
    BY <2>2, <2>4, <2>6
  <2> QED
    BY <2>4, <2>7
<1>2. JournalInv /\ [Next]_vars => [Safe]_vars
  BY <1>1
<1> QED
  BY <1>2, JournalCorrect, PTL DEF Spec, AdmissionNeverLaps
=============================================================================
