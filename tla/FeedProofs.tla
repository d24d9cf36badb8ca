----------------------------- MODULE FeedProofs -----------------------------
(***************************************************************************)
(* The data path from providers to the estimator, for every number of      *)
(* workers, sensors, provider instances and frames in flight, every delay, *)
(* period, prediction gap, lateness and pending limit.                     *)
(***************************************************************************)
EXTENDS Feed, TLAPS

-----------------------------------------------------------------------------
(***************************************************************************)
(* The inductive invariant.                                                *)
(***************************************************************************)

Connection == [frames : Seq(Frame), open : BOOLEAN]
Track == [hasData : {TRUE}, boot : Boot, high : Sequence, watermark : SampleTime]

\* TypeOK, with the functions' domains.
FeedType ==
    /\ now \in Time
    /\ boots \in 0..MaxBoot
    /\ prov \in [Worker -> {Down} \cup Provider]
    /\ wire \in [Boot -> Connection]
    /\ \A b \in Boot : Len(wire[b].frames) <= MaxFlight
    /\ tracks \in [Sensor -> {NoTrack} \cup Track]
    /\ est \in [ready : BOOLEAN, time : SampleTime]
    /\ admitted \in Seq(Reading)
    /\ used \in Seq(SampleTime)
    /\ tornAt \in [Boot -> {0} \cup Sequence]

\* A provider emits at most one reading per tick, the last one not after now.
ProvidersPace ==
    \A w \in Worker : prov[w].up => prov[w].next <= prov[w].last + 1 /\ prov[w].last <= now

\* Provider instances have boot ids of their own, and later ones are unused.
BootsAreFresh ==
    /\ \A w \in Worker : prov[w].up => prov[w].boot <= boots
    /\ \A v, w \in Worker : (prov[v].up /\ prov[w].up /\ prov[v].boot = prov[w].boot) => v = w
    /\ \A b \in Boot : b > boots => wire[b].frames = << >> /\ tornAt[b] = 0
    /\ \A i \in 1..Len(admitted) : admitted[i].boot <= boots

\* A connection carries its instance's readings, in order of sequence, after
\* those of the instance that were admitted.
WireInOrder ==
    \A b \in Boot : LET f == wire[b].frames IN
        /\ \A k \in 1..Len(f) : f[k].reading.boot = b
        /\ \A k, m \in 1..Len(f) : k < m => f[k].reading.sequence < f[m].reading.sequence
        /\ \A i \in 1..Len(admitted), k \in 1..Len(f) :
              admitted[i].boot = b => admitted[i].sequence < f[k].reading.sequence

\* The number a provider gives next is new.
NextIsNew ==
    \A w \in Worker : prov[w].up => LET b == prov[w].boot IN
        /\ \A k \in 1..Len(wire[b].frames) : wire[b].frames[k].reading.sequence < prov[w].next
        /\ \A i \in 1..Len(admitted) : admitted[i].boot = b => admitted[i].sequence < prov[w].next
        /\ tornAt[b] < prov[w].next

\* While a connection on which a frame was torn is open, that frame is on it.
TornIsAhead ==
    \A b \in Boot : (tornAt[b] # 0 /\ wire[b].open) =>
        \E k \in 1..Len(wire[b].frames) :
            ~wire[b].frames[k].whole /\ wire[b].frames[k].reading.sequence = tornAt[b]

\* The filter's time is at or after every sample it used.
FilterAhead ==
    /\ used # << >> => est.ready
    /\ \A i \in 1..Len(used) : used[i] <= est.time

FeedInv ==
    /\ FeedType
    /\ ProvidersPace
    /\ BootsAreFresh
    /\ WireInOrder
    /\ NextIsNew
    /\ TornIsAhead
    /\ FilterAhead
    /\ NoReadingTwice
    /\ NothingAfterTear
    /\ UsedInOrder
-----------------------------------------------------------------------------
(***************************************************************************)
(* Facts from the types.                                                   *)
(***************************************************************************)

\* A queue that stays as it is or grows by one element at its end.
LEMMA GrownFacts ==
    ASSUME NEW S, NEW s \in Seq(S), NEW e \in S, NEW t, t = s \/ t = Append(s, e)
    PROVE  /\ Len(s) \in Nat /\ Len(t) \in {Len(s), Len(s) + 1}
           /\ \A k \in 1..Len(s) : t[k] = s[k]
           /\ Len(t) = Len(s) + 1 => t[Len(s) + 1] = e
           /\ t # s => Len(t) = Len(s) + 1
           /\ \A k \in 1..Len(t) : k \in 1..Len(s) \/ (k = Len(s) + 1 /\ Len(t) = Len(s) + 1)
           /\ \A k, m \in 1..Len(t) : k < m => k \in 1..Len(s)
<1> DEFINE n == Len(s)
           l == Len(t)
<1>1. n \in Nat
  OBVIOUS
<1>2. CASE t = s
  <2>1. l = n
    BY <1>2
  <2> HIDE DEF n, l
  <2>2. l # n + 1
    BY <1>1, <2>1
  <2>3. (\A k \in 1..l : k \in 1..n) /\ (\A k, m \in 1..l : k < m => k \in 1..n)
    BY <2>1
  <2> QED
    BY <1>1, <1>2, <2>1, <2>2, <2>3 DEF n, l
<1>3. CASE t = Append(s, e)
  <2>1. l = n + 1 /\ t[n + 1] = e /\ \A k \in 1..n : t[k] = s[k]
    BY <1>3
  <2> HIDE DEF n, l
  <2>2. /\ \A k \in 1..l : k \in 1..n \/ (k = n + 1 /\ l = n + 1)
        /\ \A k, m \in 1..l : k < m => k \in 1..n
    BY <1>1, <2>1
  <2> QED
    BY <1>1, <2>1, <2>2 DEF n, l
<1> QED
  BY <1>2, <1>3

\* What a reading, a frame and a provider hold.
LEMMA DataFacts ==
    /\ \A r \in Reading : /\ r.sequence \in Nat /\ r.sequence >= 1 /\ r.boot \in Nat
                          /\ r.sensor \in Sensor /\ r.boot \in Boot /\ r.sequence \in Sequence
                          /\ r.time \in SampleTime /\ r.time \in Int
    /\ \A f \in Frame : f.reading \in Reading /\ f.whole \in BOOLEAN
    /\ \A p \in {Down} \cup Provider :
          p.up => /\ p \in Provider /\ p.boot \in Boot /\ p.boot \in Nat
                  /\ p.next \in Nat /\ p.next >= 1 /\ p.next \in Sequence
                  /\ p.last \in Nat /\ p.last \in {Never} \cup Time
    /\ \A c \in Connection : c.frames \in Seq(Frame) /\ c.open \in BOOLEAN
<1>1. {MaxTime, MaxBoot, DelayBy} \subseteq Nat
  BY FeedConstants
<1>2. \A r \in Reading : /\ r.sequence \in Nat /\ r.sequence >= 1 /\ r.boot \in Nat
                        /\ r.sensor \in Sensor /\ r.boot \in Boot /\ r.sequence \in Sequence
                        /\ r.time \in SampleTime /\ r.time \in Int
  BY <1>1 DEF Reading, Boot, Sequence, SampleTime
<1>3. \A f \in Frame : f.reading \in Reading /\ f.whole \in BOOLEAN
  BY DEF Frame
<1>4. ~Down.up
  BY DEF Down
<1>5. \A p \in Provider : /\ p.boot \in Boot /\ p.boot \in Nat
                          /\ p.next \in Nat /\ p.next >= 1 /\ p.next \in Sequence
                          /\ p.last \in Nat /\ p.last \in {Never} \cup Time
  BY <1>1 DEF Provider, Boot, Sequence, Never, Time
<1>6. \A c \in Connection : c.frames \in Seq(Frame) /\ c.open \in BOOLEAN
  BY DEF Connection
<1> QED
  BY <1>2, <1>3, <1>4, <1>5, <1>6

\* The same of the state.
LEMMA StateFacts ==
    ASSUME FeedType
    PROVE  /\ now \in Nat /\ now >= 1 /\ now <= MaxTime /\ boots \in Nat /\ boots <= MaxBoot
           /\ \A w \in Worker : prov[w].up =>
                 /\ prov[w] \in Provider /\ prov[w].boot \in Boot /\ prov[w].boot \in Nat
                 /\ prov[w].next \in Nat /\ prov[w].next >= 1 /\ prov[w].last \in Nat
           /\ \A b \in Boot : /\ wire[b].frames \in Seq(Frame) /\ Len(wire[b].frames) \in Nat
                               /\ tornAt[b] \in Nat
           /\ \A b \in Boot : \A k \in 1..Len(wire[b].frames) :
                 /\ wire[b].frames[k] \in Frame
                 /\ wire[b].frames[k].reading.sequence \in Nat
           /\ \A i \in 1..Len(admitted) :
                 admitted[i].sequence \in Nat /\ admitted[i].boot \in Nat /\ admitted[i].boot \in Boot
           /\ Len(admitted) \in Nat
<1>1. {MaxTime, MaxBoot} \subseteq Nat
  BY FeedConstants
<1>2. now \in Nat /\ now >= 1 /\ now <= MaxTime /\ boots \in Nat /\ boots <= MaxBoot
  BY <1>1 DEF FeedType, Time
<1>3. \A w \in Worker : prov[w].up =>
         /\ prov[w] \in Provider /\ prov[w].boot \in Boot /\ prov[w].boot \in Nat
         /\ prov[w].next \in Nat /\ prov[w].next >= 1 /\ prov[w].last \in Nat
  <2>1. \A w \in Worker : prov[w] \in {Down} \cup Provider
    BY DEF FeedType
  <2> QED
    BY <2>1, DataFacts
<1>4. \A b \in Boot : wire[b].frames \in Seq(Frame) /\ Len(wire[b].frames) \in Nat
  <2>1. \A b \in Boot : wire[b] \in Connection
    BY DEF FeedType
  <2>2. \A b \in Boot : wire[b].frames \in Seq(Frame)
    BY <2>1, DataFacts
  <2> QED
    BY <2>2
<1>5. \A b \in Boot : tornAt[b] \in Nat
  <2>1. \A b \in Boot : tornAt[b] \in {0} \cup Sequence
    BY DEF FeedType
  <2> QED
    BY <1>1, <2>1 DEF Sequence
<1>6. \A b \in Boot : \A k \in 1..Len(wire[b].frames) : wire[b].frames[k] \in Frame
  BY <1>4
<1>7. Len(admitted) \in Nat /\ \A i \in 1..Len(admitted) : admitted[i] \in Reading
  BY DEF FeedType
<1> QED
  BY <1>2, <1>3, <1>4, <1>5, <1>6, <1>7, DataFacts
-----------------------------------------------------------------------------
(***************************************************************************)
(* The worker's steps.                                                     *)
(***************************************************************************)

\* A new instance has a boot id nothing was sent under.
LEMMA StartInv ==
    ASSUME FeedInv, NEW w \in Worker, Start(w)
    PROVE  FeedInv'
<1> DEFINE p == Create(boots + 1)
<1>1. /\ boots < MaxBoot /\ boots' = boots + 1 /\ prov' = [prov EXCEPT ![w] = p]
      /\ now' = now /\ wire' = wire /\ tracks' = tracks /\ est' = est /\ admitted' = admitted
      /\ used' = used /\ tornAt' = tornAt
  BY DEF Start
<1>2. FeedType /\ BootsAreFresh
  BY DEF FeedInv
<1>3. {MaxTime, MaxBoot} \subseteq Nat /\ boots \in Nat /\ now \in Nat /\ boots + 1 \in Boot
  BY <1>1, <1>2, FeedConstants, StateFacts DEF Boot
<1>4. /\ p \in Provider /\ p.up /\ p.boot = boots + 1 /\ p.next = 1 /\ p.last = 0
  <2>1. 1 \in Sequence
    BY <1>3 DEF Sequence
  <2> QED
    BY <1>3, <2>1 DEF Create, Provider, Never
<1> HIDE DEF p
<1>5. FeedType'
  <2>1. prov' \in [Worker -> {Down} \cup Provider]
    BY <1>1, <1>2, <1>4 DEF FeedType
  <2>2. boots' \in 0..MaxBoot
    BY <1>1, <1>3
  <2> QED
    BY <1>1, <1>2, <2>1, <2>2 DEF FeedType
<1>6. prov'[w] = p /\ \A v \in Worker : v # w => prov'[v] = prov[v]
  BY <1>1, <1>2 DEF FeedType
<1>7. ProvidersPace'
  BY <1>1, <1>3, <1>4, <1>6 DEF FeedInv, ProvidersPace
<1>8. BootsAreFresh'
  <2>1. \A v \in Worker : prov'[v].up => prov'[v].boot <= boots'
    BY <1>1, <1>2, <1>3, <1>4, <1>6, StateFacts DEF BootsAreFresh
  <2>2. \A v \in Worker : (v # w /\ prov[v].up) => prov[v].boot # boots + 1
    BY <1>2, <1>3, StateFacts DEF BootsAreFresh
  <2>3. \A u, v \in Worker : (prov'[u].up /\ prov'[v].up /\ prov'[u].boot = prov'[v].boot) => u = v
    BY <1>2, <1>4, <1>6, <2>2 DEF BootsAreFresh
  <2>4. \A b \in Boot : b > boots' => wire[b].frames = << >> /\ tornAt[b] = 0
    <3>1. \A b \in Boot : b > boots + 1 => b > boots
      BY <1>3 DEF Boot
    <3> QED
      BY <1>1, <1>2, <3>1 DEF BootsAreFresh
  <2>5. \A i \in 1..Len(admitted) : admitted[i].boot <= boots'
    BY <1>1, <1>2, <1>3, StateFacts DEF BootsAreFresh
  <2> QED
    BY <1>1, <2>1, <2>3, <2>4, <2>5 DEF BootsAreFresh
<1>9. WireInOrder' /\ TornIsAhead'
  BY <1>1 DEF FeedInv, WireInOrder, TornIsAhead
<1>10. NextIsNew'
  <2>1. /\ wire[boots + 1].frames = << >> /\ tornAt[boots + 1] = 0
        /\ \A i \in 1..Len(admitted) : admitted[i].boot # boots + 1
    <3>1. boots + 1 > boots /\ \A i \in 1..Len(admitted) : admitted[i].boot <= boots
      BY <1>2, <1>3 DEF BootsAreFresh
    <3> QED
      BY <1>2, <1>3, <3>1, StateFacts DEF BootsAreFresh
  <2>2. Len(wire[boots + 1].frames) = 0
    BY <2>1
  <2> SUFFICES ASSUME NEW v \in Worker, prov'[v].up
               PROVE  LET b == prov'[v].boot IN
                      /\ \A k \in 1..Len(wire[b].frames) :
                            wire[b].frames[k].reading.sequence < prov'[v].next
                      /\ \A i \in 1..Len(admitted) :
                            admitted[i].boot = b => admitted[i].sequence < prov'[v].next
                      /\ tornAt[b] < prov'[v].next
    BY <1>1 DEF NextIsNew
  <2>3. CASE v = w
    BY <1>4, <1>6, <2>1, <2>2, <2>3
  <2>4. CASE v # w
    BY <1>6, <2>4 DEF FeedInv, NextIsNew
  <2> QED
    BY <2>3, <2>4
<1>11. FilterAhead' /\ NoReadingTwice' /\ NothingAfterTear' /\ UsedInOrder'
  BY <1>1 DEF FeedInv, FilterAhead, NoReadingTwice, NothingAfterTear, UsedInOrder
<1> QED
  BY <1>5, <1>7, <1>8, <1>9, <1>10, <1>11 DEF FeedInv

\* A provider that ends, or whose reading is dropped, sends nothing.
LEMMA SilentInv ==
    ASSUME FeedInv, NEW w \in Worker, Dies(w) \/ Drop(w)
    PROVE  FeedInv'
<1>1. /\ prov[w].up /\ boots' = boots
      /\ now' = now /\ wire' = wire /\ tracks' = tracks /\ est' = est /\ admitted' = admitted
      /\ used' = used /\ tornAt' = tornAt
      /\ prov' = [prov EXCEPT ![w] = Down] \/ prov' = [prov EXCEPT ![w].last = now]
  BY DEF Dies, Drop
<1>2. FeedType
  BY DEF FeedInv
<1>3. /\ now \in Nat /\ now \in Time /\ prov[w] \in Provider /\ prov[w].next \in Nat
      /\ prov[w].last \in Nat
  BY <1>1, <1>2, StateFacts DEF FeedType
<1>4. /\ prov' \in [Worker -> {Down} \cup Provider]
      /\ \A v \in Worker : v # w => prov'[v] = prov[v]
      /\ prov'[w].up => /\ prov'[w].up = prov[w].up /\ prov'[w].boot = prov[w].boot
                        /\ prov'[w].next = prov[w].next /\ prov'[w].last = now
  <2>1. CASE prov' = [prov EXCEPT ![w] = Down]
    BY <1>2, <2>1 DEF FeedType, Down
  <2>2. CASE prov' = [prov EXCEPT ![w].last = now]
    <3>1. [prov[w] EXCEPT !.last = now] \in Provider
      BY <1>3 DEF Provider
    <3>2. /\ [prov[w] EXCEPT !.last = now].boot = prov[w].boot
          /\ [prov[w] EXCEPT !.last = now].next = prov[w].next
          /\ [prov[w] EXCEPT !.last = now].last = now
          /\ [prov[w] EXCEPT !.last = now].up = prov[w].up
      BY <1>3 DEF Provider
    <3>3. prov' = [prov EXCEPT ![w] = [prov[w] EXCEPT !.last = now]]
      BY <2>2
    <3> QED
      BY <1>2, <3>1, <3>2, <3>3 DEF FeedType
  <2> QED
    BY <1>1, <2>1, <2>2
<1>5. FeedType'
  BY <1>1, <1>2, <1>4 DEF FeedType
<1>6. ProvidersPace'
  <2> SUFFICES ASSUME NEW v \in Worker, prov'[v].up
               PROVE  prov'[v].next <= prov'[v].last + 1 /\ prov'[v].last <= now
    BY <1>1 DEF ProvidersPace
  <2>1. CASE v = w
    <3>1. prov[w].next <= prov[w].last + 1 /\ prov[w].last <= now
      BY <1>1 DEF FeedInv, ProvidersPace
    <3> QED
      BY <1>3, <1>4, <2>1, <3>1
  <2>2. CASE v # w
    BY <1>4, <2>2 DEF FeedInv, ProvidersPace
  <2> QED
    BY <2>1, <2>2
<1>7. \A v \in Worker : prov'[v].up =>
         prov[v].up /\ prov'[v].boot = prov[v].boot /\ prov'[v].next = prov[v].next
  BY <1>1, <1>4
<1>8. BootsAreFresh'
  BY <1>1, <1>7 DEF FeedInv, BootsAreFresh
<1>9. NextIsNew'
  BY <1>1, <1>7 DEF FeedInv, NextIsNew
<1>10. WireInOrder' /\ TornIsAhead'
  BY <1>1 DEF FeedInv, WireInOrder, TornIsAhead
<1>11. FilterAhead' /\ NoReadingTwice' /\ NothingAfterTear' /\ UsedInOrder'
  BY <1>1 DEF FeedInv, FilterAhead, NoReadingTwice, NothingAfterTear, UsedInOrder
<1> QED
  BY <1>5, <1>6, <1>8, <1>9, <1>10, <1>11 DEF FeedInv

\* Time passes.
LEMMA TickInv ==
    ASSUME FeedInv, Tick
    PROVE  FeedInv'
<1>1. /\ now < MaxTime /\ now' = now + 1 /\ boots' = boots /\ prov' = prov
      /\ wire' = wire /\ tracks' = tracks /\ est' = est /\ admitted' = admitted
      /\ used' = used /\ tornAt' = tornAt
  BY DEF Tick
<1>2. FeedType /\ now \in Nat /\ MaxTime \in Nat
  BY StateFacts, FeedConstants DEF FeedInv
<1>3. FeedType'
  <2>1. now' \in Time
    BY <1>1, <1>2 DEF Time
  <2> QED
    BY <1>1, <1>2, <2>1 DEF FeedType
<1>4. ProvidersPace'
  <2> SUFFICES ASSUME NEW v \in Worker, prov[v].up
               PROVE  prov[v].next <= prov[v].last + 1 /\ prov[v].last <= now + 1
    BY <1>1 DEF ProvidersPace
  <2>1. prov[v].next <= prov[v].last + 1 /\ prov[v].last <= now /\ prov[v].last \in Nat
    BY <1>2, StateFacts DEF FeedInv, ProvidersPace
  <2> QED
    BY <1>2, <2>1
<1>5. BootsAreFresh' /\ NextIsNew'
  BY <1>1 DEF FeedInv, BootsAreFresh, NextIsNew
<1>6. WireInOrder' /\ TornIsAhead'
  BY <1>1 DEF FeedInv, WireInOrder, TornIsAhead
<1>7. FilterAhead' /\ NoReadingTwice' /\ NothingAfterTear' /\ UsedInOrder'
  BY <1>1 DEF FeedInv, FilterAhead, NoReadingTwice, NothingAfterTear, UsedInOrder
<1> QED
  BY <1>3, <1>4, <1>5, <1>6, <1>7 DEF FeedInv

\* A reading is numbered and sent, lost or torn.
LEMMA PollInv ==
    ASSUME FeedInv, NEW w \in Worker, NEW mode \in FaultMode,
           NEW outcome \in {"sent", "lost", "torn"}, Poll(w, mode, outcome)
    PROVE  FeedInv'
<1> DEFINE p == prov[w]
           b == prov[w].boot
           seq == prov[w].next
           r == Sample(w, mode)
           f == [whole |-> outcome = "sent", reading |-> r]
           n == Len(wire[b].frames)
<1>1. /\ p.up /\ Due(p) /\ boots' = boots /\ now' = now /\ tracks' = tracks /\ est' = est
      /\ admitted' = admitted /\ used' = used
      /\ prov' = [prov EXCEPT ![w] = Emitted(p)]
      /\ outcome # "lost" => wire[b].open /\ n < MaxFlight
      /\ wire' = [wire EXCEPT ![b] = Forwarded(wire[b], r, outcome)]
      /\ tornAt' = IF outcome = "torn" /\ tornAt[b] = 0
                   THEN [tornAt EXCEPT ![b] = seq] ELSE tornAt
  BY DEF Poll
<1>2. FeedType /\ ProvidersPace /\ BootsAreFresh /\ WireInOrder /\ NextIsNew /\ TornIsAhead
      /\ NothingAfterTear
  BY DEF FeedInv
<1>3. /\ MaxTime \in Nat /\ Period \in Nat \ {0} /\ DelayBy \in Nat /\ MaxFlight \in Nat
      /\ now \in Nat /\ now >= 1 /\ now <= MaxTime
      /\ p \in Provider /\ b \in Boot /\ b \in Nat /\ seq \in Nat /\ seq >= 1 /\ p.last \in Nat
      /\ n \in Nat
  BY <1>1, <1>2, FeedConstants, StateFacts
<1>4. p.next <= p.last + 1 /\ p.last < now
  <2>1. p.next <= p.last + 1 /\ p.last <= now
    BY <1>1, <1>2 DEF ProvidersPace
  <2>2. p.last = 0 \/ now - p.last >= Period
    BY <1>1 DEF Due, Never
  <2> QED
    BY <1>3, <2>1, <2>2
<1>5. /\ Emitted(p) \in Provider /\ Emitted(p).boot = b /\ Emitted(p).next = seq + 1
      /\ Emitted(p).last = now /\ Emitted(p).up = TRUE
  <2>1. seq + 1 \in Sequence /\ now \in Time
    BY <1>3, <1>4 DEF Sequence, Time
  <2>2. Emitted(p) = [p EXCEPT !.last = now, !.next = seq + 1]
    BY DEF Emitted
  <2>3. p.up = TRUE
    BY <1>3 DEF Provider
  <2> QED
    BY <1>3, <2>1, <2>2, <2>3 DEF Provider
<1>6. r \in Reading /\ r.boot = b /\ r.sequence = seq
  <2>1. SensorOf[w] \in Sensor
    BY DEF Sensor
  <2>2. now \in SampleTime /\ now - DelayBy \in SampleTime
    BY <1>3 DEF SampleTime
  <2>3. seq \in Sequence
    BY <1>3, <1>4 DEF Sequence
  <2> QED
    BY <1>3, <2>1, <2>2, <2>3 DEF Sample, Reading
<1>7. f \in Frame /\ f.reading = r /\ (f.whole <=> outcome = "sent")
  <2>1. (outcome = "sent") \in BOOLEAN
    OBVIOUS
  <2> QED
    BY <1>6, <2>1 DEF Frame
<1>8. /\ prov'[w] = Emitted(p) /\ \A v \in Worker : v # w => prov'[v] = prov[v]
      /\ prov' \in [Worker -> {Down} \cup Provider]
  BY <1>1, <1>2, <1>5 DEF FeedType
<1> DEFINE F == wire[b].frames
           G == wire'[b].frames
<1>9. /\ wire' \in [Boot -> Connection] /\ wire'[b].open = wire[b].open
      /\ \A c \in Boot : c # b => wire'[c] = wire[c]
      /\ G = F \/ (G = Append(F, f) /\ n < MaxFlight)
      /\ G = F => outcome = "lost"
  <2>1. wire[b] \in Connection /\ F \in Seq(Frame)
    BY <1>2, <1>3, StateFacts DEF FeedType
  <2>2. wire'[b] = Forwarded(wire[b], r, outcome) /\ \A c \in Boot : c # b => wire'[c] = wire[c]
    BY <1>1, <1>2, <1>3 DEF FeedType
  <2> HIDE DEF f, r, b
  <2>3. CASE outcome = "lost"
    <3>1. wire'[b] = wire[b]
      BY <2>2, <2>3 DEF Forwarded
    <3>2. wire' \in [Boot -> Connection]
      BY <1>1, <1>2, <1>3, <2>1, <2>2, <3>1 DEF FeedType
    <3> QED
      BY <2>2, <2>3, <3>1, <3>2
  <2>4. CASE outcome # "lost"
    <3>1. wire'[b] = [wire[b] EXCEPT !.frames = Append(F, f)]
      BY <2>2, <2>4 DEF Forwarded, f
    <3>2. Append(F, f) \in Seq(Frame) /\ Append(F, f) # F
      <4>1. Append(F, f) \in Seq(Frame) /\ Len(Append(F, f)) = Len(F) + 1 /\ Len(F) \in Nat
        BY <1>7, <2>1
      <4> QED
        BY <4>1
    <3> HIDE DEF F
    <3>3. /\ wire'[b] \in Connection /\ wire'[b].frames = Append(F, f)
          /\ wire'[b].open = wire[b].open
      BY <2>1, <3>1, <3>2 DEF Connection
    <3>4. wire' \in [Boot -> Connection]
      BY <1>1, <1>2, <1>3, <2>2, <3>3 DEF FeedType
    <3> QED
      BY <1>1, <2>2, <2>4, <3>2, <3>3, <3>4
  <2> QED
    BY <2>3, <2>4
<1>10. /\ tornAt' \in [Boot -> {0} \cup Sequence]
       /\ \A c \in Boot : c # b => tornAt'[c] = tornAt[c]
       /\ tornAt'[b] = tornAt[b] \/ (tornAt'[b] = seq /\ tornAt[b] = 0 /\ outcome = "torn")
  <2>1. seq \in Sequence
    BY <1>3, <1>4 DEF Sequence
  <2> QED
    BY <1>1, <1>2, <1>3, <2>1 DEF FeedType
<1>11. F \in Seq(Frame)
  BY <1>2, <1>3, StateFacts
<1> HIDE DEF f
<1>12. /\ n = Len(F) /\ Len(G) \in {n, n + 1} /\ Len(G) \in Nat /\ Len(G) <= MaxFlight
       /\ \A k \in 1..n : G[k] = F[k]
       /\ Len(G) = n + 1 => G[n + 1] = f
       /\ G # F => Len(G) = n + 1
       /\ \A k \in 1..Len(G) : k \in 1..n \/ (k = n + 1 /\ Len(G) = n + 1)
       /\ \A k, m \in 1..Len(G) : k < m => k \in 1..n
  <2>1. n <= MaxFlight
    BY <1>2, <1>3 DEF FeedType
  <2>2. G = F \/ G = Append(F, f)
    BY <1>9
  <2>3. n = Len(F)
    OBVIOUS
  <2> HIDE DEF n, F, G
  <2>4. /\ Len(G) \in {n, n + 1}
        /\ \A k \in 1..n : G[k] = F[k]
        /\ Len(G) = n + 1 => G[n + 1] = f
        /\ G # F => Len(G) = n + 1
        /\ \A k \in 1..Len(G) : k \in 1..n \/ (k = n + 1 /\ Len(G) = n + 1)
        /\ \A k, m \in 1..Len(G) : k < m => k \in 1..n
    BY <1>7, <1>11, <2>2, <2>3, GrownFacts
  <2>5. Len(G) \in Nat /\ Len(G) <= MaxFlight
    <3>1. G = F => Len(G) = n
      BY <2>3
    <3> QED
      BY <1>3, <1>9, <2>1, <2>4, <3>1
  <2> QED
    BY <2>3, <2>4, <2>5
<1> HIDE DEF p, b, seq, r, n, F, G
<1>13. /\ \A k \in 1..n : F[k].reading.sequence < seq /\ F[k].reading.sequence \in Nat
       /\ \A i \in 1..Len(admitted) : admitted[i].boot = b => admitted[i].sequence < seq
       /\ tornAt[b] < seq /\ tornAt[b] \in Nat
       /\ \A i \in 1..Len(admitted) : admitted[i].sequence \in Nat
       /\ f.reading.boot = b /\ f.reading.sequence = seq
  BY <1>1, <1>2, <1>3, <1>6, <1>7, <1>12, StateFacts DEF NextIsNew, p, b, seq, F
<1>14. FeedType'
  <2>1. \A c \in Boot : Len(wire'[c].frames) <= MaxFlight
    BY <1>2, <1>9, <1>12 DEF FeedType, G
  <2> QED
    BY <1>1, <1>2, <1>8, <1>9, <1>10, <2>1 DEF FeedType
<1>15. ProvidersPace'
  BY <1>1, <1>2, <1>3, <1>4, <1>5, <1>8 DEF ProvidersPace, p, seq
<1>16. BootsAreFresh'
  <2>1. b <= boots
    BY <1>1, <1>2 DEF BootsAreFresh, p, b
  <2>2. \A c \in Boot : c > boots => c # b
    BY <1>2, <1>3, <2>1, StateFacts DEF Boot
  <2>3. \A v \in Worker : prov'[v].up => prov[v].up /\ prov'[v].boot = prov[v].boot
    BY <1>1, <1>5, <1>8 DEF b, p
  <2> QED
    BY <1>1, <1>2, <1>9, <1>10, <2>2, <2>3 DEF BootsAreFresh
<1>17. WireInOrder'
  <2> SUFFICES ASSUME NEW c \in Boot
               PROVE  LET g == wire'[c].frames IN
                      /\ \A k \in 1..Len(g) : g[k].reading.boot = c
                      /\ \A k, m \in 1..Len(g) : k < m => g[k].reading.sequence < g[m].reading.sequence
                      /\ \A i \in 1..Len(admitted), k \in 1..Len(g) :
                            admitted[i].boot = c => admitted[i].sequence < g[k].reading.sequence
    BY <1>1 DEF WireInOrder
  <2>1. CASE c # b
    BY <1>2, <1>9, <2>1 DEF WireInOrder
  <2>2. CASE c = b
    <3>1. /\ \A k \in 1..n : F[k].reading.boot = b
          /\ \A k, m \in 1..n : k < m => F[k].reading.sequence < F[m].reading.sequence
          /\ \A i \in 1..Len(admitted), k \in 1..n :
                admitted[i].boot = b => admitted[i].sequence < F[k].reading.sequence
      BY <1>2, <1>3, <1>12 DEF WireInOrder, F
    <3>2. \A k \in 1..Len(G) : G[k].reading.boot = b
      BY <1>12, <1>13, <3>1
    <3>3. \A k, m \in 1..Len(G) : k < m => G[k].reading.sequence < G[m].reading.sequence
      BY <1>12, <1>13, <3>1
    <3>4. \A i \in 1..Len(admitted), k \in 1..Len(G) :
             admitted[i].boot = b => admitted[i].sequence < G[k].reading.sequence
      BY <1>12, <1>13, <3>1
    <3> QED
      BY <2>2, <3>2, <3>3, <3>4 DEF G
  <2> QED
    BY <2>1, <2>2
<1>18. NextIsNew'
  <2> SUFFICES ASSUME NEW v \in Worker, prov'[v].up
               PROVE  LET c == prov'[v].boot IN
                      /\ \A k \in 1..Len(wire'[c].frames) :
                            wire'[c].frames[k].reading.sequence < prov'[v].next
                      /\ \A i \in 1..Len(admitted) :
                            admitted[i].boot = c => admitted[i].sequence < prov'[v].next
                      /\ tornAt'[c] < prov'[v].next
    BY <1>1 DEF NextIsNew
  <2>1. CASE v = w
    <3>1. \A x \in Nat : x < seq => x < seq + 1
      BY <1>3
    <3>2. seq < seq + 1
      BY <1>3
    <3>3. \A k \in 1..Len(G) : G[k].reading.sequence < seq + 1
      BY <1>12, <1>13, <3>1, <3>2
    <3>4. /\ \A i \in 1..Len(admitted) : admitted[i].boot = b => admitted[i].sequence < seq + 1
          /\ tornAt'[b] < seq + 1
      BY <1>10, <1>13, <3>1, <3>2
    <3> QED
      BY <1>5, <1>8, <2>1, <3>3, <3>4 DEF G
  <2>2. CASE v # w
    <3>1. prov'[v] = prov[v] /\ prov[v].boot # b /\ prov[v].boot \in Boot
      BY <1>1, <1>2, <1>8, <2>2, StateFacts DEF BootsAreFresh, b, p
    <3> QED
      BY <1>2, <1>9, <1>10, <3>1 DEF NextIsNew
  <2> QED
    BY <2>1, <2>2
<1>19. TornIsAhead'
  <2> SUFFICES ASSUME NEW c \in Boot, tornAt'[c] # 0, wire'[c].open
               PROVE  \E k \in 1..Len(wire'[c].frames) :
                         /\ ~wire'[c].frames[k].whole
                         /\ wire'[c].frames[k].reading.sequence = tornAt'[c]
    BY DEF TornIsAhead
  <2>1. CASE c # b
    BY <1>2, <1>9, <1>10, <2>1 DEF TornIsAhead
  <2>2. CASE c = b /\ tornAt'[b] = tornAt[b]
    <3>1. PICK k \in 1..n : ~F[k].whole /\ F[k].reading.sequence = tornAt[b]
      BY <1>2, <1>9, <1>12, <2>2 DEF TornIsAhead, F
    <3>2. k \in 1..Len(G) /\ G[k] = F[k]
      BY <1>3, <1>12
    <3> QED
      BY <2>2, <3>1, <3>2 DEF G
  <2>3. CASE c = b /\ tornAt'[b] = seq /\ outcome = "torn"
    <3>1. Len(G) = n + 1 /\ n + 1 \in 1..Len(G) /\ G[n + 1] = f
      BY <1>3, <1>9, <1>12, <2>3
    <3> QED
      BY <1>7, <1>13, <2>3, <3>1 DEF G
  <2> QED
    BY <1>10, <2>1, <2>2, <2>3
<1>20. NothingAfterTear'
  <2> SUFFICES ASSUME NEW i \in 1..Len(admitted), tornAt'[admitted[i].boot] # 0
               PROVE  admitted[i].sequence < tornAt'[admitted[i].boot]
    BY <1>1 DEF NothingAfterTear
  <2>1. admitted[i].boot \in Boot
    BY <1>2, StateFacts
  <2> QED
    BY <1>2, <1>10, <1>13, <2>1 DEF NothingAfterTear
<1>21. FilterAhead' /\ NoReadingTwice' /\ UsedInOrder'
  BY <1>1 DEF FeedInv, FilterAhead, NoReadingTwice, UsedInOrder
<1> QED
  BY <1>14, <1>15, <1>16, <1>17, <1>18, <1>19, <1>20, <1>21 DEF FeedInv
-----------------------------------------------------------------------------
(***************************************************************************)
(* The journal's steps and the estimator's.                                *)
(***************************************************************************)

\* The head of a connection is an older reading of its instance than all that
\* follow, and newer than all that were admitted.
LEMMA HeadFacts ==
    ASSUME FeedInv, NEW b \in Boot, wire[b].frames # << >>
    PROVE  LET F == wire[b].frames
               G == Tail(F)
               o == Head(F).reading
           IN  /\ F[1] = Head(F) /\ o \in Reading /\ o.boot = b /\ 1 \in 1..Len(F)
               /\ G \in Seq(Frame) /\ Len(G) \in Nat /\ Len(G) + 1 = Len(F)
               /\ \A k \in 1..Len(G) : k + 1 \in 1..Len(F) /\ G[k] = F[k + 1]
               /\ \A k \in 1..Len(F) : k = 1 \/ (k - 1 \in 1..Len(G) /\ G[k - 1] = F[k])
               /\ \A k \in 1..Len(G) : o.sequence < G[k].reading.sequence
               /\ \A i \in 1..Len(admitted) : admitted[i].boot = b => admitted[i].sequence < o.sequence
<1> DEFINE F == wire[b].frames
           G == Tail(F)
           o == Head(F).reading
<1>1. F \in Seq(Frame) /\ F # << >>
  BY StateFacts DEF FeedInv
<1>2. /\ F[1] = Head(F) /\ G \in Seq(Frame) /\ Len(G) \in Nat /\ Len(F) \in Nat /\ Len(G) = Len(F) - 1
      /\ Len(F) >= 1
      /\ \A k \in 1..Len(G) : G[k] = F[k + 1]
  <2> HIDE DEF F
  <2> QED
    BY <1>1
<1>3. /\ \A k \in 1..Len(F) : F[k] \in Frame /\ F[k].reading.boot = b
      /\ \A k, m \in 1..Len(F) : k < m => F[k].reading.sequence < F[m].reading.sequence
      /\ \A i \in 1..Len(admitted), k \in 1..Len(F) :
            admitted[i].boot = b => admitted[i].sequence < F[k].reading.sequence
  BY <1>1 DEF FeedInv, WireInOrder
<1>4. \A k \in 1..Len(G) : k + 1 \in 1..Len(F) /\ 1 < k + 1
  <2> HIDE DEF F, G
  <2> QED
    BY <1>2
<1>5. 1 \in 1..Len(F) /\ Len(G) + 1 = Len(F)
  <2> HIDE DEF F, G
  <2> QED
    BY <1>2
<1>6. \A k \in 1..Len(F) : k = 1 \/ (k - 1 \in 1..Len(G) /\ G[k - 1] = F[k])
  <2> HIDE DEF F, G
  <2>1. \A k \in 1..Len(F) : k # 1 => k - 1 \in 1..Len(G) /\ (k - 1) + 1 = k
    BY <1>2
  <2> QED
    BY <1>2, <2>1
<1>7. o \in Reading /\ o.boot = b
  BY <1>2, <1>3, <1>5, DataFacts
<1>8. \A k \in 1..Len(G) : o.sequence < G[k].reading.sequence
  <2> HIDE DEF F, G
  <2> QED
    BY <1>2, <1>3, <1>4, <1>5
<1>9. \A i \in 1..Len(admitted) : admitted[i].boot = b => admitted[i].sequence < o.sequence
  <2> HIDE DEF F, G
  <2> QED
    BY <1>2, <1>3, <1>5
<1> HIDE DEF F, G, o
<1>10. /\ F[1] = Head(F) /\ o \in Reading /\ o.boot = b /\ 1 \in 1..Len(F)
       /\ G \in Seq(Frame) /\ Len(G) \in Nat /\ Len(G) + 1 = Len(F)
       /\ \A k \in 1..Len(G) : k + 1 \in 1..Len(F) /\ G[k] = F[k + 1]
       /\ \A k \in 1..Len(F) : k = 1 \/ (k - 1 \in 1..Len(G) /\ G[k - 1] = F[k])
       /\ \A k \in 1..Len(G) : o.sequence < G[k].reading.sequence
       /\ \A i \in 1..Len(admitted) : admitted[i].boot = b => admitted[i].sequence < o.sequence
  BY <1>2, <1>4, <1>5, <1>6, <1>7, <1>8, <1>9
<1> QED
  BY <1>10 DEF F, G, o

\* What an observation that reaches the filter does to it: a filter that has
\* used a sample never turns back, and one it uses is where it then stands.
LEMMA FilterStep ==
    ASSUME FeedType, FilterAhead, UsedInOrder, NEW time \in SampleTime, NEW reaches \in BOOLEAN,
           NEW singular \in BOOLEAN,
           est' = IF reaches THEN Update(time, singular) ELSE est,
           used' = IF reaches /\ Uses(time, singular) THEN Append(used, time) ELSE used
    PROVE  /\ est' \in [ready : BOOLEAN, time : SampleTime] /\ used' \in Seq(SampleTime)
           /\ FilterAhead' /\ UsedInOrder'
<1>1. /\ est \in [ready : BOOLEAN, time : SampleTime] /\ used \in Seq(SampleTime)
      /\ \A t \in SampleTime : t \in Int
  BY FeedConstants DEF FeedType, SampleTime
<1>2. est.time \in SampleTime /\ est.ready \in BOOLEAN /\ time \in Int /\ est.time \in Int
  BY <1>1
<1>3. /\ est' \in [ready : BOOLEAN, time : SampleTime]
      /\ used # << >> => est.time <= est'.time /\ est'.ready
      /\ used' = used \/ (used' = Append(used, time) /\ est'.time = time /\ est'.ready)
  <2>1. CASE ~reaches
    BY <1>1, <1>2, <2>1 DEF FilterAhead
  <2>2. CASE reaches /\ ~est.ready
    <3>1. est' = [ready |-> TRUE, time |-> time] /\ used' = Append(used, time)
      BY <2>2 DEF Update, Uses
    <3>2. used = << >>
      BY <2>2 DEF FilterAhead
    <3>3. [ready |-> TRUE, time |-> time] \in [ready : BOOLEAN, time : SampleTime]
      <4>1. TRUE \in BOOLEAN
        OBVIOUS
      <4> QED
        BY <4>1
    <3>4. est'.time = time /\ est'.ready = TRUE
      BY <3>1
    <3> QED
      BY <3>1, <3>2, <3>3, <3>4
  <2>3. CASE reaches /\ est.ready /\ Predicts(time)
    <3>1. est' = [est EXCEPT !.time = time] /\ time >= est.time
      BY <2>3 DEF Update, Predicts
    <3>2. est' \in [ready : BOOLEAN, time : SampleTime] /\ est'.time = time /\ est'.ready = est.ready
      BY <1>1, <3>1
    <3>3. used' = used \/ used' = Append(used, time)
      OBVIOUS
    <3> QED
      BY <1>2, <2>3, <3>1, <3>2, <3>3
  <2>4. CASE reaches /\ est.ready /\ ~Predicts(time)
    <3>1. est' = est /\ used' = used
      BY <2>4 DEF Update, Uses
    <3> QED
      BY <1>1, <1>2, <3>1 DEF FilterAhead
  <2> QED
    BY <2>1, <2>2, <2>3, <2>4
<1> DEFINE n == Len(used)
           u == used'
           t == est'.time
<1>4. /\ n \in Nat /\ Len(u) \in {n, n + 1} /\ \A k \in 1..n : u[k] = used[k]
      /\ Len(u) = n + 1 => u[n + 1] = time
      /\ \A k \in 1..Len(u) : k \in 1..n \/ (k = n + 1 /\ Len(u) = n + 1)
      /\ \A k, m \in 1..Len(u) : k < m => k \in 1..n
      /\ u # used => Len(u) = n + 1
  <2>1. u = used \/ u = Append(used, time)
    BY <1>3
  <2> HIDE DEF u
  <2> QED
    BY <1>1, <2>1, GrownFacts
<1>5. u = used => Len(u) # n + 1
  <2>1. u = used => Len(u) = n
    OBVIOUS
  <2>2. n + 1 # n
    BY <1>4
  <2> QED
    BY <2>1, <2>2
<1>6. Len(u) = n + 1 => time = t
  BY <1>3, <1>5
<1>7. \A k \in 1..n : used[k] \in Int /\ used[k] <= t
  <2>1. SUFFICES ASSUME NEW k \in 1..n
                 PROVE  used[k] \in Int /\ used[k] <= t
    OBVIOUS
  <2>2. used[k] \in SampleTime /\ used # << >>
    BY <1>1, <1>4
  <2>3. used[k] <= est.time
    BY DEF FilterAhead
  <2>4. t \in Int /\ est.time <= t
    BY <1>1, <1>3, <2>2
  <2>5. used[k] \in Int
    BY <1>1, <2>2
  <2> HIDE DEF t
  <2> QED
    BY <1>2, <2>3, <2>4, <2>5
<1>8. used' \in Seq(SampleTime)
  BY <1>1, <1>3
<1>9. t \in Int
  BY <1>1, <1>3
<1> HIDE DEF n, u, t
<1>10. \A k \in 1..Len(u) : u[k] <= t
  BY <1>4, <1>6, <1>7, <1>9
<1>11. UsedInOrder'
  <2>1. \A i, j \in 1..n : i < j => used[i] <= used[j]
    BY DEF UsedInOrder, n
  <2>2. \A i, j \in 1..Len(u) : i < j => u[i] <= u[j]
    BY <1>4, <1>6, <1>7, <2>1
  <2> QED
    BY <2>2 DEF UsedInOrder, u
<1>12. FilterAhead'
  <2>1. u # << >> => est'.ready
    BY <1>3 DEF u
  <2> QED
    BY <1>10, <2>1 DEF FilterAhead, u, t
<1> QED
  BY <1>3, <1>8, <1>11, <1>12

\* The journal takes the whole frame at the head of a connection.
LEMMA ReceiveInv ==
    ASSUME FeedInv, NEW b \in Boot, NEW pending, NEW seen \in BOOLEAN, NEW singular \in BOOLEAN,
           Receive(b, pending, seen, singular)
    PROVE  FeedInv'
<1> DEFINE F == wire[b].frames
           G == Tail(F)
           o == Head(F).reading
           reason == Admit(tracks[o.sensor], o, pending)
           reaches == reason = "OK" /\ seen
<1>1. /\ wire[b].open /\ F # << >> /\ Head(F).whole
      /\ wire' = [wire EXCEPT ![b].frames = G]
      /\ tracks' = [tracks EXCEPT ![o.sensor] = TrackAfter(tracks[o.sensor], o, reason)]
      /\ admitted' = IF reason = "OK" THEN Append(admitted, o) ELSE admitted
      /\ est' = IF reaches THEN Update(o.time, singular) ELSE est
      /\ used' = IF reaches /\ Uses(o.time, singular) THEN Append(used, o.time) ELSE used
      /\ now' = now /\ boots' = boots /\ prov' = prov /\ tornAt' = tornAt
  BY DEF Receive
<1>2. FeedType /\ ProvidersPace /\ BootsAreFresh /\ WireInOrder /\ NextIsNew /\ TornIsAhead
      /\ FilterAhead /\ NoReadingTwice /\ NothingAfterTear /\ UsedInOrder
  BY DEF FeedInv
<1>3. /\ F[1] = Head(F) /\ o \in Reading /\ o.boot = b /\ 1 \in 1..Len(F)
      /\ G \in Seq(Frame) /\ Len(G) \in Nat /\ Len(G) + 1 = Len(F)
      /\ \A k \in 1..Len(G) : k + 1 \in 1..Len(F) /\ G[k] = F[k + 1]
      /\ \A k \in 1..Len(F) : k = 1 \/ (k - 1 \in 1..Len(G) /\ G[k - 1] = F[k])
      /\ \A k \in 1..Len(G) : o.sequence < G[k].reading.sequence
      /\ \A i \in 1..Len(admitted) : admitted[i].boot = b => admitted[i].sequence < o.sequence
  BY <1>1, HeadFacts
<1>4. /\ wire' \in [Boot -> Connection] /\ wire'[b].frames = G /\ wire'[b].open = wire[b].open
      /\ \A c \in Boot : c # b => wire'[c] = wire[c]
  <2>1. wire \in [Boot -> Connection] /\ wire[b] \in Connection
    BY <1>2 DEF FeedType
  <2> HIDE DEF G
  <2>2. [wire[b] EXCEPT !.frames = G] \in Connection
    BY <1>3, <2>1 DEF Connection
  <2>3. [wire[b] EXCEPT !.frames = G].frames = G /\ [wire[b] EXCEPT !.frames = G].open = wire[b].open
    BY <2>1 DEF Connection
  <2>4. wire' = [wire EXCEPT ![b] = [wire[b] EXCEPT !.frames = G]]
    BY <1>1
  <2> QED
    BY <2>1, <2>2, <2>3, <2>4
<1>5. /\ o.sequence \in Nat /\ o.boot \in Nat /\ o.sensor \in Sensor /\ o.time \in SampleTime
      /\ o.sequence \in Sequence /\ o.boot \in Boot
  BY <1>3, DataFacts
<1> HIDE DEF F, G, o
<1>6. tracks' \in [Sensor -> {NoTrack} \cup Track]
  <2> DEFINE t == tracks[o.sensor]
  <2>1. tracks \in [Sensor -> {NoTrack} \cup Track] /\ t \in {NoTrack} \cup Track
    BY <1>2, <1>5 DEF FeedType
  <2>2. NewSession(t, o) \/ t \in Track
    BY <2>1 DEF NewSession, NoTrack
  <2>3. t \in Track => t.watermark \in SampleTime
    BY DEF Track
  <2>4. TrackAfter(t, o, reason) \in {NoTrack} \cup Track
    <3>1. CASE reason # "OK"
      BY <2>1, <3>1 DEF TrackAfter
    <3>2. CASE reason = "OK"
      <4> DEFINE mark == IF NewSession(t, o) \/ o.time > t.watermark THEN o.time ELSE t.watermark
      <4>1. mark \in SampleTime
        BY <1>5, <2>2, <2>3
      <4>2. TrackAfter(t, o, reason) = [hasData |-> TRUE, boot |-> o.boot, high |-> o.sequence,
                                        watermark |-> mark]
        BY <3>2 DEF TrackAfter
      <4> HIDE DEF mark
      <4> QED
        BY <1>5, <4>1, <4>2 DEF Track
    <3> QED
      BY <3>1, <3>2
  <2> HIDE DEF t
  <2> QED
    BY <1>1, <2>1, <2>4 DEF t
<1>7. /\ est' \in [ready : BOOLEAN, time : SampleTime] /\ used' \in Seq(SampleTime)
      /\ FilterAhead' /\ UsedInOrder'
  <2>1. reaches \in BOOLEAN
    OBVIOUS
  <2> HIDE DEF reaches
  <2> QED
    BY <1>1, <1>2, <1>5, <2>1, FilterStep
<1> HIDE DEF reason, reaches
<1> DEFINE n == Len(admitted)
           A == admitted'
<1>8. A \in Seq(Reading) /\ (A = admitted \/ A = Append(admitted, o))
  BY <1>1, <1>2, <1>3 DEF FeedType
<1>9. /\ n \in Nat /\ Len(A) \in {n, n + 1} /\ \A k \in 1..n : A[k] = admitted[k]
      /\ Len(A) = n + 1 => A[n + 1] = o
      /\ \A k \in 1..Len(A) : k \in 1..n \/ (k = n + 1 /\ Len(A) = n + 1)
  <2>1. admitted \in Seq(Reading)
    BY <1>2 DEF FeedType
  <2> HIDE DEF A
  <2> QED
    BY <1>3, <1>8, <2>1, GrownFacts
<1> HIDE DEF n, A
<1>10. \A i \in 1..n : /\ admitted[i].sequence \in Nat /\ admitted[i].boot \in Boot
                       /\ admitted[i].boot = b => admitted[i].sequence < o.sequence
  BY <1>2, <1>3, StateFacts DEF n
<1>11. FeedType'
  <2>1. \A c \in Boot : Len(wire'[c].frames) <= MaxFlight
    <3>1. Len(F) <= MaxFlight /\ MaxFlight \in Nat
      BY <1>2, FeedConstants DEF FeedType, F
    <3>2. Len(G) <= MaxFlight
      BY <1>3, <3>1
    <3> QED
      BY <1>2, <1>4, <3>2 DEF FeedType
  <2> QED
    BY <1>1, <1>2, <1>4, <1>6, <1>7, <1>8, <2>1 DEF FeedType, A
<1>12. ProvidersPace'
  BY <1>1, <1>2 DEF ProvidersPace
<1>13. BootsAreFresh'
  <2>1. b <= boots
    <3>1. b \in Nat /\ boots \in Nat
      BY <1>2, FeedConstants, StateFacts DEF Boot
    <3>2. ~(b > boots)
      BY <1>1, <1>2 DEF BootsAreFresh, F
    <3> QED
      BY <3>1, <3>2
  <2>2. \A c \in Boot : c > boots => c # b
    BY <1>2, <1>3, <2>1, FeedConstants, StateFacts DEF Boot
  <2>3. \A i \in 1..Len(A) : A[i].boot <= boots
    <3>1. \A i \in 1..n : admitted[i].boot <= boots
      BY <1>2 DEF BootsAreFresh, n
    <3> QED
      BY <1>3, <1>9, <2>1, <3>1
  <2> QED
    BY <1>1, <1>2, <1>4, <2>2, <2>3 DEF BootsAreFresh, A
<1>14. WireInOrder'
  <2> SUFFICES ASSUME NEW c \in Boot
               PROVE  LET g == wire'[c].frames IN
                      /\ \A k \in 1..Len(g) : g[k].reading.boot = c
                      /\ \A k, m \in 1..Len(g) : k < m => g[k].reading.sequence < g[m].reading.sequence
                      /\ \A i \in 1..Len(A), k \in 1..Len(g) :
                            A[i].boot = c => A[i].sequence < g[k].reading.sequence
    BY DEF WireInOrder, A
  <2>1. CASE c # b
    <3> DEFINE g == wire'[c].frames
    <3>1. /\ \A k \in 1..Len(g) : g[k].reading.boot = c
          /\ \A k, m \in 1..Len(g) : k < m => g[k].reading.sequence < g[m].reading.sequence
          /\ \A i \in 1..n, k \in 1..Len(g) :
                admitted[i].boot = c => admitted[i].sequence < g[k].reading.sequence
      BY <1>2, <1>4, <2>1 DEF WireInOrder, n
    <3> HIDE DEF g
    <3>2. \A i \in 1..Len(A), k \in 1..Len(g) : A[i].boot = c => A[i].sequence < g[k].reading.sequence
      BY <1>3, <1>9, <2>1, <3>1
    <3> QED
      BY <3>1, <3>2 DEF g
  <2>2. CASE c = b
    <3>1. /\ \A k \in 1..Len(F) : F[k].reading.boot = b
          /\ \A k, m \in 1..Len(F) : k < m => F[k].reading.sequence < F[m].reading.sequence
          /\ \A i \in 1..n, k \in 1..Len(F) :
                admitted[i].boot = b => admitted[i].sequence < F[k].reading.sequence
      BY <1>2 DEF WireInOrder, F, n
    <3>2. \A k \in 1..Len(G) : G[k].reading.boot = b
      BY <1>3, <3>1
    <3>3. \A k, m \in 1..Len(G) : k < m => G[k].reading.sequence < G[m].reading.sequence
      <4>1. \A k, m \in 1..Len(G) : k < m => k + 1 < m + 1
        BY <1>3
      <4> QED
        BY <1>3, <3>1, <4>1
    <3>4. \A i \in 1..Len(A), k \in 1..Len(G) :
             A[i].boot = b => A[i].sequence < G[k].reading.sequence
      <4>1. \A i \in 1..n, k \in 1..Len(G) :
               admitted[i].boot = b => admitted[i].sequence < G[k].reading.sequence
        BY <1>3, <3>1
      <4>2. \A k \in 1..Len(G) : o.sequence < G[k].reading.sequence
        BY <1>3
      <4> QED
        BY <1>9, <4>1, <4>2
    <3> QED
      BY <1>4, <2>2, <3>2, <3>3, <3>4
  <2> QED
    BY <2>1, <2>2
<1>15. NextIsNew'
  <2> SUFFICES ASSUME NEW v \in Worker, prov[v].up
               PROVE  LET c == prov[v].boot IN
                      /\ \A k \in 1..Len(wire'[c].frames) :
                            wire'[c].frames[k].reading.sequence < prov[v].next
                      /\ \A i \in 1..Len(A) : A[i].boot = c => A[i].sequence < prov[v].next
                      /\ tornAt[c] < prov[v].next
    BY <1>1 DEF NextIsNew, A
  <2> DEFINE c == prov[v].boot
             next == prov[v].next
  <2>1. /\ \A k \in 1..Len(wire[c].frames) : wire[c].frames[k].reading.sequence < next
        /\ \A i \in 1..n : admitted[i].boot = c => admitted[i].sequence < next
        /\ tornAt[c] < next
        /\ c \in Boot
    BY <1>2, StateFacts DEF NextIsNew, n
  <2> HIDE DEF c, next
  <2>2. \A k \in 1..Len(wire'[c].frames) : wire'[c].frames[k].reading.sequence < next
    <3>1. CASE c # b
      BY <1>4, <2>1, <3>1
    <3>2. CASE c = b
      <4>1. \A k \in 1..Len(F) : F[k].reading.sequence < next
        BY <2>1, <3>2 DEF F
      <4>2. \A k \in 1..Len(G) : G[k].reading.sequence < next
        BY <1>3, <4>1
      <4> QED
        BY <1>4, <3>2, <4>2
    <3> QED
      BY <3>1, <3>2
  <2>3. c = b => o.sequence < next
    <3>1. o = F[1].reading
      BY <1>3 DEF o
    <3> QED
      BY <1>3, <2>1, <3>1 DEF F
  <2>4. \A i \in 1..Len(A) : A[i].boot = c => A[i].sequence < next
    BY <1>3, <1>9, <2>1, <2>3
  <2> QED
    BY <2>1, <2>2, <2>4 DEF c, next
<1>16. \A i \in 1..Len(A) : A[i].boot \in Boot
  BY <1>5, <1>9, <1>10
<1>17. tornAt[b] # 0 => o.sequence < tornAt[b] /\ \E k \in 1..Len(G) :
            ~G[k].whole /\ G[k].reading.sequence = tornAt[b]
  <2> SUFFICES ASSUME tornAt[b] # 0
               PROVE  o.sequence < tornAt[b] /\ \E k \in 1..Len(G) :
                          ~G[k].whole /\ G[k].reading.sequence = tornAt[b]
    OBVIOUS
  <2>1. PICK k \in 1..Len(F) : ~F[k].whole /\ F[k].reading.sequence = tornAt[b]
    BY <1>1, <1>2 DEF TornIsAhead, F
  <2>2. k # 1
    BY <1>1, <1>3, <2>1
  <2>3. k - 1 \in 1..Len(G) /\ G[k - 1] = F[k]
    BY <1>3, <2>2
  <2> QED
    BY <1>3, <2>1, <2>3
<1>18. TornIsAhead'
  <2> SUFFICES ASSUME NEW c \in Boot, tornAt[c] # 0, wire'[c].open
               PROVE  \E k \in 1..Len(wire'[c].frames) :
                         /\ ~wire'[c].frames[k].whole
                         /\ wire'[c].frames[k].reading.sequence = tornAt[c]
    BY <1>1 DEF TornIsAhead
  <2>1. CASE c # b
    BY <1>2, <1>4, <2>1 DEF TornIsAhead
  <2>2. CASE c = b
    BY <1>4, <1>17, <2>2
  <2> QED
    BY <2>1, <2>2
<1>19. NothingAfterTear'
  <2> SUFFICES ASSUME NEW i \in 1..Len(A), tornAt[A[i].boot] # 0
               PROVE  A[i].sequence < tornAt[A[i].boot]
    BY <1>1 DEF NothingAfterTear, A
  <2>1. CASE i \in 1..n
    BY <1>2, <1>9, <2>1 DEF NothingAfterTear, n
  <2>2. CASE A[i] = o
    BY <1>3, <1>17, <2>2
  <2> QED
    BY <1>9, <2>1, <2>2
<1>20. NoReadingTwice'
  <2>1. \A i, j \in 1..n : (/\ admitted[i].boot = admitted[j].boot
                            /\ admitted[i].sequence = admitted[j].sequence) => i = j
    BY <1>2 DEF NoReadingTwice, n
  <2>2. \A i \in 1..n : ~(admitted[i].boot = o.boot /\ admitted[i].sequence = o.sequence)
    BY <1>3, <1>5, <1>10
  <2>3. \A i, j \in 1..Len(A) : (A[i].boot = A[j].boot /\ A[i].sequence = A[j].sequence) => i = j
    BY <1>9, <2>1, <2>2
  <2> QED
    BY <2>3 DEF NoReadingTwice, A
<1> QED
  BY <1>7, <1>11, <1>12, <1>13, <1>14, <1>15, <1>18, <1>19, <1>20 DEF FeedInv

\* The journal closes a connection on which a frame was cut off.
LEMMA ReceiveTornInv ==
    ASSUME FeedInv, NEW b \in Boot, ReceiveTorn(b)
    PROVE  FeedInv'
<1> DEFINE c == [frames |-> << >>, open |-> FALSE]
<1>1. /\ wire' = [wire EXCEPT ![b] = c] /\ now' = now /\ boots' = boots /\ prov' = prov
      /\ tracks' = tracks /\ est' = est /\ admitted' = admitted /\ used' = used /\ tornAt' = tornAt
  BY DEF ReceiveTorn
<1>2. FeedType /\ MaxFlight \in Nat
  BY FeedConstants DEF FeedInv
<1>3. c \in Connection /\ c.frames = << >> /\ c.open = FALSE
  <2>1. FALSE \in BOOLEAN /\ << >> \in Seq(Frame)
    OBVIOUS
  <2> QED
    BY <2>1 DEF Connection
<1> HIDE DEF c
<1>4. /\ wire' \in [Boot -> Connection] /\ wire'[b].frames = << >> /\ wire'[b].open = FALSE
      /\ \A d \in Boot : d # b => wire'[d] = wire[d]
  BY <1>1, <1>2, <1>3 DEF FeedType
<1>5. Len(wire'[b].frames) = 0 /\ 1..0 = {}
  BY <1>4
<1>6. FeedType'
  BY <1>1, <1>2, <1>4, <1>5 DEF FeedType
<1>7. ProvidersPace' /\ BootsAreFresh'
  BY <1>1, <1>4 DEF FeedInv, ProvidersPace, BootsAreFresh
<1>8. WireInOrder'
  BY <1>1, <1>4, <1>5 DEF FeedInv, WireInOrder
<1>9. NextIsNew'
  <2>1. \A v \in Worker : prov[v].up => prov[v].boot \in Boot
    BY <1>2, StateFacts
  <2> QED
    BY <1>1, <1>4, <1>5, <2>1 DEF FeedInv, NextIsNew
<1>10. TornIsAhead'
  BY <1>1, <1>4 DEF FeedInv, TornIsAhead
<1>11. FilterAhead' /\ NoReadingTwice' /\ NothingAfterTear' /\ UsedInOrder'
  BY <1>1 DEF FeedInv, FilterAhead, NoReadingTwice, NothingAfterTear, UsedInOrder
<1> QED
  BY <1>6, <1>7, <1>8, <1>9, <1>10, <1>11 DEF FeedInv
-----------------------------------------------------------------------------
(***************************************************************************)
(* The theorems.                                                           *)
(***************************************************************************)

\* The invariant holds in the initial states.
LEMMA InitFeed == Init => FeedInv
<1> SUFFICES ASSUME Init PROVE FeedInv
  OBVIOUS
<1>1. {DelayBy, MaxTime, MaxBoot, MaxFlight} \subseteq Nat /\ MaxTime >= 1
  BY FeedConstants
<1>2. 1 \in Time /\ 1 \in SampleTime
  BY <1>1 DEF Time, SampleTime
<1>3. FeedType
  <2>1. [frames |-> << >>, open |-> TRUE] \in Connection
    <3>1. TRUE \in BOOLEAN /\ << >> \in Seq(Frame)
      OBVIOUS
    <3> QED
      BY <3>1 DEF Connection
  <2>2. wire \in [Boot -> Connection]
    BY <2>1 DEF Init
  <2>3. \A b \in Boot : Len(wire[b].frames) = 0
    BY DEF Init
  <2>4. est \in [ready : BOOLEAN, time : SampleTime]
    <3>1. FALSE \in BOOLEAN
      OBVIOUS
    <3> QED
      BY <1>2, <3>1 DEF Init
  <2>5. now \in Time /\ boots \in 0..MaxBoot /\ admitted \in Seq(Reading) /\ used \in Seq(SampleTime)
    BY <1>1, <1>2 DEF Init
  <2>6. /\ prov \in [Worker -> {Down} \cup Provider] /\ tracks \in [Sensor -> {NoTrack} \cup Track]
        /\ tornAt \in [Boot -> {0} \cup Sequence]
    BY DEF Init
  <2> QED
    BY <1>1, <2>2, <2>3, <2>4, <2>5, <2>6 DEF FeedType
<1>4. /\ \A w \in Worker : ~prov[w].up
      /\ \A b \in Boot : wire[b].frames = << >> /\ Len(wire[b].frames) = 0 /\ tornAt[b] = 0
      /\ Len(admitted) = 0 /\ Len(used) = 0 /\ used = << >> /\ 1..0 = {}
  BY DEF Init, Down
<1>5. ProvidersPace /\ BootsAreFresh /\ WireInOrder /\ NextIsNew /\ TornIsAhead
  BY <1>4 DEF ProvidersPace, BootsAreFresh, WireInOrder, NextIsNew, TornIsAhead
<1>6. FilterAhead /\ NoReadingTwice /\ NothingAfterTear /\ UsedInOrder
  BY <1>4 DEF FilterAhead, NoReadingTwice, NothingAfterTear, UsedInOrder
<1> QED
  BY <1>3, <1>5, <1>6 DEF FeedInv

\* Every step, and every stuttering step, keeps the invariant.
LEMMA NextFeed == FeedInv /\ [Next]_vars => FeedInv'
<1> SUFFICES ASSUME FeedInv, [Next]_vars PROVE FeedInv'
  OBVIOUS
<1>1. CASE UNCHANGED vars
  <2>1. FeedType' /\ ProvidersPace' /\ BootsAreFresh' /\ WireInOrder'
    BY <1>1 DEF FeedInv, FeedType, ProvidersPace, BootsAreFresh, WireInOrder, vars
  <2>2. NextIsNew' /\ TornIsAhead' /\ FilterAhead'
    BY <1>1 DEF FeedInv, NextIsNew, TornIsAhead, FilterAhead, vars
  <2>3. NoReadingTwice' /\ NothingAfterTear' /\ UsedInOrder'
    BY <1>1 DEF FeedInv, NoReadingTwice, NothingAfterTear, UsedInOrder, vars
  <2> QED
    BY <2>1, <2>2, <2>3 DEF FeedInv
<1>2. ASSUME NEW w \in Worker,
             \/ Start(w) \/ Dies(w) \/ Drop(w)
             \/ \E mode \in FaultMode, outcome \in {"sent", "lost", "torn"} : Poll(w, mode, outcome)
      PROVE  FeedInv'
  BY <1>2, StartInv, SilentInv, PollInv
<1>3. ASSUME NEW b \in Boot,
             \/ \E pending \in {0, MaxPending}, seen, singular \in BOOLEAN :
                   Receive(b, pending, seen, singular)
             \/ ReceiveTorn(b)
      PROVE  FeedInv'
  BY <1>3, ReceiveInv, ReceiveTornInv
<1> QED
  BY <1>1, <1>2, <1>3, TickInv DEF Next

\* The inductive invariant holds throughout, and with it the type invariant.
THEOREM FeedCorrect == Spec => [](FeedInv /\ TypeOK)
<1>1. FeedInv => TypeOK
  <2> SUFFICES ASSUME FeedInv PROVE TypeOK
    OBVIOUS
  <2>1. FeedType
    BY DEF FeedInv
  <2>2. \A b \in Boot : wire[b].frames \in Seq(Frame) /\ wire[b].open \in BOOLEAN
    BY <2>1, DataFacts DEF FeedType
  <2>3. \A s \in Sensor : tracks[s] = NoTrack \/ tracks[s].high \in Sequence
    BY <2>1 DEF FeedType, Track
  <2> QED
    BY <2>1, <2>2, <2>3 DEF FeedType, TypeOK
<1> QED
  BY <1>1, InitFeed, NextFeed, PTL DEF Spec

\* NoReadingTwice: no reading is admitted twice, however workers of one sensor
\* take its track from each other.
THEOREM AdmittedOnce == Spec => []NoReadingTwice
<1>1. FeedInv => NoReadingTwice
  BY DEF FeedInv
<1> QED
  BY <1>1, FeedCorrect, PTL

\* NothingAfterTear: nothing that followed a torn frame is admitted.
THEOREM TearEndsConnection == Spec => []NothingAfterTear
<1>1. FeedInv => NothingAfterTear
  BY DEF FeedInv
<1> QED
  BY <1>1, FeedCorrect, PTL

\* UsedInOrder: a filter uses its readings in order of sample time.
THEOREM FilterOrder == Spec => []UsedInOrder
<1>1. FeedInv => UsedInOrder
  BY DEF FeedInv
<1> QED
  BY <1>1, FeedCorrect, PTL
=============================================================================
