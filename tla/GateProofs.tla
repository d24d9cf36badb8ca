----------------------------- MODULE GateProofs -----------------------------
(***************************************************************************)
(* The publication gate's safety, for every number of pipelines, windows   *)
(* and epochs, every timeout and every pattern of failed persists and      *)
(* restarts.                                                               *)
(***************************************************************************)
EXTENDS Gate, TLAPS

\* The broker that owns the epoch after e is the other one, and A after none.
LEMMA OwnersAlternate ==
    ASSUME NEW e \in Nat
    PROVE  /\ OwnerOf(e) = NONE <=> e = 0
           /\ OwnerOf(e) = NONE => OwnerOf(e + 1) = A
           /\ OwnerOf(e) # NONE => OwnerOf(e + 1) = Other(OwnerOf(e))
<1>1. CASE e = 0
  BY <1>1 DEF OwnerOf, Other, NONE, A, B
<1>2. CASE e # 0
  <2>1. e % 2 = 1 <=> (e + 1) % 2 # 1
    OBVIOUS
  <2> QED
    BY <1>2, <2>1 DEF OwnerOf, Other, NONE, A, B
<1> QED
  BY <1>1, <1>2

\* The gate starts in the invariant.
LEMMA InitIInv == Init => IInv
<1> SUFFICES ASSUME Init PROVE IInv
  OBVIOUS
<1> USE GateConstants DEF Init
<1>1. FreshState \in GateState
  BY DEF FreshState, GateState, Epoch, NoCommit
<1>2. AgeCap \in Nat
  BY DEF AgeCap
<1>3. UnknownView \in BrokerView
  BY <1>2 DEF UnknownView, BrokerView, Window
<1>4. TypeOK
  BY <1>1, <1>2, <1>3 DEF TypeOK
<1>5. OwnersMatchEpochs
  BY DEF OwnersMatchEpochs, FreshState, OwnerOf
<1>6. FileLagsMemory
  BY DEF FileLagsMemory, FreshState, NoCommit
<1>7. AcceptedIsDurable
  BY DEF AcceptedIsDurable
<1>8. NobodyAwaitsBootstrap /\ AgesTrackSilence
  BY DEF NobodyAwaitsBootstrap, AgesTrackSilence, UnknownView, Broker, A
<1> QED
  BY <1>4, <1>5, <1>6, <1>7, <1>8 DEF IInv

-----------------------------------------------------------------------------
(***************************************************************************)
(* Heartbeats: the only steps that change epoch or owner in memory.        *)
(***************************************************************************)

\* What evaluate_promotion_locked can do in a state of the invariant while
\* the heartbeat of b is handled: nothing, or grant the next epoch to b, and
\* then either nobody owned the gate or the owner's recorded age exceeds the
\* confirm timeout.
LEMMA GranteeIsSpeaker ==
    ASSUME IInv, NEW b \in Broker, NEW healthy \in BOOLEAN, NEW compatible \in BOOLEAN,
           NEW w \in Window, NEW d \in 0..MaxLockWait, NEW vw,
           vw = [view EXCEPT ![b] = Seen(healthy, compatible, w, d)],
           Grantee(state, vw, d) # NONE
    PROVE  /\ Grantee(state, vw, d) = b
           /\ OwnerOf(state.epoch + 1) = b
           /\ state.owner # NONE =>
                 /\ state.owner \in Broker
                 /\ view[state.owner].known
                 /\ view[state.owner].age > ConfirmTimeout
<1> USE GateConstants
<1>1. /\ view \in [Broker -> BrokerView]
      /\ state.owner \in {NONE} \cup Broker
      /\ state.epoch \in Nat
      /\ state.owner = OwnerOf(state.epoch)
      /\ d \in Nat
  BY DEF IInv, TypeOK, GateState, Epoch, OwnersMatchEpochs
<1>2. /\ vw[b] = Seen(healthy, compatible, w, d)
      /\ \A c \in Broker : c # b => vw[c] = view[c]
  BY <1>1
<1>3. CASE state.owner = NONE
  <2>1. Grantee(state, vw, d) = A /\ vw[A].known /\ vw[A].healthy
    BY <1>3 DEF Grantee, NONE, A
  <2>2. ~(view[A].known /\ view[A].healthy)
    BY <1>3 DEF IInv, NobodyAwaitsBootstrap
  <2>3. b = A
    BY <1>2, <2>1, <2>2 DEF Broker
  <2>4. OwnerOf(state.epoch + 1) = A
    BY <1>1, <1>3, OwnersAlternate
  <2> QED
    BY <1>3, <2>1, <2>3, <2>4
<1>4. CASE state.owner # NONE
  <2>1. state.owner \in Broker
    BY <1>1, <1>4
  <2>2. /\ Grantee(state, vw, d) = Other(state.owner)
        /\ vw[state.owner].known
        /\ vw[state.owner].age - d > ConfirmTimeout
    BY <1>4 DEF Grantee
  <2>3. b # state.owner
    <3>1. SUFFICES ASSUME b = state.owner PROVE FALSE
      OBVIOUS
    <3>2. vw[state.owner].age = d
      BY <1>2, <3>1 DEF Seen
    <3> QED
      BY <2>2, <3>2, <1>1
  <2>4. Other(state.owner) = b
    BY <2>1, <2>3 DEF Other, Broker, A, B
  <2>5. OwnerOf(state.epoch + 1) = b
    BY <1>1, <1>4, <2>4, OwnersAlternate
  <2>6. view[state.owner].age \in Int
    BY <1>1, <2>1 DEF BrokerView, AgeCap
  <2>7. view[state.owner].known /\ view[state.owner].age > ConfirmTimeout
    BY <1>1, <1>2, <2>1, <2>2, <2>3, <2>6
  <2> QED
    BY <2>1, <2>2, <2>4, <2>5, <2>7
<1> QED
  BY <1>3, <1>4

\* handle_heartbeat preserves the invariant.
LEMMA HeartbeatIInv ==
    ASSUME IInv, NEW b \in Broker, NEW healthy \in BOOLEAN, NEW compatible \in BOOLEAN,
           NEW w \in Window, NEW d \in 0..MaxLockWait,
           HandleHeartbeat(b, healthy, compatible, w, d)
    PROVE  IInv'
<1> DEFINE vw == [view EXCEPT ![b] = Seen(healthy, compatible, w, d)]
           grantee == Grantee(state, vw, d)
           st == IF grantee = NONE THEN state ELSE Promote(state, grantee)
<1> USE GateConstants
<1>1. /\ d <= uptime
      /\ st.epoch <= MaxEpoch
      /\ view' = vw
      /\ state' = st
      /\ file' = file \/ (grantee # NONE /\ file' = st)
      /\ told' = told \cup {<<st.epoch, st.owner>>}
      /\ quiet' = [quiet EXCEPT ![b] = 0]
      /\ uptime' = uptime /\ published' = published
  BY DEF HandleHeartbeat, PersistOutcome, StatusReply
<1>2. AgeCap \in Nat /\ d \in 0..AgeCap
  BY DEF AgeCap
<1>3. TypeOK /\ OwnersMatchEpochs /\ FileLagsMemory /\ AcceptedIsDurable /\ AgesTrackSilence
  BY DEF IInv
<1>4. grantee # NONE => grantee = b /\ OwnerOf(state.epoch + 1) = b
  BY GranteeIsSpeaker
<1> HIDE DEF vw, grantee
<1>5. /\ st.slots = state.slots /\ st.hw = state.hw
      /\ grantee = NONE => st.epoch = state.epoch /\ st.owner = state.owner
      /\ grantee # NONE => st.epoch = state.epoch + 1 /\ st.owner = b
      /\ st.epoch \in Nat /\ st.epoch >= state.epoch
      /\ st = [epoch |-> st.epoch, owner |-> st.owner, slots |-> st.slots, hw |-> st.hw]
  <2>1. state \in GateState /\ state.epoch \in Nat
    BY <1>3 DEF TypeOK, GateState, Epoch
  <2>2. CASE grantee = NONE
    BY <2>1, <2>2 DEF GateState
  <2>3. CASE grantee # NONE
    BY <1>4, <2>1, <2>3 DEF Promote
  <2> QED
    BY <2>2, <2>3
<1> HIDE DEF st
<1>6. st \in GateState
  <2>1. st.epoch \in Epoch
    BY <1>1, <1>5 DEF Epoch
  <2>2. st.owner \in {NONE} \cup Broker
    BY <1>3, <1>5 DEF TypeOK, GateState
  <2>3. st.slots \in SUBSET Pipeline /\ st.hw \in [Pipeline -> {NoCommit} \cup Window]
    BY <1>3, <1>5 DEF TypeOK, GateState
  <2> QED
    BY <1>5, <2>1, <2>2, <2>3 DEF GateState
<1>7. st.owner = OwnerOf(st.epoch)
  BY <1>3, <1>4, <1>5 DEF OwnersMatchEpochs
<1>8. vw \in [Broker -> BrokerView]
  <2>1. Seen(healthy, compatible, w, d) \in BrokerView
    BY <1>2 DEF Seen, BrokerView
  <2> QED
    BY <1>3, <2>1 DEF TypeOK, vw
<1>9. TypeOK'
  <2>1. told' \in SUBSET (Epoch \X ({NONE} \cup Broker))
    BY <1>1, <1>3, <1>6 DEF TypeOK, GateState
  <2>2. quiet' \in [Broker -> 0..AgeCap]
    BY <1>1, <1>2, <1>3 DEF TypeOK
  <2> QED
    BY <1>1, <1>3, <1>6, <1>8, <2>1, <2>2 DEF TypeOK
<1>10. OwnersMatchEpochs'
  BY <1>1, <1>3, <1>7 DEF OwnersMatchEpochs
<1>11. FileLagsMemory'
  <2>1. file \in GateState /\ state \in GateState
    BY <1>3 DEF TypeOK
  <2>2. CASE file' = file
    BY <1>1, <1>3, <1>5, <2>1, <2>2 DEF FileLagsMemory, GateState, Epoch
  <2>3. CASE file' = st
    BY <1>1, <1>6, <2>3 DEF FileLagsMemory, GateState, Epoch, Window, NoCommit
  <2> QED
    BY <1>1, <2>2, <2>3
<1>12. AcceptedIsDurable'
  <2>1. CASE file' = file
    BY <1>1, <1>3, <2>1 DEF AcceptedIsDurable
  <2>2. CASE file' = st
    <3> SUFFICES ASSUME NEW i \in 1..Len(published)
                 PROVE  /\ published[i].pipeline \in st.slots
                        /\ published[i].window <= st.hw[published[i].pipeline]
                        /\ published[i].epoch <= st.epoch
      BY <1>1, <2>2 DEF AcceptedIsDurable
    <3>1. published[i] \in Result /\ file \in GateState /\ state \in GateState
      BY <1>3 DEF TypeOK
    <3>2. /\ published[i].pipeline \in file.slots
          /\ published[i].window <= file.hw[published[i].pipeline]
          /\ published[i].epoch <= file.epoch
      BY <1>3 DEF AcceptedIsDurable
    <3>3. /\ file.slots \subseteq st.slots
          /\ file.hw[published[i].pipeline] <= st.hw[published[i].pipeline]
          /\ file.epoch <= st.epoch
      BY <1>3, <1>5, <3>1 DEF FileLagsMemory, GateState, Result, Epoch
    <3>4. /\ file.epoch \in Nat /\ published[i].epoch \in Nat /\ published[i].window \in Nat
          /\ file.hw[published[i].pipeline] \in Int
          /\ st.hw[published[i].pipeline] \in Int
      BY <1>6, <3>1 DEF GateState, Result, Window, Epoch, NoCommit
    <3>5. published[i].pipeline \in st.slots
      BY <3>2, <3>3
    <3>6. published[i].epoch <= st.epoch
      BY <1>5, <3>2, <3>3, <3>4
    <3>7. published[i].window <= st.hw[published[i].pipeline]
      BY <3>2, <3>3, <3>4
    <3> QED
      BY <3>5, <3>6, <3>7
  <2> QED
    BY <1>1, <2>1, <2>2
<1>13. NobodyAwaitsBootstrap'
  <2> SUFFICES ASSUME st.owner = NONE, vw[A].known, vw[A].healthy
               PROVE  FALSE
    BY <1>1 DEF NobodyAwaitsBootstrap
  <2>1. grantee = NONE
    BY <1>5 DEF Broker, NONE, A, B
  <2>2. state.owner = NONE
    BY <1>5, <2>1
  <2>3. grantee = A
    BY <2>2 DEF Grantee, grantee
  <2> QED
    BY <2>1, <2>3 DEF NONE, A
<1>14. AgesTrackSilence'
  <2> SUFFICES ASSUME NEW c \in Broker, vw[c].known
               PROVE  vw[c].age <= quiet'[c] + MaxLockWait
    BY <1>1 DEF AgesTrackSilence
  <2>1. CASE c = b
    BY <1>1, <1>3, <2>1 DEF TypeOK, vw, Seen
  <2>2. CASE c # b
    BY <1>1, <1>3, <2>2 DEF TypeOK, vw, AgesTrackSilence
  <2> QED
    BY <2>1, <2>2
<1> QED
  BY <1>9, <1>10, <1>11, <1>12, <1>13, <1>14 DEF IInv

-----------------------------------------------------------------------------
(***************************************************************************)
(* Publication, status queries, restarts and time.                         *)
(***************************************************************************)

\* A result that is not committed changes at most the set of slots.
LEMMA RejectIInv ==
    ASSUME IInv, NEW r \in Result, NEW usable \in BOOLEAN, RejectResult(r, usable)
    PROVE  IInv'
<1> USE GateConstants
<1>1. /\ state' = state \/ state' = Allocate(state, r.pipeline)
      /\ file' = file /\ view' = view /\ uptime' = uptime
      /\ published' = published /\ told' = told /\ quiet' = quiet
  BY DEF RejectResult
<1>2. state \in GateState /\ r.pipeline \in Pipeline
  BY DEF IInv, TypeOK, Result
<1>3. /\ state' \in GateState
      /\ state'.epoch = state.epoch /\ state'.owner = state.owner
      /\ state.slots \subseteq state'.slots /\ state'.hw = state.hw
  BY <1>1, <1>2 DEF Allocate, GateState
<1>4. TypeOK'
  BY <1>1, <1>3 DEF IInv, TypeOK
<1>5. OwnersMatchEpochs' /\ AcceptedIsDurable' /\ NobodyAwaitsBootstrap' /\ AgesTrackSilence'
  BY <1>1, <1>3
  DEF IInv, OwnersMatchEpochs, AcceptedIsDurable, NobodyAwaitsBootstrap, AgesTrackSilence
<1>6. FileLagsMemory'
  BY <1>1, <1>3 DEF IInv, FileLagsMemory
<1> QED
  BY <1>4, <1>5, <1>6 DEF IInv

\* What DecidePublish requires of a result it commits.
LEMMA CommitConditions ==
    ASSUME IInv, NEW r \in Result,
           DecidePublish(Allocate(state, r.pipeline), r) = "COMMIT"
    PROVE  /\ state.owner # NONE
           /\ r.broker = state.owner
           /\ r.epoch = state.epoch
           /\ state.hw[r.pipeline] < r.window
<1>1. DecidePublish(state, r) = "COMMIT"
  BY DEF DecidePublish, Allocate
<1>2. /\ state.owner # NONE
      /\ r.broker = state.owner
      /\ r.epoch = state.epoch
      /\ ~(r.window <= state.hw[r.pipeline])
  BY <1>1 DEF DecidePublish
<1>3. r.window \in Int /\ state.hw[r.pipeline] \in Int
  BY GateConstants DEF IInv, TypeOK, GateState, Result, Window, NoCommit
<1> QED
  BY <1>2, <1>3

\* A commit preserves the invariant, whether or not it reaches the file.
LEMMA CommitIInv ==
    ASSUME IInv, NEW r \in Result, NEW persisted \in BOOLEAN, CommitResult(r, persisted)
    PROVE  IInv'
<1> DEFINE st == Committed(Allocate(state, r.pipeline), r)
<1> USE GateConstants
<1>1. /\ state' = st
      /\ \/ file' = file /\ published' = published
         \/ file' = st /\ published' = Append(published, r)
      /\ view' = view /\ uptime' = uptime /\ told' = told /\ quiet' = quiet
  BY DEF CommitResult
<1>2. /\ state.owner # NONE /\ r.broker = state.owner /\ r.epoch = state.epoch
      /\ state.hw[r.pipeline] < r.window
  BY CommitConditions DEF CommitResult
<1>3. TypeOK /\ OwnersMatchEpochs /\ FileLagsMemory /\ AcceptedIsDurable /\ AgesTrackSilence
  BY DEF IInv
<1>4. /\ state \in GateState /\ file \in GateState /\ published \in Seq(Result)
      /\ r.pipeline \in Pipeline /\ r.window \in Window /\ r.epoch \in Epoch
  BY <1>3 DEF TypeOK, Result
<1>5. /\ st.epoch = state.epoch /\ st.owner = state.owner
      /\ st.slots = state.slots \cup {r.pipeline}
      /\ st.hw = [state.hw EXCEPT ![r.pipeline] = r.window]
      /\ st = [epoch |-> st.epoch, owner |-> st.owner, slots |-> st.slots, hw |-> st.hw]
  BY DEF Committed, Allocate
<1> HIDE DEF st
<1>6. st \in GateState
  BY <1>4, <1>5 DEF GateState
<1>7. \A p \in Pipeline : /\ state.hw[p] \in Int /\ file.hw[p] \in Int /\ st.hw[p] \in Int
                          /\ state.hw[p] <= st.hw[p]
  BY <1>2, <1>4, <1>5, <1>6 DEF GateState, Window, NoCommit
<1>8. TypeOK'
  BY <1>1, <1>3, <1>4, <1>6 DEF TypeOK
<1>9. OwnersMatchEpochs'
  <2>1. CASE published' = published
    BY <1>1, <1>3, <1>5, <2>1 DEF OwnersMatchEpochs
  <2>2. CASE file' = st /\ published' = Append(published, r)
    <3>1. r.broker = OwnerOf(r.epoch)
      BY <1>2, <1>3 DEF OwnersMatchEpochs
    <3>2. \A i \in 1..Len(published') : published'[i].broker = OwnerOf(published'[i].epoch)
      BY <1>3, <1>4, <2>2, <3>1 DEF OwnersMatchEpochs
    <3> QED
      BY <1>1, <1>3, <1>5, <2>2, <3>2 DEF OwnersMatchEpochs
  <2> QED
    BY <1>1, <2>1, <2>2
<1>10. FileLagsMemory'
  <2>1. CASE file' = file
    BY <1>1, <1>3, <1>5, <1>7, <2>1 DEF FileLagsMemory
  <2>2. CASE file' = st
    BY <1>1, <1>6, <1>7, <2>2 DEF FileLagsMemory, GateState, Epoch
  <2> QED
    BY <1>1, <2>1, <2>2
<1>11. AcceptedIsDurable'
  <2>1. CASE file' = file /\ published' = published
    BY <1>3, <2>1 DEF AcceptedIsDurable
  <2>2. CASE file' = st /\ published' = Append(published, r)
    <3> SUFFICES ASSUME NEW i \in 1..Len(published')
                 PROVE  /\ published'[i].pipeline \in st.slots
                        /\ published'[i].window <= st.hw[published'[i].pipeline]
                        /\ published'[i].epoch <= st.epoch
      BY <2>2 DEF AcceptedIsDurable
    <3>1. CASE i = Len(published) + 1
      <4>1. published'[i] = r
        BY <1>4, <2>2, <3>1
      <4> QED
        BY <1>2, <1>4, <1>5, <4>1 DEF GateState, Window, Epoch
    <3>2. CASE i \in 1..Len(published)
      <4>1. published'[i] = published[i] /\ published[i] \in Result
        BY <1>4, <2>2, <3>2
      <4>2. /\ published[i].pipeline \in file.slots
            /\ published[i].window <= file.hw[published[i].pipeline]
            /\ published[i].epoch <= file.epoch
        BY <1>3, <3>2 DEF AcceptedIsDurable
      <4>3. /\ published[i].pipeline \in Pipeline
            /\ published[i].window \in Int /\ published[i].epoch \in Int
            /\ file.epoch \in Int /\ st.epoch \in Int
        <5>1. /\ published[i].pipeline \in Pipeline
              /\ published[i].window \in Window /\ published[i].epoch \in Epoch
          BY <4>1 DEF Result
        <5>2. file.epoch \in Epoch /\ st.epoch \in Epoch
          BY <1>4, <1>6 DEF GateState
        <5>3. Window \subseteq Int /\ Epoch \subseteq Int
          BY DEF Window, Epoch
        <5> QED
          BY <5>1, <5>2, <5>3
      <4>4. /\ file.slots \subseteq st.slots
            /\ file.hw[published[i].pipeline] <= state.hw[published[i].pipeline]
            /\ file.epoch <= st.epoch
        BY <1>3, <1>5, <4>3 DEF FileLagsMemory
      <4>5. published[i].window <= st.hw[published[i].pipeline]
        BY <1>7, <4>2, <4>3, <4>4
      <4> QED
        BY <4>1, <4>2, <4>3, <4>4, <4>5
    <3>3. i \in 1..Len(published) \/ i = Len(published) + 1
      BY <1>4, <2>2
    <3> QED
      BY <3>1, <3>2, <3>3
  <2> QED
    BY <1>1, <2>1, <2>2
<1>12. NobodyAwaitsBootstrap' /\ AgesTrackSilence'
  BY <1>1, <1>2, <1>3, <1>5 DEF NobodyAwaitsBootstrap, AgesTrackSilence
<1> QED
  BY <1>8, <1>9, <1>10, <1>11, <1>12 DEF IInv

\* Recovering from the file preserves the invariant: this is where the
\* owner's identity being a function of the epoch is needed.
LEMMA RestartIInv == IInv /\ Restart => IInv'
<1> SUFFICES ASSUME IInv, Restart PROVE IInv'
  OBVIOUS
<1> USE GateConstants DEF Restart
<1>1. AgeCap \in Nat
  BY DEF AgeCap
<1>2. UnknownView \in BrokerView
  BY <1>1 DEF UnknownView, BrokerView, Window
<1>3. TypeOK'
  BY <1>1, <1>2 DEF IInv, TypeOK
<1>4. OwnersMatchEpochs' /\ AcceptedIsDurable'
  BY DEF IInv, OwnersMatchEpochs, AcceptedIsDurable
<1>5. FileLagsMemory'
  BY DEF IInv, TypeOK, GateState, FileLagsMemory, Epoch, Window, NoCommit
<1>6. NobodyAwaitsBootstrap' /\ AgesTrackSilence'
  BY DEF NobodyAwaitsBootstrap, AgesTrackSilence, UnknownView, Broker, A
<1> QED
  BY <1>3, <1>4, <1>5, <1>6 DEF IInv

\* Ages and silences grow together.
LEMMA TickIInv == IInv /\ Tick => IInv'
<1> SUFFICES ASSUME IInv, Tick PROVE IInv'
  OBVIOUS
<1> USE GateConstants
<1>1. AgeCap \in Nat /\ \A n \in 0..AgeCap : Older(n) \in 0..AgeCap
  BY DEF AgeCap, Older
<1>2. /\ view \in [Broker -> BrokerView] /\ quiet \in [Broker -> 0..AgeCap]
      /\ uptime \in 0..AgeCap
  BY DEF IInv, TypeOK
<1>3. /\ state' = state /\ file' = file /\ published' = published /\ told' = told
      /\ uptime' = Older(uptime)
      /\ quiet' = [b \in Broker |-> IF view[b].known THEN Older(quiet[b]) ELSE 0]
      /\ view' = [b \in Broker |->
                    IF view[b].known THEN [view[b] EXCEPT !.age = Older(@)] ELSE view[b]]
  BY DEF Tick
<1>4. ASSUME NEW b \in Broker
      PROVE  /\ view'[b] \in BrokerView
             /\ view'[b].known = view[b].known /\ view'[b].healthy = view[b].healthy
             /\ view[b].known => view'[b].age = Older(view[b].age)
  BY <1>1, <1>2, <1>3 DEF BrokerView
<1>5. quiet' \in [Broker -> 0..AgeCap] /\ uptime' \in 0..AgeCap
  BY <1>1, <1>2, <1>3
<1>6. TypeOK'
  BY <1>3, <1>4, <1>5 DEF IInv, TypeOK
<1>7. OwnersMatchEpochs' /\ FileLagsMemory' /\ AcceptedIsDurable'
  BY <1>3 DEF IInv, OwnersMatchEpochs, FileLagsMemory, AcceptedIsDurable
<1>8. NobodyAwaitsBootstrap'
  BY <1>3, <1>4 DEF IInv, NobodyAwaitsBootstrap, Broker
<1>9. AgesTrackSilence'
  <2> SUFFICES ASSUME NEW b \in Broker, view'[b].known
               PROVE  view'[b].age <= quiet'[b] + MaxLockWait
    BY DEF AgesTrackSilence
  <2>1. /\ view[b].known /\ view'[b].age = Older(view[b].age)
        /\ quiet'[b] = Older(quiet[b])
    BY <1>3, <1>4
  <2>2. /\ view[b].age \in 0..AgeCap /\ quiet[b] \in 0..AgeCap
        /\ view[b].age <= quiet[b] + MaxLockWait
    BY <1>2, <2>1 DEF IInv, AgesTrackSilence, BrokerView
  <2> QED
    BY <1>1, <2>1, <2>2 DEF Older
<1> QED
  BY <1>6, <1>7, <1>8, <1>9 DEF IInv

\* Every step of the gate preserves the invariant.
LEMMA StepIInv == IInv /\ [Next]_vars => IInv'
<1> SUFFICES ASSUME IInv, [Next]_vars PROVE IInv'
  OBVIOUS
<1>1. CASE \E b \in Broker : Heartbeat(b)
  BY <1>1, HeartbeatIInv DEF Heartbeat
<1>2. CASE \E b \in Broker : Publish(b)
  BY <1>2, RejectIInv, CommitIInv DEF Publish, ResultFrom
<1>3. CASE HandleStatusQuery
  <2>1. /\ told' = told \cup {<<state.epoch, state.owner>>}
        /\ state' = state /\ file' = file /\ view' = view /\ uptime' = uptime
        /\ published' = published /\ quiet' = quiet
    BY <1>3 DEF HandleStatusQuery, StatusReply
  <2>2. TypeOK'
    BY <2>1 DEF IInv, TypeOK, GateState
  <2>3. OwnersMatchEpochs'
    BY <2>1 DEF IInv, OwnersMatchEpochs
  <2> QED
    BY <2>1, <2>2, <2>3
    DEF IInv, FileLagsMemory, AcceptedIsDurable, NobodyAwaitsBootstrap, AgesTrackSilence
<1>4. CASE Restart
  BY <1>4, RestartIInv
<1>5. CASE Tick
  BY <1>5, TickIInv
<1>6. CASE UNCHANGED vars
  BY <1>6 DEF vars, IInv, TypeOK, OwnersMatchEpochs, FileLagsMemory, AcceptedIsDurable,
              NobodyAwaitsBootstrap, AgesTrackSilence
<1> QED
  BY <1>1, <1>2, <1>3, <1>4, <1>5, <1>6 DEF Next

-----------------------------------------------------------------------------
(***************************************************************************)
(* The theorems.                                                           *)
(***************************************************************************)

\* The inductive invariant holds in every reachable state of the gate.
THEOREM GateInvariant == Spec => []IInv
<1>1. Init => IInv
  BY InitIInv
<1>2. IInv /\ [Next]_vars => IInv'
  BY StepIInv
<1> QED
  BY <1>1, <1>2, PTL DEF Spec

\* Type correctness.
THEOREM GateTypeCorrect == Spec => []TypeOK
<1>1. IInv => TypeOK
  BY DEF IInv
<1> QED
  BY <1>1, GateInvariant, PTL

\* No epoch number is ever announced for two owners, across failed persists
\* and restarts.
THEOREM GateOneOwnerPerEpoch == Spec => []OneOwnerPerEpoch
<1>1. IInv => OneOwnerPerEpoch
  BY DEF IInv, OwnersMatchEpochs, OneOwnerPerEpoch
<1> QED
  BY <1>1, GateInvariant, PTL

\* Whatever was acknowledged as accepted is fenced by the state file.
THEOREM GateAcceptedIsDurable == Spec => []AcceptedIsDurable
<1>1. IInv => AcceptedIsDurable
  BY DEF IInv
<1> QED
  BY <1>1, GateInvariant, PTL

\* In a state of the invariant every step of the gate is a step of the
\* abstract publication log, or leaves the log alone.
LEMMA StepRefines == IInv /\ [Next]_vars => [Log!Next]_published
<1> SUFFICES ASSUME IInv, [Next]_vars, published' # published
             PROVE  Log!Next
  OBVIOUS
<1> USE GateConstants
<1>1. PICK r \in Result, persisted \in BOOLEAN : CommitResult(r, persisted)
  <2>1. ~ (HandleStatusQuery \/ Restart \/ Tick \/ UNCHANGED vars)
    BY DEF HandleStatusQuery, Restart, Tick, vars
  <2>2. ~ \E b \in Broker : Heartbeat(b)
    <3>1. ASSUME NEW b, NEW healthy, NEW compatible, NEW w, NEW d,
                 HandleHeartbeat(b, healthy, compatible, w, d)
          PROVE  published' = published
      BY <3>1 DEF HandleHeartbeat
    <3> QED
      BY <3>1 DEF Heartbeat
  <2>3. ASSUME NEW r \in Result, NEW u \in BOOLEAN PROVE ~ RejectResult(r, u)
    BY DEF RejectResult
  <2>4. \E b \in Broker : Publish(b)
    BY <2>1, <2>2 DEF Next
  <2> QED
    BY <2>3, <2>4 DEF Publish, ResultFrom
<1>2. r \in Result /\ published' = Append(published, r)
  BY <1>1 DEF CommitResult
<1>3. /\ state.owner # NONE /\ r.broker = state.owner /\ r.epoch = state.epoch
      /\ state.hw[r.pipeline] < r.window
  BY <1>1, <1>2, CommitConditions DEF CommitResult
<1>4. ASSUME NEW i \in 1..Len(published)
      PROVE  Log!MayFollow(published[i], r)
  <2> DEFINE old == published[i]
  <2>1. old \in Result /\ state \in GateState /\ file \in GateState
    BY DEF IInv, TypeOK
  <2>2. /\ old.pipeline \in file.slots /\ old.window <= file.hw[old.pipeline]
        /\ old.epoch <= file.epoch
    BY DEF IInv, AcceptedIsDurable
  <2>3. old.broker = OwnerOf(old.epoch) /\ r.broker = OwnerOf(r.epoch)
    BY <1>3 DEF IInv, OwnersMatchEpochs
  <2>4. /\ old.pipeline \in Pipeline /\ old.window \in Int /\ r.window \in Int
        /\ file.hw[old.pipeline] \in Int /\ state.hw[old.pipeline] \in Int
        /\ old.epoch \in Int /\ file.epoch \in Int /\ state.epoch \in Int
    BY <1>2, <2>1 DEF Result, GateState, Window, Epoch, NoCommit
  <2>5. file.hw[old.pipeline] <= state.hw[old.pipeline] /\ file.epoch <= state.epoch
    BY <2>4 DEF IInv, FileLagsMemory
  <2>6. old.pipeline = r.pipeline => old.window < r.window
    BY <1>3, <2>2, <2>4, <2>5
  <2>7. old.epoch <= r.epoch
    BY <1>3, <2>2, <2>4, <2>5
  <2> QED
    BY <2>3, <2>6, <2>7 DEF Log!MayFollow
<1> QED
  BY <1>2, <1>4 DEF Log!Next, Log!Accept

\* The gate implements the abstract publication log: each window is accepted
\* at most once, in increasing order, epochs never go back, and each epoch
\* has one publisher, whatever persists fail and however often it restarts.
THEOREM GateImplementsPublication == Spec => PublicationSpec
<1>1. Init => Log!Init
  BY DEF Init, Log!Init
<1>2. IInv /\ [Next]_vars => [Log!Next]_published
  BY StepRefines
<1> QED
  BY <1>1, <1>2, GateInvariant, PTL DEF Spec, PublicationSpec, Log!Spec

\* Only a heartbeat raises the epoch in memory: a restart can only lower it.
LEMMA OnlyHeartbeatsGrant ==
    ASSUME IInv, [Next]_vars, state'.epoch > state.epoch
    PROVE  \E b \in Broker, healthy \in BOOLEAN, compatible \in BOOLEAN, w \in Window,
              d \in 0..MaxLockWait : HandleHeartbeat(b, healthy, compatible, w, d)
<1>1. state.epoch \in Int /\ file.epoch \in Int /\ file.epoch <= state.epoch
  BY GateConstants DEF IInv, TypeOK, GateState, Epoch, FileLagsMemory
<1>2. ASSUME NEW r \in Result, NEW u \in BOOLEAN, RejectResult(r, u) \/ CommitResult(r, u)
      PROVE  state'.epoch = state.epoch
  BY <1>2 DEF RejectResult, CommitResult, Committed, Allocate
<1>3. ~ Restart
  BY <1>1 DEF Restart
<1>4. ~ \E b \in Broker : Publish(b)
  BY <1>1, <1>2 DEF Publish, ResultFrom
<1> QED
  BY <1>1, <1>3, <1>4 DEF Next, vars, Heartbeat, HandleStatusQuery, Tick

\* Ownership only ever goes to the broker whose heartbeat is being handled.
THEOREM GateGrantsGoToTheSpeaker == Spec => GrantsGoToTheSpeaker
<1>1. ASSUME IInv, [Next]_vars, state'.epoch > state.epoch
      PROVE  view'[state'.owner].known /\ quiet'[state'.owner] = 0
  <2> USE GateConstants
  <2>1. PICK b \in Broker, healthy \in BOOLEAN, compatible \in BOOLEAN, w \in Window,
             d \in 0..MaxLockWait : HandleHeartbeat(b, healthy, compatible, w, d)
    BY <1>1, OnlyHeartbeatsGrant
  <2> DEFINE vw == [view EXCEPT ![b] = Seen(healthy, compatible, w, d)]
             grantee == Grantee(state, vw, d)
  <2>2. state.epoch \in Int
    BY <1>1 DEF IInv, TypeOK, GateState, Epoch
  <2>3. grantee # NONE /\ state'.owner = grantee
    BY <1>1, <2>1, <2>2 DEF HandleHeartbeat, Promote, IInv, TypeOK
  <2>4. grantee = b
    BY <1>1, <2>3, GranteeIsSpeaker
  <2>5. view' = vw /\ quiet' = [quiet EXCEPT ![b] = 0]
    BY <2>1 DEF HandleHeartbeat
  <2>6. view'[b].known /\ quiet'[b] = 0
    BY <1>1, <2>5 DEF IInv, TypeOK, Seen
  <2> QED
    BY <2>3, <2>4, <2>6
<1> QED
  BY <1>1, GateInvariant, PTL DEF Spec, GrantsGoToTheSpeaker

\* An owner that keeps being heard is not deposed.
THEOREM GateNoLiveOwnerDeposed == Spec => NoLiveOwnerDeposed
<1>1. ASSUME IInv, [Next]_vars, state'.epoch > state.epoch, state.owner # NONE
      PROVE  quiet[state.owner] > ConfirmTimeout - MaxLockWait
  <2> USE GateConstants
  <2>1. PICK b \in Broker, healthy \in BOOLEAN, compatible \in BOOLEAN, w \in Window,
             d \in 0..MaxLockWait : HandleHeartbeat(b, healthy, compatible, w, d)
    BY <1>1, OnlyHeartbeatsGrant
  <2> DEFINE vw == [view EXCEPT ![b] = Seen(healthy, compatible, w, d)]
             grantee == Grantee(state, vw, d)
  <2>2. state.epoch \in Int
    BY <1>1 DEF IInv, TypeOK, GateState, Epoch
  <2>3. grantee # NONE
    BY <1>1, <2>1, <2>2 DEF HandleHeartbeat, Promote
  <2>4. /\ state.owner \in Broker /\ view[state.owner].known
        /\ view[state.owner].age > ConfirmTimeout
    BY <1>1, <2>3, GranteeIsSpeaker
  <2>5. /\ view[state.owner].age \in Int /\ quiet[state.owner] \in Int
        /\ view[state.owner].age <= quiet[state.owner] + MaxLockWait
    BY <1>1, <2>4 DEF IInv, TypeOK, BrokerView, AgeCap, AgesTrackSilence
  <2> QED
    BY <2>4, <2>5
<1> QED
  BY <1>1, GateInvariant, PTL DEF Spec, NoLiveOwnerDeposed
=============================================================================
