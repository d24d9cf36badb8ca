--------------------------- MODULE FailoverProofs ---------------------------
(***************************************************************************)
(* Failover end to end, for every timeout, replay gap, restart budget and  *)
(* number of journal connections, and every number and order of faults:    *)
(* the verdict of `obicall demo' is about what happened.                   *)
(***************************************************************************)
EXTENDS Failover, TLAPS

-----------------------------------------------------------------------------
(***************************************************************************)
(* The inductive invariant.                                                *)
(***************************************************************************)

\* Epoch 0 is the one without an owner.
OwnersHaveEpochs == state.owner # G!NONE => state.epoch > 0

\* What the demo has noted by the time it is at a step of its script.
ScriptInOrder ==
    /\ demo.pc # "over" => ~demo.rejected /\ ~demo.accepted
    /\ demo.promoted => demo.pc \in {"probe", "over"}
    /\ demo.bootstrapped => demo.pc \notin {"off", "boot"} /\ demo.initial > 0
    /\ ~(demo.rejected /\ demo.accepted)

\* Broker A, once killed, is down for good: held down while the monitor runs,
\* and released only after the monitor was last called.
KilledStaysDown ==
    demo.bootstrapped =>
        /\ demo.pc = "await" => \/ broker[A].proc = "stopped"
                                \/ broker[A].proc = "exited" /\ broker[A].held
        /\ demo.pc \in {"probe", "over"} => broker[A].proc \in {"stopped", "exited"}

\* Broker B, once promoted in place of the killed A, owns for good.
PromotedStaysOwner ==
    (demo.bootstrapped /\ demo.promoted) =>
        state.owner = B /\ state.epoch > demo.initial

\* A probe of such a demo that the gate answered in time was answered right.
ProbeIsStale ==
    (demo.bootstrapped /\ demo.promoted /\ demo.pc = "over" /\ ~demo.late /\ run.gate)
        => demo.rejected

FailoverInv ==
    /\ TypeOK
    /\ OwnersHaveEpochs
    /\ ScriptInOrder
    /\ KilledStaysDown
    /\ PromotedStaysOwner
    /\ ProbeIsStale

\* The demo fails only for cause (cmd_demo): when A came up first, B took over
\* and the gate answered the probe in time, the answer was the rejection the
\* demo waits for, and it says pass.
FailsOnlyForCause ==
    (demo.pc = "over" /\ demo.bootstrapped /\ demo.promoted /\ ~demo.late /\ run.gate)
        => Overall
-----------------------------------------------------------------------------
(***************************************************************************)
(* Facts about the state and the gate's decisions.                         *)
(***************************************************************************)

\* The types of broker, run and demo in TypeOK.
BrokerProcess ==
    [proc : {"starting", "up", "busy", "exited", "stopped"}, held : BOOLEAN,
     tries : 0..MaxRestarts, reader : BOOLEAN, upto : {Live} \cup G!Window,
     last : G!Window, belief : G!Epoch]

RunState == [number : Nat, journal : BOOLEAN, gate : BOOLEAN, head : G!Window,
             slots : 0..BrokerSlots]

DemoState == [pc : {"off", "boot", "kill", "await", "probe", "over"}, late : BOOLEAN,
              bootstrapped : BOOLEAN, initial : G!Epoch, promoted : BOOLEAN,
              rejected : BOOLEAN, accepted : BOOLEAN]

LEMMA TypeParts ==
    TypeOK <=> /\ state \in G!GateState
               /\ view \in [G!Broker -> G!BrokerView]
               /\ broker \in [G!Broker -> BrokerProcess]
               /\ run \in RunState
               /\ demo \in DemoState
               /\ faults \in Nat
BY DEF TypeOK, BrokerProcess, RunState, DemoState

\* The constants are natural numbers and the two brokers differ.
LEMMA ConstantFacts ==
    /\ ConfirmTimeout \in Nat
    /\ BrokerSlots \in Nat /\ BrokerSlots - 2 \in 0..BrokerSlots
    /\ MaxRestarts \in Nat /\ MaxWindow \in Nat /\ MaxEpoch \in Nat
    /\ G!AgeCap \in Nat /\ G!AgeCap > ConfirmTimeout
    /\ 0 \in G!Window /\ 0 \in G!Epoch
    /\ A = 1 /\ B = 2 /\ G!Broker = {A, B} /\ G!NONE = 0
BY FailoverConstants DEF G!AgeCap, G!Window, G!Epoch, A, B, G!A, G!B, G!Broker, G!NONE

\* The values the supervisor starts a run with have their types.
LEMMA FreshFacts ==
    /\ FreshBroker \in BrokerProcess
    /\ G!UnknownView \in G!BrokerView
    /\ G!FreshState \in G!GateState
    /\ \A n \in Nat : FreshRun(n) \in RunState
<1>1. FreshBroker \in BrokerProcess
  BY ConstantFacts DEF FreshBroker, BrokerProcess
<1>2. G!UnknownView \in G!BrokerView
  BY ConstantFacts DEF G!UnknownView, G!BrokerView
<1>3. G!FreshState \in G!GateState
  BY ConstantFacts DEF G!FreshState, G!GateState, G!NONE, G!NoCommit
<1>4. \A n \in Nat : FreshRun(n) \in RunState
  BY ConstantFacts DEF FreshRun, RunState
<1> QED
  BY <1>1, <1>2, <1>3, <1>4

\* Whatever the gate decides on a result, its epoch and owner stay: only
\* heartbeats move them.
LEMMA DecidedFacts ==
    ASSUME TypeOK, NEW w \in G!Window, NEW e, NEW b
    PROVE  LET r == [pipeline |-> Pipe, window |-> w, epoch |-> e, broker |-> b]
           IN  /\ Decided(r) \in G!GateState
               /\ Decided(r).epoch = state.epoch
               /\ Decided(r).owner = state.owner
<1> DEFINE r == [pipeline |-> Pipe, window |-> w, epoch |-> e, broker |-> b]
           st == G!Allocate(state, Pipe)
<1>1. state \in G!GateState
  BY TypeParts
<1>2. st \in G!GateState /\ st.epoch = state.epoch /\ st.owner = state.owner
  BY <1>1 DEF G!Allocate, G!GateState
<1>3. G!Committed(st, r) \in G!GateState
  BY <1>2 DEF G!Committed, G!GateState
<1>4. G!Committed(st, r).epoch = st.epoch /\ G!Committed(st, r).owner = st.owner
  BY DEF G!Committed
<1> HIDE DEF r, st
<1>5. Decided(r) \in {st, G!Committed(st, r)}
  BY DEF Decided, st
<1>6. /\ Decided(r) \in G!GateState
      /\ Decided(r).epoch = state.epoch
      /\ Decided(r).owner = state.owner
  BY <1>2, <1>3, <1>4, <1>5
<1> QED
  BY <1>6 DEF r

\* What the gate does with a heartbeat of b: at most it makes the other
\* broker than the owner the next owner, and then either nobody owned it or
\* the owner is not b and its age exceeds the confirm timeout.
LEMMA BeatenFacts ==
    ASSUME TypeOK, OwnersHaveEpochs, NEW b \in G!Broker,
           Beaten(b, G!Seen(broker[b].reader, TRUE, broker[b].last, 0))
    PROVE  /\ state' \in G!GateState
           /\ view' \in [G!Broker -> G!BrokerView]
           /\ view'[b].known /\ view'[b].age = 0
           /\ \A c \in G!Broker : c # b => view'[c] = view[c]
           /\ OwnersHaveEpochs'
           /\ \/ state' = state
              \/ state.owner = G!NONE
              \/ state.owner # b /\ view[state.owner].age > ConfirmTimeout
<1> DEFINE v == G!Seen(broker[b].reader, TRUE, broker[b].last, 0)
           vw == [view EXCEPT ![b] = v]
           g == G!Grantee(state, vw, 0)
<1>1. /\ state \in G!GateState
      /\ view \in [G!Broker -> G!BrokerView]
      /\ broker[b] \in BrokerProcess
  BY TypeParts
<1>2. v \in G!BrokerView /\ v.known /\ v.age = 0
  BY <1>1, ConstantFacts DEF G!Seen, G!BrokerView, BrokerProcess
<1>3. /\ vw \in [G!Broker -> G!BrokerView] /\ vw[b] = v
      /\ \A c \in G!Broker : c # b => vw[c] = view[c]
  BY <1>1, <1>2
<1>4. /\ view' = vw
      /\ state' = IF g = G!NONE THEN state ELSE G!Promote(state, g)
      /\ state'.epoch <= MaxEpoch
  BY DEF Beaten
<1>5. g \in {G!NONE} \cup G!Broker
  BY ConstantFacts DEF G!Grantee, G!Other, G!Broker
<1>6. g # G!NONE => \/ state.owner = G!NONE
                    \/ vw[state.owner].age - 0 > ConfirmTimeout
  BY DEF G!Grantee
<1>7. state.owner \in {G!NONE} \cup G!Broker /\ state.epoch \in 0..MaxEpoch
  BY <1>1 DEF G!GateState, G!Epoch
<1> HIDE DEF g, vw, v
<1>8. state' \in G!GateState /\ OwnersHaveEpochs'
  <2>1. CASE g = G!NONE
    BY <1>1, <1>4, <2>1 DEF OwnersHaveEpochs
  <2>2. CASE g # G!NONE
    <3>1. state' = G!Promote(state, g) /\ state'.epoch = state.epoch + 1
      BY <1>4, <2>2 DEF G!Promote
    <3>2. state.epoch + 1 \in 0..MaxEpoch /\ state.epoch + 1 > 0
      BY <1>4, <1>7, <3>1, ConstantFacts
    <3>3. state' \in G!GateState
      BY <1>1, <1>5, <3>1, <3>2 DEF G!Promote, G!GateState, G!Epoch
    <3> QED
      BY <3>1, <3>2, <3>3 DEF OwnersHaveEpochs
  <2> QED
    BY <2>1, <2>2
<1>9. g # G!NONE /\ state.owner # G!NONE
        => state.owner # b /\ view[state.owner].age > ConfirmTimeout
  <2> SUFFICES ASSUME g # G!NONE, state.owner # G!NONE
               PROVE  state.owner # b /\ view[state.owner].age > ConfirmTimeout
    OBVIOUS
  <2>1. state.owner \in G!Broker
    BY <1>7
  <2>2. vw[state.owner].age \in Nat /\ vw[state.owner].age > ConfirmTimeout
    BY <1>3, <1>6, <2>1, ConstantFacts DEF G!BrokerView
  <2>3. state.owner # b
    BY <1>2, <1>3, <2>2, ConstantFacts
  <2> QED
    BY <1>3, <2>1, <2>2, <2>3
<1> QED
  BY <1>2, <1>3, <1>4, <1>8, <1>9
-----------------------------------------------------------------------------
(***************************************************************************)
(* Every step keeps the invariant.                                         *)
(***************************************************************************)

\* A step that leaves the demo and the gate's owner alone.
LEMMA QuietStep ==
    ASSUME FailoverInv, demo.pc # "over", demo' = demo,
           state'.epoch = state.epoch, state'.owner = state.owner,
           TypeOK', KilledStaysDown'
    PROVE  FailoverInv'
<1>1. OwnersHaveEpochs' /\ ScriptInOrder'
  BY DEF FailoverInv, OwnersHaveEpochs, ScriptInOrder
<1>2. PromotedStaysOwner' /\ ProbeIsStale'
  BY DEF FailoverInv, PromotedStaysOwner, ProbeIsStale
<1> QED
  BY <1>1, <1>2 DEF FailoverInv

\* A step that also leaves the gate's knowledge alone: no broker enters its
\* loop, and A, once down, is not brought back.
LEMMA BrokersStep ==
    ASSUME FailoverInv, demo.pc # "over", demo' = demo, view' = view,
           state' \in G!GateState, state'.epoch = state.epoch, state'.owner = state.owner,
           broker' \in [G!Broker -> BrokerProcess], run' \in RunState, faults' \in Nat,
           \A b \in G!Broker : broker'[b].proc = "up" => broker[b].proc = "up",
           \/ broker'[A].proc = broker[A].proc /\ broker'[A].held = broker[A].held
           \/ Runs(A)
           \/ /\ Monitoring /\ broker[A].proc = "exited"
              /\ broker[A].held => broker'[A].proc = "stopped"
    PROVE  FailoverInv'
<1>1. TypeOK /\ ScriptInOrder /\ KilledStaysDown
  BY DEF FailoverInv
<1>2. TypeOK'
  BY <1>1, TypeParts, TypeParts' DEF TypeOK, BrokerProcess, RunState
<1>4. KilledStaysDown'
  BY <1>1 DEF KilledStaysDown, Runs, Monitoring
<1> QED
  BY <1>2, <1>4, QuietStep

\* The last window delivered is a window.
LEMMA DeliveredFacts ==
    ASSUME TypeOK, NEW b \in G!Broker
    PROVE  Delivered(b) \in G!Window
BY TypeParts DEF Delivered, BrokerProcess, RunState

LEMMA PublishNextInv ==
    ASSUME FailoverInv, demo.pc # "over", NEW b \in G!Broker, PublishNext(b)
    PROVE  FailoverInv'
<1>1. TypeOK
  BY DEF FailoverInv
<1>2. PICK w \in (broker[b].last + 1)..Delivered(b) :
         LET r == [pipeline |-> Pipe, window |-> w, epoch |-> broker[b].belief, broker |-> b]
         IN  /\ broker' = [broker EXCEPT ![b].last = w]
             /\ state' \in (IF run.gate THEN {state, Decided(r)} ELSE {state})
  BY DEF PublishNext
<1>3. /\ broker \in [G!Broker -> BrokerProcess] /\ state \in G!GateState
      /\ run \in RunState /\ faults \in Nat /\ broker[b] \in BrokerProcess
  BY <1>1, TypeParts
<1>4. w \in G!Window
  BY <1>1, <1>3, DeliveredFacts, ConstantFacts DEF G!Window, BrokerProcess
<1>5. state' \in G!GateState /\ state'.epoch = state.epoch /\ state'.owner = state.owner
  BY <1>1, <1>2, <1>3, <1>4, DecidedFacts
<1>6. [broker[b] EXCEPT !.last = w] \in BrokerProcess
  BY <1>3, <1>4 DEF BrokerProcess
<1>7. /\ broker' \in [G!Broker -> BrokerProcess]
      /\ \A c \in G!Broker : broker'[c].proc = broker[c].proc /\ broker'[c].held = broker[c].held
  BY <1>2, <1>3, <1>6
<1>8. UNCHANGED <<view, run, demo, faults>>
  BY DEF PublishNext
<1> QED
  BY <1>3, <1>5, <1>7, <1>8, BrokersStep, ConstantFacts

LEMMA ReaderEndsInv ==
    ASSUME FailoverInv, demo.pc # "over", NEW b \in G!Broker, ReaderEnds(b)
    PROVE  FailoverInv'
<1>1. /\ broker \in [G!Broker -> BrokerProcess] /\ state \in G!GateState
      /\ run \in RunState /\ faults \in Nat /\ broker[b] \in BrokerProcess
  BY TypeParts DEF FailoverInv
<1>2. PICK w \in {Live} \cup G!Window :
         broker' = [broker EXCEPT ![b].reader = FALSE, ![b].upto = w]
  <2>1. CASE broker' = [broker EXCEPT ![b].reader = FALSE]
    <3>1. broker[b].upto \in {Live} \cup G!Window
      BY <1>1 DEF BrokerProcess
    <3>2. [broker[b] EXCEPT !.reader = FALSE]
            = [broker[b] EXCEPT !.reader = FALSE, !.upto = broker[b].upto]
      BY <1>1 DEF BrokerProcess
    <3>3. broker' = [broker EXCEPT ![b].reader = FALSE, ![b].upto = broker[b].upto]
      BY <1>1, <2>1, <3>2
    <3> QED
      BY <3>1, <3>3
  <2>2. ASSUME NEW w \in broker[b].last..run.head,
               broker' = [broker EXCEPT ![b].reader = FALSE, ![b].upto = w]
        PROVE  \E x \in {Live} \cup G!Window :
                  broker' = [broker EXCEPT ![b].reader = FALSE, ![b].upto = x]
    BY <1>1, <2>2, ConstantFacts DEF BrokerProcess, RunState, G!Window
  <2> QED
    BY <2>1, <2>2 DEF ReaderEnds
<1>3. [broker[b] EXCEPT !.reader = FALSE, !.upto = w] \in BrokerProcess
  BY <1>1 DEF BrokerProcess
<1>4. /\ broker' \in [G!Broker -> BrokerProcess]
      /\ \A c \in G!Broker : broker'[c].proc = broker[c].proc /\ broker'[c].held = broker[c].held
  BY <1>1, <1>2, <1>3
<1>5. UNCHANGED <<state, view, run, demo>> /\ faults' \in Nat
  BY <1>1 DEF ReaderEnds, Fault, gate
<1> QED
  BY <1>1, <1>4, <1>5, BrokersStep, ConstantFacts

\* A broker's process becomes busy or exits.
LEMMA BrokerFaultInv ==
    ASSUME FailoverInv, demo.pc # "over", NEW b \in G!Broker, BrokerFault(b)
    PROVE  FailoverInv'
<1>1. /\ broker \in [G!Broker -> BrokerProcess] /\ state \in G!GateState
      /\ run \in RunState /\ faults \in Nat /\ broker[b] \in BrokerProcess
  BY TypeParts DEF FailoverInv
<1>2. PICK p \in {"busy", "exited"} : broker' = [broker EXCEPT ![b].proc = p]
  BY DEF BrokerFault, LongBatch, Crash
<1>3. Runs(b)
  BY DEF BrokerFault, LongBatch, Crash, Runs
<1>4. [broker[b] EXCEPT !.proc = p] \in BrokerProcess
  BY <1>1 DEF BrokerProcess
<1>5. /\ broker' \in [G!Broker -> BrokerProcess]
      /\ \A c \in G!Broker : c # b => broker'[c] = broker[c]
      /\ broker'[b].proc = p
  BY <1>1, <1>2, <1>4 DEF BrokerProcess
<1>6. UNCHANGED <<state, view, run, demo>> /\ faults' \in Nat
  BY <1>1 DEF BrokerFault, LongBatch, Crash, Fault, gate
<1>7. \A c \in G!Broker : broker'[c].proc = "up" => broker[c].proc = "up"
  BY <1>5
<1>8. Runs(A) \/ (broker'[A].proc = broker[A].proc /\ broker'[A].held = broker[A].held)
  BY <1>3, <1>5, ConstantFacts
<1> QED
  BY <1>1, <1>5, <1>6, <1>7, <1>8, BrokersStep

\* What supervisor_monitor_tick respawns has its type.
LEMMA RespawnedFacts ==
    ASSUME NEW n \in 0..MaxRestarts
    PROVE  Respawned(n) \in BrokerProcess /\ Respawned(n).proc # "up"
BY ConstantFacts DEF Respawned, FreshBroker, BrokerProcess

LEMMA SuperviseInv ==
    ASSUME FailoverInv, demo.pc # "over", NEW b \in G!Broker, Supervise(b)
    PROVE  FailoverInv'
<1>1. /\ broker \in [G!Broker -> BrokerProcess] /\ state \in G!GateState
      /\ run \in RunState /\ faults \in Nat /\ broker[b] \in BrokerProcess
  BY TypeParts DEF FailoverInv
<1>2. UNCHANGED <<state, view, demo, faults>> /\ Monitoring /\ broker[b].proc = "exited"
  BY DEF Supervise, gate
<1>3. PICK x \in BrokerProcess :
         /\ broker' = [broker EXCEPT ![b] = x] /\ x.proc # "up"
         /\ broker[b].held => x.proc = "stopped"
         /\ \/ run' = run
            \/ run.slots > 0 /\ run' = [run EXCEPT !.slots = @ - 1]
  <2>1. CASE broker[b].held
    <3>1. [broker[b] EXCEPT !.proc = "stopped"] \in BrokerProcess
      BY <1>1 DEF BrokerProcess
    <3> QED
      BY <1>1, <2>1, <3>1 DEF Supervise, BrokerProcess
  <2>2. CASE ~broker[b].held
    <3>1. PICK used \in {0, broker[b].tries} :
              IF used >= MaxRestarts
              THEN /\ broker' = [broker EXCEPT ![b].proc = "stopped", ![b].tries = used]
                   /\ UNCHANGED run
              ELSE /\ broker' = [broker EXCEPT ![b] = Respawned(used + 1)]
                   /\ run' = IF run.journal /\ run.slots > 0
                             THEN [run EXCEPT !.slots = @ - 1] ELSE run
      BY <2>2 DEF Supervise
    <3>2. used \in 0..MaxRestarts
      BY <1>1, ConstantFacts DEF BrokerProcess
    <3>3. CASE used >= MaxRestarts
      <4>1. [broker[b] EXCEPT !.proc = "stopped", !.tries = used] \in BrokerProcess
        BY <1>1, <3>2 DEF BrokerProcess
      <4>2. broker' = [broker EXCEPT ![b] = [broker[b] EXCEPT !.proc = "stopped", !.tries = used]]
        BY <1>1, <3>1, <3>3
      <4>3. [broker[b] EXCEPT !.proc = "stopped", !.tries = used].proc = "stopped"
        BY <1>1 DEF BrokerProcess
      <4> QED
        BY <2>2, <3>1, <3>3, <4>1, <4>2, <4>3
    <3>4. CASE ~(used >= MaxRestarts)
      <4>1. used + 1 \in 0..MaxRestarts
        BY <3>2, <3>4, ConstantFacts
      <4> QED
        BY <2>2, <3>1, <3>4, <4>1, RespawnedFacts
    <3> QED
      BY <3>3, <3>4
  <2> QED
    BY <2>1, <2>2
<1>4. run' \in RunState
  BY <1>1, <1>3, ConstantFacts DEF RunState
<1>5. /\ broker' \in [G!Broker -> BrokerProcess] /\ broker'[b] = x
      /\ \A c \in G!Broker : c # b => broker'[c] = broker[c]
  BY <1>1, <1>3
<1>6. \A c \in G!Broker : broker'[c].proc = "up" => broker[c].proc = "up"
  BY <1>3, <1>5
<1>7. \/ broker'[A].proc = broker[A].proc /\ broker'[A].held = broker[A].held
      \/ /\ Monitoring /\ broker[A].proc = "exited"
         /\ broker[A].held => broker'[A].proc = "stopped"
  BY <1>2, <1>3, <1>5, ConstantFacts
<1> QED
  BY <1>1, <1>2, <1>4, <1>5, <1>6, <1>7, BrokersStep

\* A heartbeat.  Broker A sends none once it is killed, and the gate deposes no
\* one on the owner's own, so B's epoch is not taken away.
LEMMA HeartbeatInv ==
    ASSUME FailoverInv, demo.pc # "over", NEW b \in G!Broker, Heartbeat(b)
    PROVE  FailoverInv'
<1>1. /\ TypeOK /\ OwnersHaveEpochs /\ ScriptInOrder /\ KilledStaysDown
      /\ PromotedStaysOwner
  BY DEF FailoverInv
<1>2. /\ broker \in [G!Broker -> BrokerProcess] /\ state \in G!GateState
      /\ broker[b] \in BrokerProcess
  BY <1>1, TypeParts
<1>3. /\ Runs(b) /\ UNCHANGED <<run, demo, faults>>
      /\ broker' = [broker EXCEPT ![b].proc = "up", ![b].belief = state'.epoch]
      /\ Beaten(b, G!Seen(broker[b].reader, TRUE, broker[b].last, 0))
  BY DEF Heartbeat
<1>4. /\ state' \in G!GateState
      /\ view' \in [G!Broker -> G!BrokerView]
      /\ view'[b].known /\ view'[b].age = 0
      /\ \A c \in G!Broker : c # b => view'[c] = view[c]
      /\ OwnersHaveEpochs'
      /\ \/ state' = state
         \/ state.owner = G!NONE
         \/ state.owner # b /\ view[state.owner].age > ConfirmTimeout
  BY <1>1, <1>3, BeatenFacts
<1>5. [broker[b] EXCEPT !.proc = "up", !.belief = state'.epoch] \in BrokerProcess
  BY <1>2, <1>4 DEF BrokerProcess, G!GateState
<1>6. /\ broker' \in [G!Broker -> BrokerProcess]
      /\ \A c \in G!Broker : c # b => broker'[c] = broker[c]
  BY <1>2, <1>3, <1>5
<1>7. TypeOK'
  <2>1. run \in RunState /\ demo \in DemoState /\ faults \in Nat
    BY <1>1, TypeParts
  <2> QED
    BY <1>3, <1>4, <1>6, <2>1 DEF TypeOK, BrokerProcess, RunState, DemoState
<1>9. demo.bootstrapped /\ demo.pc \in {"await", "probe"} => b # A
  BY <1>1, <1>3 DEF KilledStaysDown, Runs
<1>10. KilledStaysDown'
  <2>1. demo.bootstrapped /\ demo.pc \in {"await", "probe"} => broker'[A] = broker[A]
    BY <1>6, <1>9, ConstantFacts
  <2> QED
    BY <1>1, <1>3, <2>1 DEF KilledStaysDown
<1>11. PromotedStaysOwner'
  <2> SUFFICES ASSUME demo.bootstrapped, demo.promoted
               PROVE  state'.owner = B /\ state'.epoch > demo.initial
    BY <1>3 DEF PromotedStaysOwner
  <2>1. b = B /\ state.owner = B
    BY <1>1, <1>9, ConstantFacts DEF ScriptInOrder, PromotedStaysOwner
  <2>2. state' = state
    BY <1>4, <2>1, ConstantFacts
  <2> QED
    BY <1>1, <2>2 DEF PromotedStaysOwner
<1>12. ScriptInOrder' /\ ProbeIsStale'
  BY <1>1, <1>3 DEF ScriptInOrder, ProbeIsStale
<1> QED
  BY <1>4, <1>7, <1>10, <1>11, <1>12 DEF FailoverInv

\* Time passes: the gate's views age, and nothing else changes.
LEMMA TickInv ==
    ASSUME FailoverInv, demo.pc # "over", Tick
    PROVE  FailoverInv'
<1>1. /\ view \in [G!Broker -> G!BrokerView]
      /\ TypeOK /\ KilledStaysDown
  BY TypeParts DEF FailoverInv
<1>2. /\ view' = Aged /\ UNCHANGED <<state, broker, run, demo, faults>>
  BY DEF Tick
<1>3. \A b \in G!Broker :
         /\ view'[b] \in G!BrokerView
         /\ view'[b].known = view[b].known
         /\ view'[b].age \in {view[b].age, view[b].age + 1}
  <2> TAKE b \in G!Broker
  <2>1. view[b] \in G!BrokerView /\ view[b].age \in 0..G!AgeCap
    BY <1>1 DEF G!BrokerView
  <2>2. /\ G!Older(view[b].age) \in 0..G!AgeCap
        /\ G!Older(view[b].age) \in {view[b].age, view[b].age + 1}
    BY <2>1, ConstantFacts DEF G!Older
  <2>3. view'[b] = IF view[b].known THEN [view[b] EXCEPT !.age = G!Older(view[b].age)]
                   ELSE view[b]
    BY <1>2 DEF Aged
  <2>4. [view[b] EXCEPT !.age = G!Older(view[b].age)] \in G!BrokerView
    BY <2>1, <2>2 DEF G!BrokerView
  <2>5. /\ [view[b] EXCEPT !.age = G!Older(view[b].age)].known = view[b].known
        /\ [view[b] EXCEPT !.age = G!Older(view[b].age)].age = G!Older(view[b].age)
    BY <2>1 DEF G!BrokerView
  <2> QED
    BY <2>1, <2>2, <2>3, <2>4, <2>5
<1>4. view' \in [G!Broker -> G!BrokerView]
  BY <1>2, <1>3 DEF Aged
<1>5. TypeOK'
  BY <1>1, <1>2, <1>4 DEF TypeOK
<1>7. KilledStaysDown'
  BY <1>1, <1>2 DEF KilledStaysDown
<1> QED
  BY <1>2, <1>5, <1>7, QuietStep

\* The journal and the gate's process.
LEMMA ServersInv ==
    ASSUME FailoverInv, demo.pc # "over", Admit \/ JournalDies \/ GateDies
    PROVE  FailoverInv'
<1>1. /\ TypeOK /\ broker \in [G!Broker -> BrokerProcess] /\ state \in G!GateState
      /\ run \in RunState /\ faults \in Nat
  BY TypeParts DEF FailoverInv
<1>2. UNCHANGED <<state, view, demo>> /\ faults' \in Nat
  BY <1>1 DEF Admit, JournalDies, GateDies, Fault, gate
<1>3. run' \in RunState
  <2>1. CASE Admit
    <3>1. run.head + 1 \in G!Window
      BY <1>1, <2>1, ConstantFacts DEF Admit, RunState, G!Window
    <3> QED
      BY <1>1, <2>1, <3>1 DEF Admit, RunState
  <2>2. CASE JournalDies \/ GateDies
    BY <1>1, <2>2 DEF JournalDies, GateDies, RunState
  <2> QED
    BY <2>1, <2>2
<1>4. \A b \in G!Broker : [broker[b] EXCEPT !.upto = Delivered(b)] \in BrokerProcess
  BY <1>1, DeliveredFacts DEF BrokerProcess
<1>5. /\ broker' \in [G!Broker -> BrokerProcess]
      /\ \A b \in G!Broker : broker'[b].proc = broker[b].proc /\ broker'[b].held = broker[b].held
  <2>1. CASE JournalDies
    <3>1. broker' = [b \in G!Broker |-> [broker[b] EXCEPT !.upto = Delivered(b)]]
      BY <2>1 DEF JournalDies
    <3>2. \A b \in G!Broker : broker[b] \in BrokerProcess
      BY <1>1
    <3> QED
      BY <1>4, <3>1, <3>2 DEF BrokerProcess
  <2>2. CASE Admit \/ GateDies
    BY <1>1, <2>2 DEF Admit, GateDies
  <2> QED
    BY <2>1, <2>2
<1> QED
  BY <1>1, <1>2, <1>3, <1>5, BrokersStep, ConstantFacts

LEMMA NewRunInv ==
    ASSUME FailoverInv, NewRun
    PROVE  FailoverInv'
<1>1. /\ broker' = [b \in G!Broker |-> FreshBroker]
      /\ run' = FreshRun(run.number + 1)
      /\ view' = [b \in G!Broker |-> G!UnknownView]
      /\ UNCHANGED <<state, demo, faults>>
      /\ demo.pc = "off"
  BY DEF NewRun
<1>2. TypeOK'
  <2>1. /\ state \in G!GateState /\ run \in RunState
        /\ demo \in DemoState /\ faults \in Nat
    BY TypeParts DEF FailoverInv
  <2>2. run.number + 1 \in Nat
    BY <2>1 DEF RunState
  <2>3. run' \in RunState /\ broker' \in [G!Broker -> BrokerProcess]
    BY <1>1, <2>2, FreshFacts
  <2>4. view' \in [G!Broker -> G!BrokerView]
    BY <1>1, FreshFacts
  <2> QED
    BY <1>1, <2>1, <2>3, <2>4 DEF TypeOK, BrokerProcess, RunState, DemoState
<1>4. KilledStaysDown'
  BY <1>1 DEF FailoverInv, ScriptInOrder, KilledStaysDown
<1> QED
  BY <1>1, <1>2, <1>4, QuietStep
-----------------------------------------------------------------------------
(***************************************************************************)
(* The script of the demo.                                                 *)
(***************************************************************************)

LEMMA DemoBootInv ==
    ASSUME FailoverInv, DemoBoot
    PROVE  FailoverInv'
<1>1. /\ TypeOK /\ OwnersHaveEpochs /\ ScriptInOrder
  BY DEF FailoverInv
<1>2. /\ demo.pc = "boot" /\ state.owner = A
      /\ demo' = [demo EXCEPT !.pc = "kill", !.bootstrapped = TRUE, !.initial = state.epoch]
      /\ UNCHANGED <<state, view, broker, run, faults>>
  BY DEF DemoBoot, gate
<1>3. demo \in DemoState /\ state \in G!GateState
  BY <1>1, TypeParts
<1>4. demo' \in DemoState /\ demo'.pc = "kill" /\ demo'.initial = state.epoch
  BY <1>2, <1>3 DEF DemoState, G!GateState
<1>5. demo'.promoted = demo.promoted /\ demo'.rejected = demo.rejected /\ demo'.accepted = demo.accepted
  BY <1>2, <1>3 DEF DemoState
<1>6. TypeOK'
  BY <1>1, <1>2, <1>4 DEF TypeOK, DemoState
<1>7. state.epoch > 0
  BY <1>1, <1>2, ConstantFacts DEF OwnersHaveEpochs
<1>8. OwnersHaveEpochs'
  BY <1>1, <1>2 DEF OwnersHaveEpochs
<1>9. ScriptInOrder'
  BY <1>1, <1>2, <1>4, <1>5, <1>7 DEF ScriptInOrder
<1>10. KilledStaysDown' /\ PromotedStaysOwner' /\ ProbeIsStale'
  BY <1>1, <1>2, <1>4, <1>5 DEF ScriptInOrder, KilledStaysDown, PromotedStaysOwner, ProbeIsStale
<1> QED
  BY <1>6, <1>8, <1>9, <1>10 DEF FailoverInv

LEMMA DemoKillInv ==
    ASSUME FailoverInv, DemoKill
    PROVE  FailoverInv'
<1>1. TypeOK /\ OwnersHaveEpochs /\ ScriptInOrder
  BY DEF FailoverInv
<1>2. /\ demo.pc = "kill"
      /\ demo' = [demo EXCEPT !.pc = "await"]
      /\ broker' = IF broker[A].proc = "stopped" THEN broker
                   ELSE [broker EXCEPT ![A].proc = "exited", ![A].held = TRUE]
      /\ UNCHANGED <<state, view, run, faults>>
  BY DEF DemoKill, gate
<1>3. demo \in DemoState /\ broker \in [G!Broker -> BrokerProcess] /\ A \in G!Broker
  BY <1>1, TypeParts, ConstantFacts
<1>4. /\ demo' \in DemoState /\ demo'.pc = "await"
      /\ demo'.bootstrapped = demo.bootstrapped /\ demo'.initial = demo.initial
      /\ demo'.promoted = demo.promoted
      /\ demo'.rejected = demo.rejected /\ demo'.accepted = demo.accepted
  BY <1>2, <1>3 DEF DemoState
<1>5. /\ broker' \in [G!Broker -> BrokerProcess]
      /\ \A b \in G!Broker : broker'[b].proc = "up" => broker[b].proc = "up"
      /\ \/ broker'[A].proc = "stopped"
         \/ broker'[A].proc = "exited" /\ broker'[A].held
  <2>1. broker[A] \in BrokerProcess
    BY <1>3
  <2>2. [broker[A] EXCEPT !.proc = "exited", !.held = TRUE] \in BrokerProcess
    BY <2>1 DEF BrokerProcess
  <2>3. /\ [broker[A] EXCEPT !.proc = "exited", !.held = TRUE].proc = "exited"
        /\ [broker[A] EXCEPT !.proc = "exited", !.held = TRUE].held
    BY <2>1 DEF BrokerProcess
  <2> QED
    BY <1>2, <1>3, <2>2, <2>3
<1>6. TypeOK'
  BY <1>1, <1>2, <1>4, <1>5 DEF TypeOK, DemoState, BrokerProcess
<1>7. OwnersHaveEpochs'
  BY <1>1, <1>2, <1>5 DEF OwnersHaveEpochs
<1>8. ScriptInOrder' /\ PromotedStaysOwner' /\ ProbeIsStale'
  BY <1>1, <1>2, <1>4 DEF ScriptInOrder, PromotedStaysOwner, ProbeIsStale
<1>9. KilledStaysDown'
  BY <1>4, <1>5 DEF KilledStaysDown
<1> QED
  BY <1>6, <1>7, <1>8, <1>9 DEF FailoverInv

\* Releasing A starts no process.
LEMMA ReleasedFacts ==
    ASSUME TypeOK
    PROVE  /\ Released \in [G!Broker -> BrokerProcess]
           /\ \A b \in G!Broker : Released[b].proc = broker[b].proc
<1>1. broker \in [G!Broker -> BrokerProcess] /\ A \in G!Broker /\ broker[A] \in BrokerProcess
  BY TypeParts, ConstantFacts
<1> 0 \in 0..MaxRestarts
  BY ConstantFacts
<1>2. [broker[A] EXCEPT !.held = FALSE, !.tries = 0] \in BrokerProcess
  BY <1>1 DEF BrokerProcess
<1>3. [broker[A] EXCEPT !.held = FALSE, !.tries = 0].proc = broker[A].proc
  BY <1>1 DEF BrokerProcess
<1> QED
  BY <1>1, <1>2, <1>3 DEF Released

\* The end of the second loop, with or without a takeover.
LEMMA DemoAwaitInv ==
    ASSUME FailoverInv, demo.pc = "await", broker' = Released,
           UNCHANGED <<state, view, run, faults>>,
           \/ /\ demo' = [demo EXCEPT !.pc = "probe", !.promoted = TRUE]
              /\ state.owner = B /\ state.epoch > demo.initial
           \/ demo' = [demo EXCEPT !.pc = "probe", !.late = TRUE]
    PROVE  FailoverInv'
<1>1. TypeOK /\ OwnersHaveEpochs /\ ScriptInOrder /\ KilledStaysDown
  BY DEF FailoverInv
<1>2. demo \in DemoState
  BY <1>1, TypeParts
<1>3. /\ demo' \in DemoState /\ demo'.pc = "probe"
      /\ demo'.bootstrapped = demo.bootstrapped /\ demo'.initial = demo.initial
      /\ demo'.rejected = demo.rejected /\ demo'.accepted = demo.accepted
      /\ \/ demo'.promoted = demo.promoted
         \/ state.owner = B /\ state.epoch > demo.initial
  BY <1>2 DEF DemoState
<1>4. TypeOK'
  BY <1>1, <1>3, ReleasedFacts DEF TypeOK, DemoState, BrokerProcess
<1>5. OwnersHaveEpochs'
  BY <1>1, ReleasedFacts DEF OwnersHaveEpochs
<1>6. ScriptInOrder' /\ PromotedStaysOwner' /\ ProbeIsStale'
  BY <1>1, <1>3 DEF ScriptInOrder, PromotedStaysOwner, ProbeIsStale
<1>7. KilledStaysDown'
  BY <1>1, <1>3, ReleasedFacts, ConstantFacts DEF KilledStaysDown
<1> QED
  BY <1>4, <1>5, <1>6, <1>7 DEF FailoverInv

\* The delayed result of epoch 1 is stale for a gate that B owns at an epoch
\* later than that of A.
LEMMA ProbeFacts ==
    ASSUME FailoverInv
    PROVE  /\ Decided(Probe) \in G!GateState
           /\ Decided(Probe).epoch = state.epoch /\ Decided(Probe).owner = state.owner
           /\ demo.bootstrapped /\ demo.promoted => Decision(Probe) = "STALE_EPOCH"
<1>1. TypeOK /\ ScriptInOrder /\ PromotedStaysOwner
  BY DEF FailoverInv
<1>2. MaxWindow \in G!Window
  BY ConstantFacts DEF G!Window
<1>3. /\ Decided(Probe) \in G!GateState
      /\ Decided(Probe).epoch = state.epoch /\ Decided(Probe).owner = state.owner
  BY <1>1, <1>2, DecidedFacts DEF Probe
<1>4. ASSUME demo.bootstrapped, demo.promoted
      PROVE  Decision(Probe) = "STALE_EPOCH"
  <2>1. state.owner = B /\ state.epoch > demo.initial /\ demo.initial > 0
    BY <1>1, <1>4 DEF PromotedStaysOwner, ScriptInOrder
  <2>2. state.epoch \in Nat /\ demo.initial \in Nat
    BY <1>1, TypeParts, ConstantFacts DEF G!GateState, DemoState, G!Epoch
  <2>3. 1 < state.epoch
    BY <2>1, <2>2
  <2>4. Probe.broker = 1 /\ Probe.epoch = 1
    BY ConstantFacts DEF Probe
  <2>5. G!Allocate(state, Pipe).owner = 2 /\ G!Allocate(state, Pipe).epoch = state.epoch
    BY <2>1, ConstantFacts DEF G!Allocate
  <2> QED
    BY <2>3, <2>4, <2>5, ConstantFacts DEF Decision, G!DecidePublish
<1> QED
  BY <1>3, <1>4

\* The end of the probe: it was answered, or it was not in time.
LEMMA DemoProbeInv ==
    ASSUME FailoverInv, demo.pc = "probe", state' \in {state, Decided(Probe)},
           UNCHANGED <<view, broker, run, faults>>,
           \/ demo' = [demo EXCEPT !.pc = "over", !.late = TRUE]
           \/ ~run.gate /\ demo' = [demo EXCEPT !.pc = "over"]
           \/ demo' = [demo EXCEPT !.pc = "over",
                                   !.rejected = (Decision(Probe) = "STALE_EPOCH"),
                                   !.accepted = (Decision(Probe) = "COMMIT")]
    PROVE  FailoverInv'
<1>1. /\ TypeOK /\ OwnersHaveEpochs /\ ScriptInOrder /\ KilledStaysDown
      /\ PromotedStaysOwner
  BY DEF FailoverInv
<1>2. demo \in DemoState /\ state \in G!GateState
  BY <1>1, TypeParts
<1>3. state' \in G!GateState /\ state'.epoch = state.epoch /\ state'.owner = state.owner
  BY <1>2, ProbeFacts
<1>4. /\ demo' \in DemoState /\ demo'.pc = "over"
      /\ demo'.bootstrapped = demo.bootstrapped /\ demo'.initial = demo.initial
      /\ demo'.promoted = demo.promoted
  BY <1>2 DEF DemoState
<1>5. \/ ~demo'.rejected /\ ~demo'.accepted /\ (demo'.late \/ ~run.gate)
      \/ /\ demo'.rejected = (Decision(Probe) = "STALE_EPOCH")
         /\ demo'.accepted = (Decision(Probe) = "COMMIT")
  BY <1>1, <1>2 DEF DemoState, ScriptInOrder
<1>6. TypeOK'
  BY <1>1, <1>3, <1>4 DEF TypeOK, DemoState
<1>7. OwnersHaveEpochs' /\ KilledStaysDown' /\ PromotedStaysOwner'
  BY <1>1, <1>3, <1>4 DEF OwnersHaveEpochs, KilledStaysDown, PromotedStaysOwner
<1>8. ScriptInOrder' /\ ProbeIsStale'
  BY <1>1, <1>4, <1>5, ProbeFacts DEF ScriptInOrder, ProbeIsStale
<1> QED
  BY <1>6, <1>7, <1>8 DEF FailoverInv

LEMMA DemoDeadlineInv ==
    ASSUME FailoverInv, DemoDeadline
    PROVE  FailoverInv'
<1>1. CASE demo.pc = "boot"
  <2>1. TypeOK /\ OwnersHaveEpochs /\ ScriptInOrder
    BY DEF FailoverInv
  <2>2. PICK e \in 0..state.epoch :
           demo' = [demo EXCEPT !.pc = "await", !.initial = e, !.late = TRUE]
    BY <1>1 DEF DemoDeadline
  <2>3. UNCHANGED <<state, view, broker, run, faults>>
    BY <1>1 DEF DemoDeadline
  <2>4. demo \in DemoState /\ e \in G!Epoch
    BY <2>1, TypeParts, ConstantFacts DEF G!GateState, G!Epoch
  <2>5. /\ demo' \in DemoState /\ demo'.pc = "await"
        /\ demo'.bootstrapped = demo.bootstrapped
        /\ demo'.promoted = demo.promoted
        /\ demo'.rejected = demo.rejected /\ demo'.accepted = demo.accepted
    BY <2>2, <2>4 DEF DemoState
  <2>6. TypeOK'
    BY <2>1, <2>3, <2>5 DEF TypeOK, DemoState
  <2>7. OwnersHaveEpochs'
    BY <2>1, <2>3 DEF OwnersHaveEpochs
  <2>8. ScriptInOrder' /\ KilledStaysDown' /\ PromotedStaysOwner' /\ ProbeIsStale'
    BY <1>1, <2>1, <2>5 DEF ScriptInOrder, KilledStaysDown, PromotedStaysOwner, ProbeIsStale
  <2> QED
    BY <2>6, <2>7, <2>8 DEF FailoverInv
<1>2. CASE demo.pc = "await"
  BY <1>2, DemoAwaitInv DEF DemoDeadline
<1>3. CASE demo.pc = "probe"
  BY <1>3, DemoProbeInv DEF DemoDeadline
<1> QED
  BY <1>1, <1>2, <1>3 DEF DemoDeadline

LEMMA DemoInv ==
    ASSUME FailoverInv, Demo
    PROVE  FailoverInv'
<1>1. CASE DemoAwait
  BY <1>1, DemoAwaitInv DEF DemoAwait, gate
<1>2. CASE DemoProbe
  BY <1>2, DemoProbeInv DEF DemoProbe
<1> QED
  BY <1>1, <1>2, DemoBootInv, DemoKillInv DEF Demo
-----------------------------------------------------------------------------
(***************************************************************************)
(* The theorems.                                                           *)
(***************************************************************************)

LEMMA InitFailover == Init => FailoverInv
<1> SUFFICES ASSUME Init PROVE FailoverInv
  OBVIOUS
<1>1. demo \in DemoState /\ demo.pc \in {"off", "boot"} /\ ~demo.bootstrapped
        /\ ~demo.promoted /\ ~demo.rejected /\ ~demo.accepted
  BY ConstantFacts DEF Init, DemoState
<1>2. TypeOK
  BY <1>1, FreshFacts DEF Init, TypeOK, DemoState, BrokerProcess, RunState
<1>4. OwnersHaveEpochs
  BY DEF Init, OwnersHaveEpochs, G!FreshState
<1>5. ScriptInOrder /\ KilledStaysDown /\ PromotedStaysOwner /\ ProbeIsStale
  BY <1>1 DEF ScriptInOrder, KilledStaysDown, PromotedStaysOwner, ProbeIsStale
<1> QED
  BY <1>2, <1>4, <1>5 DEF FailoverInv

LEMMA NextFailover == FailoverInv /\ [Next]_vars => FailoverInv'
<1> SUFFICES ASSUME FailoverInv, [Next]_vars PROVE FailoverInv'
  OBVIOUS
<1>1. CASE Next
  <2>1. demo.pc # "over"
    BY <1>1 DEF Next
  <2>2. ASSUME NEW b \in G!Broker, BrokerStep(b) \/ BrokerFault(b)
        PROVE  FailoverInv'
    BY <2>1, <2>2, PublishNextInv, HeartbeatInv, ReaderEndsInv, SuperviseInv, BrokerFaultInv
       DEF BrokerStep
  <2>3. CASE ServerFault \/ Admit
    BY <2>1, <2>3, ServersInv, NewRunInv DEF ServerFault
  <2>4. CASE Tick
    BY <2>1, <2>4, TickInv
  <2>5. CASE Demo \/ DemoDeadline
    BY <2>5, DemoInv, DemoDeadlineInv
  <2> QED
    BY <1>1, <2>2, <2>3, <2>4, <2>5 DEF Next
<1>2. CASE UNCHANGED vars
  BY <1>2 DEF vars, gate, FailoverInv, TypeOK, OwnersHaveEpochs, ScriptInOrder,
              KilledStaysDown, PromotedStaysOwner, ProbeIsStale
<1> QED
  BY <1>1, <1>2

\* The whole system is type correct and keeps the invariant, whatever faults
\* occur and in whatever order the processes run.
THEOREM FailoverCorrect == Spec => []FailoverInv
<1>1. Init => FailoverInv
  BY InitFailover
<1>2. FailoverInv /\ [Next]_vars => FailoverInv'
  BY NextFailover
<1> QED
  BY <1>1, <1>2, PTL DEF Spec

\* When `obicall demo' says pass, broker A is down, B owns a later epoch and
\* the delayed result was not published.
THEOREM DemoVerdict == Spec => []DemoVerdictIsTrue
<1>1. FailoverInv => DemoVerdictIsTrue
  BY DEF FailoverInv, DemoVerdictIsTrue, KilledStaysDown, PromotedStaysOwner, ScriptInOrder,
         Overall, Runs
<1> QED
  BY <1>1, FailoverCorrect, PTL

\* And it says fail only when a step of the scenario was missed: A never
\* owned, B did not take over, the gate was gone or a deadline passed.
THEOREM DemoFailsForCause == Spec => []FailsOnlyForCause
<1>1. FailoverInv => FailsOnlyForCause
  BY DEF FailoverInv, FailsOnlyForCause, ProbeIsStale, Overall
<1> QED
  BY <1>1, FailoverCorrect, PTL
=============================================================================
