------------------------------- MODULE Gate -------------------------------
(***************************************************************************)
(* The publication gate, obicall-gated: src/gate/gate_main.c (process,     *)
(* threads, state file) around src/core/gate.c (pure decisions).           *)
(*                                                                         *)
(* One connection thread per client runs the handlers; each handler reads  *)
(* the clock, takes g_ctx.mu, changes the state (and the state file) and   *)
(* releases it, so a handler is one action.  The delay between reading the *)
(* clock and holding the mutex is the parameter d, at most MaxLockWait     *)
(* ticks.  Instants are kept relative to the present: the code's           *)
(* now - last_heartbeat_ns is age[owner] - d here.                         *)
(***************************************************************************)
EXTENDS Integers, Sequences, FiniteSets

CONSTANTS
    Pipeline,         \* pipeline identifiers
    MaxPipelines,     \* OBICALL_MAX_PIPELINES, the slots of the gate state
    ReplayGap,        \* --max-replay-gap
    ConfirmTimeout,   \* --confirm-timeout-ms, in ticks
    MaxLockWait,      \* bound: ticks a handler may wait for the mutex
    MaxWindow,        \* bound: largest window_seq offered
    MaxEpoch          \* bound: largest epoch granted

ASSUME GateConstants ==
    /\ MaxPipelines \in Nat
    /\ ReplayGap \in Nat
    /\ ConfirmTimeout \in Nat
    /\ MaxLockWait \in Nat
    /\ MaxWindow \in Nat
    /\ MaxEpoch \in Nat

\* obicall_broker_id_t.
NONE == 0
A == 1
B == 2
Broker == {A, B}
Other(b) == IF b = A THEN B ELSE A

Window == 0..MaxWindow
Epoch  == 0..MaxEpoch

\* Ages saturate: beyond AgeCap no comparison of the code changes.
AgeCap == ConfirmTimeout + MaxLockWait + 1
Older(n) == IF n < AgeCap THEN n + 1 ELSE n

VARIABLES
    state,      \* g_ctx.state: epoch, owner, allocated pipeline slots, high-water marks
    file,       \* the state file: what the next main() recovers
    view,       \* g_ctx.brokers: liveness and readiness last reported by each broker
    uptime,     \* ticks since main(), saturating
    published,  \* history: the results acknowledged as accepted, oldest first
    told,       \* history: the <<epoch, owner>> pairs ever sent in a STATUS_REPLY
    quiet       \* history: ticks since this process last handled a broker's heartbeat

vars == <<state, file, view, uptime, published, told, quiet>>

\* has_committed = 0 is the high-water mark NoCommit.
NoCommit == -1

GateState == [epoch : Epoch, owner : {NONE} \cup Broker,
              slots : SUBSET Pipeline, hw : [Pipeline -> {NoCommit} \cup Window]]

BrokerView == [known : BOOLEAN, healthy : BOOLEAN, compatible : BOOLEAN,
               window : Window, age : 0..AgeCap]

Result == [pipeline : Pipeline, window : Window, epoch : Epoch, broker : Broker]

\* The state of a gate that finds no state file.
FreshState == [epoch |-> 0, owner |-> NONE, slots |-> {},
               hw |-> [p \in Pipeline |-> NoCommit]]

UnknownView == [known |-> FALSE, healthy |-> FALSE, compatible |-> FALSE,
                window |-> 0, age |-> 0]

TypeOK ==
    /\ state \in GateState
    /\ file \in GateState
    /\ view \in [Broker -> BrokerView]
    /\ uptime \in 0..AgeCap
    /\ published \in Seq(Result)
    /\ told \in SUBSET (Epoch \X ({NONE} \cup Broker))
    /\ quiet \in [Broker -> 0..AgeCap]

Init ==
    /\ state = FreshState
    /\ file = FreshState
    /\ view = [b \in Broker |-> UnknownView]
    /\ uptime = 0
    /\ published = << >>
    /\ told = {}
    /\ quiet = [b \in Broker |-> 0]
-----------------------------------------------------------------------------
(***************************************************************************)
(* Promotion.                                                              *)
(***************************************************************************)

\* obicall_gate_shadow_promotable: config digest and checkpoint schema are
\* the one flag compatible.
ShadowPromotable(v, st) ==
    /\ v.healthy
    /\ v.compatible
    /\ \A p \in st.slots : v.window + ReplayGap >= st.hw[p]

\* Mutant of Promote: the epoch is not advanced with the owner.
Promote_SameEpoch(st, b) ==
    [epoch |-> st.epoch, owner |-> b, slots |-> st.slots, hw |-> st.hw]

\* obicall_gate_promote: revoke and grant in the next epoch.
Promote(st, b) ==
    [epoch |-> st.epoch + 1, owner |-> b, slots |-> st.slots, hw |-> st.hw]

\* Mutant of Grantee: whichever healthy broker speaks first bootstraps.
Grantee_AnyBootstrap(st, vw, d) ==
    LET other == Other(st.owner) IN
    IF st.owner = NONE
    THEN IF vw[A].known /\ vw[A].healthy THEN A
         ELSE IF vw[B].known /\ vw[B].healthy THEN B ELSE NONE
    ELSE IF /\ vw[st.owner].known
            /\ vw[st.owner].age - d > ConfirmTimeout
            /\ vw[other].known
            /\ ShadowPromotable(vw[other], st)
         THEN other
         ELSE NONE

\* Mutant of Grantee: the owner's silence is not measured.
Grantee_NoConfirm(st, vw, d) ==
    LET other == Other(st.owner) IN
    IF st.owner = NONE
    THEN IF vw[A].known /\ vw[A].healthy THEN A ELSE NONE
    ELSE IF /\ vw[st.owner].known
            /\ vw[other].known
            /\ ShadowPromotable(vw[other], st)
         THEN other
         ELSE NONE

\* evaluate_promotion_locked: the broker it grants ownership to, or NONE.
Grantee(st, vw, d) ==
    LET other == Other(st.owner) IN
    IF st.owner = NONE
    THEN IF vw[A].known /\ vw[A].healthy THEN A ELSE NONE
    ELSE IF /\ vw[st.owner].known
            /\ vw[st.owner].age - d > ConfirmTimeout
            /\ vw[other].known
            /\ ShadowPromotable(vw[other], st)
         THEN other
         ELSE NONE

\* persist_locked: the file becomes st by an atomic rename, or (any step
\* failing) is left as it was.
PersistOutcome(st) == {file, st}

\* The STATUS_REPLY sent by a handler that leaves state st.
StatusReply(st) == told' = told \cup {<<st.epoch, st.owner>>}

\* The view recorded for a heartbeat read d ticks before the mutex was taken.
Seen(healthy, compatible, w, d) ==
    [known |-> TRUE, healthy |-> healthy, compatible |-> compatible,
     window |-> w, age |-> d]

\* Mutant of HandleHeartbeat: promotion is evaluated before the heartbeat is
\* recorded.
HandleHeartbeat_EvaluateFirst(b, healthy, compatible, w, d) ==
    LET grantee == Grantee(state, view, d)
        st == IF grantee = NONE THEN state ELSE Promote(state, grantee)
    IN  /\ d <= uptime
        /\ st.epoch <= MaxEpoch
        /\ view' = [view EXCEPT ![b] = Seen(healthy, compatible, w, d)]
        /\ state' = st
        /\ file' \in (IF grantee = NONE THEN {file} ELSE PersistOutcome(st))
        /\ StatusReply(st)
        /\ quiet' = [quiet EXCEPT ![b] = 0]
        /\ UNCHANGED <<uptime, published>>

\* handle_heartbeat.  The result of persisting a promotion is ignored: the
\* reply carries the new epoch whether or not the file does.
HandleHeartbeat(b, healthy, compatible, w, d) ==
    LET vw == [view EXCEPT ![b] = Seen(healthy, compatible, w, d)]
        grantee == Grantee(state, vw, d)
        st == IF grantee = NONE THEN state ELSE Promote(state, grantee)
    IN  /\ d <= uptime
        /\ st.epoch <= MaxEpoch
        /\ view' = vw
        /\ state' = st
        /\ file' \in (IF grantee = NONE THEN {file} ELSE PersistOutcome(st))
        /\ StatusReply(st)
        /\ quiet' = [quiet EXCEPT ![b] = 0]
        /\ UNCHANGED <<uptime, published>>
-----------------------------------------------------------------------------
(***************************************************************************)
(* Publication.                                                            *)
(***************************************************************************)

\* obicall_gate_decide_publish up to the choice of a slot: an incompatible
\* or expired result touches nothing; otherwise the pipeline gets a slot,
\* whether or not the result is accepted, unless the table is full.
HasSlot(st, p) == p \in st.slots \/ Cardinality(st.slots) < MaxPipelines
Allocate(st, p) ==
    [epoch |-> st.epoch, owner |-> st.owner, slots |-> st.slots \cup {p}, hw |-> st.hw]

\* Mutant of DecidePublish: the high-water mark itself is not a duplicate.
DecidePublish_OffByOne(st, r) ==
    IF st.owner = NONE THEN "NOT_OWNER"
    ELSE IF r.broker # st.owner
         THEN IF r.epoch < st.epoch THEN "STALE_EPOCH" ELSE "SHADOW_RECORDED"
    ELSE IF r.epoch # st.epoch THEN "STALE_EPOCH"
    ELSE IF r.window < st.hw[r.pipeline] THEN "DUPLICATE_WINDOW"
    ELSE "COMMIT"

\* The rest of obicall_gate_decide_publish, on a state with a slot.
DecidePublish(st, r) ==
    IF st.owner = NONE THEN "NOT_OWNER"
    ELSE IF r.broker # st.owner
         THEN IF r.epoch < st.epoch THEN "STALE_EPOCH" ELSE "SHADOW_RECORDED"
    ELSE IF r.epoch # st.epoch THEN "STALE_EPOCH"
    ELSE IF r.window <= st.hw[r.pipeline] THEN "DUPLICATE_WINDOW"
    ELSE "COMMIT"

\* The commit at the end of obicall_gate_decide_publish.
Committed(st, r) ==
    [epoch |-> st.epoch, owner |-> st.owner, slots |-> st.slots,
     hw |-> [st.hw EXCEPT ![r.pipeline] = r.window]]

\* handle_result_publish for a result that is not committed.  A result that
\* is incompatible, expired, or finds no slot leaves the state alone.
RejectResult(r, usable) ==
    LET slotted == usable /\ HasSlot(state, r.pipeline)
        st == Allocate(state, r.pipeline)
    IN  /\ slotted => DecidePublish(st, r) # "COMMIT"
        /\ state' = IF slotted THEN st ELSE state
        /\ UNCHANGED <<file, view, uptime, published, told, quiet>>

\* Mutant of CommitResult: acknowledged as accepted whatever persisting did.
CommitResult_AckAnyway(r, persisted) ==
    LET st == Committed(Allocate(state, r.pipeline), r)
    IN  /\ HasSlot(state, r.pipeline)
        /\ DecidePublish(Allocate(state, r.pipeline), r) = "COMMIT"
        /\ state' = st
        /\ file' = IF persisted THEN st ELSE file
        /\ published' = Append(published, r)
        /\ UNCHANGED <<view, uptime, told, quiet>>

\* handle_result_publish for a commit: memory moves on at once, and the ack
\* says accepted only if the new state reached the file.
CommitResult(r, persisted) ==
    LET st == Committed(Allocate(state, r.pipeline), r)
    IN  /\ HasSlot(state, r.pipeline)
        /\ DecidePublish(Allocate(state, r.pipeline), r) = "COMMIT"
        /\ state' = st
        /\ file' = IF persisted THEN st ELSE file
        /\ published' = IF persisted THEN Append(published, r) ELSE published
        /\ UNCHANGED <<view, uptime, told, quiet>>

\* handle_status_query.
HandleStatusQuery ==
    /\ StatusReply(state)
    /\ UNCHANGED <<state, file, view, uptime, published, quiet>>
-----------------------------------------------------------------------------
(***************************************************************************)
(* Process life and time.                                                  *)
(***************************************************************************)

\* The gate process dies at any point between two handlers and main() runs
\* again: the state comes from the file, no broker is known.
Restart ==
    /\ state' = file
    /\ view' = [b \in Broker |-> UnknownView]
    /\ uptime' = 0
    /\ quiet' = [b \in Broker |-> 0]
    /\ UNCHANGED <<file, published, told>>

Tick ==
    /\ uptime' = Older(uptime)
    /\ view' = [b \in Broker |->
                  IF view[b].known THEN [view[b] EXCEPT !.age = Older(@)] ELSE view[b]]
    /\ quiet' = [b \in Broker |-> IF view[b].known THEN Older(quiet[b]) ELSE 0]
    /\ UNCHANGED <<state, file, published, told>>

Heartbeat(b) ==
    \E healthy, compatible \in BOOLEAN, w \in Window, d \in 0..MaxLockWait :
        HandleHeartbeat(b, healthy, compatible, w, d)

\* A result may claim any epoch: brokers send the epoch of the last
\* STATUS_REPLY they read, `obicall demo` sends epoch 1 whatever the gate said.
ResultFrom(b) == {r \in Result : r.broker = b}

Publish(b) ==
    \E r \in ResultFrom(b) :
        \/ \E usable \in BOOLEAN : RejectResult(r, usable)
        \/ \E persisted \in BOOLEAN : CommitResult(r, persisted)

Next ==
    \/ \E b \in Broker : Heartbeat(b) \/ Publish(b)
    \/ HandleStatusQuery
    \/ Restart
    \/ Tick

Spec == Init /\ [][Next]_vars
-----------------------------------------------------------------------------
(***************************************************************************)
(* Properties.                                                             *)
(***************************************************************************)

\* No epoch is ever announced for two different owners, although
\* a promotion whose persist failed is announced, forgotten by a crash and
\* its epoch number granted again.
OneOwnerPerEpoch ==
    \A t1, t2 \in told : t1[1] = t2[1] => t1[2] = t2[2]

\* An accepted result stays fenced: whatever the gate recovers after a crash
\* at this point would reject its window as a duplicate and would be at its
\* epoch or a later one.
AcceptedIsDurable ==
    \A i \in 1..Len(published) :
        LET r == published[i] IN
            /\ r.pipeline \in file.slots
            /\ r.window <= file.hw[r.pipeline]
            /\ r.epoch <= file.epoch

\* Ownership is only granted to a broker whose own heartbeat is being
\* handled, so never on the strength of an old readiness report, although
\* evaluate_promotion_locked does not look at how old that report is.
GrantsGoToTheSpeaker ==
    [][state'.epoch > state.epoch
         => view'[state'.owner].known /\ quiet'[state'.owner] = 0]_vars

\* An owner is deposed only if the gate handled no heartbeat of it within
\* the confirm timeout, less what a handler may lose waiting for the mutex.
NoLiveOwnerDeposed ==
    [][(state'.epoch > state.epoch /\ state.owner # NONE)
         => quiet[state.owner] > ConfirmTimeout - MaxLockWait]_vars

\* The gate implements the abstract publication log.
Log == INSTANCE Publication WITH Result <- Result, published <- published
PublicationSpec == Log!Spec
-----------------------------------------------------------------------------
(***************************************************************************)
(* The inductive invariant behind those properties.                        *)
(***************************************************************************)

\* Broker A bootstraps at epoch 1 and ownership alternates from then on, so
\* the epoch number alone determines the owner.
OwnerOf(e) == IF e = 0 THEN NONE ELSE IF e % 2 = 1 THEN A ELSE B

OwnersMatchEpochs ==
    /\ state.owner = OwnerOf(state.epoch)
    /\ file.owner = OwnerOf(file.epoch)
    /\ \A t \in told : t[2] = OwnerOf(t[1])
    /\ \A i \in 1..Len(published) : published[i].broker = OwnerOf(published[i].epoch)

\* The file may lag behind memory, never the reverse.
FileLagsMemory ==
    /\ file.epoch <= state.epoch
    /\ file.slots \subseteq state.slots
    /\ \A p \in Pipeline : file.hw[p] <= state.hw[p]

\* A healthy broker A was made owner by the heartbeat that said so.
NobodyAwaitsBootstrap ==
    state.owner = NONE => ~(view[A].known /\ view[A].healthy)

\* A recorded heartbeat is at most MaxLockWait older than its handling.
AgesTrackSilence ==
    \A b \in Broker : view[b].known => view[b].age <= quiet[b] + MaxLockWait

IInv ==
    /\ TypeOK
    /\ OwnersMatchEpochs
    /\ FileLagsMemory
    /\ AcceptedIsDurable
    /\ NobodyAwaitsBootstrap
    /\ AgesTrackSilence
=============================================================================
