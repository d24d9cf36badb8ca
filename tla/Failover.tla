------------------------------ MODULE Failover ------------------------------
(***************************************************************************)
(* Failover end to end: the gate (Gate.tla), the two brokers that beat and *)
(* publish to it, the journal that streams to them, the supervisor's loop  *)
(* that restarts them, and the script of `obicall demo`.                   *)
(*                                                                         *)
(* The parts appear as the others see them.  A broker is its process, what *)
(* it was streamed and has processed, and the epoch it was last told; its  *)
(* threads, queue and late replies are in Broker.tla.  The journal is its  *)
(* last window and its free connections (Journal.tla), the supervisor its  *)
(* restart budget (Supervisor.tla).  A journal or gate that is restarted   *)
(* listens on another port than the one in the brokers' argv, so for the   *)
(* brokers of this run it is gone.                                         *)
(***************************************************************************)
EXTENDS Integers, Sequences, FiniteSets

CONSTANTS
    Pipe,             \* the pipeline
    ReplayGap,        \* --max-replay-gap
    ConfirmTimeout,   \* --confirm-timeout-ms, in ticks
    BeatPeriod,       \* the brokers' heartbeat period, in ticks
    MaxRestarts,      \* restarts per minute (5 in the code)
    BrokerSlots,      \* journal connections left to brokers by the workers
    MaxWindow,        \* bound: windows; the last one is only used by the demo
    MaxEpoch,         \* bound: largest epoch granted
    MaxFaults,        \* bound: faults of all kinds under `obicall run`
    MaxRuns,          \* bound: times `obicall run` is started
    MaxDemoFaults     \* bound: faults of all kinds under `obicall demo`

ASSUME FailoverConstants ==
    /\ BeatPeriod \in Nat \ {0}
    /\ ConfirmTimeout \in Nat
    /\ BrokerSlots \in Nat /\ BrokerSlots >= 2
    /\ {ReplayGap, MaxRestarts, MaxWindow, MaxEpoch, MaxFaults, MaxRuns, MaxDemoFaults} \subseteq Nat

VARIABLES
    state,      \* the gate's state, in memory and in its file
    view,       \* what the gate knows of the brokers
    broker,     \* the broker processes
    run,        \* the journal and the gate's port, as the brokers of this run see them
    demo,       \* the script of `obicall demo`, "off" under `obicall run`
    faults      \* faults so far

gate == <<state, view>>
vars == <<gate, broker, run, demo, faults>>

\* The gate's decisions, without its histories: one pipeline, handlers that
\* do not wait for the mutex, persists that succeed (Gate.tla has the rest).
G == INSTANCE Gate WITH
        Pipeline <- {Pipe}, MaxPipelines <- 1, MaxLockWait <- 0,
        file <- state, uptime <- 0, published <- << >>, told <- {},
        quiet <- [b \in {1, 2} |-> 0]

A == G!A
B == G!B

\* upto is the last window a broker's stream delivers: Live while it is open.
Live == -1

\* A broker just spawned with an open stream.
FreshBroker ==
    [proc |-> "starting", held |-> FALSE, tries |-> 0, reader |-> TRUE,
     upto |-> Live, last |-> 0, belief |-> 0]

\* supervisor_start: the journal numbers its windows from 1 in every run.
FreshRun(n) ==
    [number |-> n, journal |-> TRUE, gate |-> TRUE, head |-> 0, slots |-> BrokerSlots - 2]

TypeOK ==
    /\ state \in G!GateState
    /\ view \in [G!Broker -> G!BrokerView]
    /\ broker \in [G!Broker ->
         [proc : {"starting", "up", "busy", "exited", "stopped"}, held : BOOLEAN,
          tries : 0..MaxRestarts, reader : BOOLEAN, upto : {Live} \cup G!Window,
          last : G!Window, belief : G!Epoch]]
    /\ run \in [number : Nat, journal : BOOLEAN, gate : BOOLEAN, head : G!Window,
                slots : 0..BrokerSlots]
    /\ demo \in [pc : {"off", "boot", "kill", "await", "probe", "over"}, late : BOOLEAN,
                 bootstrapped : BOOLEAN, initial : G!Epoch, promoted : BOOLEAN,
                 rejected : BOOLEAN, accepted : BOOLEAN]
    /\ faults \in Nat

Init ==
    /\ state = G!FreshState
    /\ view = [b \in G!Broker |-> G!UnknownView]
    /\ broker = [b \in G!Broker |-> FreshBroker]
    /\ run = FreshRun(1)
    /\ demo \in [pc : {"off", "boot"}, late : {FALSE}, bootstrapped : {FALSE},
                 initial : {0}, promoted : {FALSE}, rejected : {FALSE},
                 accepted : {FALSE}]
    /\ faults = 0

Fault ==
    /\ faults < (IF demo.pc = "off" THEN MaxFaults ELSE MaxDemoFaults)
    /\ faults' = faults + 1
-----------------------------------------------------------------------------
(***************************************************************************)
(* The brokers.                                                            *)
(***************************************************************************)

Runs(b) == broker[b].proc \in {"starting", "up", "busy"}

\* The last window the stream of b has delivered.
Delivered(b) == IF broker[b].upto = Live THEN run.head ELSE broker[b].upto

\* handle_result_publish: the gate's decision on a result, and its state
\* after it; an expired result leaves the state alone.
Decision(r) == G!DecidePublish(G!Allocate(state, Pipe), r)

Decided(r) ==
    IF Decision(r) = "COMMIT" THEN G!Committed(G!Allocate(state, Pipe), r)
                              ELSE G!Allocate(state, Pipe)

\* The next entry of the queue, whatever was lost before it, is processed and
\* its result sent with the epoch last heard of.
PublishNext(b) ==
    /\ Runs(b)
    /\ \E w \in (broker[b].last + 1)..Delivered(b) :
         LET r == [pipeline |-> Pipe, window |-> w, epoch |-> broker[b].belief, broker |-> b]
         IN  /\ broker' = [broker EXCEPT ![b].last = w]
             /\ state' \in (IF run.gate THEN {state, Decided(r)} ELSE {state})
    /\ UNCHANGED <<view, run, demo, faults>>

\* handle_heartbeat: the gate after recording view v of broker b.
Beaten(b, v) ==
    LET vw == [view EXCEPT ![b] = v]
        grantee == G!Grantee(state, vw, 0)
    IN  /\ view' = vw
        /\ state' = IF grantee = G!NONE THEN state ELSE G!Promote(state, grantee)
        /\ state'.epoch <= MaxEpoch

\* Mutant of Heartbeat: the window processed last is not filled in.
Heartbeat_NoWindow(b) ==
    /\ Runs(b)
    /\ run.gate
    /\ Beaten(b, G!Seen(broker[b].reader, TRUE, 0, 0))
    /\ broker' = [broker EXCEPT ![b].proc = "up", ![b].belief = state'.epoch]
    /\ UNCHANGED <<run, demo, faults>>

\* A heartbeat between two batches; its reply is the epoch to publish with.
Heartbeat(b) ==
    /\ Runs(b)
    /\ run.gate
    /\ Beaten(b, G!Seen(broker[b].reader, TRUE, broker[b].last, 0))
    /\ broker' = [broker EXCEPT ![b].proc = "up", ![b].belief = state'.epoch]
    /\ UNCHANGED <<run, demo, faults>>

\* A batch that takes longer than the heartbeat period: no heartbeat is sent
\* until it is done.
LongBatch(b) ==
    /\ Fault
    /\ broker[b].proc = "up"
    /\ broker' = [broker EXCEPT ![b].proc = "busy"]
    /\ UNCHANGED <<gate, run, demo>>

\* The stream ends: it was closed by the journal, or it breaks.
ReaderEnds(b) ==
    /\ Runs(b)
    /\ broker[b].reader
    /\ \/ /\ broker[b].upto # Live
          /\ broker' = [broker EXCEPT ![b].reader = FALSE]
          /\ UNCHANGED faults
       \/ /\ broker[b].upto = Live
          /\ Fault
          /\ \E w \in broker[b].last..run.head :
               broker' = [broker EXCEPT ![b].reader = FALSE, ![b].upto = w]
    /\ UNCHANGED <<gate, run, demo>>

Crash(b) ==
    /\ Fault
    /\ Runs(b)
    /\ broker' = [broker EXCEPT ![b].proc = "exited"]
    /\ UNCHANGED <<gate, run, demo>>
-----------------------------------------------------------------------------
(***************************************************************************)
(* The supervisor, the servers and time.                                   *)
(***************************************************************************)

\* The loop of the process that started the brokers calls the monitor.
Monitoring == demo.pc \in {"off", "boot", "await"}

\* The broker spawned as attempt n: it exits if it cannot connect.  The
\* journal has no free slot as often as brokers died, for their slots stay in
\* use; it then closes the connection, which the broker sees only when it
\* reads from it.
Respawned(n) ==
    [FreshBroker EXCEPT !.tries = n,
                        !.proc = IF run.journal /\ run.gate THEN "starting" ELSE "exited",
                        !.upto = IF run.slots > 0 THEN Live ELSE 0]

\* supervisor_monitor_tick for a broker that has exited; the budget is
\* renewed if it ran for a minute.
Supervise(b) ==
    /\ Monitoring
    /\ broker[b].proc = "exited"
    /\ IF broker[b].held
       THEN /\ broker' = [broker EXCEPT ![b].proc = "stopped"]
            /\ UNCHANGED run
       ELSE \E used \in {0, broker[b].tries} :
              IF used >= MaxRestarts
              THEN /\ broker' = [broker EXCEPT ![b].proc = "stopped", ![b].tries = used]
                   /\ UNCHANGED run
              ELSE /\ broker' = [broker EXCEPT ![b] = Respawned(used + 1)]
                   /\ run' = IF run.journal /\ run.slots > 0
                             THEN [run EXCEPT !.slots = @ - 1] ELSE run
    /\ UNCHANGED <<gate, demo, faults>>

\* The journal admits an observation.
Admit ==
    /\ run.journal
    /\ run.head + 1 < MaxWindow
    /\ run' = [run EXCEPT !.head = @ + 1]
    /\ UNCHANGED <<gate, broker, demo, faults>>

JournalDies ==
    /\ Fault
    /\ run.journal
    /\ run' = [run EXCEPT !.journal = FALSE]
    /\ broker' = [b \in G!Broker |-> [broker[b] EXCEPT !.upto = Delivered(b)]]
    /\ UNCHANGED <<gate, demo>>

\* No broker reaches the gate again: what the new one recovers is not seen.
GateDies ==
    /\ Fault
    /\ run.gate
    /\ run' = [run EXCEPT !.gate = FALSE]
    /\ UNCHANGED <<gate, broker, demo>>

\* `obicall run` is stopped and started again with its default directory:
\* the gate recovers the state of the last run, all else starts afresh.
NewRun ==
    /\ demo.pc = "off"
    /\ run.number < MaxRuns
    /\ broker' = [b \in G!Broker |-> FreshBroker]
    /\ run' = FreshRun(run.number + 1)
    /\ view' = [b \in G!Broker |-> G!UnknownView]
    /\ UNCHANGED <<state, demo, faults>>

Aged == [b \in G!Broker |->
            IF view[b].known THEN [view[b] EXCEPT !.age = G!Older(@)] ELSE view[b]]

\* A broker counts as in its loop while its last beat is no older than the
\* period; one that starts, or whose batch takes longer than that, may stay
\* silent for any time, beyond the confirm timeout too.
Tick ==
    /\ \A b \in G!Broker : broker[b].proc = "up" => view[b].age < BeatPeriod
    /\ run.gate
    /\ view' = Aged
    /\ UNCHANGED <<state, broker, run, demo, faults>>
-----------------------------------------------------------------------------
(***************************************************************************)
(* cmd_demo, one action per thing it does or waits for.                    *)
(***************************************************************************)

\* The first loop sees that broker A owns.
DemoBoot ==
    /\ demo.pc = "boot"
    /\ run.gate /\ state.owner = A
    /\ demo' = [demo EXCEPT !.pc = "kill", !.bootstrapped = TRUE, !.initial = state.epoch]
    /\ UNCHANGED <<gate, broker, run, faults>>

\* Mutant of DemoKill: broker A is killed and not held down.
DemoKill_NoHold ==
    /\ demo.pc = "kill"
    /\ demo' = [demo EXCEPT !.pc = "await"]
    /\ broker' = IF broker[A].proc = "stopped" THEN broker
                 ELSE [broker EXCEPT ![A].proc = "exited"]
    /\ UNCHANGED <<gate, run, faults>>

\* supervisor_kill_child_and_suspend of broker A, if it has a process.
DemoKill ==
    /\ demo.pc = "kill"
    /\ demo' = [demo EXCEPT !.pc = "await"]
    /\ broker' = IF broker[A].proc = "stopped" THEN broker
                 ELSE [broker EXCEPT ![A].proc = "exited", ![A].held = TRUE]
    /\ UNCHANGED <<gate, run, faults>>

\* supervisor_resume_child of broker A.
Released == [broker EXCEPT ![A].held = FALSE, ![A].tries = 0]

\* The second loop sees that broker B owns at a later epoch; A is released.
DemoAwait ==
    /\ demo.pc = "await"
    /\ run.gate /\ state.owner = B /\ state.epoch > demo.initial
    /\ demo' = [demo EXCEPT !.pc = "probe", !.promoted = TRUE]
    /\ broker' = Released
    /\ UNCHANGED <<gate, run, faults>>

\* A result of broker A for epoch 1 with a window no journal assigns.
Probe == [pipeline |-> Pipe, window |-> MaxWindow, epoch |-> 1, broker |-> A]

\* The delayed result must be rejected, for its epoch.  What follows (the
\* gate is killed, everything stopped) changes no verdict.
DemoProbe ==
    /\ demo.pc = "probe"
    /\ IF run.gate
       THEN /\ state' = Decided(Probe)
            /\ demo' = [demo EXCEPT !.pc = "over",
                                    !.rejected = (Decision(Probe) = "STALE_EPOCH"),
                                    !.accepted = (Decision(Probe) = "COMMIT")]
       ELSE /\ demo' = [demo EXCEPT !.pc = "over"]
            /\ UNCHANGED state
    /\ UNCHANGED <<view, broker, run, faults>>

\* A wait of the demo ends without what it waits for: the first loop goes on
\* with whatever epoch it read last and without killing A; the probe does not
\* reach the gate, or its answer does not come in time.
DemoDeadline ==
    /\ \/ /\ demo.pc = "boot"
          /\ \E e \in 0..state.epoch :
               demo' = [demo EXCEPT !.pc = "await", !.initial = e, !.late = TRUE]
          /\ UNCHANGED <<state, broker>>
       \/ /\ demo.pc = "await"
          /\ demo' = [demo EXCEPT !.pc = "probe", !.late = TRUE]
          /\ broker' = Released
          /\ UNCHANGED state
       \/ /\ demo.pc = "probe"
          /\ demo' = [demo EXCEPT !.pc = "over", !.late = TRUE]
          /\ state' \in (IF run.gate THEN {state, Decided(Probe)} ELSE {state})
          /\ UNCHANGED broker
    /\ UNCHANGED <<view, run, faults>>

Overall == demo.bootstrapped /\ demo.promoted /\ demo.rejected
-----------------------------------------------------------------------------
BrokerStep(b) == PublishNext(b) \/ Heartbeat(b) \/ ReaderEnds(b) \/ Supervise(b)
BrokerFault(b) == LongBatch(b) \/ Crash(b)
ServerFault == JournalDies \/ GateDies \/ NewRun
Demo == DemoBoot \/ DemoKill \/ DemoAwait \/ DemoProbe

Next ==
    /\ demo.pc # "over"
    /\ \/ \E b \in G!Broker : BrokerStep(b) \/ BrokerFault(b)
       \/ ServerFault
       \/ Admit
       \/ Tick
       \/ Demo
       \/ DemoDeadline

\* The processes keep running, the sensors keep producing, the supervisor's
\* loop and the demo's go round.
Fairness ==
    /\ \A b \in G!Broker :
         WF_vars(PublishNext(b)) /\ WF_vars(Heartbeat(b)) /\ WF_vars(Supervise(b))
    /\ WF_vars(Admit)
    /\ WF_vars(Tick)
    /\ WF_vars(Demo)

Spec == Init /\ [][Next]_vars /\ Fairness
-----------------------------------------------------------------------------
(***************************************************************************)
(* Properties.                                                             *)
(***************************************************************************)

CanTakeOver(b) == Runs(b) /\ broker[b].reader /\ broker[b].upto = Live

\* When the owner is left stopped for good and the gate has heard of it, the
\* other broker becomes the owner if it stays fit, even if it has first to
\* work off a backlog or, after a new run, the high-water mark of the last
\* one.  An owner recovered from the file that never speaks is not replaced.
Takeover ==
    \A b \in G!Broker :
        (state.owner = b /\ broker[b].proc = "stopped" /\ view[b].known
            /\ CanTakeOver(G!Other(b)) /\ demo.pc = "off")
        ~> (state.owner = G!Other(b) \/ ~CanTakeOver(G!Other(b)) \/ ~run.gate
              \/ broker[b].proc # "stopped" \/ ~view[b].known)

\* When `obicall demo` says pass, its scenario happened: broker A is down and
\* was not revived meanwhile, broker B owns a later epoch, and the delayed
\* result of A was not published.
DemoVerdictIsTrue ==
    (demo.pc = "over" /\ Overall)
        => /\ ~Runs(A)
           /\ run.gate => state.owner = B /\ state.epoch > demo.initial
           /\ ~demo.accepted

\* On a machine where nothing else fails, no batch takes longer than a
\* heartbeat period and no deadline passes, the demo comes to its end and
\* says pass: holding A down gives the gate the silence it needs, and B
\* catches up with the high-water mark.  The heartbeat period must not exceed
\* the confirm timeout, which nothing checks; the defaults keep it.
DemoPasses ==
    [](demo.pc # "off" /\ ~demo.late /\ faults = 0) => <>(demo.pc = "over" /\ Overall)
=============================================================================
