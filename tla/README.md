# obicall: TLA+ verification project

obicall runs a sensor-fusion pipeline as a tree of local processes: provider
workers submit observations to an admission journal, two redundant brokers read
the journal's stream, estimate and offer results to a publication gate, and a
supervisor inside the CLI starts and restarts all of them.  This directory holds
TLA+ modules translated from the source, TLC configurations for small instances,
and TLAPS proofs, for every value of the constants, about the gate, the journal, its
segment, the broker, failover, the data path, the policy, the supervisor, the manifests
and the wire codec.

    tlc -workers 2 -config MCGate.cfg MCGate                # one run
    tlapm GateProofs.tla                                    # the proofs

`PROJECT.json` maps each definition to the source lines it models and lists the
runs, the mutants that show each property can fail, the findings, the hazards and
the theorems.  Paths below are relative to the repository's root.

## 1. Inventory

| Component | State | Operations | Talks to |
|---|---|---|---|
| Publication gate (`src/gate/gate_main.c`, `src/core/gate.c`) | epoch, owner, per-pipeline high-water mark, a state file, last report of each broker | handle a heartbeat (and perhaps promote), a result (commit, persist, acknowledge), a status query; recover | one connection thread per client, all under one mutex |
| Admission journal (`src/journal/journal_main.c`, `src/core/journal.c`) | a track per sensor, a ring of the last windows, connection slots with a cursor per subscriber | accept, admit, replay and stream | workers submit, brokers subscribe; one thread each, one mutex |
| Segment and replay (`src/core/journal.c`, `obicall replay`) | an append-only file of checksummed records | append, reopen, read back | written by the journal, read by the CLI |
| Broker (`src/broker/broker_main.c`) | queue, estimator, freshness of sensors, held policy action, believed epoch | read the stream (a thread), drain and process, publish, heartbeat | journal (stream), gate (request/response) |
| DGT policy (`src/core/dgt.c`) | none of its own; hysteresis state is the caller's | validate a table, select an action | called by the broker for each window |
| Supervisor (`src/supervisor/supervisor.c`) | children with handle, restart count, window start, suspension | start in order, monitor, kill, suspend, resume, stop | children through processes, port and pid files |
| Worker host (`src/worker/worker_main.c`), c_sim provider, Python provider | a loaded provider with boot id, sequence number and fault mode; a connection | load, poll, submit, write the heartbeat file | journal |
| Estimator (`src/core/estimator.c`) | mean, covariance and time of a filter | start, predict, update | called by the broker |
| Manifests (`src/core/manifest.c`) | a set of parsed files | load a directory, resolve dependencies, rank alternatives | `obicall validate`, the worker host |
| Wire codec and framing (`src/core/wire.c`, `src/core/wire_cursor.h`, `src/osal/osal_ipc.c`) | a cursor over a buffer | encode and decode each of 14 messages, send and receive a frame | all processes |
| JSON reader, pipeline configuration (`src/core/json_min.c`, `src/supervisor/pipeline_config.c`) | none: the text is scanned anew for each lookup | find a member, count and get elements, decode a string | manifests, supervisor |
| `obicall demo` (`src/cli/main.c`) | what it has observed so far | start, wait for A, kill and hold A, wait for B, send a delayed result of A | supervisor, gate |
| Observation validation, digests, OSAL, procutil, other CLI commands | none, or files read once | pure functions and thin wrappers | |

What is hard here is what happens between components: a persist that fails, a
process that dies between two steps, a reply that is late, a ring or a queue that
is full, a clock read before a lock is held, a restart counted in the wrong window.
`PROJECT.json` lists these hazards at their lines.  What makes each part correct:

* gate: one owner per epoch, at most one accepted result per pipeline and window,
  fencing of earlier epochs, and all of it across crashes and failed persists;
* journal: admission in order per source, delivery in order, no subscriber that holds
  admission back for ever;
* segment: replay gives what was decided, whatever appends did;
* broker: observations paired with their own decisions, processed once and in order,
  a belief about ownership that never goes back and catches up;
* worker, provider and estimator: each reading admitted at most once, nothing taken
  from a stream that was torn, readings used in order of time;
* manifests: a plan that is exactly the closure in load order, refusals for exactly
  the reasons promised, a ranking of eligible alternatives only;
* policy: a decision that is minimax among eligible actions, and stable; no estimate when
  there is none;
* supervisor: a bounded restart rate, no wrong hang verdicts, no orphans, a start
  that ends;
* failover: an owner that is gone for good is replaced by a fit shadow, and the demo's
  verdict is true;
* formats: messages decode to what was encoded, decoders stay within their buffers and
  arrays, and scanning a JSON text finds what parsing it would.

## 2. Modules and how they correspond to the code

**Publication.tla** is the abstract promise to consumers: a log of accepted results
in which windows strictly increase per pipeline, epochs never decrease and each epoch
has one broker.

**Gate.tla** is `obicall-gated`.  `state` is `g_ctx.state`, `file` what a restart
would recover, `view` is `g_ctx.brokers`.  A handler runs with the mutex held, so it
is one action: `HandleHeartbeat` (record the report, evaluate promotion, persist, reply),
`RejectResult` and `CommitResult` (`handle_result_publish`), `HandleStatusQuery`,
`Restart` (the process dies between two handlers; `main` loads the file).  The clock
is read before the mutex is taken; the wait in between is the parameter `d`.  Instants
are ages that saturate where no comparison changes any more.  Persisting may fail
at any time, which leaves the file as it was (write to a temporary file, then rename).
A result may be any result of any broker with any epoch, so delayed, repeated and
foreign ones are covered.  `Log` is `Publication` instantiated with the history of
accepted results, and `PublicationSpec` says that the gate implements it.
Results that are expired or of the wrong schema are the input `usable = FALSE`.
`GateProofs.tla` holds the proofs.

**Admission.tla** is the decision of `obicall_journal_admit` and what it does to a track,
without state of its own; Journal and Feed extend it.

**Journal.tla** is `obicall-journald`: a slot and a thread per connection (`conns`), the
tracks of `find_or_create_track`, admission, the ring, and the two critical sections of the streaming loop (`StreamRead` copies an entry
under the mutex, `StreamSend` sends it without and then moves the cursor), between which
other threads run.  Any reading may be submitted at any time, repeated and late ones too.

**Segment.tla** is the durable side of the journal and `obicall replay`: an append
succeeds, or fails and leaves nothing, torn bytes or the whole record; a process that
dies may leave torn bytes; the next one appends behind them and counts windows from 1.

**Intake.tla** is the broker's reader thread, queue and main loop, with frames that the
journal failed to send (it ignores the results of its sends) or that do not decode.  A
frame carries the cursor at which the journal's streaming thread read its ring; `sent`
is the window it found there, which is the cursor's own or, once the thread was lapped, a
newer one (`InRing`).

**GateLink.tla** is the broker's request/response loop with the gate, in which every
read gives up after 2 s and takes whatever frame comes as its answer.

**Broker.tla** is the broker process: Intake and GateLink composed around its one main
loop.  `Turn` takes the queue as the batch of both, `PublishNext` processes an entry and
sends its result, `Talk` is what uses the gate connection only, `Reader` the other thread.
That this composition implements `GateLink!Spec`, fairness included, is the property
`LinkSpec`; the number of results the link has left is computed from the intake's batch.

**Failover.tla** is the system as the brokers, the gate, the supervisor and the demo see
each other: the gate's own operators (an instance of Gate), two brokers that publish,
beat, crash, stall in a long batch and lose their stream, the supervisor's restart budget,
the journal's connection slots, which are never given back, a second `obicall run` on the state file of the first, and `cmd_demo` as a script
with its deadlines.  What is in the other modules (late replies, failing persists, lock waits, the queue) is not
repeated here.

**Wire.tla** is the codec: each encoder and each decoder is its own list of fields, taken
from its own code, and the actions write and read the fields one by one with the cursor
checks of `wire_cursor.h`, through the buffers the processes really use.  Messages that
are framed travel behind a header (`EncodeHeader`); on the link its magic, version,
length or checksum may become others, bytes may be altered, missing at the end or
followed by another frame (`Headers`, `Streams`), and `ReceiveFrame` is what
`osal_recv_frame` makes of it with `DecodeHeader` and the checksum.  The bytes a decoder
is called on may also be cut within a field, have more behind them, or another number in
a count.  The checksum is over the payload alone: the message type and the flags of the
header are under no check and are left out.
The counts tried are 0, 1, the limit of each and one more, and those in the constant
`Number`, which is any set of numbers.

**Json.tla** is the scanner of `json_min.c` over texts of symbols, and the lookups of
`pipeline_config.c` made of it.  A document is a tree that is written out, with and
without spaces, and read back by scanning; the reference answer is read off the tree.
Strings, numbers and the list of names have the capacities of their arrays (`StringCap`,
`NumberCap`, `ListCap`), and the offset of the list moves on as in `pipeline_config.c`
(`InArray`).

**Policy.tla** is `obicall_dgt_select_action` and the broker's per-window use of it:
the table of at most `MaxTracked` sensors (`Touched`), freshness, eligibility, selection
with hysteresis among the actions of finite loss (`Scored`), the mask of sensors to use
and the status of the result.  Costs are integers (weighted sums); the scan over actions is a
recursive function, in the code's order.  Its specification is `PolicySpec`, those of Wire
and Segment `WireSpec` and `SegmentSpec`, so that each can share a module with others.

**Supervisor.tla** is the supervisor as `cmd_run` and `cmd_demo` drive it: the start
sequence with its port files, `supervisor_monitor_tick` with hang detection and the
restart budget, suspend, resume, stop.  It is single threaded: one action per call,
children crash, hang and beat between calls.

**Feed.tla** is the way of a sensor's readings: the main loop of the worker host with the
c_sim provider (`Poll`, `Drop`), one connection per provider instance, admission, and a
broker's filter reduced to when it starts, what it refuses and how its time moves
(`Predicts`, `Update`).  `supervisor_start` spawns each provider once under each broker,
so one sensor has two workers.  A send succeeds, sends nothing or stops in the middle of
a frame (`Forwarded`); the worker goes on in any case.  The fault file can be rewritten
between any two turns, so the mode is chosen at each poll.

**Manifest.tla** is `src/core/manifest.c`: `LoadFile` and `EndOfDir` for a directory read
in any order, `Resolve`, `Visit`, `BeginOrder`, `Emit`, `EndOrder` for the loops of
`obicall_manifest_resolve`, `Rank`, `RankResolve`, `RankNext`, `Sort`, `EndRank` for
`obicall_manifest_rank_alternatives`, which calls the former for each candidate and then
sorts.  Loops over indices in increasing order are `Ascending` sets of indices.  `intact`
says whether the artifact is the one the manifest has the digest of; no action reads it.

The modules named `MC...` give small instances to TLC (`MCLibrary` those of Wire, Json,
Segment, Policy and Manifest, one part per behaviour), those named `...Proofs` hold the
inductive invariants, the lemmas and the theorems of the modules they extend: `BrokerProofs`
those of Broker and Policy, `FormatsProofs` those of Segment and Wire, the others those of
the module they are named after.

## 3. Runs

| Run | Shows |
|---|---|
| `gate` | the gate implements `Publication` (property `PublicationSpec`); accepted results survive crashes (`AcceptedIsDurable`); `OneOwnerPerEpoch`, `GrantsGoToTheSpeaker`, `NoLiveOwnerDeposed`, and the proofs' inductive invariant `IInv` |
| `journal` | `AdmittedInOrder` with a full track table, `InOrderUnlessLapped`, `AdmissionNeverLaps`, `NoCursorIsStuck` with workers and subscribers interleaving on a ring that wraps |
| `feed` | `NoReadingTwice`, `NothingAfterTear`, `UsedInOrder` with two workers of one sensor, faults, torn frames and restarts |
| `supervisor_life` | `RestartRateBounded`, `HungIsPastGrace`, `HungWorkerIsRemoved`, `NoOrphans`, `StartTerminates` |
| `supervisor_resume` (violation) | a resumed child is never spawned again |
| `gatelink_desync` (violation) | one late reply, and the broker may never learn the gate's epoch again |
| `broker` | the two threads of a broker against a journal that loses frames and a gate that is late or dies: `OneLossNeverMispairs`, `ProcessedInOrder`, `QueuedIsProcessed`, `BeliefNeverRegresses`, and that the process implements GateLink (`LinkSpec`) |
| `failover` | `Takeover`, `DemoVerdictIsTrue`, `DemoPasses` |
| `broker_lapped` (violation) | a lapped streaming thread, and a broker that processes windows out of order |
| `library` | what one process computes and keeps: `DecodesWhatWasSent`, `StaysInBounds` for every message; `ScanningIsParsing` for every small JSON document; `ReplayIsGenuine`, `ReplayMatchesLive`, `DurableUnlessTorn` for a segment; `DecisionIsNearMinimax`, `NoFlapping` over the built-in table and every small one; `WithinArrays`, `PlanIsLoadOrder`, `RefusesExactly`, `RankingIsRight` over every directory of up to three files from a menu |
| `policy_no_action` (violation) | a third sensor without an action of its own, and a valid estimate although no action was eligible |
| `manifest_duplicate` (violation) | a dependency listed twice is refused as a cycle |

The modules' `TypeOK` document their state; the gate's is checked as part of `IInv`; the
others hold in the instances above and are left out of their properties.

**Bounds.** Gate: two pipelines for one slot make a full table, windows 0 and 1 make
duplicates, epochs up to 2 make ownership go from A to B and be granted again after a
crash; a confirm timeout of one tick separates its comparisons.  The lock wait is 0 in
this instance; waits above 0 are covered by the proofs.  Journal: a ring of two entries and three
windows wrap; two sequence numbers and sample times with a reorder window and a lateness
of 0 make duplicates and late readings; one track for two sensors fills the table; two
connections make a worker and a subscriber.  Feed: two provider instances are two workers
side by side or one that restarts while frames of its predecessor are in flight; three
ticks, a delay of two and a gap of one make readings that lie before the filter's time
and beyond its gap; the two workers are symmetric.  Manifest: three manifests make
chains, diamonds, cycles of one to three, duplicates and a changed artifact; `MCManifest`
lists the menu.
Supervisor: one server and one watched worker,
two restarts per window, a grace period and a restart window of one tick: every comparison
has both outcomes.  GateLink alone (`gatelink_desync`): one late reply and up
to two results per turn.  Broker: a queue of two entries (capacity 3), three windows on a ring of
two, two frames lost or not decoded, one late reply and one promotion: the queue
overflows during a batch, the third window overwrites the first, and a reply of one batch
is read in the next.  Failover: two faults of any kind (crash, long
batch, broken stream, journal or gate lost), one restart per minute, one connection to
spare, two runs, epochs up to 4, so that an owner is deposed, comes back and is deposed again,
and an owner is left stopped while the slots are used up; the demo with one fault.  Wire: each
count is 0, 1, 2, its capacity and one more, for all 14 messages.  Json: documents of up
to two members or elements, one of which is any scalar, string with brackets and
escapes, array or object of these and the other one of a few that could mislead a scan;
strings, numbers and lists of names shorter than their arrays, as long, and longer.
Segment: four records and two restarts.  Policy: the three actions of the built-in table
over two configured sensors and a third that may take a tracked entry, each costing 0 to 2
in the nominal scenario and a fixed amount in the three others, and the costs of the
built-in table, also with losses that are not finite; a margin of one half, so that ties,
holds and switches all occur.  Ids are in reverse order of indices so that the two orders
differ.  `policy_no_action` configures three sensors with the built-in table, whose masks
know bits 0 and 1.

**Fairness.** Journal: each streaming thread goes on (sends have timeouts, the loop
never waits for anything else) and a thread that reads notices a broken connection.
Nothing is assumed of workers and brokers.  Supervisor: time passes, the start sequence
only waits with timeouts, `cmd_run` ticks every 200 ms and stops what a failed start has
spawned.  No fairness for children.  GateLink and Broker: the broker's loop never blocks for
good (each of its waits has a timeout) and the gate's thread answers every frame; the
reader thread gets no fairness.  Failover: brokers in their loop process and beat, the
supervisor's loop and the demo's go round, sensors produce, time passes; crashes, stalls
and deadlines get none.

**Deadlock** is checked except where the modelled system really stops: the supervisor
after stopping, the bounded stream of Feed, the calls of the library, and Failover, whose
demo ends.

## 4. What is proved

Eight modules have proofs that hold for all values of the constants.  What is assumed of
the constants is named in the module that declares them (`GateConstants`,
`JournalConstants`, `SegmentConstants`, `BrokerConstants`, `FeedConstants`,
`SupervisorConstants`, `PolicyConstants`, `ManifestConstants`, `FailoverConstants`,
`WireConstants`, `ApiBufferIsEnough`): numbers are natural, a
ring, a queue, a period, the number of actions and the capacity of a manifest set are not 0, functions have their domains, action ids
differ, there are finitely many scenarios and at least one.  The journal of failover has
connections for two brokers.  The buffer for messages that no process sends holds
the largest of them; only `WhatDecodesWasSent` needs that.  The numbers named `Max...`
that bound a run are arbitrary naturals here.

| Theorem | Statement |
|---|---|
| `GateTypeCorrect`, `GateInvariant` | `Spec => []TypeOK`, `Spec => []IInv` |
| `GateOneOwnerPerEpoch` | no epoch is announced for two owners |
| `GateAcceptedIsDurable` | an accepted result is fenced by the file from then on |
| `GateImplementsPublication` | `Spec` implements `Publication` |
| `GateGrantsGoToTheSpeaker` | grants go to the broker whose heartbeat is being handled |
| `GateNoLiveOwnerDeposed` | no owner is deposed within the confirm timeout less the lock wait |
| `JournalCorrect` | `Spec => []JournalInv`, which has `TypeOK` |
| `AdmissionOrder` | `AdmittedInOrder`: within a boot session sequence numbers increase and lateness is bounded |
| `StreamOrder` | `InOrderUnlessLapped`: a subscriber that was not lapped gets windows in order |
| `AdmissionSafe` | `AdmissionNeverLaps`: admissions held back by `--max-pending` lap nobody |
| `SegmentCorrect` | `SegmentSpec => []SegmentInv`, which has `SegmentTypeOK` |
| `ReplayGenuine` | `ReplayIsGenuine`: replay gives decisions, in the order they were made |
| `ReplayLive` | `ReplayMatchesLive`: without a failure replay feeds what was fed live |
| `DurableIsKept` | `DurableUnlessTorn`: what was acknowledged stays, and is replayed unless torn bytes lie before it |
| `WireCorrect` | `WireSpec => []WireInv`: while a message is decoded, the counts taken are within their limits |
| `DecodersStayInBounds` | `StaysInBounds` |
| `WhatDecodesWasSent` | `DecodesWhatWasSent` |
| `BrokerCorrect` | `Spec => []BrokerInv`, with the types of intake and link |
| `PairingSurvivesOneLoss` | `OneLossNeverMispairs` |
| `ProcessingOrder` | `ProcessedInOrder`: entries in stream order, and windows in order unless the stream was lapped |
| `BeliefMonotone` | `BeliefNeverRegresses` |
| `ImplementsLink` | the broker's steps are steps of `GateLink`, or stutter |
| `FeedCorrect` | `Spec => []FeedInv`, which implies `TypeOK` |
| `AdmittedOnce` | `NoReadingTwice` |
| `TearEndsConnection` | `NothingAfterTear` |
| `FilterOrder` | `UsedInOrder` |
| `SupervisorCorrect` | `Spec => []SupervisorInv`, which has `TypeOK` |
| `RestartBound` | `RestartRateBounded` |
| `GraceIsKept` | `HungIsPastGrace` |
| `NothingLeftBehind` | `NoOrphans` |
| `PolicyCorrect` | `PolicySpec => []PolicyInv`, which has the types |
| `NearMinimax` | `DecisionIsNearMinimax` |
| `DecisionsDoNotFlap` | `NoFlapping` |
| `FailoverCorrect` | `Spec => []FailoverInv`, which has `TypeOK` |
| `DemoVerdict`, `DemoFailsForCause` | `DemoVerdictIsTrue`; and the demo fails only if a step of its scenario was missed |
| `ManifestCorrect` | `Spec => []ManifestInv`, which has `TypeOK` |
| `ArraysSuffice` | `WithinArrays` |
| `PlansAreLoadOrders` | `PlanIsLoadOrder` |
| `RefusalsAreExact` | `RefusesExactly` |
| `RankingsAreRight` | `RankingIsRight` |

**The gate.**  A promotion whose persist failed is announced, may be forgotten by
a crash, and its epoch number is then granted again.  That this never gives one epoch to
two brokers is not visible in any single handler.  It holds because A always
bootstraps and from then on ownership alternates, so the owner is a function of the
epoch's parity (`OwnersMatchEpochs`), in memory, in the file, in everything announced
and everything accepted.  With `FileLagsMemory` (the file is never ahead of memory, in
epoch and in marks) and `AcceptedIsDurable`, a commit's window is above everything
accepted before for its pipeline and its epoch is at least as high, which is the step
of `Publication`.  `NobodyAwaitsBootstrap` says that a healthy A was made owner when it
said so, hence a grant of a heartbeat goes to its sender; `AgesTrackSilence` bounds the
age of a recorded heartbeat by the silence actually observed plus the lock wait.  Each
conjunct is preserved by each handler in a lemma of its own (`HeartbeatIInv`,
`RejectIInv`, `CommitIInv`, `RestartIInv`, `TickIInv`), and TLC checks `IInv` in
`gate`.

**The journal.**  `AdmittedInOrder` speaks of all pairs of admissions, while the code
compares an observation with one number and one watermark.  `TracksBoundSession` says why
that is enough: as long as the session of an admission lasts, its sensor's track has the
session's boot id and bounds it.  A track whose boot id changes bounds
nothing of the earlier session, and the property does not need it to.  For the stream,
`RingHoldsNewest` (entry `w % RingCapacity` is `w` for the newest `RingCapacity` windows)
and `CursorsKeepUp` (a subscriber not lapped has its cursor in the ring, or one behind
while the copied entry is on its way out) give that what is copied is the window at the
cursor.  That the two critical sections of the loop may have any number of
admissions between them is the reason for the two cases.

**The segment.**  `FileIsOrdered` and `FileIsDecided` order the whole records in the file
by process and window although windows start again at 1; `DurableIsInFile` holds because
nothing is ever removed; `FileIsHistory` is needed for `ReplayMatchesLive` only.
What replay sees is the file in front of the first torn stretch, whose existence is the
least-element argument of `LeastNatural`.

**The wire codec.**  Two facts about the field lists carry the proofs: every array has its
count before it, with a limit for which the array of the structure is large enough
(`Sound`), and a decoder has the fields of its encoder (`Agree`).  They are shown list by
list, from the lists themselves (`CodecsAreSound`).  `StaysInBounds` then needs no more than
that counts are checked when taken: the check of `dim` at 6 is what bounds the 36 entries
of a covariance.  `DecodesWhatWasSent` needs to know where fields are.  `LaidOut` says that
the fields written lie one behind the other; as long as the decoder has read counts as they
were sent, it computes the sizes the encoder computed, so that its cursor stands where a
field begins (`Decoding`) and what it finds there is that field and no other
(`FieldIsFound`; an empty array begins where the next field does, and is not read).  That a
message is not cut shows in the last field only: the cursor would have to stand behind
what arrived.  That the buffers suffice is a table of how far the fields of each message
reach with full arrays (`Reach`, `BuffersAreEnough`): 444 bytes for an observation in 1200,
756 for a result in 1024, and so on.  What the link does to a frame comes in between.
`ReceiveInv` goes through what a header and the bytes behind it may have become, and shows
that whatever `ReceiveFrame` lets through is the frame that was sent: another magic, version or length
fails `DecodeHeader`, the receiver's buffer or the bytes that are there, altered bytes
fail the checksum (taken to differ for other bytes).  `IntactIsReceived` is the converse.

**The broker.**  Frames have a place in the journal's stream (data at 2w - 1, decision at
2w).  `StreamHasGaps` counts: from a pending observation to the next frame there are at
most as many places as frames were lost, so with one loss the decision that comes next is
either the observation's own or is preceded by the next observation's data.
`PairedBeforeStream` and `InLine` put what was processed, the batch, the queue and
the stream in one line by cursor; the windows follow, as each cursor that was not
lapped sent its own.  The link's part is that replies, in order of arrival, carry
epochs from the belief up to the gate's (`RepliesRise`): a reply taken for the wrong
request is still not older than the one before.  `ImplementsLink` is the refinement
mapping of `Broker!Link` step by step; its batch is the broker's, less what is answered.

**Failover.**  The script's variables are tied to the processes at each of its stages: `KilledStaysDown` (broker A is held down
as long as the monitor runs, and released only after its last round), `PromotedStaysOwner`
(with A down nobody takes the epoch from B) and
`ProbeIsStale` (the delayed result, which carries the initial epoch, is rejected by the
gate of the later one).  `DemoVerdictIsTrue` follows, and so does its converse
`FailsOnlyForCause`, so that a fail tells something too.

**The data path.**  The journal's track of a sensor is taken over by the other worker with
each change of boot id, and admission then compares nothing.  Still nothing is admitted
twice: a connection carries one provider instance's readings in order of sequence
(`WireInOrder`), above all that was admitted of that instance, and numbers given next are
new (`NextIsNew`, `BootsAreFresh`).  `TornIsAhead` says that a torn frame is still on its
connection as long as that is open, so nothing behind it was received.
`FilterAhead` keeps the filter's time at or after what it used.

**The supervisor.**  The budget is a count that is reset when the restart window is over,
and each spawn moves the window.  `Accounted` relates it to the ages of the restarts that
really happened: all recent ones are counted, and those of a child with a process are no
younger than its window's start, so that none is recent when the count is reset.
A live process is at least as old as the supervisor takes it to be, hence hung only after
its own grace period.  The ages that a tick drops are a suffix of a sorted sequence
(`Aged`).

**The policy.**  The scan of `obicall_dgt_select_action` is a recursive function.  That it
is defined for every number of actions (`ScanExists`) and gives an eligible action of
least worst-case loss, of least id among those (`BestIsMinimax`), is shown by the
least-counterexample form of induction, with `WFMin` of the library, as the
provers cannot instantiate its induction theorems.  Hysteresis and fallbacks are then
cases (`SelectionFacts`, `WindowFacts`).  That decisions do not flap needs more than one
window: `Settled` keeps that the last decision is held and was within the margin of all
that competed with it, and when no action joins those it still is.

**The manifests.**  The properties speak of the least set of manifests that is closed under
dependencies; the code marks and pushes.  `Gathering` squeezes the marked ones between the
roots and the closure: what is marked and not on the stack has its dependencies marked, so
that with an empty stack the marked set is closed and hence is the closure.  `Ordering` counts: a
manifest's indegree is the length of its list less the number of different dependencies
emitted.  An emitted manifest is one no manifest has counted yet, since in a closure a name
is carried by one manifest only (the one `find_by_name` gives, `ClosureFacts`).
At the end, what is in the queue lists nothing twice and is behind its dependencies, so
that no set of manifests can be cyclic (the first of them in the queue would have a
dependency before it); what is not in the queue either lists something twice or has a
dependency that is not in it, which makes these manifests the cyclic set (`QueueFacts`).
The two arrays have no repetitions and are therefore no longer than the set
(`InjectiveLength`).  For the ranking, `Candidates` relates what was taken to the verdict of
each resolution, and `InsertFacts` shows that a turn of the sort permutes the candidates
and has one more in order.  That a finite set can be put in increasing order
(`AscendingExists`) is again a least counterexample.

Each of these inductive invariants was checked with TLC on the instance of its
component's run before it was proved; only `IInv` is kept in a run, as the others imply
what the runs check anyway.

**Only model-checked:**

* liveness (`NoCursorIsStuck`, `HungWorkerIsRemoved`, `StartTerminates`,
  `QueuedIsProcessed`, `Takeover`, `DemoPasses`) and the fairness half of `LinkSpec`,
  which are out of the prover's reach;
* `ScanningIsParsing`: documents are written out and scanned by RECURSIVE operators, and
  the statement is an induction over trees, both out of the prover's reach.

## 5. Findings and known disagreements

With a run (details in `PROJECT.json`):

* `supervisor_resume_child` does not bring a reaped child back (`supervisor_resume`);
* one late reply desynchronises a broker from the gate (`gatelink_desync`);
* the broker ignores `OBICALL_ERR_DGT_NO_ELIGIBLE_ACTION` (`src/broker/broker_main.c:339`)
  and may publish VALID, while `docs/DGT.md:40-43` asks for invalid output
  (`policy_no_action`).  A broker takes up to 8 `--sensor-ids`, the built-in table has
  actions for the first two: with both stale and a third one speaking no action is
  eligible, the mask is that of all sensors and the third one's reading is fused;
* a dependency listed twice is reported as a cycle (`src/core/manifest.c:313`), while
  `include/obicall/manifest.h:78-83` and `docs/ABI.md:158-161` refuse a cycle or a missing entry
  only (`manifest_duplicate`); `RefusesExactly` is what holds;
* the stream loop copies a ring entry without comparing its window with the cursor
  (`src/journal/journal_main.c:174`), and rejected observations, which `--max-pending` does
  not hold back, take ring entries too: a subscriber that lags by more than the ring gets
  a newer window in an older one's place and then the windows in between, against
  `docs/ARCHITECTURE.md:156-158` ("processed in increasing order by construction";
  `broker_lapped`).  `InOrderUnlessLapped` and `ProcessedInOrder` are what holds.

Seen while modelling, visible in the modules' actions, without a run of their own:

* the result of persisting a promotion is ignored (`src/gate/gate_main.c:70,103`), while
  `docs/ARCHITECTURE.md:174-176` says promotions are durable before the reply;
  `OneOwnerPerEpoch` is what holds all the same;
* nothing bounds a subscriber's lag: rejected observations take windows without end, and
  each window sent to a stalled subscriber may cost two timeouts of 2 s
  (`src/journal/journal_main.c:101,126`).  `NoCursorIsStuck` says that its cursor moves on,
  not that it catches up;
* a track is kept per sensor, not per sensor and boot id (`src/core/journal.c:25`,
  `include/obicall/journal.h:36`), and the two workers of a sensor alternate boot ids, so
  the lateness bound of `journal.h:31` rarely applies; `AdmittedInOrder` says what holds
  per uninterrupted boot session, `NoReadingTwice` and `UsedInOrder` what holds besides;
* a worker whose send stops in the middle of a frame ignores it (`src/worker/worker_main.c:57`),
  keeps the torn connection and its heartbeat, and is not seen as hung: its readings are
  lost until it dies;
* after a gap above `max_prediction_gap_s` the filter refuses every later reading, since a
  refused one does not move its time (`src/core/estimator.c:35`), while results stay VALID
  until the covariance, which no longer grows, says otherwise;
* `include/obicall/manifest.h:88-90` has ranking check integrity, which it does not
  (`src/core/manifest.c:348-365`): the menu has an alternative whose artifact was changed,
  which is ranked like any other, and `RankingIsRight` is stated for directories without
  one.  With a name carried by two manifests ranking resolves the first of them for both;
* a restarted journal counts windows from 1 again (`src/journal/journal_main.c:268`) and
  appends behind a torn record, which hides what follows from replay (line 271);
* each spawn moves the restart window (`src/supervisor/supervisor.c:47`), so that five
  restarts over several minutes exhaust the bound of `supervisor.h:40`;
* a full queue drops windows on one broker only (`src/broker/broker_main.c:197`), against
  the identical streams of `docs/ARCHITECTURE.md:54-56`;
* an owner whose journal stream has ended reports itself unhealthy and goes on beating;
  promotion looks at the owner's silence only (`src/gate/gate_main.c:82`), so it stays owner and
  publishes nothing.  No document promises otherwise, and no property is stated;
* heartbeats are sent between batches only, and each result of a batch may wait 2 s for
  its answer (`src/broker/broker_main.c:316,408`), so a live owner can be deposed; the confirm
  timeout is not checked against the heartbeat period either.  A property that a live
  owner is kept would be an assumption about time, and there is none: `Tick` lets a broker
  in a long batch stay silent for any time, and `NoLiveOwnerDeposed` says what the gate
  itself guarantees;
* an owner recovered from the state file that is never heard again is never replaced
  (`src/gate/gate_main.c:80`), which is why `Takeover` asks that the gate knows it;
* a streaming thread never ends, so each broker that dies costs a connection for good
  (`src/journal/journal_main.c:303`); a broker restarted when none is left beats as unready
  and cannot take over;
* the demo goes on after a deadline: if the promotion was not seen, the delayed result of
  A that it sends last, with the largest window there is, may still be of the current epoch
  and is then accepted (`src/cli/main.c:465-494`).  Its verdict is "fail" in this case, and
  `DemoVerdictIsTrue` holds;
* `--result-validity-ms` is passed to the gate and not to the brokers
  (`src/supervisor/supervisor.c:178`), which use their default of 500 ms whatever the
  configuration says;
* `include/obicall/wire.h:85` says that a decoder "reads exactly in_len bytes"; bytes
  behind the last field are ignored, and a longer input decodes like the message in front of
  them.  `DecodesWhatWasSent` leaves such inputs out (`"longer"`), so it neither hides nor
  endorses this;
* `src/core/json_min.h:24-25` has a malformed object "treated as not found"; a member
  before the malformation is found all the same.  `ScanningIsParsing` is about well-formed
  documents;
* the names of `sensor_ids` are put together in 256 bytes with an offset that moves on by
  the length `snprintf` wanted to write (`src/supervisor/pipeline_config.c:114-116`), so names
  behind one that was cut are written past the end of the array, with a size that has
  wrapped around.  `InArray` models this as `Overrun`, and `ScanningIsParsing` is about
  lists that fit;
* `docs/ARCHITECTURE.md:64-65` speaks of backoff between restarts; there is none.

## 6. Not modelled

* Digests, CRC and tokens: arithmetic on bytes that TLC cannot enumerate.  That a frame
  with a wrong CRC is refused is an outcome in Wire.
* Floating-point arithmetic: the filter's matrices, covariance checks, the conversion of
  digits.  Where it has an outcome that matters (an update is taken, a covariance is
  large, an observation is valid) the outcome is an input.
* Record and state file layouts: their readers check a length and a checksum, which is
  the torn or whole record of Segment and the file of Gate.  A rename is atomic, so there
  are no corrupt state files; one would stop the gate's start.
* The operating system layer: thin wrappers, whose failures are choices of the callers.
* The Python provider adapter: the worker host's role in another language; to the journal
  it is a worker of Journal.
* Arguments, search paths and printing (`doctor`, `status`), and the list of providers in
  the pipeline configuration, which is copied into the workers' arguments.
* Functions without a caller in the processes: `obicall_gate_results_agree`,
  `obicall_static_fuse_1d`, checkpoint and restore of a provider.

## 7. Plan

1. Done: the core (gate with its abstract specification and proofs; journal, segment,
   worker, provider and estimator, broker intake and gate link, policy, supervisor,
   manifests), the broker as a composition that implements GateLink, failover with the
   demo's script, and the wire and JSON formats.
2. Done: every safety property that a run checks as a theorem, except
   `ScanningIsParsing`, and the safety half of `LinkSpec`.
3. Possible next: an abstract specification of the journal's stream (an append-only log
   with readers) and `Journal` shown to implement it for subscribers that are not lapped;
   a model of the Python provider adapter beside that of the worker host.
