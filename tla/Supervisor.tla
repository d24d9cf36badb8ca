----------------------------- MODULE Supervisor -----------------------------
(***************************************************************************)
(* The supervisor library inside the CLI, src/supervisor/supervisor.c, as  *)
(* cmd_run and cmd_demo of src/cli/main.c drive it: an ordered start, then *)
(* monitor ticks that reap, kill and restart children, then stop_all.      *)
(*                                                                         *)
(* It is single threaded, so each call is one action; the children live    *)
(* and die between calls.  Instants are ages in ticks.                     *)
(***************************************************************************)
EXTENDS Integers, Sequences, FiniteSets

CONSTANTS
    Order,          \* the children in the order supervisor_start spawns them
    Server,         \* the children it waits for a port of: journal and gate
    Worker,         \* the children whose heartbeat file is watched
    Grace,          \* 4 s: no hang check this long after a spawn
    StaleAfter,     \* 5 s: a heartbeat file older than this means hung
    RestartWindow,  \* 60 s
    MaxRestarts,    \* 5
    MaxResumes      \* bound: calls of supervisor_resume_child

Child == {Order[i] : i \in 1..Len(Order)}

ASSUME SupervisorConstants ==
    /\ Order \in Seq(Child) \ {<< >>}
    /\ Server \subseteq Child
    /\ Worker \subseteq Child
    /\ {Grace, StaleAfter, RestartWindow, MaxRestarts, MaxResumes} \subseteq Nat

\* Ages saturate: beyond AgeCap no comparison of the code changes.
AgeCap == Grace + StaleAfter + RestartWindow + 1
Age == 0..AgeCap
Older(n) == IF n < AgeCap THEN n + 1 ELSE n

VARIABLES
    phase,    \* starting, port (awaiting one), running, failed, stopped
    at,       \* starting: index of the child to spawn, or whose port is awaited
    child,    \* sv->children, with what the operating system knows of each
    resumes,  \* calls of supervisor_resume_child so far
    lived,    \* history: age of the child's present process
    recent,   \* history: ages of its restarts within RestartWindow, since the last resume
    orphan,   \* history: a live process of the child lost its handle
    awaited   \* history: resumed while suspended and down; not up or suspended since

vars == <<phase, at, child, resumes, lived, recent, orphan, awaited>>

\* proc: no handle, or the handle of a live, a hung (alive, no longer
\* beating) or an exited process.  beat: age of the heartbeat file, or NoBeat.
NoBeat == AgeCap + 1
ChildProc == [proc : {"none", "live", "hung", "exited"}, count : 0..MaxRestarts,
              since : Age, suspended : BOOLEAN, beat : Age \cup {NoBeat}]
Alive(c) == c.proc \in {"live", "hung"}

TypeOK ==
    /\ phase \in {"starting", "port", "running", "failed", "stopped"}
    /\ at \in 1..(Len(Order) + 1)
    /\ child \in [Child -> ChildProc]
    /\ resumes \in 0..MaxResumes
    /\ lived \in [Child -> Age]
    /\ \A c \in Child : recent[c] \in Seq(0..RestartWindow)
    /\ orphan \in [Child -> BOOLEAN]
    /\ awaited \in [Child -> BOOLEAN]

\* add_child's memset; beat is what an earlier run left in the directory.
Init ==
    /\ phase = "starting"
    /\ at = 1
    /\ child \in [Child -> {c \in ChildProc :
                              /\ c.proc = "none" /\ c.count = 0 /\ c.since = 0
                              /\ ~c.suspended /\ c.beat \in {NoBeat, AgeCap}}]
    /\ resumes = 0
    /\ lived = [c \in Child |-> 0]
    /\ recent = [c \in Child |-> << >>]
    /\ orphan = [c \in Child |-> FALSE]
    /\ awaited = [c \in Child |-> FALSE]
-----------------------------------------------------------------------------
(***************************************************************************)
(* supervisor_start.                                                       *)
(***************************************************************************)

\* Mutant of Spawned: the window start is left at the previous spawn.
Spawned_KeepWindow(c) == [c EXCEPT !.proc = "live"]

\* spawn_child on success: a new process, and the window starts over.
Spawned(c) == [c EXCEPT !.proc = "live", !.since = 0]

\* The child at the present index is spawned; the supervisor goes on to
\* await its port, to the next child, or has started them all.
StartChild ==
    LET name == Order[at] IN
    /\ phase = "starting"
    /\ child' = [child EXCEPT ![name] = Spawned(@)]
    /\ lived' = [lived EXCEPT ![name] = 0]
    /\ phase' = IF name \in Server THEN "port"
                ELSE IF at = Len(Order) THEN "running" ELSE "starting"
    /\ at' = IF name \in Server THEN at ELSE at + 1
    /\ UNCHANGED <<resumes, recent, orphan, awaited>>

\* procutil_read_port_file found the port.  The file was cleared before the
\* spawn, so the child of this run wrote it, though it may have exited since.
PortRead ==
    /\ phase = "port"
    /\ phase' = IF at = Len(Order) THEN "running" ELSE "starting"
    /\ at' = at + 1
    /\ UNCHANGED <<child, resumes, lived, recent, orphan, awaited>>

\* A spawn fails or no port appears within 5 s.
StartFails ==
    /\ phase \in {"starting", "port"}
    /\ phase' = "failed"
    /\ UNCHANGED <<at, child, resumes, lived, recent, orphan, awaited>>
-----------------------------------------------------------------------------
(***************************************************************************)
(* supervisor_monitor_tick.                                                *)
(***************************************************************************)

\* Mutant of Hung: a worker that never beat is not judged.
Hung_MissingIsFine(name, c) ==
    /\ Alive(c)
    /\ name \in Worker
    /\ c.since > Grace
    /\ c.beat # NoBeat
    /\ c.beat > StaleAfter

\* A live worker past its grace period whose heartbeat file is missing or old.
Hung(name, c) ==
    /\ Alive(c)
    /\ name \in Worker
    /\ c.since > Grace
    /\ c.beat > StaleAfter

\* The child needs attention: exited or hung.
Down(name, c) == c.proc = "exited" \/ Hung(name, c)

\* Mutant of Reaped: a hung child is replaced without being killed.
Reaped_NoKill(name, c) == c

\* A hung child is killed and waited for, an exited one only waited for.
Reaped(name, c) == IF Hung(name, c) THEN [c EXCEPT !.proc = "exited"] ELSE c

\* Mutant of Budget: the window ends one tick early.
Budget_OffByOne(c) == IF c.since >= RestartWindow THEN [c EXCEPT !.count = 0, !.since = 0] ELSE c

\* The restart budget of a child that is down, after the window check.
Budget(c) == IF c.since > RestartWindow THEN [c EXCEPT !.count = 0, !.since = 0] ELSE c

\* The loop body for one child: handle closed, then left stopped if
\* suspended or over the bound, else spawned again, which may fail.
AfterTick(name, c, spawns) ==
    LET closed == [c EXCEPT !.proc = "none"]
        again == [Budget(closed) EXCEPT !.count = @ + 1]
    IN  IF ~Down(name, c) THEN c
        ELSE IF c.suspended THEN closed
        ELSE IF Budget(closed).count >= MaxRestarts THEN Budget(closed)
        ELSE IF spawns THEN Spawned(again) ELSE again

Restarts(name, c) == Down(name, c) /\ ~c.suspended /\ Budget(c).count < MaxRestarts

MonitorTick(spawns) ==
    /\ phase = "running"
    /\ child' = [n \in Child |-> AfterTick(n, child[n], spawns[n])]
    /\ lived' = [n \in Child |-> IF Restarts(n, child[n]) THEN 0 ELSE lived[n]]
    /\ recent' = [n \in Child |->
                    IF Restarts(n, child[n]) THEN <<0>> \o recent[n] ELSE recent[n]]
    /\ orphan' = [n \in Child |->
                    orphan[n] \/ (Down(n, child[n]) /\ Alive(Reaped(n, child[n])))]
    /\ awaited' = [n \in Child |-> awaited[n] /\ ~Alive(child'[n])]
    /\ UNCHANGED <<phase, at, resumes>>

\* Mutant of StopAll: not called when the start failed.
StopAll_OnlyRunning ==
    /\ phase = "running"
    /\ phase' = "stopped"
    /\ child' = [n \in Child |-> [child[n] EXCEPT !.proc = "none"]]
    /\ UNCHANGED <<at, resumes, lived, recent, orphan, awaited>>

\* supervisor_stop_all: terminate, wait, kill and reap whatever has a handle.
StopAll ==
    /\ phase \in {"running", "failed"}
    /\ phase' = "stopped"
    /\ child' = [n \in Child |-> [child[n] EXCEPT !.proc = "none"]]
    /\ UNCHANGED <<at, resumes, lived, recent, orphan, awaited>>

\* supervisor_kill_child_and_suspend.
KillAndSuspend(name) ==
    /\ phase = "running"
    /\ child[name].proc # "none"
    /\ child' = [child EXCEPT ![name].suspended = TRUE, ![name].proc = "exited"]
    /\ awaited' = [awaited EXCEPT ![name] = FALSE]
    /\ UNCHANGED <<phase, at, resumes, lived, recent, orphan>>

\* supervisor_kill_child.
Kill(name) ==
    /\ phase = "running"
    /\ child[name].proc # "none"
    /\ child' = [child EXCEPT ![name].proc = "exited"]
    /\ UNCHANGED <<phase, at, resumes, lived, recent, orphan, awaited>>

\* supervisor_resume_child.
Resume(name) ==
    /\ phase = "running"
    /\ resumes < MaxResumes
    /\ resumes' = resumes + 1
    /\ child' = [child EXCEPT ![name].suspended = FALSE, ![name].count = 0, ![name].since = 0]
    /\ recent' = [recent EXCEPT ![name] = << >>]
    /\ awaited' = [awaited EXCEPT ![name] = child[name].suspended /\ ~Alive(child[name])]
    /\ UNCHANGED <<phase, at, lived, orphan>>
-----------------------------------------------------------------------------
(***************************************************************************)
(* The children and time.                                                  *)
(***************************************************************************)

\* A child crashes, or ends because it could not connect or load.
Exits(name) ==
    /\ Alive(child[name])
    /\ child' = [child EXCEPT ![name].proc = "exited"]
    /\ UNCHANGED <<phase, at, resumes, lived, recent, orphan, awaited>>

\* A child stops making progress.
Hangs(name) ==
    /\ child[name].proc = "live"
    /\ child' = [child EXCEPT ![name].proc = "hung"]
    /\ UNCHANGED <<phase, at, resumes, lived, recent, orphan, awaited>>

\* A live worker rewrites its pid file (main loop of worker_main.c).
Beat(name) ==
    /\ name \in Worker
    /\ child[name].proc = "live"
    /\ child' = [child EXCEPT ![name].beat = 0]
    /\ UNCHANGED <<phase, at, resumes, lived, recent, orphan, awaited>>

\* The ages ascend, newest first: those still within the window are a prefix.
Aged(s) ==
    LET kept == CHOOSE k \in 0..Len(s) : \A i \in 1..Len(s) : i <= k <=> s[i] < RestartWindow
    IN  [i \in 1..kept |-> s[i] + 1]

Tick ==
    /\ phase # "stopped"
    /\ child' = [n \in Child |->
                   [child[n] EXCEPT !.since = Older(@),
                                    !.beat = IF @ = NoBeat THEN NoBeat ELSE Older(@)]]
    /\ lived' = [n \in Child |-> Older(lived[n])]
    /\ recent' = [n \in Child |-> Aged(recent[n])]
    /\ UNCHANGED <<phase, at, resumes, orphan, awaited>>

Monitor == \E spawns \in [Child -> BOOLEAN] : MonitorTick(spawns)

Next ==
    \/ StartChild
    \/ PortRead
    \/ StartFails
    \/ Monitor
    \/ StopAll
    \/ \E n \in Child :
          \/ KillAndSuspend(n)
          \/ Kill(n)
          \/ Resume(n)
          \/ Exits(n)
          \/ Hangs(n)
          \/ Beat(n)
    \/ Tick

Spec == Init /\ [][Next]_vars

\* Time passes; the start sequence waits with timeouts only; cmd_run ticks
\* every 200 ms; cmd_run stops what a failed start has spawned.
FairSpec ==
    /\ Spec
    /\ WF_vars(Tick)
    /\ WF_vars(StartChild \/ PortRead \/ StartFails)
    /\ WF_vars(Monitor)
    /\ WF_vars(phase = "failed" /\ StopAll)
-----------------------------------------------------------------------------
(***************************************************************************)
(* Properties.                                                             *)
(***************************************************************************)

\* No process outlives its handle: not a hung worker that is replaced, nor a
\* child of a start that failed half way, nor any after stop_all.
NoOrphans ==
    \A n \in Child : ~orphan[n] /\ (phase = "stopped" => ~Alive(child[n]))

\* Within any RestartWindow a child is restarted at most MaxRestarts times,
\* unless supervisor_resume_child wiped its count.
RestartRateBounded ==
    \A n \in Child : Len(recent[n]) <= MaxRestarts

\* No worker is killed as hung on the strength of the heartbeat file of its
\* predecessor: the process judged hung is itself past the grace period.
HungIsPastGrace ==
    \A n \in Child : Hung(n, child[n]) => lived[n] > Grace

\* A worker that stops beating does not stay: the monitor replaces it,
\* also when it hung before its first heartbeat.
HungWorkerIsRemoved ==
    \A n \in Worker : (child[n].proc = "hung" /\ phase = "running")
                         ~> (child[n].proc # "hung" \/ phase # "running")

\* A start ends in the running system or with every child stopped.
StartTerminates ==
    (phase \in {"starting", "port"}) ~> (phase \in {"running", "stopped"})

\* docs/FAULT_TOLERANCE.md: "then calls `supervisor_resume_child` - letting A
\* rejoin afterward as the new hot shadow".
ResumedRejoins ==
    \A n \in Child : (awaited[n] /\ phase = "running") ~> (~awaited[n] \/ phase # "running")
=============================================================================
