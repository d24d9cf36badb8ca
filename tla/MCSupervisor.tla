---------------------------- MODULE MCSupervisor ----------------------------
(* Small instances of the supervisor for TLC. *)
EXTENDS Supervisor

CONSTANTS journal, worker

\* The start sequence: a server whose port is awaited, then a watched worker.
StartOrder == <<journal, worker>>

\* A single monitored worker.
WorkerOnly == <<worker>>
=============================================================================
