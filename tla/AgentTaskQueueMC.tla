-------------------------- MODULE AgentTaskQueueMC --------------------------
(***************************************************************************)
(* Small instances of AgentTaskQueue for TLC.  The state space is finite   *)
(* without bounds: a table of MaxTask rows, attempts up to MaxAttempts.    *)
(***************************************************************************)
EXTENDS AgentTaskQueue

CONSTANT MaxTask

MCTasks == 1 .. MaxTask
=============================================================================
