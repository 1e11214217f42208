---------------------------- MODULE MCAgentTasks ----------------------------
(* An instance of AgentTasks for TLC: the runs of one task.                 *)
EXTENDS AgentTasks

CONSTANTS t1, r1, r2, b1, b2

MCTaskOf == [r \in Run |-> t1]
=============================================================================
