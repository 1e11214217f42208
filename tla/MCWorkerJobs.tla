---------------------------- MODULE MCWorkerJobs ----------------------------
(* Instances of WorkerJobs for TLC.                                         *)
EXTENDS WorkerJobs

CONSTANTS w1, w2, u

MCUserOf  == [j \in Job |-> u]
MCPieces  == [w \in Worker |-> IF w = w1 THEN 1 ELSE 0]
=============================================================================
