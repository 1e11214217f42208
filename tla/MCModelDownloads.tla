-------------------------- MODULE MCModelDownloads --------------------------
(* Instances of ModelDownloads for TLC: all jobs are for one model.         *)
EXTENDS ModelDownloads

CONSTANTS m1

MCModelOf == [j \in Job |-> m1]
=============================================================================
