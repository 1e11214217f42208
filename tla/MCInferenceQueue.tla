-------------------------- MODULE MCInferenceQueue --------------------------
(* Instances of InferenceQueue for TLC: two processes with the same process *)
(* number, requests of one owner in both, and one of another owner.         *)
EXTENDS InferenceQueue

CONSTANTS r1, r2, vip, p1, p2, u, v

MCProcOf     == [r \in Req |-> IF r = r2 THEN p2 ELSE p1]
MCOwnerOf    == [r \in Req |-> IF r = vip THEN v ELSE u]
MCPriorityOf == [r \in Req |-> IF r = vip THEN 2 ELSE 3]
MCPidOf      == [p \in Proc |-> 7]

MCLocal      == {[r \in Req |-> "local"]}
MCHosted     == {[r \in Req |-> "hosted"]}
MCEither     == MCLocal \cup MCHosted

(* Room for one local and for two hosted requests.                          *)
MCMaxConcurrent == [l \in Lane |-> IF l = "local" THEN 1 ELSE 2]
=============================================================================
