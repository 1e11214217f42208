----------------------------- MODULE MCChatRuns -----------------------------
(* Instances of ChatRuns for TLC: requests that write in one chat from one  *)
(* process.                                                                 *)
EXTENDS ChatRuns

CONSTANTS p1, s1, u

MCSessionOf == [r \in Run |-> s1]
MCUserOf    == [s \in Session |-> u]
MCOneProc   == [r \in Run |-> p1]
=============================================================================
