------------------------- MODULE MCCompletionLeases -------------------------
(* An instance of CompletionLeases for TLC: an answer and an image of one   *)
(* account, served by one process.                                          *)
EXTENDS CompletionLeases

CONSTANTS a1, i1, p1, u

MCUserOf   == [a \in Answer |-> u]
MCOneProc  == [a \in Answer |-> p1]
MCDrawnOn  == [i \in Image |-> p1]
MCDrawnFor == [i \in Image |-> u]
MCBoth     == {{a1, i1}}
=============================================================================
