---------------------------- MODULE AnswerStream ----------------------------
(***************************************************************************)
(* What a streamed answer promises its reader, whoever produces it and      *)
(* however often the request changes hands: the reader is shown the         *)
(* beginning of one attempt's text, in order and without a gap; it is told  *)
(* that the answer is complete only when it was shown the whole of it; and  *)
(* the local server answers instead only while nothing was shown.           *)
(***************************************************************************)
EXTENDS Naturals, Sequences

CONSTANTS Job, Attempt,
          Size              \* [Attempt -> Nat]: pieces of text an attempt has

VARIABLES shown,  \* [Job -> Seq(Piece)]: what the reader was shown
          result  \* [Job -> how the answer ended, "open" until then]

vars == <<shown, result>>

Text(a) == [k \in 1..Size[a] |-> [att |-> a, seq |-> k - 1]]

Init == /\ shown = [j \in Job |-> <<>>]
        /\ result = [j \in Job |-> "open"]

(* More of the text is shown, or the answer ends, or both.                  *)
Turn(j) ==
    /\ result[j] = "open"
    /\ \/ shown' = shown
       \/ \E a \in Attempt : \E n \in 1..Size[a] :
            /\ n > Len(shown[j])
            /\ shown' = [shown EXCEPT ![j] = SubSeq(Text(a), 1, n)]
            /\ shown[j] = SubSeq(Text(a), 1, Len(shown[j]))
    /\ \E r \in {"open", "done", "local", "error", "cancelled"} :
         /\ result' = [result EXCEPT ![j] = r]
         /\ r = "done" => \E a \in Attempt : shown'[j] = Text(a)
         /\ r = "local" => shown'[j] = <<>>

Next == \E j \in Job : Turn(j)

Spec == Init /\ [][Next]_vars
=============================================================================
