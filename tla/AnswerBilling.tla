--------------------------- MODULE AnswerBilling ---------------------------
(***************************************************************************)
(* What every generation promises the account that pays for it: an answer  *)
(* is settled once, for no more than it had produced by then, or it is     *)
(* withdrawn before it produced anything.  Until then it is open: nothing  *)
(* that was begun is forgotten.  ChatRuns and CompletionLeases implement   *)
(* it with leases in the database.                                         *)
(***************************************************************************)
EXTENDS Naturals, Sequences

CONSTANT Answer

VARIABLES used,   \* [Answer -> Nat]: what it has produced
          open,   \* answers that are neither settled nor withdrawn
          closed, \* answers that are one or the other
          bill    \* [Answer -> Seq(Nat)]: what its account was charged

vars == <<used, open, closed, bill>>

Init == /\ used = [a \in Answer |-> 0]
        /\ open = {}
        /\ closed = {}
        /\ bill = [a \in Answer |-> <<>>]

(* Output arrives, also for an answer that was settled meanwhile.           *)
Use(a) == /\ used' = [used EXCEPT ![a] = @ + 1]
          /\ UNCHANGED <<open, closed, bill>>

(* One transaction settles S, withdraws W and opens T.                      *)
Turn(S, W, T) ==
    /\ S \subseteq open /\ W \subseteq open \ S
    /\ T \cap (open \cup closed) = {}
    /\ \A a \in W : used[a] = 0
    /\ open' = (open \ (S \cup W)) \cup T
    /\ closed' = closed \cup S \cup W
    /\ \A a \in Answer \ S : bill'[a] = bill[a]
    /\ \A a \in S : \E n \in 0..used[a] : bill'[a] = <<n>>
    /\ UNCHANGED used

Next == \/ \E a \in Answer : Use(a)
        \/ \E S, W, T \in SUBSET Answer : Turn(S, W, T)

Spec == Init /\ [][Next]_vars
=============================================================================
