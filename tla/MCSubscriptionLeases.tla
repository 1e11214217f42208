------------------------ MODULE MCSubscriptionLeases ------------------------
(* Instances of SubscriptionLeases for TLC: two requests of one person, one *)
(* of them for a chosen account, and two accounts of the pool.              *)
EXTENDS SubscriptionLeases

CONSTANTS r1, r2, a1, a2, u

MCPersonOf == [r \in Request |-> u]
MCAllowed  == [r \in Request |-> IF r = r1 THEN Account ELSE {a1}]
=============================================================================
