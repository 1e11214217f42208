--------------------------- MODULE LaneAdmission ---------------------------
(***************************************************************************)
(* What admission control promises the rest of BananaChat: in each lane at *)
(* most MaxConcurrent requests use a model at once, at most one of them    *)
(* for the same owner, and a request whose place ended never runs again.   *)
(* How processes agree on this through a database table, what happens when *)
(* they die and how a request waits are the business of InferenceQueue.    *)
(***************************************************************************)
EXTENDS Naturals, FiniteSets

CONSTANTS Req,           \* request ids, one per place asked for
          Lane,          \* the independent lanes
          NoOwner,       \* the owner of a request without owner_key
          OwnerOf,       \* [Req -> owners \cup {NoOwner}]
          MaxConcurrent  \* [Lane -> Nat]

VARIABLES using,         \* [Lane -> SUBSET Req]: who runs now
          over           \* requests that gave their place back

vars == <<using, over>>

Init == /\ using = [l \in Lane |-> {}]
        /\ over = {}

(* r gets a place in lane l. *)
Admit(r, l) ==
    /\ r \notin over
    /\ \A k \in Lane : r \notin using[k]
    /\ Cardinality(using[l]) < MaxConcurrent[l]
    /\ OwnerOf[r] # NoOwner => \A q \in using[l] : OwnerOf[q] # OwnerOf[r]
    /\ using' = [using EXCEPT ![l] = @ \cup {r}]
    /\ UNCHANGED over

(* The requests of S end together: one that finishes, all of a process.    *)
Leave(S) ==
    /\ using' = [l \in Lane |-> using[l] \ S]
    /\ over' = over \cup S

Next == \/ \E r \in Req, l \in Lane : Admit(r, l)
        \/ \E S \in SUBSET Req : Leave(S)

Spec == Init /\ [][Next]_vars
=============================================================================
