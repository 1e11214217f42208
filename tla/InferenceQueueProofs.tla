------------------------ MODULE InferenceQueueProofs ------------------------
(***************************************************************************)
(* Proofs about InferenceQueue for every set of requests and processes and *)
(* every limit: the table keeps the places of timely processes, and so the *)
(* counts that _try_start takes from the table bound what really runs.     *)
(***************************************************************************)
EXTENDS InferenceQueue, FiniteSetTheorems, TLAPS

(* A kept place is registered by a live thread, its row says what the       *)
(* thread does, and the row is at most the shortened lease plus the time    *)
(* since the last renewal old.  PlaceKept follows, since RenewEvery is not  *)
(* more than Grace; it is not inductive, as it forgets when the supervisor  *)
(* came by last.                                                            *)
Registered == \A r \in held : pc[r] \in Active /\ ProcOf[r] \in live

OnTime == \A p \in Timely : since[p] <= RenewEvery

KeptRow(r) ==
    /\ row[r] = IF pc[r] = "running" THEN "running" ELSE "waiting"
    /\ age[r] <= (Lease - Grace) + since[ProcOf[r]]

IInv == /\ TypeOK
        /\ Registered
        /\ OnTime
        /\ \A r \in Kept : KeptRow(r)

LEMMA InitIInv == Init => IInv
<1> SUFFICES ASSUME Init PROVE IInv
  OBVIOUS
<1>1. TypeOK
  <2>1. 0 \in 0..MaxAge /\ 0 \in 0..MaxDelay
    BY InferenceQueueAssumption DEF MaxAge
  <2> QED
    BY <2>1 DEF Init, TypeOK, Control
<1>2. Registered /\ OnTime /\ \A r \in Kept : KeptRow(r)
  BY InferenceQueueAssumption DEF Init, Registered, OnTime, Kept
<1> QED
  BY <1>1, <1>2 DEF IInv

LEMMA TypeStep == TypeOK /\ [Next]_vars => TypeOK'
<1> SUFFICES ASSUME TypeOK, [Next]_vars PROVE TypeOK'
  OBVIOUS
<1> USE InferenceQueueAssumption, LeaseAssumption DEF TypeOK, Control, Active, Ended
<1>1. ASSUME NEW r \in Req, Enter(r) PROVE TypeOK'
  BY <1>1 DEF Enter, MaxAge
<1>2. ASSUME NEW r \in Req, Refuse(r) PROVE TypeOK'
  BY <1>2 DEF Refuse
<1>3. ASSUME NEW r \in Req, Check(r) PROVE TypeOK'
  BY <1>3 DEF Check
<1>4. ASSUME NEW r \in Req, Start(r) PROVE TypeOK'
  BY <1>4 DEF Start, MaxAge
<1>5. ASSUME NEW r \in Req, StandBack(r) PROVE TypeOK'
  BY <1>5 DEF StandBack
<1>6. ASSUME NEW r \in Req, StartFails(r) PROVE TypeOK'
  BY <1>6 DEF StartFails, DropRows, MaxAge
<1>7. ASSUME NEW r \in Req, LosePlace(r) PROVE TypeOK'
  BY <1>7 DEF LosePlace
<1>8. ASSUME NEW r \in Req, Release(r) PROVE TypeOK'
  BY <1>8 DEF Release, DropRows, MaxAge
<1>9. ASSUME NEW p \in Proc, HandOver(p) PROVE TypeOK'
  BY <1>9 DEF HandOver, DropRows, MaxAge
<1>10. ASSUME NEW p \in Proc, Exit(p) PROVE TypeOK'
  BY <1>10 DEF Exit
<1>11. ASSUME NEW p \in Proc, ChildExit(p) PROVE TypeOK'
  BY <1>11 DEF ChildExit, OrphanAge, MaxAge
<1>12. ASSUME NEW p \in Proc, Renew(p) PROVE TypeOK'
  BY <1>12 DEF Renew, MaxAge
<1>13. ASSUME Tick PROVE TypeOK'
  BY <1>13 DEF Tick, MaxAge
<1>14. ASSUME MemoryChanges PROVE TypeOK'
  BY <1>14 DEF MemoryChanges
<1>15. ASSUME UNCHANGED vars PROVE TypeOK'
  BY <1>15 DEF vars
<1> QED
  BY <1>1, <1>2, <1>3, <1>4, <1>5, <1>6, <1>7, <1>8, <1>9, <1>10, <1>11, <1>12,
     <1>13, <1>14, <1>15 DEF Next
(* Every step keeps the strengthening, given that it keeps the types.       *)
LEMMA StepIInv == IInv /\ [Next]_vars => IInv'
<1> SUFFICES ASSUME IInv, [Next]_vars PROVE IInv'
  OBVIOUS
<1>0. TypeOK'
  BY TypeStep DEF IInv
<1> DEFINE Rest == Registered /\ OnTime /\ \A k \in Kept : KeptRow(k)
<1> SUFFICES Rest'
  BY <1>0 DEF IInv
<1> USE InferenceQueueAssumption, LeaseAssumption DEF IInv, TypeOK, Registered, OnTime, Kept, KeptRow
<1>1. ASSUME NEW r \in Req, Enter(r) PROVE Rest'
  BY <1>0, <1>1 DEF Enter, Stale, Active
<1>2. ASSUME NEW r \in Req, Refuse(r) PROVE Rest'
  BY <1>0, <1>2 DEF Refuse, Active
<1>3. ASSUME NEW r \in Req, Check(r) PROVE Rest'
  BY <1>0, <1>3 DEF Check, Active
<1>4. ASSUME NEW r \in Req, Start(r) PROVE Rest'
  BY <1>0, <1>4 DEF Start, Active
<1>5. ASSUME NEW r \in Req, StandBack(r) PROVE Rest'
  BY <1>0, <1>5 DEF StandBack, Active
<1>6. ASSUME NEW r \in Req, StartFails(r) PROVE Rest'
  BY <1>0, <1>6 DEF StartFails, DropRows, Active
<1>7. ASSUME NEW r \in Req, LosePlace(r) PROVE Rest'
  BY <1>0, <1>7 DEF LosePlace, Active
<1>8. ASSUME NEW r \in Req, Release(r) PROVE Rest'
  BY <1>0, <1>8 DEF Release, DropRows, Active
<1>9. ASSUME NEW p \in Proc, HandOver(p) PROVE Rest'
  BY <1>0, <1>9 DEF HandOver, DropRows, Holding, Active
<1>10. ASSUME NEW p \in Proc, Exit(p) PROVE Rest'
  BY <1>0, <1>10 DEF Exit, Holding, Active
<1>11. ASSUME NEW p \in Proc, ChildExit(p) PROVE Rest'
  BY <1>0, <1>11 DEF ChildExit, OrphanAge, Active
<1>12. ASSUME NEW p \in Proc, Renew(p) PROVE Rest'
  BY <1>0, <1>12 DEF Renew, Holding, Active
<1>13. ASSUME Tick PROVE Rest'
  BY <1>0, <1>13 DEF Tick, Active
<1>14. ASSUME MemoryChanges PROVE Rest'
  BY <1>0, <1>14 DEF MemoryChanges, Active
<1>15. ASSUME UNCHANGED vars PROVE Rest'
  BY <1>15 DEF vars
<1> QED
  BY <1>1, <1>2, <1>3, <1>4, <1>5, <1>6, <1>7, <1>8, <1>9, <1>10, <1>11, <1>12, <1>13, <1>14, <1>15 DEF Next
LEMMA IInvPlaceKept == IInv => PlaceKept
  BY InferenceQueueAssumption, LeaseAssumption
  DEF IInv, TypeOK, OnTime, Kept, KeptRow, PlaceKept

LEMMA IInvAlways == Spec => []IInv
<1>1. Init => IInv
  BY InitIInv
<1>2. IInv /\ [Next]_vars => IInv'
  BY StepIInv
<1> QED
  BY <1>1, <1>2, PTL DEF Spec

(* The state variables keep their types.                                    *)
THEOREM TypeCorrect == Spec => []TypeOK
<1>1. IInv => TypeOK
  BY DEF IInv
<1> QED
  BY <1>1, IInvAlways, PTL

(* queue.py keeps the row of every request that a timely process has in the *)
(* queue, and the row counts: no purge, hand-over, crash or child_exit      *)
(* elsewhere takes it.                                                      *)
THEOREM PlacesAreKept == Spec => []PlaceKept
  BY IInvPlaceKept, IInvAlways, PTL

-----------------------------------------------------------------------------
(* What really runs in a lane is among the rows that _running counts,       *)
(* however old the cutoff.                                                  *)
LEMMA UsingCounted ==
    ASSUME IInv, NEW l \in Lane, NEW e \in Nat
    PROVE  UsingLane(l) \subseteq Counted(l, e)
<1> SUFFICES ASSUME NEW q \in UsingLane(l) PROVE q \in Counted(l, e)
  OBVIOUS
<1>1. q \in Req /\ q \in Kept /\ pc[q] = "running" /\ lane[q] = l
  BY DEF UsingLane, Kept, IInv, TypeOK
<1>2. row[q] = "running" /\ age[q] <= Lease
  BY <1>1, IInvPlaceKept DEF PlaceKept
<1>3. age[q] <= Lease + e
  BY <1>1, <1>2, InferenceQueueAssumption DEF IInv, TypeOK, MaxAge
<1> QED
  BY <1>1, <1>2, <1>3 DEF Counted, Fresh

LEMMA FiniteCounted ==
    \A l, e : IsFiniteSet(Counted(l, e)) /\ IsFiniteSet(UsingLane(l) \cap Req)
<1> TAKE l, e
<1>1. Counted(l, e) \subseteq Req /\ (UsingLane(l) \cap Req) \subseteq Req
  BY DEF Counted
<1> QED
  BY <1>1, FS_Subset, InferenceQueueAssumption

(* Only Start lets a request use a lane.                                    *)
LEMMA OnlyStartUses ==
    ASSUME IInv, NEW l \in Lane, [Next]_vars
    PROVE  \/ UsingLane(l)' \subseteq UsingLane(l)
           \/ \E r \in Kept : Start(r) /\ lane[r] = l
<1> SUFFICES ASSUME \A r \in Kept : ~(Start(r) /\ lane[r] = l)
             PROVE  UsingLane(l)' \subseteq UsingLane(l)
  OBVIOUS
<1> USE InferenceQueueAssumption DEF IInv, TypeOK, UsingLane, Kept
<1>1. ASSUME NEW r \in Req, Enter(r) PROVE UsingLane(l)' \subseteq UsingLane(l)
  BY <1>1 DEF Enter
<1>2. ASSUME NEW r \in Req, Refuse(r) PROVE UsingLane(l)' \subseteq UsingLane(l)
  BY <1>2 DEF Refuse
<1>3. ASSUME NEW r \in Req, Check(r) PROVE UsingLane(l)' \subseteq UsingLane(l)
  BY <1>3 DEF Check
<1>4. ASSUME NEW r \in Req, Start(r) PROVE UsingLane(l)' \subseteq UsingLane(l)
  BY <1>4 DEF Start
<1>5. ASSUME NEW r \in Req, StandBack(r) PROVE UsingLane(l)' \subseteq UsingLane(l)
  BY <1>5 DEF StandBack
<1>6. ASSUME NEW r \in Req, StartFails(r) PROVE UsingLane(l)' \subseteq UsingLane(l)
  BY <1>6 DEF StartFails
<1>7. ASSUME NEW r \in Req, LosePlace(r) PROVE UsingLane(l)' \subseteq UsingLane(l)
  BY <1>7 DEF LosePlace
<1>8. ASSUME NEW r \in Req, Release(r) PROVE UsingLane(l)' \subseteq UsingLane(l)
  BY <1>8 DEF Release
<1>9. ASSUME NEW p \in Proc, HandOver(p) PROVE UsingLane(l)' \subseteq UsingLane(l)
  BY <1>9 DEF HandOver
<1>10. ASSUME NEW p \in Proc, Exit(p) PROVE UsingLane(l)' \subseteq UsingLane(l)
  BY <1>10 DEF Exit
<1>11. ASSUME NEW p \in Proc, ChildExit(p) PROVE UsingLane(l)' \subseteq UsingLane(l)
  BY <1>11 DEF ChildExit
<1>12. ASSUME NEW p \in Proc, Renew(p) PROVE UsingLane(l)' \subseteq UsingLane(l)
  BY <1>12 DEF Renew
<1>13. ASSUME Tick PROVE UsingLane(l)' \subseteq UsingLane(l)
  BY <1>13 DEF Tick
<1>14. ASSUME MemoryChanges PROVE UsingLane(l)' \subseteq UsingLane(l)
  BY <1>14 DEF MemoryChanges
<1>15. ASSUME UNCHANGED vars PROVE UsingLane(l)' \subseteq UsingLane(l)
  BY <1>15 DEF vars
<1> QED
  BY <1>1, <1>2, <1>3, <1>4, <1>5, <1>6, <1>7, <1>8, <1>9, <1>10, <1>11, <1>12,
     <1>13, <1>14, <1>15 DEF Next
-----------------------------------------------------------------------------
(* An admission adds one request to a lane with room.                       *)
LEMMA StartAdmits ==
    ASSUME IInv, NEW r \in Kept, Start(r)
    PROVE  /\ r \in Req /\ r \notin UsingLane(lane[r])
           /\ \A l \in Lane : UsingLane(l)' =
                IF l = lane[r] THEN UsingLane(l) \cup {r} ELSE UsingLane(l)
           /\ Cardinality(UsingLane(lane[r])) < MaxConcurrent[lane[r]]
           /\ OwnerOf[r] # NoOwner =>
                \A q \in UsingLane(lane[r]) : OwnerOf[q] # OwnerOf[r]
<1> DEFINE m == lane[r]
<1>1. r \in Req /\ pc[r] = "starting" /\ m \in Lane /\ elapsed[r] \in Nat
  <2>1. r \in Req /\ pc[r] = "starting"
    BY DEF Start, Kept, IInv, TypeOK
  <2>2. m \in Lane
    BY <2>1, InferenceQueueAssumption DEF IInv, TypeOK
  <2>3. elapsed[r] \in 0..MaxDelay
    BY <2>1 DEF IInv, TypeOK
  <2> QED
    BY <2>1, <2>2, <2>3, InferenceQueueAssumption
<1>2. r \notin UsingLane(m)
  BY <1>1 DEF UsingLane
<1>3. \A l \in Lane : UsingLane(l)' =
         IF l = m THEN UsingLane(l) \cup {r} ELSE UsingLane(l)
  BY <1>1 DEF Start, UsingLane, Kept, IInv, TypeOK
<1>4. Cardinality(UsingLane(m)) < MaxConcurrent[m]
  <2>1. UsingLane(m) \subseteq Counted(m, elapsed[r])
    BY <1>1, UsingCounted
  <2>2. IsFiniteSet(Counted(m, elapsed[r]))
    BY FiniteCounted
  <2>3. /\ Cardinality(UsingLane(m)) <= Cardinality(Counted(m, elapsed[r]))
        /\ IsFiniteSet(UsingLane(m))
    BY <2>1, <2>2, FS_Subset
  <2>4. Cardinality(Counted(m, elapsed[r])) < MaxConcurrent[m]
    BY DEF Start, Admissible, HasRoom
  <2>5. /\ Cardinality(UsingLane(m)) \in Nat
        /\ Cardinality(Counted(m, elapsed[r])) \in Nat
        /\ MaxConcurrent[m] \in Nat
    BY <1>1, <2>2, <2>3, FS_CardinalityType, InferenceQueueAssumption
  <2> QED
    BY <2>3, <2>4, <2>5
<1>5. ASSUME OwnerOf[r] # NoOwner, NEW q \in UsingLane(m)
      PROVE  OwnerOf[q] # OwnerOf[r]
  <2>1. q \in Req \ {r} /\ q \in Kept /\ pc[q] = "running" /\ lane[q] = m
    BY <1>2 DEF UsingLane, Kept, IInv, TypeOK
  <2>2. row[q] = "running"
    BY <2>1, IInvPlaceKept DEF PlaceKept
  <2> QED
    BY <1>5, <2>1, <2>2 DEF Start, IndexConflict
<1> QED
  BY <1>1, <1>2, <1>3, <1>4, <1>5

LEMMA CapacityStep == IInv /\ Capacity /\ [Next]_vars => Capacity'
<1> SUFFICES ASSUME IInv, Capacity, [Next]_vars, NEW l \in Lane
             PROVE  Cardinality(UsingLane(l)') <= MaxConcurrent[l]
  BY DEF Capacity
<1>1. UsingLane(l) \subseteq Req
  BY DEF UsingLane, Kept, IInv, TypeOK
<1>2. IsFiniteSet(UsingLane(l)) /\ Cardinality(UsingLane(l)) \in Nat
  BY <1>1, FS_Subset, FS_CardinalityType, InferenceQueueAssumption
<1>3. MaxConcurrent[l] \in Nat
  BY InferenceQueueAssumption
<1>4. CASE UsingLane(l)' \subseteq UsingLane(l)
  <2>1. Cardinality(UsingLane(l)') <= Cardinality(UsingLane(l))
        /\ Cardinality(UsingLane(l)') \in Nat
    BY <1>2, <1>4, FS_Subset, FS_CardinalityType
  <2> QED
    BY <1>2, <1>3, <2>1 DEF Capacity
<1>5. ASSUME NEW r \in Kept, Start(r), lane[r] = l
      PROVE  Cardinality(UsingLane(l)') <= MaxConcurrent[l]
  <2>1. /\ r \notin UsingLane(l) /\ UsingLane(l)' = UsingLane(l) \cup {r}
        /\ Cardinality(UsingLane(l)) < MaxConcurrent[l]
    BY <1>5, StartAdmits
  <2>2. Cardinality(UsingLane(l) \cup {r}) = Cardinality(UsingLane(l)) + 1
    BY <1>2, <2>1, FS_AddElement
  <2> QED
    BY <1>2, <1>3, <2>1, <2>2
<1> QED
  BY <1>4, <1>5, OnlyStartUses

(* At most MaxConcurrent requests of a lane really run (queue.py, module    *)
(* docstring), for any number of processes and any interleaving of their    *)
(* admissions.                                                              *)
THEOREM LanesKeepTheirCap == Spec => []Capacity
<1>1. Init => Capacity
  <2> SUFFICES ASSUME Init, NEW l \in Lane
               PROVE  Cardinality(UsingLane(l)) <= MaxConcurrent[l]
    BY DEF Capacity
  <2>1. UsingLane(l) = {}
    BY DEF Init, UsingLane, Kept
  <2> QED
    BY <2>1, FS_EmptySet, InferenceQueueAssumption
<1> QED
  BY <1>1, CapacityStep, IInvAlways, PTL DEF Spec

-----------------------------------------------------------------------------
(* The step simulation.  What leaves the lanes is what a step adds to Over. *)

LEMMA LanesLeave ==
    ASSUME IInv, [Next]_vars, \A r \in Kept : ~Start(r)
    PROVE  /\ \A l \in Lane : UsingLane(l)' = UsingLane(l) \ (Over' \ Over)
           /\ Over \subseteq Over'
           /\ Over' \subseteq Req
<1> USE InferenceQueueAssumption
    DEF IInv, TypeOK, Registered, UsingLane, Kept, Over, Active, Ended
<1> DEFINE Goal == /\ \A l \in Lane :
                         UsingLane(l)' = UsingLane(l) \ (Over' \ Over)
                   /\ Over \subseteq Over'
                   /\ Over' \subseteq Req
<1>1. ASSUME NEW r \in Req, Enter(r) PROVE Goal
  BY <1>1 DEF Enter
<1>2. ASSUME NEW r \in Req, Refuse(r) PROVE Goal
  BY <1>2 DEF Refuse
<1>3. ASSUME NEW r \in Req, Check(r) PROVE Goal
  BY <1>3 DEF Check
<1>4. ASSUME NEW r \in Req, Start(r) PROVE Goal
  BY <1>4 DEF Start
<1>5. ASSUME NEW r \in Req, StandBack(r) PROVE Goal
  BY <1>5 DEF StandBack
<1>6. ASSUME NEW r \in Req, StartFails(r) PROVE Goal
  BY <1>6 DEF StartFails
<1>7. ASSUME NEW r \in Req, LosePlace(r) PROVE Goal
  BY <1>7 DEF LosePlace
<1>8. ASSUME NEW r \in Req, Release(r) PROVE Goal
  BY <1>8 DEF Release
<1>9. ASSUME NEW p \in Proc, HandOver(p) PROVE Goal
  BY <1>9 DEF HandOver, Holding
<1>10. ASSUME NEW p \in Proc, Exit(p) PROVE Goal
  BY <1>10 DEF Exit, Holding
<1>11. ASSUME NEW p \in Proc, ChildExit(p) PROVE Goal
  BY <1>11 DEF ChildExit
<1>12. ASSUME NEW p \in Proc, Renew(p) PROVE Goal
  BY <1>12 DEF Renew
<1>13. ASSUME Tick PROVE Goal
  BY <1>13 DEF Tick
<1>14. ASSUME MemoryChanges PROVE Goal
  BY <1>14 DEF MemoryChanges
<1>15. ASSUME UNCHANGED vars PROVE Goal
  BY <1>15 DEF vars
<1> QED
  BY <1>1, <1>2, <1>3, <1>4, <1>5, <1>6, <1>7, <1>8, <1>9, <1>10, <1>11, <1>12,
     <1>13, <1>14, <1>15 DEF Next

LEMMA SameCardinality == \A S : LA!Cardinality(S) = Cardinality(S)
  BY Zenon DEF LA!Cardinality, Cardinality

LEMMA StepRefines == IInv /\ [Next]_vars => [LA!Next]_LA!vars
<1> SUFFICES ASSUME IInv, [Next]_vars PROVE LA!Next
  BY DEF LA!Next
<1> DEFINE lanes == [l \in Lane |-> UsingLane(l)]
<1>1. CASE \E r \in Kept : Start(r)
  <2>1. PICK r \in Kept : Start(r)
    BY <1>1
  <2> DEFINE m == lane[r]
  <2>2. r \in Req /\ m \in Lane /\ pc[r] = "starting" /\ r \in held
    BY <2>1, InferenceQueueAssumption DEF Start, Kept, IInv, TypeOK
  <2>3. r \notin Over /\ \A k \in Lane : r \notin lanes[k]
    BY <2>2 DEF Over, Ended, UsingLane
  <2>4. /\ Cardinality(lanes[m]) < MaxConcurrent[m]
        /\ OwnerOf[r] # NoOwner => \A q \in lanes[m] : OwnerOf[q] # OwnerOf[r]
        /\ \A l \in Lane : UsingLane(l)' =
             IF l = m THEN UsingLane(l) \cup {r} ELSE UsingLane(l)
    BY <2>1, <2>2, StartAdmits
  <2>5. lanes' = [lanes EXCEPT ![m] = @ \cup {r}]
    BY <2>4
  <2>6. Over' = Over
    BY <2>1, <2>2 DEF Start, Over, Ended, IInv, TypeOK
  <2>7. LA!Admit(r, m)
    BY <2>2, <2>3, <2>4, <2>5, <2>6, SameCardinality DEF LA!Admit
  <2> QED
    BY <2>2, <2>7 DEF LA!Next
<1>2. CASE \A r \in Kept : ~Start(r)
  <2> DEFINE S == Over' \ Over
  <2>1. /\ \A l \in Lane : UsingLane(l)' = UsingLane(l) \ S
        /\ Over' = Over \cup S /\ S \in SUBSET Req
    BY <1>2, LanesLeave
  <2>2. lanes' = [l \in Lane |-> lanes[l] \ S]
    BY <2>1
  <2>3. LA!Leave(S)
    BY <2>1, <2>2 DEF LA!Leave
  <2> QED
    BY <2>1, <2>3 DEF LA!Next
<1> QED
  BY <1>1, <1>2

(* The table, the supervisor and the gunicorn hooks together implement the  *)
(* promise of LaneAdmission: caps, one running request per owner and lane,  *)
(* and no request that runs again once its place ended.                     *)
THEOREM QueueImplementsLanes == Spec => ImplementsLaneAdmission
<1>1. Init => LA!Init
  BY DEF Init, LA!Init, UsingLane, Kept, Over, Ended
<1> QED
  BY <1>1, StepRefines, IInvAlways, PTL DEF Spec, LA!Spec, ImplementsLaneAdmission

-----------------------------------------------------------------------------
(* Owners.  Of two places that really run, one was admitted while the row   *)
(* of the other was in the unique index.                                    *)
LEMMA OwnersStep == IInv /\ OneRunningPerOwner /\ [Next]_vars => OneRunningPerOwner'
<1> SUFFICES ASSUME IInv, OneRunningPerOwner, [Next]_vars
             PROVE  OneRunningPerOwner'
  OBVIOUS
<1> SUFFICES \A l \in Lane : \A r, q \in UsingLane(l)' :
               ~(r # q /\ OwnerOf[r] # NoOwner /\ OwnerOf[r] = OwnerOf[q])
  <2>1. TypeOK'
    BY TypeStep DEF IInv
  <2>2. ASSUME NEW r \in Kept' PROVE lane'[r] \in Lane
    BY <2>1, InferenceQueueAssumption DEF TypeOK, Kept
  <2> QED
    BY <2>2 DEF OneRunningPerOwner, UsingLane
<1> TAKE l \in Lane
<1> SUFFICES ASSUME NEW r \in UsingLane(l)', NEW q \in UsingLane(l)', r # q,
                    OwnerOf[r] # NoOwner, OwnerOf[r] = OwnerOf[q]
             PROVE  FALSE
  OBVIOUS
<1>1. ~(r \in UsingLane(l) /\ q \in UsingLane(l))
  BY DEF OneRunningPerOwner, UsingLane
<1>2. CASE UsingLane(l)' \subseteq UsingLane(l)
  BY <1>1, <1>2
<1>3. ASSUME NEW x \in Kept, Start(x), lane[x] = l PROVE FALSE
  <2>1. /\ UsingLane(l)' = UsingLane(l) \cup {x}
        /\ OwnerOf[x] # NoOwner => \A y \in UsingLane(l) : OwnerOf[y] # OwnerOf[x]
    BY <1>3, StartAdmits
  <2> QED
    BY <1>1, <2>1
<1> QED
  BY <1>2, <1>3, OnlyStartUses

(* An owner has one running request per lane, whatever process or surface   *)
(* it uses (idx_inference_owner_running).                                   *)
THEOREM OwnersRunOnce == Spec => []OneRunningPerOwner
<1>1. Init => OneRunningPerOwner
  BY DEF Init, OneRunningPerOwner, Kept
<1> QED
  BY <1>1, OwnersStep, IInvAlways, PTL DEF Spec

-----------------------------------------------------------------------------
(* The limits of Slot.__enter__.  Only Enter adds a row to the table.       *)
Rows == {q \in Req : row[q] # "none"}

LEMMA OnlyEnterAddsRows ==
    ASSUME TypeOK, [Next]_vars, \A r \in Req : ~Enter(r)
    PROVE  Rows' \subseteq Rows /\ lane' = lane
<1> USE DEF TypeOK, Rows
<1>1. ASSUME NEW r \in Req, \/ Refuse(r) \/ Check(r) \/ StandBack(r) \/ LosePlace(r)
      PROVE  Rows' \subseteq Rows /\ lane' = lane
  BY <1>1 DEF Refuse, Check, StandBack, LosePlace
<1>2. ASSUME NEW r \in Req, Start(r) PROVE Rows' \subseteq Rows /\ lane' = lane
  BY <1>2 DEF Start, Admissible, IsNext, Eligible
<1>3. ASSUME NEW r \in Req, StartFails(r) PROVE Rows' \subseteq Rows /\ lane' = lane
  BY <1>3 DEF StartFails, DropRows
<1>4. ASSUME NEW r \in Req, Release(r) PROVE Rows' \subseteq Rows /\ lane' = lane
  BY <1>4 DEF Release, DropRows
<1>5. ASSUME NEW p \in Proc, HandOver(p) PROVE Rows' \subseteq Rows /\ lane' = lane
  BY <1>5 DEF HandOver, DropRows
<1>6. ASSUME NEW p \in Proc, Exit(p) \/ ChildExit(p) \/ Renew(p)
      PROVE  Rows' \subseteq Rows /\ lane' = lane
  BY <1>6 DEF Exit, ChildExit, Renew
<1>7. ASSUME Tick \/ MemoryChanges PROVE Rows' \subseteq Rows /\ lane' = lane
  BY <1>7 DEF Tick, MemoryChanges
<1>8. ASSUME UNCHANGED vars PROVE Rows' \subseteq Rows /\ lane' = lane
  BY <1>8 DEF vars
<1> QED
  BY <1>1, <1>2, <1>3, <1>4, <1>5, <1>6, <1>7, <1>8 DEF Next

(* A set that is no larger than n, or one element larger than one smaller   *)
(* than n.                                                                  *)
LEMMA StaysWithin ==
    ASSUME NEW S, NEW T, IsFiniteSet(S), NEW n \in Nat,
           \/ T \subseteq S /\ Cardinality(S) <= n
           \/ \E x : T \subseteq S \cup {x} /\ Cardinality(S) < n
    PROVE  Cardinality(T) <= n
<1>1. Cardinality(S) \in Nat
  BY FS_CardinalityType
<1>2. CASE T \subseteq S /\ Cardinality(S) <= n
  <2>1. Cardinality(T) <= Cardinality(S) /\ IsFiniteSet(T)
    BY <1>2, FS_Subset
  <2>2. Cardinality(T) \in Nat
    BY <2>1, FS_CardinalityType
  <2> QED
    BY <1>1, <1>2, <2>1, <2>2
<1>3. ASSUME NEW x, T \subseteq S \cup {x}, Cardinality(S) < n
      PROVE  Cardinality(T) <= n
  <2>1. /\ IsFiniteSet(S \cup {x})
        /\ Cardinality(S \cup {x}) = IF x \in S THEN Cardinality(S)
                                     ELSE Cardinality(S) + 1
    BY FS_AddElement
  <2>2. Cardinality(T) <= Cardinality(S \cup {x}) /\ IsFiniteSet(T)
    BY <1>3, <2>1, FS_Subset
  <2>3. Cardinality(T) \in Nat /\ Cardinality(S \cup {x}) \in Nat
    BY <2>1, <2>2, FS_CardinalityType
  <2> QED
    BY <1>1, <1>3, <2>1, <2>2, <2>3
<1> QED
  BY <1>2, <1>3

LEMMA FiniteRows ==
    /\ \A l, D : IsFiniteSet(LaneRows(l, D))
    /\ \A r, D : IsFiniteSet(OwnerRows(r, D))
<1>1. \A l, D : LaneRows(l, D) \subseteq Req
  BY DEF LaneRows
<1>2. \A r, D : OwnerRows(r, D) \subseteq Req
  BY DEF LaneRows, OwnerRows
<1> QED
  BY <1>1, <1>2, FS_Subset, InferenceQueueAssumption

LEMMA LimitsStep == TypeOK /\ AdmissionLimits /\ [Next]_vars => AdmissionLimits'
<1> SUFFICES ASSUME TypeOK, AdmissionLimits, [Next]_vars PROVE AdmissionLimits'
  OBVIOUS
<1>0. MaxDepth \in Nat /\ MaxPerOwner \in Nat
  BY InferenceQueueAssumption
<1>1. CASE \A r \in Req : ~Enter(r)
  <2>1. Rows' \subseteq Rows /\ lane' = lane
    BY <1>1, OnlyEnterAddsRows
  <2>2. ASSUME NEW l \in Lane PROVE Cardinality(LaneRows(l, {})') <= MaxDepth
    <3>1. LaneRows(l, {})' \subseteq LaneRows(l, {})
      BY <2>1 DEF LaneRows, Rows
    <3>2. Cardinality(LaneRows(l, {})) <= MaxDepth
      BY DEF AdmissionLimits
    <3> QED
      BY <1>0, <3>1, <3>2, FiniteRows, StaysWithin
  <2>3. ASSUME NEW q \in Req, OwnerOf[q] # NoOwner
        PROVE  Cardinality(OwnerRows(q, {})') <= MaxPerOwner
    <3>1. OwnerRows(q, {})' \subseteq OwnerRows(q, {})
      BY <2>1 DEF OwnerRows, LaneRows, Rows
    <3>2. Cardinality(OwnerRows(q, {})) <= MaxPerOwner
      BY <2>3 DEF AdmissionLimits
    <3> QED
      BY <1>0, <3>1, <3>2, FiniteRows, StaysWithin
  <2> QED
    BY <2>2, <2>3 DEF AdmissionLimits
<1>2. ASSUME NEW r \in Req, Enter(r) PROVE AdmissionLimits'
  <2>1. /\ lane' = lane /\ ~Full(r, Stale)
        /\ row' = [q \in Req |-> IF q = r THEN "waiting"
                                 ELSE IF q \in Stale THEN "none" ELSE row[q]]
    BY <1>2 DEF Enter
  <2>2. ASSUME NEW l \in Lane PROVE Cardinality(LaneRows(l, {})') <= MaxDepth
    <3>1. CASE l = lane[r]
      <4>1. LaneRows(l, {})' \subseteq LaneRows(l, Stale) \cup {r}
        BY <2>1 DEF LaneRows
      <4>2. ~(Cardinality(LaneRows(l, Stale)) >= MaxDepth)
        BY <2>1, <3>1 DEF Full
      <4>3. Cardinality(LaneRows(l, Stale)) \in Nat
        BY FiniteRows, FS_CardinalityType
      <4>4. Cardinality(LaneRows(l, Stale)) < MaxDepth
        BY <1>0, <4>2, <4>3
      <4> QED
        BY <1>0, <4>1, <4>4, FiniteRows, StaysWithin
    <3>2. CASE l # lane[r]
      <4>1. LaneRows(l, {})' \subseteq LaneRows(l, {})
        BY <2>1, <3>2 DEF LaneRows
      <4>2. Cardinality(LaneRows(l, {})) <= MaxDepth
        BY DEF AdmissionLimits
      <4> QED
        BY <1>0, <4>1, <4>2, FiniteRows, StaysWithin
    <3> QED
      BY <3>1, <3>2
  <2>3. ASSUME NEW q \in Req, OwnerOf[q] # NoOwner
        PROVE  Cardinality(OwnerRows(q, {})') <= MaxPerOwner
    <3>1. CASE lane[q] = lane[r] /\ OwnerOf[q] = OwnerOf[r]
      <4>1. OwnerRows(q, {})' \subseteq OwnerRows(r, Stale) \cup {r}
        BY <2>1, <3>1 DEF OwnerRows, LaneRows
      <4>2. ~(Cardinality(OwnerRows(r, Stale)) >= MaxPerOwner)
        BY <2>1, <2>3, <3>1 DEF Full
      <4>3. Cardinality(OwnerRows(r, Stale)) \in Nat
        BY FiniteRows, FS_CardinalityType
      <4>4. Cardinality(OwnerRows(r, Stale)) < MaxPerOwner
        BY <1>0, <4>2, <4>3
      <4> QED
        BY <1>0, <4>1, <4>4, FiniteRows, StaysWithin
    <3>2. CASE ~(lane[q] = lane[r] /\ OwnerOf[q] = OwnerOf[r])
      <4>1. OwnerRows(q, {})' \subseteq OwnerRows(q, {})
        BY <2>1, <3>2 DEF OwnerRows, LaneRows
      <4>2. Cardinality(OwnerRows(q, {})) <= MaxPerOwner
        BY <2>3 DEF AdmissionLimits
      <4> QED
        BY <1>0, <4>1, <4>2, FiniteRows, StaysWithin
    <3> QED
      BY <3>1, <3>2
  <2> QED
    BY <2>2, <2>3 DEF AdmissionLimits
<1> QED
  BY <1>1, <1>2

(* The table never holds more rows of a lane than BC_MAX_QUEUE_DEPTH, nor   *)
(* of an owner in a lane than MAX_PER_OWNER (Slot.__enter__).               *)
THEOREM LimitsAreKept == Spec => []AdmissionLimits
<1>1. Init => AdmissionLimits
  <2> SUFFICES ASSUME Init PROVE AdmissionLimits
    OBVIOUS
  <2>1. (\A l \in Lane : LaneRows(l, {}) = {}) /\ (\A r \in Req : OwnerRows(r, {}) = {})
    BY DEF Init, LaneRows, OwnerRows
  <2>2. Cardinality({}) = 0 /\ 0 <= MaxDepth /\ 0 <= MaxPerOwner
    BY FS_EmptySet, InferenceQueueAssumption
  <2> QED
    BY <2>1, <2>2, Zenon DEF AdmissionLimits
<1> QED
  BY <1>1, LimitsStep, TypeCorrect, PTL DEF Spec

-----------------------------------------------------------------------------
(* Order.  A kept place that waits in front of an admitted one was not      *)
(* eligible, and lane and memory were the same for both.                    *)
LEMMA OvertakingStep ==
    ASSUME IInv, [Next]_vars, NEW r \in Req, NEW q \in Req,
           pc[r] # "running", pc'[r] = "running",
           q \in Kept \ {r}, pc[q] \in {"waiting", "starting"},
           lane[q] = lane[r], Before(q, r)
    PROVE  \E o \in Req : /\ row[o] = "running" /\ lane[o] = lane[q]
                          /\ OwnerOf[o] = OwnerOf[q]
<1>1. Start(r)
  <2> USE DEF IInv, TypeOK, Active, Ended
  <2>1. ASSUME NEW x \in Req,
               \/ Enter(x) \/ Refuse(x) \/ Check(x) \/ StandBack(x)
               \/ StartFails(x) \/ LosePlace(x) \/ Release(x)
        PROVE  FALSE
    BY <2>1 DEF Enter, Refuse, Check, StandBack, StartFails, LosePlace, Release
  <2>2. ASSUME NEW p \in Proc, HandOver(p) \/ Exit(p) \/ ChildExit(p) \/ Renew(p)
        PROVE  FALSE
    BY <2>2 DEF HandOver, Exit, ChildExit, Renew
  <2>3. ASSUME Tick \/ MemoryChanges \/ UNCHANGED vars PROVE FALSE
    BY <2>3 DEF Tick, MemoryChanges, vars
  <2>4. PICK x \in Req : Start(x)
    BY <2>1, <2>2, <2>3 DEF Next
  <2>5. x = r
    BY <2>4 DEF Start
  <2> QED
    BY <2>4, <2>5
<1> DEFINE e == elapsed[r]
<1>2. /\ e \in Nat /\ r \in Eligible(lane[r], e)
      /\ \A x \in Eligible(lane[r], e) \ {r} : Before(r, x)
  BY <1>1, InferenceQueueAssumption DEF Start, Admissible, IsNext, IInv, TypeOK
<1>3. ~Before(r, q)
  <2>1. PriorityOf[r] \in Nat /\ PriorityOf[q] \in Nat
    BY InferenceQueueAssumption
  <2>2. seq[r] \in Nat /\ seq[q] \in Nat
    BY DEF IInv, TypeOK
  <2> QED
    BY <2>1, <2>2 DEF Before
<1>4. q \notin Eligible(lane[r], e)
  BY <1>2, <1>3
<1>5. row[q] = "waiting" /\ age[q] <= Lease + e
  <2>1. row[q] = "waiting" /\ age[q] <= Lease
    BY IInvPlaceKept DEF PlaceKept
  <2>2. age[q] \in Nat /\ Lease \in Nat
    BY InferenceQueueAssumption DEF IInv, TypeOK, MaxAge
  <2> QED
    BY <1>2, <2>1, <2>2
<1>6. OwnerBusy(q, e)
  BY <1>2, <1>4, <1>5 DEF Eligible, Fresh
<1> QED
  BY <1>6 DEF OwnerBusy, Counted

(* A request starts before one that waits in front of it only when the      *)
(* owner of that one already has a running row in the lane (_is_next).      *)
THEOREM OrderIsKept == Spec => NoOvertaking
<1> DEFINE InOrder ==
      \A r, q \in Req :
         (/\ pc[r] # "running" /\ pc'[r] = "running"
          /\ q \in Kept \ {r} /\ pc[q] \in {"waiting", "starting"}
          /\ lane[q] = lane[r] /\ Before(q, r))
         => \E o \in Req : /\ row[o] = "running" /\ lane[o] = lane[q]
                           /\ OwnerOf[o] = OwnerOf[q]
<1>1. IInv /\ [Next]_vars => [InOrder]_vars
  BY OvertakingStep
<1> QED
  BY <1>1, IInvAlways, PTL DEF Spec, NoOvertaking

-----------------------------------------------------------------------------
(* A row whose thread ended and that stopped counting never counts again:   *)
(* expire_process only shortens leases, and nobody renews what is not       *)
(* registered.                                                              *)
LEMMA LapsedStep ==
    ASSUME IInv, [Next]_vars, NEW r \in Req,
           pc[r] \in Ended, row[r] # "none", age[r] > Lease
    PROVE  row'[r] = "none" \/ age'[r] > Lease
<1> DEFINE Goal == row'[r] = "none" \/ age'[r] > Lease
<1> USE DEF IInv, TypeOK, Ended
<1>1. ASSUME NEW x \in Req, Enter(x) PROVE Goal
  BY <1>1 DEF Enter, Stale
<1>2. ASSUME NEW x \in Req, Refuse(x) \/ Check(x) \/ StandBack(x) \/ LosePlace(x)
      PROVE  Goal
  BY <1>2 DEF Refuse, Check, StandBack, LosePlace
<1>3. ASSUME NEW x \in Req, Start(x) PROVE Goal
  BY <1>3 DEF Start
<1>4. ASSUME NEW x \in Req, StartFails(x) \/ Release(x) PROVE Goal
  BY <1>4 DEF StartFails, Release, DropRows
<1>5. ASSUME NEW p \in Proc, HandOver(p) PROVE Goal
  BY <1>5 DEF HandOver, DropRows
<1>6. ASSUME NEW p \in Proc, Exit(p) PROVE Goal
  BY <1>6 DEF Exit
<1>7. ASSUME NEW p \in Proc, ChildExit(p) PROVE Goal
  BY <1>7, InferenceQueueAssumption, LeaseAssumption DEF ChildExit, OrphanAge, MaxAge
<1>8. ASSUME NEW p \in Proc, Renew(p) PROVE Goal
  BY <1>8 DEF Renew, Holding, Registered, Active
<1>9. ASSUME Tick PROVE Goal
  BY <1>9, InferenceQueueAssumption DEF Tick, MaxAge
<1>10. ASSUME MemoryChanges \/ UNCHANGED vars PROVE Goal
  BY <1>10 DEF MemoryChanges, vars
<1> QED
  BY <1>1, <1>2, <1>3, <1>4, <1>5, <1>6, <1>7, <1>8, <1>9, <1>10 DEF Next

(* What a dead process left never counts again once it stopped counting.    *)
THEOREM LapsedIsFinal == Spec => LapsedStaysLapsed
<1> DEFINE Final == \A r \in Req :
      (pc[r] \in Ended /\ row[r] # "none" /\ age[r] > Lease)
        => (row'[r] = "none" \/ age'[r] > Lease)
<1>1. IInv /\ [Next]_vars => [Final]_vars
  BY LapsedStep
<1> QED
  BY <1>1, IInvAlways, PTL DEF Spec, LapsedStaysLapsed
=============================================================================
