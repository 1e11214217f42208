--------------------------- MODULE InferenceQueue ---------------------------
(***************************************************************************)
(* Admission control for inference (services/queue.py), shared by every     *)
(* worker process of the site through the table inference_queue, with the   *)
(* supervisor that renews its rows (services/supervisor.py), the hand-over  *)
(* of an exiting process and the master's child_exit hook                   *)
(* (gunicorn.conf.py).                                                      *)
(*                                                                          *)
(* One element of Req is one place asked for: a req_id.  Slot.move gives    *)
(* up one id and asks for another, so a moved request is Release of one     *)
(* element followed by Enter of a fresh one.                                *)
(*                                                                          *)
(* Time is counted in ticks.  age[r] is how long ago the row of r was last  *)
(* renewed, capped at MaxAge, beyond which ages are not told apart.         *)
(***************************************************************************)
EXTENDS Naturals, FiniteSets

CONSTANTS
    Req,            \* request ids
    Proc,           \* worker processes
    Pid,            \* process numbers
    NoOwner,        \* owner_key is NULL
    ProcOf,         \* [Req -> Proc]: the process that serves the request
    PidOf,          \* [Proc -> Pid]: two containers can use one number
    OwnerOf,        \* [Req -> owner]: the owner within a lane
    Lanes,          \* SUBSET [Req -> Lane]: what lane_for may say
    PriorityOf,     \* [Req -> Nat], lower runs first
    MaxConcurrent,  \* [Lane -> Nat]: BC_MAX_CONCURRENT and .._HOSTED
    MaxDepth,       \* BC_MAX_QUEUE_DEPTH, per lane
    MaxPerOwner,    \* MAX_PER_OWNER, per owner and lane
    Lease,          \* LEASE_SECONDS
    Grace,          \* ORPHAN_GRACE_SECONDS
    RenewEvery,     \* a live process renews its rows at least this often
    MaxDelay,       \* longest wait of an admission between check and write
    MemoryChecked,  \* BC_MIN_FREE_MEMORY_MB is set and Ollama is local
    Timely          \* the processes that keep to RenewEvery

Lane == {"local", "hosted"}

ASSUME InferenceQueueAssumption ==
    /\ IsFiniteSet(Req)
    /\ ProcOf \in [Req -> Proc]
    /\ PidOf \in [Proc -> Pid]
    /\ Lanes \subseteq [Req -> Lane]
    /\ PriorityOf \in [Req -> Nat]
    /\ MaxConcurrent \in [Lane -> Nat \ {0}]
    /\ MaxDepth \in Nat \ {0}
    /\ MaxPerOwner \in Nat \ {0}
    /\ Lease \in Nat /\ Grace \in Nat /\ RenewEvery \in Nat /\ MaxDelay \in Nat
    /\ Timely \subseteq Proc
    /\ MemoryChecked \in BOOLEAN

(* supervisor.LEASE_INTERVAL against ORPHAN_GRACE_SECONDS: a row that the   *)
(* master pushed to the end of its lease is renewed before it lapses.       *)
ASSUME LeaseAssumption == /\ RenewEvery <= Grace
                          /\ Grace <= Lease

MaxAge == Lease + MaxDelay + 1

VARIABLES
    lane,        \* [Req -> Lane]: lane_for(the model of the request)
    pc,          \* [Req -> control state of the request's thread]
    row,         \* [Req -> {"none", "waiting", "running"}]: the table
    seq,         \* [Req -> Nat]: inference_queue.seq
    nextSeq,     \* AUTOINCREMENT
    age,         \* [Req -> 0..MaxAge]: time since heartbeat_at
    elapsed,     \* [Req -> 0..MaxDelay]: time since the thread took `cutoff`
    held,        \* supervisor._slots and queue._held of all processes
    live,        \* processes that run
    unreaped,    \* processes that ended and child_exit was not called for
    since,       \* [Proc -> 0..RenewEvery]: time since the last renewal
    memoryLow    \* ~_memory_ok()

vars == <<lane, pc, row, seq, nextSeq, age, elapsed, held, live, unreaped,
          since, memoryLow>>

(* "starting": _try_start passed its first checks and opens the transaction *)
Active   == {"waiting", "starting", "running"}
Ended    == {"refused", "done", "lost", "error", "gone"}
Control  == {"idle"} \cup Active \cup Ended

TypeOK ==
    /\ lane \in Lanes
    /\ pc \in [Req -> Control]
    /\ row \in [Req -> {"none", "waiting", "running"}]
    /\ seq \in [Req -> Nat]
    /\ nextSeq \in Nat
    /\ age \in [Req -> 0..MaxAge]
    /\ elapsed \in [Req -> 0..MaxDelay]
    /\ held \subseteq Req
    /\ live \subseteq Proc
    /\ unreaped \subseteq Proc
    /\ since \in [Proc -> Nat]
    /\ memoryLow \in BOOLEAN

Init ==
    /\ lane \in Lanes
    /\ pc = [r \in Req |-> "idle"]
    /\ row = [r \in Req |-> "none"]
    /\ seq = [r \in Req |-> 0]
    /\ nextSeq = 1
    /\ age = [r \in Req |-> 0]
    /\ elapsed = [r \in Req |-> 0]
    /\ held = {}
    /\ live = Proc
    /\ unreaped = {}
    /\ since = [p \in Proc |-> 0]
    /\ memoryLow = FALSE

-----------------------------------------------------------------------------
(* Queries.  A cutoff taken e ticks ago reaches back Lease + e ticks.       *)

Fresh(q, e) == age[q] <= Lease + e

Stale == {q \in Req : row[q] # "none" /\ age[q] > Lease}

CountedForEver(l, e) ==   \* mutant: no cutoff
    {q \in Req : row[q] = "running" /\ lane[q] = l}
Counted(l, e) == {q \in Req : row[q] = "running" /\ lane[q] = l /\ Fresh(q, e)}

OwnerBusy(q, e) ==
    OwnerOf[q] # NoOwner /\ \E o \in Counted(lane[q], e) : OwnerOf[o] = OwnerOf[q]

Eligible(l, e) ==
    {q \in Req : /\ row[q] = "waiting" /\ lane[q] = l /\ Fresh(q, e)
                 /\ ~OwnerBusy(q, e)
                 /\ ~(l = "local" /\ memoryLow)}

Before(q, r) == \/ PriorityOf[q] < PriorityOf[r]
                \/ PriorityOf[q] = PriorityOf[r] /\ seq[q] < seq[r]

IsNextBySeq(r, e) ==   \* mutant: ORDER BY seq alone
    /\ r \in Eligible(lane[r], e)
    /\ \A q \in Eligible(lane[r], e) \ {r} : seq[r] < seq[q]
IsNext(r, e) == /\ r \in Eligible(lane[r], e)
                /\ \A q \in Eligible(lane[r], e) \ {r} : Before(r, q)

HasRoom(l, e) == Cardinality(Counted(l, e)) < MaxConcurrent[l]

(* The partial unique index idx_inference_owner_running has no notion of    *)
(* a lease: a running row is in it until the row is deleted.                *)
IndexConflict(r) ==
    /\ OwnerOf[r] # NoOwner
    /\ \E q \in Req \ {r} : /\ row[q] = "running" /\ lane[q] = lane[r]
                            /\ OwnerOf[q] = OwnerOf[r]

HoldingEver(p) ==   \* mutant: a released slot is never unregistered
    {r \in Req : ProcOf[r] = p /\ pc[r] # "idle"}
Holding(p) == {r \in held : ProcOf[r] = p}

(* DELETE FROM inference_queue for the rows of D.                           *)
DropRowsMarked(D) ==   \* mutant: a finished row is marked and not deleted
    /\ row' = [q \in Req |-> IF q \in D THEN "finished" ELSE row[q]]
    /\ UNCHANGED <<age, seq>>
DropRows(D) ==
    /\ row' = [q \in Req |-> IF q \in D THEN "none" ELSE row[q]]
    /\ age' = [q \in Req |-> IF q \in D THEN 0 ELSE age[q]]
    /\ seq' = [q \in Req |-> IF q \in D THEN 0 ELSE seq[q]]
-----------------------------------------------------------------------------
(* Slot.__enter__: purge every row past its lease, then insert a waiting    *)
(* row.  QueueFull rolls the purge back with the rest of the transaction.   *)

LaneRows(l, D)  == {q \in Req \ D : row[q] # "none" /\ lane[q] = l}
OwnerRows(r, D) == {q \in LaneRows(lane[r], D) : OwnerOf[q] = OwnerOf[r]}

Full(r, D) ==
    \/ Cardinality(LaneRows(lane[r], D)) >= MaxDepth
    \/ OwnerOf[r] # NoOwner /\ Cardinality(OwnerRows(r, D)) >= MaxPerOwner

Enter(r) ==
    /\ pc[r] = "idle" /\ ProcOf[r] \in live
    /\ ~Full(r, Stale)
    /\ row' = [q \in Req |-> IF q = r THEN "waiting"
                             ELSE IF q \in Stale THEN "none" ELSE row[q]]
    /\ age' = [q \in Req |-> IF q = r \/ q \in Stale THEN 0 ELSE age[q]]
    /\ seq' = [q \in Req |-> IF q = r THEN nextSeq
                             ELSE IF q \in Stale THEN 0 ELSE seq[q]]
    /\ nextSeq' = nextSeq + 1
    /\ pc' = [pc EXCEPT ![r] = "waiting"]
    /\ held' = held \cup {r}
    /\ UNCHANGED <<lane, elapsed, live, unreaped, since, memoryLow>>

Refuse(r) ==
    /\ pc[r] = "idle" /\ ProcOf[r] \in live
    /\ Full(r, Stale)
    /\ pc' = [pc EXCEPT ![r] = "refused"]
    /\ UNCHANGED <<lane, row, seq, nextSeq, age, elapsed, held, live,
                   unreaped, since, memoryLow>>
-----------------------------------------------------------------------------
(* Slot._try_start, called by Slot.positions: the cheap checks without the  *)
(* write lock, then the same checks with the same cutoff inside it.         *)

Check(r) ==
    /\ pc[r] = "waiting" /\ ProcOf[r] \in live
    /\ HasRoom(lane[r], 0) /\ IsNext(r, 0)
    /\ pc' = [pc EXCEPT ![r] = "starting"]
    /\ UNCHANGED <<lane, row, seq, nextSeq, age, elapsed, held, live,
                   unreaped, since, memoryLow>>

AdmissibleAsChecked(r) ==   \* mutant: no second check in the transaction
    r \in Eligible(lane[r], elapsed[r])
Admissible(r) == HasRoom(lane[r], elapsed[r]) /\ IsNext(r, elapsed[r])

Start(r) ==
    /\ pc[r] = "starting" /\ ProcOf[r] \in live
    /\ Admissible(r) /\ ~IndexConflict(r)
    /\ row' = [row EXCEPT ![r] = "running"]
    /\ age' = [age EXCEPT ![r] = 0]
    /\ elapsed' = [elapsed EXCEPT ![r] = 0]
    /\ pc' = [pc EXCEPT ![r] = "running"]
    /\ UNCHANGED <<lane, seq, nextSeq, held, live, unreaped, since,
                   memoryLow>>

(* Another request was faster, or the row is gone: back to waiting.         *)
StandBack(r) ==
    /\ pc[r] = "starting" /\ ProcOf[r] \in live
    /\ ~Admissible(r)
    /\ elapsed' = [elapsed EXCEPT ![r] = 0]
    /\ pc' = [pc EXCEPT ![r] = "waiting"]
    /\ UNCHANGED <<lane, row, seq, nextSeq, age, held, live, unreaped, since,
                   memoryLow>>

(* The UPDATE hits the unique index: sqlite3.IntegrityError leaves          *)
(* positions(), the transaction is rolled back and __exit__ releases r.     *)
StartFails(r) ==
    /\ pc[r] = "starting" /\ ProcOf[r] \in live
    /\ Admissible(r) /\ IndexConflict(r)
    /\ DropRows({r})
    /\ elapsed' = [elapsed EXCEPT ![r] = 0]
    /\ pc' = [pc EXCEPT ![r] = "error"]
    /\ held' = held \ {r}
    /\ UNCHANGED <<lane, nextSeq, live, unreaped, since, memoryLow>>

(* positions(): the row of a waiting request is gone.                       *)
LosePlace(r) ==
    /\ pc[r] = "waiting" /\ ProcOf[r] \in live
    /\ row[r] = "none"
    /\ pc' = [pc EXCEPT ![r] = "lost"]
    /\ held' = held \ {r}
    /\ UNCHANGED <<lane, row, seq, nextSeq, age, elapsed, live, unreaped,
                   since, memoryLow>>

(* Slot.release: the deadline passed or the request was cancelled while it  *)
(* waited, the transaction of _try_start failed, or the work is done.  When *)
(* the DELETE fails the row stays and nobody renews it any more.            *)
Release(r) ==
    /\ pc[r] \in Active /\ ProcOf[r] \in live
    /\ pc' = [pc EXCEPT ![r] = "done"]
    /\ held' = held \ {r}
    /\ elapsed' = [elapsed EXCEPT ![r] = 0]
    /\ \/ DropRows({r})
       \/ UNCHANGED <<row, age, seq>>
    /\ UNCHANGED <<lane, nextSeq, live, unreaped, since, memoryLow>>
-----------------------------------------------------------------------------
(* Processes.                                                               *)

(* _hand_over, on SIGTERM or in worker_exit: release_process gives up every *)
(* place of the process.  Threads that have not ended go on without one     *)
(* until the process is gone.                                               *)
HandOver(p) ==
    /\ p \in live
    /\ Holding(p) # {}
    /\ held' = held \ Holding(p)
    /\ \/ DropRows(Holding(p))
       \/ UNCHANGED <<row, age, seq>>
    /\ UNCHANGED <<lane, pc, nextSeq, elapsed, live, unreaped, since,
                   memoryLow>>

(* The process ends: after its hand-over, killed or crashed.                *)
Exit(p) ==
    /\ p \in live
    /\ live' = live \ {p}
    /\ unreaped' = unreaped \cup {p}
    /\ held' = held \ Holding(p)
    /\ pc' = [r \in Req |-> IF ProcOf[r] = p /\ pc[r] \in Active \cup {"idle"}
                            THEN "gone" ELSE pc[r]]
    /\ elapsed' = [r \in Req |-> IF ProcOf[r] = p THEN 0 ELSE elapsed[r]]
    /\ since' = [since EXCEPT ![p] = 0]
    /\ UNCHANGED <<lane, row, seq, nextSeq, age, memoryLow>>

OrphanAgeLapsed == Lease + 1   \* mutant: no grace for a live namesake
OrphanAge == Lease - Grace

ChildExitResets(p) ==   \* mutant: also moves the heartbeat of older rows
    /\ p \in unreaped
    /\ unreaped' = unreaped \ {p}
    /\ age' = [r \in Req |-> IF row[r] # "none" /\ PidOf[ProcOf[r]] = PidOf[p]
                             THEN OrphanAge ELSE age[r]]
    /\ UNCHANGED <<lane, pc, row, seq, nextSeq, elapsed, held, live, since,
                   memoryLow>>

(* child_exit in the master: expire_process(pid) shortens the lease of each *)
(* row with that process number to Grace.                                   *)
ChildExit(p) ==
    /\ p \in unreaped
    /\ unreaped' = unreaped \ {p}
    /\ age' = [r \in Req |->
                 IF /\ row[r] # "none" /\ PidOf[ProcOf[r]] = PidOf[p]
                    /\ age[r] < OrphanAge
                 THEN OrphanAge ELSE age[r]]
    /\ UNCHANGED <<lane, pc, row, seq, nextSeq, elapsed, held, live, since,
                   memoryLow>>

(* The supervisor renews the rows of the registered slots, stale or not.    *)
Renew(p) ==
    /\ p \in live
    /\ age' = [r \in Req |-> IF r \in Holding(p) THEN 0 ELSE age[r]]
    /\ since' = [since EXCEPT ![p] = 0]
    /\ UNCHANGED <<lane, pc, row, seq, nextSeq, elapsed, held, live,
                   unreaped, memoryLow>>

(* Time passes.  A timely process renews within RenewEvery; an admission    *)
(* attempt takes its transaction or fails within MaxDelay.                  *)
Tick ==
    /\ \A p \in live \cap Timely : since[p] < RenewEvery
    /\ \A r \in Req : pc[r] = "starting" => elapsed[r] < MaxDelay
    /\ age' = [r \in Req |-> IF row[r] # "none" /\ age[r] < MaxAge
                             THEN age[r] + 1 ELSE age[r]]
    /\ elapsed' = [r \in Req |-> IF pc[r] = "starting"
                                 THEN elapsed[r] + 1 ELSE elapsed[r]]
    /\ since' = [p \in Proc |-> IF p \in live \cap Timely
                                THEN since[p] + 1 ELSE since[p]]
    /\ UNCHANGED <<lane, pc, row, seq, nextSeq, held, live, unreaped,
                   memoryLow>>

MemoryChanges ==
    /\ MemoryChecked
    /\ memoryLow' = ~memoryLow
    /\ UNCHANGED <<lane, pc, row, seq, nextSeq, age, elapsed, held, live,
                   unreaped, since>>

Next ==
    \/ \E r \in Req : Enter(r)
    \/ \E r \in Req : Refuse(r)
    \/ \E r \in Req : Check(r)
    \/ \E r \in Req : Start(r)
    \/ \E r \in Req : StandBack(r)
    \/ \E r \in Req : StartFails(r)
    \/ \E r \in Req : LosePlace(r)
    \/ \E r \in Req : Release(r)
    \/ \E p \in Proc : HandOver(p)
    \/ \E p \in Proc : Exit(p)
    \/ \E p \in Proc : ChildExit(p)
    \/ \E p \in Proc : Renew(p)
    \/ Tick
    \/ MemoryChanges

Spec == Init /\ [][Next]_vars

HandedOver(p) == \E r \in Req \ held : ProcOf[r] = p /\ pc[r] \in Active

(* The threads poll every MAX_POLL_SECONDS, an admitted request ends by its *)
(* generation deadline at the latest, the supervisor and the clock go on,   *)
(* and gunicorn's master kills a process that handed over and reaps its     *)
(* children.  Nothing makes a waiting request give up, memory become free,  *)
(* or a process hand over or crash.                                         *)
Fairness ==
    /\ \A r \in Req :
          /\ WF_vars(Check(r))
          /\ WF_vars(Start(r) \/ StandBack(r) \/ StartFails(r))
          /\ WF_vars(LosePlace(r))
          /\ WF_vars(pc[r] = "running" /\ Release(r))
    /\ \A p \in Proc :
          /\ WF_vars(ChildExit(p))
          /\ WF_vars(Renew(p))
          /\ WF_vars(HandedOver(p) /\ Exit(p))
    /\ WF_vars(Tick)

FairSpec == Spec /\ Fairness
-----------------------------------------------------------------------------
(* Properties.  Those about what really runs, and not about the table, hold *)
(* of the places that timely processes hold.  A live process whose          *)
(* supervisor falls behind loses its rows and runs uncounted, and so do the *)
(* last threads of one that handed its places over.                         *)

Kept == {r \in held : ProcOf[r] \in Timely}

UsingLane(l) == {r \in Kept : pc[r] = "running" /\ lane[r] = l}

Over == {r \in Req : pc[r] \in Ended \/ (pc[r] # "idle" /\ r \notin held)}

(* A request that waits or runs keeps its row and the row counts, whatever  *)
(* other processes purge and whichever process number child_exit expires    *)
(* (queue.py: "a live process with the same number ... keeps its own").     *)
PlaceKept ==
    \A r \in Kept :
        /\ row[r] = IF pc[r] = "running" THEN "running" ELSE "waiting"
        /\ age[r] <= Lease

(* At most MaxConcurrent requests of a lane really run, counted in the      *)
(* processes and not in the table.                                          *)
Capacity == \A l \in Lane : Cardinality(UsingLane(l)) <= MaxConcurrent[l]

(* An owner has one running request per lane, whatever surface or process   *)
(* it uses.                                                                 *)
OneRunningPerOwner ==
    \A r, q \in Kept :
        (/\ r # q /\ OwnerOf[r] # NoOwner /\ OwnerOf[r] = OwnerOf[q]
         /\ pc[r] = "running" /\ pc[q] = "running") => lane[r] # lane[q]

(* The table never holds more rows of a lane than the depth, nor of an      *)
(* owner in a lane than its share, rows of dead processes included.         *)
AdmissionLimits ==
    /\ \A l \in Lane : Cardinality(LaneRows(l, {})) <= MaxDepth
    /\ \A r \in Req : OwnerOf[r] # NoOwner =>
          Cardinality(OwnerRows(r, {})) <= MaxPerOwner

(* A request starts before one that waits in front of it only when the      *)
(* owner of that one already has a running row in the lane.                 *)
NoOvertaking ==
    [][\A r, q \in Req :
         (/\ pc[r] # "running" /\ pc'[r] = "running"
          /\ q \in Kept \ {r} /\ pc[q] \in {"waiting", "starting"}
          /\ lane[q] = lane[r] /\ Before(q, r))
         => \E o \in Req : /\ row[o] = "running" /\ lane[o] = lane[q]
                           /\ OwnerOf[o] = OwnerOf[q]]_vars

(* A row whose thread ended and that stopped counting never counts again:   *)
(* expire_process only shortens leases.                                     *)
LapsedStaysLapsed ==
    [][\A r \in Req : (pc[r] \in Ended /\ row[r] # "none" /\ age[r] > Lease)
         => (row'[r] = "none" \/ age'[r] > Lease)]_vars

(* What a request whose thread or process is gone left behind stops         *)
(* counting.                                                                *)
OrphansLapse ==
    \A r \in Req : (pc[r] \in Ended /\ row[r] # "none")
                     ~> (row[r] = "none" \/ age[r] > Lease)

WaitEnds(r) == (pc[r] = "waiting") ~> (pc[r] \notin {"waiting", "starting"})


(* The same for every lane when memory is free from some time on.           *)
EveryWaitEnds == <>[](~memoryLow) => \A r \in Req : WaitEnds(r)

(* architecture.md: the places of a worker that crashed "stop counting".    *)
(* An admission attempt ends by starting or by waiting on, never by a       *)
(* failure of the storage.                                                  *)
NoStorageFailure == \A r \in Req : pc[r] # "error"
-----------------------------------------------------------------------------
LA == INSTANCE LaneAdmission
        WITH using <- [l \in Lane |-> UsingLane(l)],
             over  <- Over

(* The queue implements the lanes it promises.                              *)
ImplementsLaneAdmission == LA!Spec
=============================================================================
