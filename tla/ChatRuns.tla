------------------------------ MODULE ChatRuns ------------------------------
(***************************************************************************)
(* Chat answers (services/chat.py) and the lease each holds in the table    *)
(* active_streams, one row per chat (db/runs.py), with the supervisor that  *)
(* renews leases and reads Stop requests, deletion of chats (db/chats.py),  *)
(* the hand-over of an exiting process and the recovery of runs whose       *)
(* process died.                                                            *)
(*                                                                          *)
(* One element of Run is one send request and the owner token of its lease. *)
(* What an answer produced is counted in units of usage.  Time is counted   *)
(* in ticks; age[s] is how long ago the lease of chat s was renewed, capped *)
(* one tick after it lapses.                                                *)
(***************************************************************************)
EXTENDS Naturals, Sequences

CONSTANTS
    Run,         \* send requests, each with its owner_token
    Session,     \* chats
    Proc,        \* worker processes
    NoRun,       \* no row in active_streams
    SessionOf,   \* [Run -> Session]
    ProcOf,      \* [Run -> Proc]: the process that serves the request
    UserOf,      \* [Session -> account]
    Admin,       \* accounts that may have several answers at once
    MaxUsage,    \* bound of the model on what one answer produces
    Lease,       \* LEASE_SECONDS
    RenewEvery,  \* a live process renews its leases at least this often
    Timely       \* the processes that keep to RenewEvery

ASSUME ChatRunsAssumption ==
    /\ NoRun \notin Run
    /\ SessionOf \in [Run -> Session]
    /\ ProcOf \in [Run -> Proc]
    /\ MaxUsage \in Nat
    /\ Lease \in Nat /\ RenewEvery \in Nat
    /\ RenewEvery <= Lease   \* supervisor.LEASE_INTERVAL, runs.LEASE_SECONDS
    /\ Timely \subseteq Proc

VARIABLES
    pc,       \* [Run -> control state of the request and of its thread]
    cancel,   \* [Run -> CancelToken.reason, "none" when not cancelled]
    produced, \* [Run -> 0..MaxUsage]: text in memory
    local,    \* chat._local_runs of all processes
    watched,  \* supervisor._runs of all processes
    renewing, \* runs whose lease a supervisor found and goes on to renew
    since,    \* [Proc -> Nat]: time since the supervisor's last renewal stamp
    live,     \* processes that run
    draining, \* processes in chat.shutdown after the grace period
    lease,    \* [Session -> Run \cup {NoRun}]: active_streams.owner_token
    age,      \* [Session -> 0..Lease+1]: time since heartbeat_at
    stop,     \* [Session -> BOOLEAN]: stop_requested
    saved,    \* [Session -> 0..MaxUsage]: partial_content, tokens_*
    chat,     \* [Session -> {"live", "deleted", "erased"}]
    gen,      \* [Session -> generation_state]
    asked,    \* runs whose user message begin stored and abort did not undo
    bill      \* [Run -> Seq(Nat)]: outcomes committed, with what they charged

threads == <<pc, cancel, produced, local>>
supers  == <<watched, renewing, since>>
procs   == <<live, draining>>
rows    == <<lease, age, stop, saved>>
vars    == <<threads, supers, procs, rows, chat, gen, asked, bill>>

(* A thread that has handled no event yet is "waiting", then "queued" for a *)
(* place or "running"; "ending" has its outcome and is still registered.    *)
Thread  == {"waiting", "queued", "running"}
Control == {"new", "refused", "begun", "ending", "ended"} \cup Thread

TypeOK ==
    /\ pc \in [Run -> Control]
    /\ cancel \in [Run -> {"none", "lease_lost", "stopped", "shutdown"}]
    /\ produced \in [Run -> 0..MaxUsage]
    /\ local \subseteq Run /\ watched \subseteq Run /\ renewing \subseteq Run
    /\ since \in [Proc -> 0..Lease+1]
    /\ live \subseteq Proc /\ draining \subseteq Proc
    /\ lease \in [Session -> Run \cup {NoRun}]
    /\ age \in [Session -> 0..Lease+1]
    /\ stop \in [Session -> BOOLEAN]
    /\ saved \in [Session -> 0..MaxUsage]
    /\ chat \in [Session -> {"live", "deleted", "erased"}]
    /\ gen \in [Session -> {"idle", "queued", "running", "ended"}]
    /\ asked \subseteq Run
    /\ bill \in [Run -> Seq(Nat)]

Init ==
    /\ pc = [r \in Run |-> "new"]
    /\ cancel = [r \in Run |-> "none"]
    /\ produced = [r \in Run |-> 0]
    /\ local = {} /\ watched = {} /\ renewing = {}
    /\ since = [p \in Proc |-> 0]
    /\ live = Proc /\ draining = {}
    /\ lease = [s \in Session |-> NoRun]
    /\ age = [s \in Session |-> 0]
    /\ stop = [s \in Session |-> FALSE]
    /\ saved = [s \in Session |-> 0]
    /\ chat = [s \in Session |-> "live"]
    /\ gen = [s \in Session |-> "idle"]
    /\ asked = {}
    /\ bill = [r \in Run |-> <<>>]

-----------------------------------------------------------------------------
(* Helpers.                                                                 *)

Leased == {s \in Session : lease[s] # NoRun}

Stale == {s \in Leased : age[s] > Lease}

LaterThan(t) == IF t <= Lease THEN t + 1 ELSE t

HasLease(r) == lease[SessionOf[r]] = r

(* CancelToken.cancel: the first reason stays.                              *)
Cancelled(R, why) == [r \in Run |-> IF r \in R /\ cancel[r] = "none"
                                    THEN why ELSE cancel[r]]

(* The registries are keyed by chat: a newer run replaces an older one, and *)
(* unregister_run and Run._release leave the newer one alone.               *)
Namesakes(r) == {q \in Run : SessionOf[q] = SessionOf[r] /\ ProcOf[q] = ProcOf[r]}

Register(r) == /\ local' = (local \ Namesakes(r)) \cup {r}
               /\ watched' = (watched \ Namesakes(r)) \cup {r}

UnregisterChat(r) == /\ local' = local \ Namesakes(r)   \* mutant: no owner token
                     /\ watched' = watched \ Namesakes(r)
UnregisterNever(r) == UNCHANGED <<local, watched>>        \* mutant
Unregister(r) == /\ local' = local \ {r}
                 /\ watched' = watched \ {r}

(* _commit for the chats of S: the outcome is stored unless the chat is     *)
(* gone, the account is charged `use`, the lease is deleted.                *)
Charged(S, use) == [r \in Run |-> IF HasLease(r) /\ SessionOf[r] \in S
                                  THEN Append(bill[r], use[r]) ELSE bill[r]]

RecordedUnknown(S) ==   \* mutant: not one of TERMINAL_STATES
    [s \in Session |-> IF s \in S /\ chat[s] = "live" THEN "cancelled" ELSE gen[s]]
Recorded(S) == [s \in Session |-> IF s \in S /\ chat[s] = "live"
                                  THEN "ended" ELSE gen[s]]

WithoutLease(S) == [s \in Session |-> IF s \in S THEN NoRun ELSE lease[s]]
Reset(f, S, v)  == [s \in Session |-> IF s \in S THEN v ELSE f[s]]

DropLeases(S) == /\ lease' = WithoutLease(S)
                 /\ age' = Reset(age, S, 0)
                 /\ stop' = Reset(stop, S, FALSE)
                 /\ saved' = Reset(saved, S, 0)

(* The usage that recovery charges: the last checkpoint of each run.        *)
LastSaved == [r \in Run |-> saved[SessionOf[r]]]
-----------------------------------------------------------------------------
(* chat.start: runs.begin recovers every stale lease, checks, stores the    *)
(* message and takes the lease in one transaction.  A refusal rolls all of  *)
(* it back.                                                                 *)

UserBusyInChats(r) ==   \* mutant: joins chat_sessions, misses erased chats
    \E t \in Leased \ Stale :
        chat[t] # "erased" /\ UserOf[t] = UserOf[SessionOf[r]]
UserBusy(r) == \E t \in Leased \ Stale : UserOf[t] = UserOf[SessionOf[r]]

Busy(r) == \/ SessionOf[r] \in Leased \ Stale
           \/ UserOf[SessionOf[r]] \notin Admin /\ UserBusy(r)

Begin(r) ==
    LET s == SessionOf[r] IN
    /\ pc[r] = "new" /\ ProcOf[r] \in live
    /\ ~Busy(r) /\ chat[s] = "live"
    /\ bill' = Charged(Stale, LastSaved)
    /\ gen' = [Recorded(Stale) EXCEPT ![s] = "queued"]
    /\ lease' = [WithoutLease(Stale) EXCEPT ![s] = r]
    /\ age' = Reset(age, Stale \cup {s}, 0)
    /\ stop' = Reset(stop, Stale \cup {s}, FALSE)
    /\ saved' = Reset(saved, Stale \cup {s}, 0)
    /\ asked' = asked \cup {r}
    /\ pc' = [pc EXCEPT ![r] = "begun"]
    /\ UNCHANGED <<cancel, produced, local, supers, procs, chat>>

Refuse(r) ==
    /\ pc[r] = "new" /\ ProcOf[r] \in live
    /\ Busy(r) \/ chat[SessionOf[r]] # "live"
    /\ pc' = [pc EXCEPT ![r] = "refused"]
    /\ UNCHANGED <<cancel, produced, local, supers, procs, rows, chat, gen,
                   asked, bill>>

(* Run.start: both registries, then the thread.                             *)
Start(r) ==
    /\ pc[r] = "begun" /\ ProcOf[r] \in live
    /\ Register(r)
    /\ pc' = [pc EXCEPT ![r] = "waiting"]
    /\ UNCHANGED <<cancel, produced, renewing, since, procs, rows, chat, gen,
                   asked, bill>>

WithdrawAny(r) ==   \* mutant: no owner token
    /\ DropLeases({SessionOf[r]})
    /\ asked' = asked \ {r}
    /\ gen' = [gen EXCEPT ![SessionOf[r]] = "idle"]

(* runs.abort: undo begin, unless recovery or a newer run owns the chat.    *)
Withdraw(r) ==
    IF HasLease(r)
    THEN /\ DropLeases({SessionOf[r]})
         /\ asked' = asked \ {r}
         /\ gen' = [gen EXCEPT ![SessionOf[r]] = "idle"]
    ELSE UNCHANGED <<rows, asked, gen>>

(* thread.start raises: unregister and undo.  The transaction of abort can  *)
(* fail too, and leaves the lease to recovery.                              *)
StartFails(r) ==
    /\ pc[r] = "begun" /\ ProcOf[r] \in live
    /\ local' = local \ Namesakes(r) /\ watched' = watched \ Namesakes(r)
    /\ Withdraw(r) \/ UNCHANGED <<rows, asked, gen>>
    /\ pc' = [pc EXCEPT ![r] = "ended"]
    /\ UNCHANGED <<cancel, produced, renewing, since, procs, chat, bill>>
-----------------------------------------------------------------------------
(* The thread: Run._execute and Run._handle.                                *)

Running(r) == pc[r] \in Thread /\ ProcOf[r] \in live

(* The first event, a place in the queue.                                   *)
Queue(r) ==
    /\ Running(r) /\ pc[r] = "waiting"
    /\ pc' = [pc EXCEPT ![r] = "queued"]
    /\ UNCHANGED <<cancel, produced, local, supers, procs, rows, chat, gen,
                   asked, bill>>

MarkRunningLate(r) ==   \* mutant: the chat's state whoever holds the lease
    /\ Running(r)
    /\ gen' = [gen EXCEPT ![SessionOf[r]] = "running"]
    /\ pc' = [pc EXCEPT ![r] = "running"]
    /\ UNCHANGED <<cancel, produced, local, supers, procs, rows, chat, asked, bill>>

(* inference.Started, again for each fallback model.                        *)
MarkRunning(r) ==
    /\ Running(r)
    /\ IF HasLease(r)
       THEN /\ gen' = [gen EXCEPT ![SessionOf[r]] =
                         IF chat[SessionOf[r]] = "erased" THEN @ ELSE "running"]
            /\ UNCHANGED cancel
       ELSE /\ cancel' = Cancelled({r}, "lease_lost")
            /\ UNCHANGED gen
    /\ pc' = [pc EXCEPT ![r] = "running"]
    /\ UNCHANGED <<produced, local, supers, procs, rows, chat, asked, bill>>

(* inference.Delta.                                                         *)
Produce(r) ==
    /\ Running(r) /\ pc[r] = "running" /\ produced[r] < MaxUsage
    /\ produced' = [produced EXCEPT ![r] = @ + 1]
    /\ UNCHANGED <<pc, cancel, local, supers, procs, rows, chat, gen, asked, bill>>

CheckpointUnlessStopped(r) ==   \* mutant: finds no row after a Stop request
    /\ Running(r) /\ pc[r] = "running"
    /\ IF HasLease(r) /\ ~stop[SessionOf[r]]
       THEN /\ saved' = [saved EXCEPT ![SessionOf[r]] = produced[r]]
            /\ UNCHANGED cancel
       ELSE /\ cancel' = Cancelled({r}, "lease_lost")
            /\ UNCHANGED saved
    /\ UNCHANGED <<pc, produced, local, supers, procs, lease, age, stop, chat,
                   gen, asked, bill>>

(* inference.Delta, when CHECKPOINT_SECONDS have passed.                    *)
Checkpoint(r) ==
    /\ Running(r) /\ pc[r] = "running"
    /\ IF HasLease(r)
       THEN /\ saved' = [saved EXCEPT ![SessionOf[r]] = produced[r]]
            /\ UNCHANGED cancel
       ELSE /\ cancel' = Cancelled({r}, "lease_lost")
            /\ UNCHANGED saved
    /\ UNCHANGED <<pc, produced, local, supers, procs, lease, age, stop, chat,
                   gen, asked, bill>>

FinishAnyway(r) ==   \* mutant: does not look at the lease
    /\ Running(r)
    /\ bill' = [bill EXCEPT ![r] = Append(@, produced[r])]
    /\ gen' = Recorded({SessionOf[r]})
    /\ DropLeases({SessionOf[r]})
    /\ pc' = [pc EXCEPT ![r] = "ending"]
    /\ UNCHANGED <<cancel, produced, local, supers, procs, chat, asked>>

(* The answer is over: completed, failed, cancelled or past its deadline.   *)
(* runs.finish commits the outcome when the lease is still that of the run; *)
(* otherwise, or when the run was told so, it is only reported as lost.     *)
Finish(r) ==
    /\ Running(r)
    /\ IF HasLease(r) /\ cancel[r] # "lease_lost"
       THEN /\ bill' = Charged({SessionOf[r]}, produced)
            /\ gen' = Recorded({SessionOf[r]})
            /\ DropLeases({SessionOf[r]})
       ELSE UNCHANGED <<bill, gen, rows>>
    /\ pc' = [pc EXCEPT ![r] = "ending"]
    /\ UNCHANGED <<cancel, produced, local, supers, procs, chat, asked>>

(* The outcome cannot be stored: the lease is left to recovery.             *)
FinishFails(r) ==
    /\ Running(r)
    /\ pc' = [pc EXCEPT ![r] = "ending"]
    /\ UNCHANGED <<cancel, produced, local, supers, procs, rows, chat, gen,
                   asked, bill>>

(* QueueFull before any event: the request is refused as if never sent.     *)
Abort(r) ==
    /\ Running(r) /\ pc[r] = "waiting"
    /\ Withdraw(r)
    /\ pc' = [pc EXCEPT ![r] = "ending"]
    /\ UNCHANGED <<cancel, produced, local, supers, procs, chat, bill>>

(* Run._release, last thing in the thread.                                  *)
Release(r) ==
    /\ pc[r] = "ending" /\ ProcOf[r] \in live
    /\ Unregister(r)
    /\ pc' = [pc EXCEPT ![r] = "ended"]
    /\ UNCHANGED <<cancel, produced, renewing, since, procs, rows, chat, gen,
                   asked, bill>>
-----------------------------------------------------------------------------
(* The supervisor of a process.  It reads the rows of its runs once, tells  *)
(* those that lost their lease or are to stop, and renews the others one by *)
(* one with the time of the reading.  A failure gives up the rest of a      *)
(* round; a timely process has no such failure.                             *)

Mine(p) == {r \in watched : ProcOf[r] = p}
Lost(p) == {r \in Mine(p) : ~HasLease(r)}
ToStop(p) == {r \in Mine(p) : HasLease(r) /\ stop[SessionOf[r]]}
ToRenewStopped(p) == Mine(p) \ Lost(p)   \* mutant: a stopped run too
ToRenew(p) == Mine(p) \ (Lost(p) \cup ToStop(p))
Renewing(p) == {r \in renewing : ProcOf[r] = p}

Supervise(p, renew) ==
    /\ p \in live
    /\ Renewing(p) = {} \/ p \notin Timely
    /\ cancel' = [r \in Run |-> IF cancel[r] # "none" THEN cancel[r]
                               ELSE IF r \in Lost(p) THEN "lease_lost"
                               ELSE IF r \in ToStop(p) THEN "stopped"
                               ELSE "none"]
    /\ IF renew
       THEN /\ renewing' = (renewing \ Renewing(p)) \cup ToRenew(p)
            /\ since' = [since EXCEPT ![p] = 0]
       ELSE /\ renewing' = renewing \ Renewing(p)
            /\ UNCHANGED since
    /\ UNCHANGED <<pc, produced, local, watched, procs, rows, chat, gen, asked, bill>>

Renew(r) ==
    /\ r \in renewing
    /\ renewing' = renewing \ {r}
    /\ age' = IF HasLease(r) THEN [age EXCEPT ![SessionOf[r]] = since[ProcOf[r]]]
                             ELSE age
    /\ UNCHANGED <<threads, watched, since, procs, lease, stop, saved, chat, gen,
                   asked, bill>>

(* recover_stale: the background job of the process that leads (LIMIT 200   *)
(* rows) or the page of one chat.                                           *)
RecoverStale(S) ==
    /\ S # {} /\ S \subseteq Stale
    /\ bill' = Charged(S, LastSaved)
    /\ gen' = Recorded(S)
    /\ DropLeases(S)
    /\ UNCHANGED <<threads, supers, procs, chat, asked>>
-----------------------------------------------------------------------------
(* Users and processes.                                                     *)

(* chat.stop, handled by process p: the flag, then the run of this process. *)
StopRequest(s, p) ==
    LET here == {r \in local : SessionOf[r] = s /\ ProcOf[r] = p} IN
    /\ p \in live
    /\ s \in Leased \/ here # {}
    /\ stop' = [stop EXCEPT ![s] = s \in Leased]
    /\ cancel' = Cancelled(here, "stopped")
    /\ UNCHANGED <<pc, produced, local, supers, procs, lease, age, saved, chat,
                   gen, asked, bill>>

(* soft_delete, hard_delete, delete_all_for_user and the purges: the lease  *)
(* stays and names its account.                                             *)
Delete(s, how) ==
    /\ chat[s] = "live" \/ (chat[s] = "deleted" /\ how = "erased")
    /\ chat' = [chat EXCEPT ![s] = how]
    /\ stop' = [stop EXCEPT ![s] = s \in Leased]
    /\ UNCHANGED <<threads, supers, procs, lease, age, saved, gen, asked, bill>>

(* chat.shutdown after the grace period.                                    *)
Shutdown(p) ==
    /\ p \in live \ draining
    /\ draining' = draining \cup {p}
    /\ cancel' = Cancelled({r \in local : ProcOf[r] = p}, "shutdown")
    /\ UNCHANGED <<pc, produced, local, supers, live, rows, chat, gen, asked, bill>>

(* Run.abandon, for a run that did not end in time.  expire can fail.       *)
Abandon(r) ==
    /\ r \in local /\ ProcOf[r] \in live \cap draining
    /\ watched' = watched \ {r}
    /\ \/ age' = IF HasLease(r) THEN [age EXCEPT ![SessionOf[r]] = Lease + 1]
                                ELSE age
       \/ UNCHANGED age
    /\ UNCHANGED <<threads, renewing, since, procs, lease, stop, saved, chat, gen,
                   asked, bill>>

(* The process is gone, after its shutdown or by a crash.                   *)
Exit(p) ==
    LET mine == {r \in Run : ProcOf[r] = p} IN
    /\ p \in live
    /\ live' = live \ {p} /\ draining' = draining \ {p}
    /\ pc' = [r \in Run |-> IF r \notin mine THEN pc[r]
                           ELSE IF pc[r] \in {"new", "refused"} THEN "refused"
                           ELSE "ended"]
    /\ cancel' = [r \in Run |-> IF r \in mine THEN "none" ELSE cancel[r]]
    /\ local' = local \ mine /\ watched' = watched \ mine
    /\ renewing' = renewing \ mine
    /\ since' = [since EXCEPT ![p] = 0]
    /\ UNCHANGED <<produced, rows, chat, gen, asked, bill>>

(* Time passes.  A timely process finishes its round of renewals, begins    *)
(* the next one within RenewEvery and starts a run once it has begun it.    *)
Tick ==
    /\ \A p \in live \cap Timely :
          /\ since[p] < RenewEvery /\ Renewing(p) = {}
          /\ \A r \in Run : ProcOf[r] = p => pc[r] # "begun"
    /\ age' = [s \in Session |-> IF s \in Leased THEN LaterThan(age[s]) ELSE age[s]]
    /\ since' = [p \in Proc |-> IF Renewing(p) # {} \/ p \in live \cap Timely
                               THEN LaterThan(since[p]) ELSE since[p]]
    /\ UNCHANGED <<threads, watched, renewing, procs, lease, stop, saved, chat,
                   gen, asked, bill>>

Next ==
    \/ \E r \in Run : Begin(r)
    \/ \E r \in Run : Refuse(r)
    \/ \E r \in Run : Start(r)
    \/ \E r \in Run : StartFails(r)
    \/ \E r \in Run : Queue(r)
    \/ \E r \in Run : MarkRunning(r)
    \/ \E r \in Run : Produce(r)
    \/ \E r \in Run : Checkpoint(r)
    \/ \E r \in Run : Finish(r)
    \/ \E r \in Run : FinishFails(r)
    \/ \E r \in Run : Abort(r)
    \/ \E r \in Run : Release(r)
    \/ \E p \in Proc, renew \in BOOLEAN : Supervise(p, renew)
    \/ \E r \in Run : Renew(r)
    \/ \E S \in SUBSET Session : RecoverStale(S)
    \/ \E s \in Session, p \in Proc : StopRequest(s, p)
    \/ \E s \in Session, how \in {"deleted", "erased"} : Delete(s, how)
    \/ \E p \in Proc : Shutdown(p)
    \/ \E r \in Run : Abandon(r)
    \/ \E p \in Proc : Exit(p)
    \/ Tick

Spec == Init /\ [][Next]_vars
(* The supervisors, the recovery job and the clock go on, threads start and *)
(* unregister.  No thread has to finish: a run may be stuck for ever.       *)
Fairness ==
    /\ \A r \in Run : /\ WF_vars(Start(r) \/ StartFails(r))
                      /\ WF_vars(Release(r))
                      /\ WF_vars(Renew(r))
    /\ \A p \in Proc : WF_vars(Supervise(p, TRUE))
    /\ \A s \in Session : WF_vars(RecoverStale({s}))
    /\ WF_vars(Tick)

FairSpec == Spec /\ Fairness
-----------------------------------------------------------------------------
(* Properties.                                                              *)

(* A stored message has its answer to come, under its own lease, or one     *)
(* outcome; never two, and none for a message that abort withdrew.          *)
OneOutcome ==
    \A r \in Run : Len(bill[r]) = IF r \in asked /\ ~HasLease(r) THEN 1 ELSE 0

(* The chat says that an answer is on its way exactly while it has a lease: *)
(* no late mark_running or abort of a run that was recovered changes it.    *)
StateMatchesLease ==
    \A s \in Session : chat[s] = "live" =>
        (gen[s] \in {"queued", "running"} <=> s \in Leased)

(* Whatever chats are deleted meanwhile, an account that is not an          *)
(* administrator's has one answer under way.                                *)
OneAnswerPerAccount ==
    \A s, t \in Leased : s # t /\ UserOf[s] = UserOf[t] => UserOf[s] \in Admin

(* Nobody recovers a run that a timely process works on, unless it was      *)
(* cancelled (a stopped run is not renewed any more) or the process hands   *)
(* its runs over; the end of an older run of the chat does not matter.      *)
LeaseKept ==
    \A r \in Run :
        (/\ pc[r] \in Thread /\ cancel[r] = "none"
         /\ ProcOf[r] \in Timely \ draining)
        => HasLease(r) /\ age[SessionOf[r]] <= Lease

(* A run is told that its lease is lost only when its answer was settled:   *)
(* it will not commit one itself.                                           *)
LostIsSettled ==
    \A r \in Run : (pc[r] \in Thread /\ cancel[r] = "lease_lost") => bill[r] # <<>>

(* A message is withdrawn only before its answer showed anything.           *)
NothingShownWithdrawn ==
    \A r \in Run : produced[r] > 0 => r \in asked

(* Stop ends an answer even when its thread is stuck and never looks.       *)
StopEnds ==
    \A r \in Run : (HasLease(r) /\ stop[SessionOf[r]]) ~> ~HasLease(r)

(* What a crash or a failed save leaves behind is recovered.                *)
LeftoversRecovered ==
    \A r \in Run : (HasLease(r) /\ pc[r] = "ended") ~> ~HasLease(r)

(* chat.py: a run that cannot save in time "gives up its lease, so another  *)
(* process recovers its last checkpoint at once".                           *)
GivenUpStaysStale ==
    [][\A r \in Run :
         (HasLease(r) /\ SessionOf[r] \in Stale /\ pc[r] \in Thread /\ r \notin watched)
         => (~HasLease(r)' \/ SessionOf[r] \in Stale')]_vars
-----------------------------------------------------------------------------
AB == INSTANCE AnswerBilling
        WITH Answer <- Run,
             used   <- produced,
             open   <- {r \in Run : HasLease(r)},
             closed <- {r \in Run : pc[r] \notin {"new", "refused"} /\ ~HasLease(r)}

(* Chat runs keep the promise of AnswerBilling.                             *)
ImplementsAnswerBilling == AB!Spec
=============================================================================
