--------------------------- MODULE ModelDownloads ---------------------------
(***************************************************************************)
(* Model downloads (services/pulls.py, db/pulls.py) against the deletion of *)
(* the models they install (services/model_lifecycle.py), under the leader  *)
(* of the background jobs (services/background.py).                         *)
(*                                                                          *)
(* A run is one claim of a download job and the thread that works on it; its *)
(* claim_token is its name.  A process that stops or hangs may be followed  *)
(* by another leader while its threads still work.  One file lock per model *)
(* (operation_lock) serializes downloads, cleanups and deletions; the       *)
(* operating system releases it when its process ends.                      *)
(*                                                                          *)
(* What holds a queued job back for a while (it is paused, the whole queue  *)
(* is, its next attempt is not due, the server is down) is left out: it may *)
(* start now or later, and a running one may be paused or stall at any time.*)
(***************************************************************************)
EXTENDS FiniteSets, Naturals

CONSTANTS
    Job,       \* download jobs; ids are never used twice
    Model,     \* models, by their canonical names
    ModelOf,   \* [Job -> Model]
    Run,       \* claims, each with its claim_token
    Proc,      \* processes, each from its start to its end
    Request,   \* requests to delete a model
    Limit,     \* download_concurrency
    Installed, \* models the model server has from the start
    NoRun, NoJob, NoProc, NoModel, Free

ASSUME ModelDownloadsAssumption ==
    /\ ModelOf \in [Job -> Model]
    /\ Limit \in Nat \ {0} /\ Installed \subseteq Model
    /\ NoRun \notin Run /\ NoJob \notin Job /\ NoProc \notin Proc /\ NoModel \notin Model
    /\ Run \cap (Request \cup Proc) = {} /\ Request \cap Proc = {}
    /\ Free \notin Run \cup Request \cup Proc

VARIABLES
    job,       \* [Job -> row of model_pull_jobs]
    run,       \* [Run -> state of the thread]
    reg,       \* [Proc -> jobs in _running]
    lock,      \* [Model -> holder of its operation_lock, or Free]
    server,    \* models the model server has
    kept,      \* models administrators were told they have, and did not ask to delete since
    phase,     \* [Proc -> what the process is to the background jobs]
    marked,    \* models with delete_requested_at
    del        \* [Request \cup Proc -> deletion by a request, or by the leader's model-lifecycle job]

vars == <<job, run, reg, lock, server, kept, phase, marked, del>>

Row == [status  : {"none", "queued", "pulling", "done", "failed", "cancelled", "removed"},
        claim   : Run \cup {NoRun},
        cleanup : BOOLEAN]     \* cleanup_partial, of a cancelled job

Reason == {"user", "gone", "pause", "shutdown", "stall"}

Thread == [at     : {"idle", "claimed", "locking", "locked", "pulling", "verified",
                     "cut", "cleaning", "leaving", "left", "over"},
           proc   : Proc \cup {NoProc},
           job    : Job \cup {NoJob},
           why    : Reason \cup {""},  \* the token's reason
           absent : BOOLEAN]           \* installed_before is False

Deletion == [at      : {"idle", "chosen", "deleting", "deleted", "failed", "over"},
             model   : Model \cup {NoModel},
             idle    : BOOLEAN,        \* when_idle
             already : BOOLEAN]        \* the model was marked before

Phase == {"waits",      \* for .background-services.lock
          "elected",
          "leads",      \* _state["recovered"]
          "stopping",   \* has released the lock; its threads may go on
          "ended"}

Deleter == Request \cup Proc

TypeOK ==
    /\ job \in [Job -> Row]
    /\ run \in [Run -> Thread]
    /\ reg \in [Proc -> SUBSET Job]
    /\ lock \in [Model -> Run \cup Deleter \cup {Free}]
    /\ server \subseteq Model /\ kept \subseteq Model /\ marked \subseteq Model
    /\ phase \in [Proc -> Phase]
    /\ del \in [Deleter -> Deletion]

NoRow == [status |-> "none", claim |-> NoRun, cleanup |-> FALSE]
NoThread   == [at |-> "idle", proc |-> NoProc, job |-> NoJob, why |-> "", absent |-> FALSE]
OverThread == [NoThread EXCEPT !.at = "over"]
NoDeletion == [at |-> "idle", model |-> NoModel, idle |-> FALSE, already |-> FALSE]

Init ==
    /\ job = [j \in Job |-> NoRow]
    /\ run = [r \in Run |-> NoThread]
    /\ reg = [p \in Proc |-> {}]
    /\ lock = [m \in Model |-> Free]
    /\ server = Installed
    /\ kept = server
    /\ phase = [p \in Proc |-> "waits"]
    /\ marked = {}
    /\ del = [d \in Deleter |-> NoDeletion]

-----------------------------------------------------------------------------
(* Helpers.                                                                 *)

Active(j) == job[j].status \in {"queued", "pulling"}
Wanted(m) == \E j \in Job : ModelOf[j] = m /\ Active(j)     \* active_for

RowOf(r)  == job[run[r].job]
Target(r) == ModelOf[run[r].job]

(* What a run writes names its token (_OWNED).                              *)
Pulls(r) == RowOf(r).status = "pulling" /\ RowOf(r).claim = r
Owns(r)  == RowOf(r).status \in {"queued", "pulling"} /\ RowOf(r).claim = r

(* The claim of a job that is done or failed is of no use.                  *)
Becomes(j, status) ==
    [job EXCEPT ![j].status = status,
                ![j].claim = IF status \in {"done", "failed"} THEN NoRun ELSE @]
Requeued(r) == IF Pulls(r) THEN Becomes(run[r].job, "queued") ELSE job
Failed(r)   == IF Owns(r) THEN Becomes(run[r].job, "failed") ELSE job

Goes(r, place) == run' = [run EXCEPT ![r].at = place]

(* What the token and the look at the server said is of no use any more.    *)
Leaves(r) == run' = [run EXCEPT ![r] = [@ EXCEPT !.at = "leaving", !.why = "", !.absent = FALSE]]

(* What a process that ends held.                                           *)
Unlocked(gone) == [m \in Model |-> IF lock[m] \in gone THEN Free ELSE lock[m]]

rows   == <<job, run, reg>>
models == <<server, kept, marked>>

-----------------------------------------------------------------------------
(* The leader of the background jobs.                                       *)

Leading == {p \in Proc : phase[p] \in {"elected", "leads"}}

(* Processes are not told apart until one is elected.                       *)
Waiting   == {p \in Proc : phase[p] = "waits"}
Candidate == CHOOSE p \in Waiting : TRUE

(* _elect: whoever gets the file lock.                                      *)
Elect ==
    /\ Leading = {} /\ Waiting # {}
    /\ phase' = [phase EXCEPT ![Candidate] = "elected"]
    /\ UNCHANGED <<rows, lock, models, del>>

(* stop: threads are joined for a few seconds only; they may outlive the    *)
(* lock.  Model: some process is left to follow.                            *)
Stop(p) ==
    /\ p \in Leading /\ Waiting # {}
    /\ phase' = [phase EXCEPT ![p] = "stopping"]
    /\ UNCHANGED <<rows, lock, models, del>>

(* A process that led ends, or is killed; its rows stay as they are.        *)
End(p) ==
    LET mine == {r \in Run : run[r].proc = p} IN
    /\ phase[p] = "stopping" \/ (p \in Leading /\ Waiting # {})
    /\ phase' = [phase EXCEPT ![p] = "ended"]
    /\ run' = [r \in Run |-> IF r \in mine THEN OverThread ELSE run[r]]
    /\ reg' = [reg EXCEPT ![p] = {}]
    /\ lock' = Unlocked(mine \cup {p})
    /\ del' = [del EXCEPT ![p] = NoDeletion]
    /\ UNCHANGED <<job, models>>

(* run_downloads of a new leader: reset_stuck, once in a process' life.     *)
Recover(p) ==
    /\ phase[p] = "elected"
    /\ phase' = [phase EXCEPT ![p] = "leads"]
    /\ job' = [j \in Job |-> IF job[j].status = "pulling"
                                 THEN [job[j] EXCEPT !.status = "queued", !.claim = NoRun]
                                 ELSE job[j]]
    /\ UNCHANGED <<run, reg, lock, models, del>>

(* recover_orphans: a job that reported nothing for longer than the stall   *)
(* time, so not one whose thread is about to start.                         *)
RecoverOrphan(p, j) ==
    /\ phase[p] = "leads"
    /\ job[j].status = "pulling" /\ j \notin reg[p]
    /\ run[job[j].claim].at # "claimed"
    /\ job' = [job EXCEPT ![j].status = "queued", ![j].claim = NoRun]
    /\ UNCHANGED <<run, reg, lock, models, phase, del>>

-----------------------------------------------------------------------------
(* Administrators.                                                          *)

\* mutant: a download of a model that is being deleted is not refused
EnqueueAny(m) ==
    LET new == {j \in Job : ModelOf[j] = m /\ job[j].status = "none"} IN
    /\ new # {}
    /\ ~Wanted(m)
    /\ job' = Becomes(CHOOSE j \in new : TRUE, "queued")
    /\ UNCHANGED <<run, reg, lock, models, phase, del>>

(* enqueue_ollama, also by enqueue_many and retry: refused while the model  *)
(* is being deleted or has an active job.                                   *)
Enqueue(m) ==
    LET new == {j \in Job : ModelOf[j] = m /\ job[j].status = "none"} IN
    /\ new # {}
    /\ m \notin marked
    /\ ~Wanted(m)
    /\ job' = Becomes(CHOOSE j \in new : TRUE, "queued")
    /\ UNCHANGED <<run, reg, lock, models, phase, del>>

(* cancel: the claim stays in the row.                                      *)
Cancel(j, cleanup) ==
    /\ Active(j)
    /\ job' = [job EXCEPT ![j].status = "cancelled", ![j].cleanup = cleanup]
    /\ UNCHANGED <<run, reg, lock, models, phase, del>>

(* delete_finished, clear_finished.                                         *)
DeleteFinished(j) ==
    /\ job[j].status \in {"done", "failed", "cancelled"}
    /\ job' = [job EXCEPT ![j] = [NoRow EXCEPT !.status = "removed"]]
    /\ UNCHANGED <<run, reg, lock, models, phase, del>>

-----------------------------------------------------------------------------
(* A run of a download job.                                                 *)

(* run_downloads, claim_next: jobs can be moved in the queue, so any may be *)
(* the next.                                                                *)
Unused == {r \in Run : run[r].at = "idle"}

ClaimNext(p) ==
    LET r == CHOOSE r \in Unused : TRUE IN
    /\ phase[p] = "leads"
    /\ Unused # {}
    /\ Cardinality({j \in Job : job[j].status = "pulling"}) < Limit
    /\ \E j \in Job :
        /\ job[j].status = "queued"
        /\ job' = [job EXCEPT ![j].status = "pulling", ![j].claim = r]
        /\ run' = [run EXCEPT ![r] = [@ EXCEPT !.at = "claimed", !.proc = p, !.job = j]]
    /\ UNCHANGED <<reg, lock, models, phase, del>>

(* _execute: the token is registered, the watcher starts.                   *)
Register(r) ==
    /\ run[r].at = "claimed"
    /\ reg' = [reg EXCEPT ![run[r].proc] = @ \cup {run[r].job}]
    /\ Goes(r, "locking")
    /\ UNCHANGED <<job, lock, models, phase, del>>

Acquire(r) ==
    /\ run[r].at = "locking" /\ lock[Target(r)] = Free
    /\ lock' = [lock EXCEPT ![Target(r)] = r]
    /\ Goes(r, "locked")
    /\ UNCHANGED <<job, reg, models, phase, del>>

(* _run_ollama: what is installed before, unless the server cannot say;     *)
(* _check_claim before and after.                                           *)
Look(r) ==
    /\ run[r].at = "locked"
    /\ Pulls(r)
    /\ \E absent \in {FALSE, Target(r) \notin server} :
        run' = [run EXCEPT ![r].at = "pulling", ![r].absent = absent]
    /\ UNCHANGED <<job, reg, lock, models, phase, del>>

(* What the model server may have of a download that ends early.            *)
Perhaps(r) == {server, server \cup {Target(r)}}

(* The stream says success, and _verify finds the model.                    *)
Complete(r) ==
    /\ run[r].at = "pulling"
    /\ server' = server \cup {Target(r)}
    /\ Goes(r, "verified")
    /\ UNCHANGED <<job, reg, lock, kept, marked, phase, del>>

Finish(r) ==
    /\ run[r].at = "verified" /\ Owns(r)
    /\ job' = Becomes(run[r].job, "done")
    /\ kept' = kept \cup {Target(r)}
    /\ Leaves(r)
    /\ UNCHANGED <<reg, lock, server, marked, phase, del>>

(* _retry_or_fail: attempts are not counted.                                *)
PullFails(r) ==
    /\ run[r].at = "pulling"
    /\ server' \in Perhaps(r)
    /\ job' \in {Requeued(r), Failed(r)}
    /\ Leaves(r)
    /\ UNCHANGED <<reg, lock, kept, marked, phase, del>>

(* The disk is full, or an unexpected error, as of a write; saving it as    *)
(* the outcome may fail as well.                                            *)
Break(r) ==
    /\ run[r].at \in {"locking", "locked", "pulling", "verified", "cut"}
    /\ job' \in {job, Failed(r)}
    /\ Leaves(r)
    /\ UNCHANGED <<reg, lock, models, phase, del>>

(* Why _watch or _check_claim cancel the token.  The watcher looks at the   *)
(* status first, the check at the claim.                                    *)
Found(r, why) ==
    LET row == RowOf(r) IN
    CASE why = "user"     -> row.status = "cancelled"
      [] why = "gone"     -> ~Pulls(r) /\ (row.status = "cancelled" => row.claim # r)
      [] why = "pause"    -> Pulls(r)
      [] why = "shutdown" -> phase[run[r].proc] = "stopping"
      [] why = "stall"    -> Pulls(r) /\ run[r].at = "pulling"

Cut(r) ==
    /\ run[r].at \in {"locking", "locked", "pulling", "verified"}
    /\ \E why \in Reason :
        /\ Found(r, why)
        /\ run' = [run EXCEPT ![r].at = "cut", ![r].why = why]
    /\ server' \in IF run[r].at = "pulling" THEN Perhaps(r) ELSE {server}
    /\ UNCHANGED <<job, reg, lock, kept, marked, phase, del>>

(* A cancelled download is cleaned up unless the job was deleted or claimed *)
(* by another run, the administrator keeps it, or another job wants it.     *)
CleansUp(r) ==
    /\ RowOf(r).status = "cancelled" /\ RowOf(r).claim = r
    /\ RowOf(r).cleanup
    /\ ~Wanted(Target(r))

(* _interrupted.                                                            *)
Interrupted(r) ==
    /\ run[r].at = "cut"
    /\ CASE run[r].why = "user"                -> job' = job
         [] run[r].why = "gone"                -> job' = job
         [] run[r].why \in {"pause", "shutdown"} -> job' = Requeued(r)
         [] run[r].why = "stall"               -> job' \in {Requeued(r), Failed(r)}
    /\ IF run[r].why = "user" /\ CleansUp(r) THEN Goes(r, "cleaning") ELSE Leaves(r)
    /\ UNCHANGED <<reg, lock, models, phase, del>>

(* cleanup: nothing of a model that was installed before; best effort.      *)
Cleanup(r) ==
    /\ run[r].at = "cleaning"
    /\ server' \in {server, IF run[r].absent THEN server \ {Target(r)} ELSE server}
    /\ Leaves(r)
    /\ UNCHANGED <<job, reg, lock, kept, marked, phase, del>>

\* mutant: the run stays registered
LeaveRegistered(r) ==
    /\ run[r].at = "leaving"
    /\ lock' = Unlocked({r})
    /\ run' = [run EXCEPT ![r] = IF Pulls(r) THEN [@ EXCEPT !.at = "left"] ELSE OverThread]
    /\ UNCHANGED <<job, reg, models, phase, del>>

(* The end of _execute.  The next run of the job, if it is registered       *)
(* already, is unregistered as well.                                        *)
Leave(r) ==
    /\ run[r].at = "leaving"
    /\ lock' = Unlocked({r})
    /\ reg' = [reg EXCEPT ![run[r].proc] = @ \ {run[r].job}]
    /\ run' = [run EXCEPT ![r] = IF Pulls(r) THEN [@ EXCEPT !.at = "left"] ELSE OverThread]
    /\ UNCHANGED <<job, models, phase, del>>

(* The outcome was not saved: the job is queued again, if that can be saved.*)
RequeueAbandoned(r) ==
    /\ run[r].at = "left"
    /\ job' \in {job, Requeued(r)}
    /\ run' = [run EXCEPT ![r] = OverThread]
    /\ UNCHANGED <<reg, lock, models, phase, del>>

-----------------------------------------------------------------------------
(* Deletions.                                                               *)

Step(d, place) == del' = [del EXCEPT ![d].at = place]

(* A deletion of the leader's job is over when its pass is; a request is    *)
(* not made again.                                                          *)
Closed(d) == IF d \in Proc THEN NoDeletion ELSE [NoDeletion EXCEPT !.at = "over"]
Close(d) == del' = [del EXCEPT ![d] = Closed(d)]

(* delete_from_server: the model is marked unless a download of it is       *)
(* active.  One in use is deleted later or, not when_idle, not at all (the  *)
(* transaction is rolled back).                                             *)
AskDelete(d, m, idle) ==
    /\ d \in Request /\ del[d].at = "idle"
    /\ ~Wanted(m)
    /\ marked' = marked \cup {m}
    /\ kept' = kept \ {m}
    /\ \/ idle /\ Close(d)
       \/ del' = [del EXCEPT ![d] = [at |-> "chosen", model |-> m, idle |-> idle,
                                     already |-> m \in marked]]
    /\ UNCHANGED <<rows, lock, server, phase>>

(* process_pending_deletes: a model nobody uses or downloads.               *)
PendingDelete(p, m) ==
    /\ p \in Leading /\ del[p].at = "idle"
    /\ m \in marked /\ ~Wanted(m)
    /\ del' = [del EXCEPT ![p] = [at |-> "chosen", model |-> m, idle |-> TRUE, already |-> TRUE]]
    /\ UNCHANGED <<rows, lock, models, phase>>

\* mutant: the row is not read again under the lock
StartDeleteStale(d) ==
    LET m == del[d].model IN
    /\ del[d].at = "chosen" /\ lock[m] = Free
    /\ lock' = [lock EXCEPT ![m] = d]
    /\ del' = [del EXCEPT ![d].at = "deleting", ![d].idle = FALSE]
    /\ UNCHANGED <<rows, models, phase>>

(* Under the lock the row is read again: the deletion may be cancelled.     *)
StartDelete(d) ==
    LET m == del[d].model IN
    /\ del[d].at = "chosen" /\ lock[m] = Free
    /\ IF m \in marked
       THEN /\ lock' = [lock EXCEPT ![m] = d]
            /\ del' = [del EXCEPT ![d].at = "deleting", ![d].idle = FALSE]
       ELSE UNCHANGED lock /\ Close(d)
    /\ UNCHANGED <<rows, models, phase>>

(* Timeout: the sweep skips the model, a request when_idle leaves it to the *)
(* sweep; any other takes back the mark it made.                            *)
Busy(d) ==
    LET m == del[d].model IN
    /\ del[d].at = "chosen" /\ lock[m] # Free
    /\ marked' = IF del[d].idle \/ del[d].already THEN marked ELSE marked \ {m}
    /\ Close(d)
    /\ UNCHANGED <<rows, lock, server, kept, phase>>

(* _delete_now: the call to the model server.                               *)
DeleteNow(d) ==
    /\ del[d].at = "deleting"
    /\ server' = server \ {del[d].model}
    /\ Step(d, "deleted")
    /\ UNCHANGED <<rows, lock, kept, marked, phase>>

\* mutant: a failed call leaves the lock taken
DeleteFailsLocked(d) ==
    /\ del[d].at = "deleting"
    /\ server' \in {server, server \ {del[d].model}}
    /\ IF del[d].already THEN Close(d) ELSE Step(d, "failed")
    /\ UNCHANGED <<rows, lock, kept, marked, phase>>

(* It may fail, before or after it had its effect.                          *)
DeleteFails(d) ==
    /\ del[d].at = "deleting"
    /\ server' \in {server, server \ {del[d].model}}
    /\ lock' = Unlocked({d})
    /\ IF del[d].already THEN Close(d) ELSE Step(d, "failed")
    /\ UNCHANGED <<rows, kept, marked, phase>>

Record(d) ==
    /\ del[d].at = "deleted"
    /\ marked' = marked \ {del[d].model}
    /\ lock' = Unlocked({d})
    /\ Close(d)
    /\ UNCHANGED <<rows, server, kept, phase>>

(* A request that failed takes back the mark it made; the lock is released  *)
(* before, and the row is not read again.                                   *)
Undo(d) ==
    /\ del[d].at = "failed"
    /\ marked' = marked \ {del[d].model}
    /\ Close(d)
    /\ UNCHANGED <<rows, lock, server, kept, phase>>

(* The process of a request ends.                                           *)
RequestDies(d) ==
    /\ d \in Request /\ del[d].at \notin {"idle", "over"}
    /\ lock' = Unlocked({d})
    /\ Close(d)
    /\ UNCHANGED <<rows, models, phase>>

(* cancel_delete; removing the catalogue entry forgets the mark as well.    *)
CancelDelete(m) ==
    /\ m \in marked /\ lock[m] = Free
    /\ marked' = marked \ {m}
    /\ kept' = kept \cup (server \cap {m})
    /\ UNCHANGED <<rows, lock, server, phase, del>>

-----------------------------------------------------------------------------
Serve(r) ==
    \/ Register(r) \/ Acquire(r) \/ Look(r) \/ Complete(r) \/ Finish(r) \/ PullFails(r)
    \/ Break(r) \/ Cut(r) \/ Interrupted(r) \/ Cleanup(r) \/ Leave(r) \/ RequeueAbandoned(r)

Delete(d) ==
    \/ StartDelete(d) \/ Busy(d) \/ DeleteNow(d) \/ DeleteFails(d) \/ Record(d) \/ Undo(d)

Next ==
    \/ Elect
    \/ \E p \in Proc : Stop(p) \/ End(p) \/ Recover(p) \/ ClaimNext(p)
    \/ \E p \in Proc, j \in Job : RecoverOrphan(p, j)
    \/ \E p \in Proc, m \in Model : PendingDelete(p, m)
    \/ \E j \in Job : DeleteFinished(j)
    \/ \E j \in Job, cleanup \in BOOLEAN : Cancel(j, cleanup)
    \/ \E r \in Run : Serve(r)
    \/ \E d \in Deleter : Delete(d) \/ RequestDies(d)
    \/ \E d \in Request, m \in Model, idle \in BOOLEAN : AskDelete(d, m, idle)
    \/ \E m \in Model : Enqueue(m) \/ CancelDelete(m)

Spec == Init /\ [][Next]_vars

(* Threads go on, some process gets the lock and recovers, requests end (a  *)
(* marked model is hidden from new ones), and a deletion that is tried      *)
(* again and again succeeds.                                                *)
Fairness ==
    /\ \A r \in Run : WF_vars(Serve(r))
    /\ WF_vars(Elect)
    /\ WF_vars(\E p \in Proc : Recover(p))
    /\ \A j \in Job : WF_vars(\E p \in Proc : RecoverOrphan(p, j))
    /\ \A m \in Model : WF_vars(\E p \in Proc : PendingDelete(p, m))
    /\ \A d \in Deleter : WF_vars(Delete(d))
    /\ SF_vars(\E p \in Proc : StartDelete(p))
    /\ SF_vars(\E p \in Proc : DeleteNow(p))

FairSpec == Spec /\ Fairness

-----------------------------------------------------------------------------
(* Properties.                                                              *)

(* What an administrator was told is there (a download that is done, a      *)
(* deletion that was cancelled in time) stays on the model server until     *)
(* they ask to delete it: no late cleanup or deletion takes it away.        *)
KeptIsServed == kept \subseteq server

(* No job downloads a model that waits for its deletion.                    *)
MarkedIsUnwanted == \A m \in marked : ~Wanted(m)

(* A job does not stay pulling for ever, whatever process works on it.      *)
PullsEnd == \A j \in Job : job[j].status = "pulling" ~> job[j].status # "pulling"

(* A model that is marked is deleted, or the deletion is taken back.        *)
DeletionsEnd == \A m \in Model : m \in marked ~> m \notin marked
=============================================================================
