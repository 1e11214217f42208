----------------------------- MODULE AgentTasks -----------------------------
(***************************************************************************)
(* Agent tasks (services/agents, db/agents.py): the row of a task with its  *)
(* lease, the runs that work on it one after the other, and the sandbox     *)
(* (a container of the runner, compute/sandbox_runner.py) the task keeps    *)
(* from run to run.                                                         *)
(*                                                                          *)
(* A lease that is not renewed may be taken over by a follow-up or given up *)
(* by recovery while the run that lost it still works.  The runner is       *)
(* another machine: a call may fail before or after it had its effect.      *)
(* Three parties delete sandboxes: runs, a run of another task that needs   *)
(* the place, and housekeeping; an item of jobs is a thread of housekeeping *)
(* (or a request that deletes a task) between two of its steps.             *)
(***************************************************************************)
EXTENDS Naturals, FiniteSets

CONSTANTS
    Task,       \* agent tasks
    Run,        \* runs, each with its owner_token
    TaskOf,     \* [Run -> Task]
    Box,        \* sandbox ids
    NoRun, NoBox, NoTask,
    Places,     \* max_sandboxes of the runner
    MaxPending, \* MAX_PENDING_FOLLOW_UPS
    MaxJobs     \* bound of the model: housekeeping threads at once

ASSUME AgentTasksAssumption ==
    /\ NoRun \notin Run /\ NoBox \notin Box /\ NoTask \notin Task
    /\ TaskOf \in [Run -> Task]
    /\ Places \in Nat /\ MaxPending \in Nat /\ MaxJobs \in Nat

VARIABLES
    row,     \* [Task -> row of agent_tasks]; pending counts its agent_messages
    run,     \* [Run -> state of the thread of a loop.TaskRun]
    boxes,   \* sandboxes of the runner
    session, \* [Box -> task it was created for, NoTask before that]
    jobs,    \* steps housekeeping has before it
    dropped  \* tasks whose messages the end of a run could not pass on

vars == <<row, run, boxes, session, jobs, dropped>>

Row == [status : {"none", "active", "finished", "ended", "gone"},
        owner : Run \cup {NoRun}, box : Box \cup {NoBox},
        timed : BOOLEAN,              \* sandbox_expires_at is set
        stop : BOOLEAN, pending : 0..MaxPending]

Ending  == {"keeping", "discarding"}           \* in TaskRun._end
Ended   == {"removing", "clearing", "after"}   \* after finish()
Place   == {"idle", "launched", "adopting", "working", "waiting", "made",
            "reclaiming", "giving", "over"} \cup Ending \cup Ended

Thread == [at : Place,
           box : Box \cup {NoBox},    \* TaskRun.sandbox_id
           held : Box \cup {NoBox},   \* just created, or taken off its task
           good : BOOLEAN]            \* the outcome is "finished"

Job == [kind : {"kill", "reap", "clear", "unknown", "forget", "erase"},
        task : Task \cup {NoTask}, box : Box \cup {NoBox}]

TypeOK ==
    /\ row \in [Task -> Row]
    /\ run \in [Run -> Thread]
    /\ boxes \subseteq Box
    /\ session \in [Box -> Task \cup {NoTask}]
    /\ jobs \subseteq Job
    /\ dropped \subseteq Task

NoRow == [status |-> "none", owner |-> NoRun, box |-> NoBox, timed |-> FALSE,
          stop |-> FALSE, pending |-> 0]

NewThread  == [at |-> "idle", box |-> NoBox, held |-> NoBox, good |-> FALSE]
OverThread == [NewThread EXCEPT !.at = "over"]

Init ==
    /\ row = [t \in Task |-> NoRow]
    /\ run = [r \in Run |-> NewThread]
    /\ boxes = {}
    /\ session = [b \in Box |-> NoTask]
    /\ jobs = {}
    /\ dropped = {}

-----------------------------------------------------------------------------
(* Helpers.                                                                 *)

Exists(t) == row[t].status \notin {"none", "gone"}

Holds(r) == row[TaskOf[r]].owner = r

(* Leased by a run; whether its heartbeat is older than LEASE_SECONDS is    *)
(* not kept: it may be, whether the process is alive, slow or gone.         *)
Worked(t) == row[t].status = "active" /\ row[t].owner # NoRun

(* What may be left of sandbox b after a delete or kill that may also fail. *)
Perhaps(b) == {boxes, boxes \ {b}}

(* A run that starts has a token of its own: any that was never used.       *)
Unused(t) == {r \in Run : TaskOf[r] = t /\ run[r].at = "idle"}
NewRun(t) == CHOOSE r \in Unused(t) : TRUE

At(r, place) == run' = [run EXCEPT ![r].at = place]

(* What a thread that ends, and its process, still know is of no use.       *)
Afterwards(good) == [NewThread EXCEPT !.at = "after", !.good = good]
Done(r) == run' = [run EXCEPT ![r] = Afterwards(run[r].good)]
Over(r) == run' = [run EXCEPT ![r] = OverThread]

(* create, and resume of a task: a new run takes the lease.                 *)
Resume(t, pending) ==
    /\ Unused(t) # {}
    /\ row' = [row EXCEPT ![t] = [@ EXCEPT !.status = "active", !.owner = NewRun(t),
                                           !.stop = FALSE, !.pending = pending]]
    /\ dropped' = dropped \ {t}

(* finish and recover_stale: the lease is released.                         *)
Released(t, status, timed) ==
    [row[t] EXCEPT !.status = status, !.owner = NoRun, !.stop = FALSE,
                   !.timed = timed /\ row[t].box # NoBox]

Unboxed(t) == [row[t] EXCEPT !.box = NoBox, !.timed = FALSE]

Erased(t) == [NoRow EXCEPT !.status = "gone"]

Forget(t) == /\ row' = [row EXCEPT ![t] = Erased(t)]
             /\ dropped' = dropped \ {t}

-----------------------------------------------------------------------------
(* A person's requests.                                                     *)

StartTask(t) ==
    /\ row[t].status = "none"
    /\ Resume(t, 0) /\ At(NewRun(t), "launched")
    /\ UNCHANGED <<boxes, session, jobs>>

\* mutant: the row is not read again in the transaction that adds the message
QueueFollowUpSeen(t) ==
    /\ Worked(t) \/ row[t].status = "finished"
    /\ row[t].pending < MaxPending
    /\ row' = [row EXCEPT ![t].pending = @ + 1]
    /\ UNCHANGED <<run, boxes, session, jobs, dropped>>

(* follow_up of a task that is being worked on: the run reads it.           *)
QueueFollowUp(t) ==
    /\ Worked(t)
    /\ row[t].pending < MaxPending
    /\ row' = [row EXCEPT ![t].pending = @ + 1]
    /\ UNCHANGED <<run, boxes, session, jobs, dropped>>

(* follow_up of any other, and of one whose lease is stale: a new run takes *)
(* the lease.                                                               *)
FollowUp(t) ==
    /\ Exists(t)
    /\ row[t].pending < MaxPending
    /\ Resume(t, row[t].pending + 1) /\ At(NewRun(t), "launched")
    /\ UNCHANGED <<boxes, session, jobs>>

(* The service recovers the task next when its lease is stale (Recover).    *)
Stop(t) ==
    /\ Worked(t) /\ ~row[t].stop
    /\ row' = [row EXCEPT ![t].stop = TRUE]
    /\ UNCHANGED <<run, boxes, session, jobs, dropped>>

(* delete_task asks the run to stop and the runner to delete the sandbox;   *)
(* the row goes last.                                                       *)
AskErase(t) ==
    /\ Exists(t)
    /\ Cardinality(jobs) < MaxJobs
    /\ row' = [row EXCEPT ![t].stop = row[t].owner # NoRun]
    /\ boxes' \in Perhaps(row[t].box)
    /\ jobs' = jobs \cup {[kind |-> "erase", task |-> t, box |-> NoBox]}
    /\ UNCHANGED <<run, session, dropped>>

EraseRow(j) ==
    /\ j.kind = "erase"
    /\ Forget(j.task)
    /\ jobs' = jobs \ {j}
    /\ UNCHANGED <<run, boxes, session>>

(* The account is deleted, its tasks with it, and then discard_workspaces.  *)
LoseAccount(t) ==
    /\ Exists(t)
    /\ Forget(t)
    /\ boxes' \in Perhaps(row[t].box)
    /\ UNCHANGED <<run, session, jobs>>

-----------------------------------------------------------------------------
(* The thread of a run.                                                     *)

(* _launch when the thread does not start: finish without an expiry.        *)
LaunchFails(r) ==
    LET t == TaskOf[r] IN
    /\ run[r].at = "launched"
    /\ row' = IF Holds(r) THEN [row EXCEPT ![t] = Released(t, "ended", FALSE)] ELSE row
    /\ Over(r)
    /\ UNCHANGED <<boxes, session, jobs, dropped>>

(* _execute reads the row, then writes under its token.                     *)
Begin(r) ==
    /\ run[r].at = "launched" /\ Holds(r)
    /\ run' = [run EXCEPT ![r].at = "adopting", ![r].box = row[TaskOf[r]].box]
    /\ UNCHANGED <<row, boxes, session, jobs, dropped>>

Adopt(r) ==
    LET t == TaskOf[r] IN
    /\ run[r].at = "adopting" /\ Holds(r)
    /\ row' = IF run[r].box = NoBox THEN row
              ELSE [row EXCEPT ![t].box = run[r].box, ![t].timed = FALSE]
    /\ At(r, "working")
    /\ UNCHANGED <<boxes, session, jobs, dropped>>

(* take_messages hands over the oldest, at most ten at a time.              *)
TakeMessages(r) ==
    LET t == TaskOf[r] IN
    /\ run[r].at = "working" /\ Holds(r)
    /\ \E n \in 0..MaxPending : /\ n < row[t].pending
                                /\ row' = [row EXCEPT ![t].pending = n]
    /\ UNCHANGED <<run, boxes, session, jobs, dropped>>

(* ensure_sandbox: the runner makes a sandbox; its answer may be lost.      *)
CreateBox(r) ==
    /\ run[r].at \in {"working", "waiting"} /\ run[r].box = NoBox
    /\ Cardinality(boxes) < Places
    /\ LET fresh == {b \in Box : session[b] = NoTask}
           b == CHOOSE x \in fresh : TRUE
       IN  /\ fresh # {}
           /\ session' = [session EXCEPT ![b] = TaskOf[r]]
           /\ boxes' = boxes \cup {b}
           /\ \/ run' = [run EXCEPT ![r].at = "made", ![r].held = b]
              \/ UNCHANGED run
    /\ UNCHANGED <<row, jobs, dropped>>

(* The row names it, or the run learns that its lease is lost and deletes   *)
(* what it made.                                                            *)
NameBox(r) ==
    LET t == TaskOf[r]  b == run[r].held IN
    /\ run[r].at = "made"
    /\ \/ /\ Holds(r)
          /\ row' = [row EXCEPT ![t].box = b, ![t].timed = FALSE]
          /\ run' = [run EXCEPT ![r].at = "working", ![r].box = b, ![r].held = NoBox]
          /\ UNCHANGED boxes
       \/ /\ ~Holds(r)
          /\ Over(r)
          /\ boxes' \in Perhaps(b)
          /\ UNCHANGED row
    /\ UNCHANGED <<session, jobs, dropped>>

\* mutant: without the condition that nobody holds the lease
KeptAnyway == {t \in Task : row[t].box # NoBox /\ row[t].timed}

(* Every place is taken: a kept workspace is taken off its task, once.      *)
Kept == {t \in Task : row[t].box # NoBox /\ row[t].owner = NoRun /\ row[t].timed}

TakeKept(r, t) ==
    /\ run' = [run EXCEPT ![r].at = "reclaiming", ![r].held = row[t].box]
    /\ row' = [row EXCEPT ![t] = Unboxed(t)]

Reclaim(r) ==
    /\ run[r].at = "working" /\ run[r].box = NoBox
    /\ Cardinality(boxes) >= Places
    /\ IF Kept = {} THEN At(r, "waiting") /\ UNCHANGED row
                    ELSE \E t \in Kept : TakeKept(r, t)
    /\ UNCHANGED <<boxes, session, jobs, dropped>>

DeleteTaken(r) ==
    /\ run[r].at = "reclaiming"
    /\ \/ /\ boxes' = boxes \ {run[r].held}
          /\ run' = [run EXCEPT ![r].at = "waiting", ![r].held = NoBox]
       \/ /\ boxes' \in Perhaps(run[r].held)
          /\ At(r, "giving")
    /\ UNCHANGED <<row, session, jobs, dropped>>

(* give_back_kept_sandbox; session is the id of the row it was taken from.  *)
Returned(t, b) == IF row[t].box = NoBox /\ row[t].owner = NoRun /\ Exists(t)
                  THEN [row EXCEPT ![t].box = b, ![t].timed = TRUE]
                  ELSE row

GiveBack(r) ==
    LET b == run[r].held IN
    /\ run[r].at = "giving"
    /\ \/ row' = Returned(session[b], b)     \* it exists, or nobody can tell
       \/ b \notin boxes /\ UNCHANGED row
    /\ run' = [run EXCEPT ![r].at = "waiting", ![r].held = NoBox]
    /\ UNCHANGED <<boxes, session, jobs, dropped>>

(* _sandbox_lost: a call found the sandbox gone.                            *)
BoxLost(r) ==
    LET t == TaskOf[r] IN
    /\ run[r].at = "working" /\ run[r].box # NoBox
    /\ run[r].box \notin boxes
    /\ row' = IF Holds(r) THEN [row EXCEPT ![t] = Unboxed(t)] ELSE row
    /\ run' = [run EXCEPT ![r].box = NoBox]
    /\ UNCHANGED <<boxes, session, jobs, dropped>>

(* _interrupt and _stop_leftovers: what still runs in the sandbox is killed *)
(* before the lease is released; the runner may remove the sandbox over it, *)
(* and when it cannot say, the run will.                                    *)
End(r) ==
    /\ run[r].at \in {"working", "waiting"}
    /\ \/ At(r, "keeping") /\ UNCHANGED boxes
       \/ At(r, "discarding") /\ boxes' \in Perhaps(run[r].box)
    /\ UNCHANGED <<row, session, jobs, dropped>>

(* _end: finish(), under the token.                                         *)
Finish(r) ==
    LET t == TaskOf[r] IN
    /\ run[r].at \in Ending /\ Holds(r)
    /\ \E good \in BOOLEAN :
        /\ row' = [row EXCEPT ![t] =
                     Released(t, IF good THEN "finished" ELSE "ended", TRUE)]
        /\ run' = [run EXCEPT ![r] =
                     IF run[r].at = "discarding" /\ run[r].box # NoBox
                     THEN [@ EXCEPT !.at = "removing", !.good = good]
                     ELSE Afterwards(good)]
    /\ UNCHANGED <<boxes, session, jobs, dropped>>

RemoveOwn(r) ==
    /\ run[r].at = "removing"
    /\ \/ boxes' = boxes \ {run[r].box} /\ At(r, "clearing")
       \/ boxes' \in Perhaps(run[r].box) /\ Done(r)
    /\ UNCHANGED <<row, session, jobs, dropped>>

\* mutant: without the condition on sandbox_id
ClearedAny(t, b) == IF row[t].box # NoBox THEN [row EXCEPT ![t] = Unboxed(t)] ELSE row

(* clear_sandbox asks for the sandbox, not for the lease.                   *)
Cleared(t, b) == IF row[t].box = b THEN [row EXCEPT ![t] = Unboxed(t)] ELSE row

ClearOwn(r) ==
    /\ run[r].at = "clearing"
    /\ row' = Cleared(TaskOf[r], run[r].box)
    /\ Done(r)
    /\ UNCHANGED <<boxes, session, jobs, dropped>>

(* _after_run: messages that came too late for the run start the next one,  *)
(* unless its owner or the site may not start one now.                      *)
AfterRun(r) ==
    LET t == TaskOf[r]
        more == run[r].good /\ row[t].status = "finished" /\ row[t].pending > 0
    IN
    /\ run[r].at = "after"
    /\ \/ /\ ~more
          /\ Over(r)
          /\ UNCHANGED <<row, dropped>>
       \/ /\ more
          /\ Over(r)
          /\ dropped' = dropped \cup {t}
          /\ UNCHANGED row
       \/ /\ more
          /\ Resume(t, row[t].pending)
          /\ run' = [run EXCEPT ![r] = OverThread, ![NewRun(t)].at = "launched"]
    /\ UNCHANGED <<boxes, session, jobs>>

(* LeaseLost: nothing more is written.  A command it interrupts may take    *)
(* the sandbox with it, and a deleted task's sandbox is deleted.            *)
Lose(r) ==
    /\ run[r].at \in {"launched", "adopting", "working", "waiting"} \cup Ending
    /\ ~Holds(r)
    /\ Over(r)
    /\ IF run[r].at = "working" \/ (run[r].at \in Ending /\ row[TaskOf[r]].status = "gone")
       THEN boxes' \in Perhaps(run[r].box)
       ELSE UNCHANGED boxes
    /\ UNCHANGED <<row, session, jobs, dropped>>

(* The process dies.                                                        *)
Die(r) ==
    LET t == TaskOf[r] IN
    /\ run[r].at \notin {"idle", "over"}
    /\ Over(r)
    /\ dropped' = IF run[r].at \in Ended /\ run[r].good THEN dropped \cup {t} ELSE dropped
    /\ UNCHANGED <<row, boxes, session, jobs>>

-----------------------------------------------------------------------------
(* Leases.                                                                  *)

\* mutant: the heartbeat is renewed before the stop is looked at
RenewedFirst(t) == \E r \in Run : row[t].owner = r /\ run[r].at # "over"

(* lease_check, by the supervisor of the process: a task asked to stop is   *)
(* told so instead of being renewed.                                        *)
Renewed(t) == /\ \E r \in Run : row[t].owner = r /\ run[r].at # "over"
              /\ ~row[t].stop

(* recover_stale, then _stop_leftovers.                                     *)
Recover(t) ==
    /\ row[t].owner # NoRun
    /\ Cardinality(jobs) < MaxJobs
    /\ row' = [row EXCEPT ![t] = Released(t, "ended", TRUE)]
    /\ jobs' = jobs \cup {[kind |-> "kill", task |-> t, box |-> NoBox]}
    /\ UNCHANGED <<run, boxes, session, dropped>>

(* The row is read again: the task may have another sandbox by now.  What   *)
(* cannot be killed is removed, now or by the next pass of the reaper.      *)
KillLeftovers(j) ==
    LET t == j.task  b == row[j.task].box IN
    /\ j.kind = "kill"
    /\ \/ UNCHANGED <<row, boxes>>
       \/ /\ b # NoBox
          /\ boxes' \in Perhaps(b)
          /\ row' = [row EXCEPT ![t].timed = @ \/ row[t].owner = NoRun]
    /\ jobs' = jobs \ {j}
    /\ UNCHANGED <<run, session, dropped>>

-----------------------------------------------------------------------------
(* The reaper and the retention job.                                        *)

Later(j, kind) == (jobs \ {j}) \cup {[j EXCEPT !.kind = kind]}

(* A workspace whose keep time ended.                                       *)
ListExpired(t) ==
    /\ t \in Kept
    /\ Cardinality(jobs) < MaxJobs
    /\ jobs' = jobs \cup {[kind |-> "reap", task |-> t, box |-> row[t].box]}
    /\ UNCHANGED <<row, run, boxes, session, dropped>>

\* mutant: by the task it was made for, not by the sandbox its row names
ListOrphans(b) ==
    /\ b \in boxes
    /\ \E t \in Task : session[b] = t /\ ~Exists(t)
    /\ Cardinality(jobs) < MaxJobs
    /\ jobs' = jobs \cup {[kind |-> "unknown", task |-> NoTask, box |-> b]}
    /\ UNCHANGED <<row, run, boxes, session, dropped>>

(* A sandbox of the runner no task names.                                   *)
ListUnknown(b) ==
    /\ b \in boxes
    /\ \A t \in Task : row[t].box # b
    /\ Cardinality(jobs) < MaxJobs
    /\ jobs' = jobs \cup {[kind |-> "unknown", task |-> NoTask, box |-> b]}
    /\ UNCHANGED <<row, run, boxes, session, dropped>>

(* _delete_sandbox answers, or fails with or without its effect.            *)
Delete(j) ==
    /\ j.kind \in {"reap", "unknown"}
    /\ boxes' = boxes \ {j.box}
    /\ jobs' = Later(j, IF j.kind = "reap" THEN "clear" ELSE "forget")
    /\ UNCHANGED <<row, run, session, dropped>>

DeleteFails(j) ==
    /\ j.kind \in {"reap", "unknown"}
    /\ boxes' \in Perhaps(j.box)
    /\ jobs' = jobs \ {j}
    /\ UNCHANGED <<row, run, session, dropped>>

ClearReaped(j) ==
    /\ j.kind = "clear"
    /\ row' = Cleared(j.task, j.box)
    /\ jobs' = jobs \ {j}
    /\ UNCHANGED <<run, boxes, session, dropped>>

(* forget_sandbox: a reclaim may have given it back meanwhile.              *)
ForgetUnknown(j) ==
    /\ j.kind = "forget"
    /\ row' = [t \in Task |-> IF row[t].box = j.box /\ row[t].owner = NoRun
                              THEN Unboxed(t) ELSE row[t]]
    /\ jobs' = jobs \ {j}
    /\ UNCHANGED <<run, boxes, session, dropped>>

(* The retention job deletes an old task nobody works on, then its sandbox. *)
Purge(t) ==
    /\ Exists(t) /\ row[t].owner = NoRun
    /\ Forget(t)
    /\ boxes' \in Perhaps(row[t].box)
    /\ UNCHANGED <<run, session, jobs>>

JobStep(j) == KillLeftovers(j) \/ Delete(j) \/ ClearReaped(j) \/ ForgetUnknown(j) \/ EraseRow(j)

(* The process that does it dies.                                           *)
DropJob(j) ==
    /\ jobs' = jobs \ {j}
    /\ UNCHANGED <<row, run, boxes, session, dropped>>

(* The runner removes a sandbox by itself (idle, too old, restarted).       *)
Vanish(b) ==
    /\ b \in boxes
    /\ boxes' = boxes \ {b}
    /\ UNCHANGED <<row, run, session, jobs, dropped>>

-----------------------------------------------------------------------------
Request(t) == StartTask(t) \/ QueueFollowUp(t) \/ FollowUp(t) \/ Stop(t)
              \/ AskErase(t) \/ LoseAccount(t)

RunStep(r) ==
    \/ LaunchFails(r) \/ Begin(r) \/ Adopt(r) \/ TakeMessages(r) \/ CreateBox(r)
    \/ NameBox(r) \/ Reclaim(r) \/ DeleteTaken(r) \/ GiveBack(r) \/ BoxLost(r) \/ End(r)
    \/ Finish(r) \/ RemoveOwn(r) \/ ClearOwn(r) \/ AfterRun(r) \/ Lose(r) \/ Die(r)

Next ==
    \/ \E t \in Task : Request(t) \/ Recover(t)
                       \/ ListExpired(t) \/ Purge(t)
    \/ \E r \in Run : RunStep(r)
    \/ \E b \in Box : ListUnknown(b) \/ Vanish(b)
    \/ \E j \in jobs : JobStep(j) \/ DeleteFails(j) \/ DropJob(j)

Spec == Init /\ [][Next]_vars

(* A heartbeat nobody renews gets old, and recovery comes every 30 seconds. *)
RecoverLapsed(t) == ~Renewed(t) /\ Recover(t)

DeleteBox(b) == \E j \in jobs : j.box = b /\ Delete(j)

(* The leader runs the recovery and the reaper again and again (every 30    *)
(* and 60 seconds), over all tasks and sandboxes; of the calls it keeps     *)
(* making for a sandbox one is answered.  Nothing is asked of the threads   *)
(* of the runs, which may hang, nor of the retention job and the runner.    *)
Fairness ==
    /\ \A t \in Task : /\ SF_vars(RecoverLapsed(t)) /\ SF_vars(ListExpired(t))
    /\ \A b \in Box : SF_vars(ListUnknown(b)) /\ SF_vars(DeleteBox(b))
    /\ WF_vars(\E j \in jobs : JobStep(j))

FairSpec == Spec /\ Fairness

-----------------------------------------------------------------------------
(* Properties.                                                              *)

(* The sandbox a run with the lease works in, while it exists, is the one   *)
(* its row names: whoever stops, recovers, deletes or downloads finds it.   *)
LiveBoxIsNamed ==
    \A r \in Run : (Holds(r) /\ run[r].at \notin {"launched", "idle"} /\ run[r].box \in boxes)
                       => row[TaskOf[r]].box = run[r].box

(* A workspace taken off its task to make room is nobody's until it is      *)
(* deleted or given back: no row names it and no run with the lease works   *)
(* in it.                                                                   *)
ReclaimSparesRuns ==
    \A a \in Run : run[a].at \in {"reclaiming", "giving"} =>
        /\ \A t \in Task : row[t].box # run[a].held
        /\ \A r \in Run : Holds(r) => run[r].box # run[a].held

(* A message that came too late for a run that finished is not forgotten:   *)
(* that run still has _after_run before it, or could not pass it on.        *)
NoMessageForgotten ==
    \A t \in Task : (row[t].status = "finished" /\ row[t].pending > 0) =>
        \/ t \in dropped
        \/ \E r \in Run : TaskOf[r] = t /\ run[r].at \in Ended /\ run[r].good

(* A task asked to stop does, even when its thread hangs: a lease that was  *)
(* asked for is not renewed, so recovery takes it.                          *)
StopEnds == \A t \in Task : row[t].stop ~> ~row[t].stop

(* A sandbox goes, unless a run with the lease works in it, whatever the    *)
(* runs and the calls that should have removed it did.  The exception is    *)
(* the one _launch makes when the thread does not start: the sandbox the    *)
(* task kept has no keep time any more and stays until the task is deleted. *)
Used(b) == \E r \in Run : Holds(r) /\ run[r].at # "over" /\ row[TaskOf[r]].box = b

Stranded(b) == \E t \in Task : row[t].box = b /\ row[t].owner = NoRun /\ ~row[t].timed

BoxesGo == \A b \in Box : b \in boxes ~> (b \notin boxes \/ Used(b) \/ Stranded(b))
=============================================================================
