-------------------------- MODULE AgentTasksProofs --------------------------
(***************************************************************************)
(* Proofs about AgentTasks, for any number of tasks, runs, sandboxes and    *)
(* housekeeping threads.  One lemma per part of the invariant says that     *)
(* every step keeps it.                                                     *)
(***************************************************************************)
EXTENDS AgentTasks, TLAPS

(* A token nobody used yet.                                                 *)
LEMMA NewRunUnused ==
    ASSUME NEW t \in Task, Unused(t) # {}
    PROVE  NewRun(t) \in Run /\ TaskOf[NewRun(t)] = t /\ run[NewRun(t)].at = "idle"
BY DEF NewRun, Unused

(* The sandbox the runner makes has an id it never gave out before.         *)
LEMMA NewBox ==
    ASSUME NEW S, S = {b \in Box : session[b] = NoTask}, S # {}
    PROVE  (CHOOSE x \in S : TRUE) \in Box /\ session[CHOOSE x \in S : TRUE] = NoTask
OBVIOUS

(* A delete or kill leaves no sandbox that was not there.                   *)
LEMMA Fewer ==
    ASSUME NEW b, boxes' \in Perhaps(b)
    PROVE  boxes' \subseteq boxes
BY DEF Perhaps

LEMMA RowsTyped ==
    ASSUME TypeOK, NEW t \in Task
    PROVE  /\ row[t] \in Row
           /\ \A s \in {"none", "active", "finished", "ended", "gone"}, timed \in BOOLEAN :
                  Released(t, s, timed) \in Row
           /\ Unboxed(t) \in Row
           /\ Erased(t) \in Row
<1> USE AgentTasksAssumption
<1>1. row[t] \in Row
  BY DEF TypeOK
<1>2. ASSUME NEW s \in {"none", "active", "finished", "ended", "gone"}, NEW timed \in BOOLEAN
      PROVE  Released(t, s, timed) \in Row
  <2> DEFINE still == timed /\ row[t].box # NoBox
  <2>1. still \in BOOLEAN
    OBVIOUS
  <2>2. Released(t, s, timed) = [row[t] EXCEPT !.status = s, !.owner = NoRun, !.stop = FALSE,
                                               !.timed = still]
    BY DEF Released
  <2> HIDE DEF still
  <2> QED
    BY <1>1, <2>1, <2>2 DEF Row
<1>3. Unboxed(t) \in Row
  BY <1>1 DEF Unboxed, Row
<1>4. Erased(t) \in Row
  <2>1. 0 \in 0..MaxPending
    OBVIOUS
  <2> QED
    BY <2>1 DEF Erased, NoRow, Row
<1> QED
  BY <1>1, <1>2, <1>3, <1>4

LEMMA ResumeTyped ==
    ASSUME TypeOK, NEW t \in Task, NEW n \in 0..MaxPending, Resume(t, n)
    PROVE  /\ row' \in [Task -> Row] /\ dropped' \subseteq Task
           /\ NewRun(t) \in Run /\ TaskOf[NewRun(t)] = t /\ run[NewRun(t)].at = "idle"
<1>1. NewRun(t) \in Run /\ TaskOf[NewRun(t)] = t /\ run[NewRun(t)].at = "idle"
  BY NewRunUnused DEF Resume
<1>2. row[t] \in Row
  BY DEF TypeOK
<1>3. [row[t] EXCEPT !.status = "active", !.owner = NewRun(t), !.stop = FALSE, !.pending = n] \in Row
  BY <1>1, <1>2 DEF Row
<1>4. row' \in [Task -> Row]
  BY <1>3 DEF Resume, TypeOK
<1>5. dropped' \subseteq Task
  BY DEF Resume, TypeOK
<1> QED
  BY <1>1, <1>4, <1>5

(* The threads after a step of one of them.                                 *)
LEMMA ThreadsTyped ==
    ASSUME TypeOK, NEW r \in Run
    PROVE  /\ \A p \in Place : At(r, p) => run' \in [Run -> Thread]
           /\ run[r] \in Thread /\ OverThread \in Thread
           /\ \A good \in BOOLEAN : Afterwards(good) \in Thread
           /\ Over(r) => run' \in [Run -> Thread]
           /\ Done(r) => run' \in [Run -> Thread]
<1>1. run[r] \in Thread
  BY DEF TypeOK
<1>2. ASSUME NEW p \in Place, At(r, p)
      PROVE  run' \in [Run -> Thread]
  BY <1>1, <1>2 DEF At, TypeOK, Thread
<1>3. OverThread \in Thread
  BY DEF OverThread, NewThread, Thread, Place
<1>4. ASSUME NEW good \in BOOLEAN
      PROVE  Afterwards(good) \in Thread
  BY DEF Afterwards, NewThread, Thread, Place, Ended
<1>5. Over(r) => run' \in [Run -> Thread]
  BY <1>3 DEF Over, TypeOK
<1>6. Done(r) => run' \in [Run -> Thread]
  <2>1. run[r].good \in BOOLEAN
    BY <1>1 DEF Thread
  <2> QED
    BY <1>4, <2>1 DEF Done, TypeOK
<1> QED
  BY <1>1, <1>2, <1>3, <1>4, <1>5, <1>6

LEMMA TypeInit == Init => TypeOK
BY AgentTasksAssumption DEF Init, TypeOK, Row, NoRow, Thread, NewThread, Place, Ending, Ended

LEMMA TypeRequest ==
    ASSUME TypeOK, NEW t \in Task, Request(t)
    PROVE  TypeOK'
<1> USE AgentTasksAssumption
<1>1. CASE StartTask(t)
  <2>1. 0 \in 0..MaxPending /\ Resume(t, 0) /\ At(NewRun(t), "launched") /\ "launched" \in Place
    BY <1>1 DEF StartTask, Place
  <2> QED
    BY <1>1, <2>1, ResumeTyped, ThreadsTyped DEF StartTask, TypeOK
<1>2. CASE QueueFollowUp(t)
  BY <1>2 DEF QueueFollowUp, TypeOK, Row
<1>3. CASE FollowUp(t)
  <2>1. row[t].pending + 1 \in 0..MaxPending /\ Resume(t, row[t].pending + 1)
        /\ At(NewRun(t), "launched") /\ "launched" \in Place
    BY <1>3 DEF FollowUp, Place, TypeOK, Row
  <2> QED
    BY <1>3, <2>1, ResumeTyped, ThreadsTyped DEF FollowUp, TypeOK
<1>4. CASE Stop(t)
  BY <1>4 DEF Stop, TypeOK, Row
<1>5. CASE AskErase(t)
  <2> DEFINE asked == row[t].owner # NoRun
  <2>1. asked \in BOOLEAN /\ row' = [row EXCEPT ![t].stop = asked]
    BY <1>5 DEF AskErase
  <2> HIDE DEF asked
  <2>2. row' \in [Task -> Row]
    BY <2>1 DEF TypeOK, Row
  <2>3. boxes' \subseteq Box /\ jobs' \subseteq Job
    BY <1>5, Fewer DEF AskErase, TypeOK, Job
  <2> QED
    BY <1>5, <2>2, <2>3 DEF AskErase, TypeOK
<1>6. CASE LoseAccount(t)
  BY <1>6, RowsTyped, Fewer DEF LoseAccount, Forget, TypeOK
<1> QED
  BY <1>1, <1>2, <1>3, <1>4, <1>5, <1>6 DEF Request

LEMMA TypeRun ==
    ASSUME TypeOK, NEW r \in Run, RunStep(r)
    PROVE  TypeOK'
<1> USE AgentTasksAssumption
<1>0. TaskOf[r] \in Task /\ run[r] \in Thread /\ row[TaskOf[r]] \in Row
  BY DEF TypeOK
<1>1. CASE LaunchFails(r)
  BY <1>0, <1>1, RowsTyped, ThreadsTyped DEF LaunchFails, TypeOK
<1>2. CASE Begin(r)
  BY <1>0, <1>2 DEF Begin, TypeOK, Thread, Place, Row
<1>3. CASE Adopt(r)
  BY <1>0, <1>3 DEF Adopt, At, TypeOK, Thread, Place, Row
<1>4. CASE TakeMessages(r)
  BY <1>0, <1>4 DEF TakeMessages, TypeOK, Row
<1>5. CASE CreateBox(r)
  BY <1>0, <1>5, NewBox DEF CreateBox, TypeOK, Thread, Place
<1>6. CASE NameBox(r)
  <2>1. CASE Holds(r)
    <3>1. run' \in [Run -> Thread]
      BY <1>0, <1>6, <2>1 DEF NameBox, TypeOK, Thread, Place
    <3>2. row' \in [Task -> Row]
      <4>1. run[r].held \in Box \cup {NoBox}
        BY <1>0 DEF Thread
      <4>2. [row[TaskOf[r]] EXCEPT !.box = run[r].held, !.timed = FALSE] \in Row
        BY <1>0, <4>1 DEF Row
      <4>3. row' = [row EXCEPT ![TaskOf[r]] =
                      [row[TaskOf[r]] EXCEPT !.box = run[r].held, !.timed = FALSE]]
        BY <1>0, <1>6, <2>1 DEF NameBox, TypeOK
      <4> QED
        BY <1>0, <4>2, <4>3 DEF TypeOK
    <3> QED
      BY <1>6, <2>1, <3>1, <3>2 DEF NameBox, TypeOK
  <2>2. CASE ~Holds(r)
    BY <1>6, <2>2, Fewer, ThreadsTyped DEF NameBox, TypeOK
  <2> QED
    BY <2>1, <2>2
<1>7. CASE Reclaim(r)
  <2>1. CASE Kept = {}
    BY <1>7, <2>1, ThreadsTyped DEF Reclaim, TypeOK, Place
  <2>2. CASE Kept # {}
    <3>1. PICK t \in Kept : TakeKept(r, t)
      BY <1>7, <2>2 DEF Reclaim
    <3>2. t \in Task /\ row[t].box \in Box \cup {NoBox}
      BY DEF Kept, TypeOK, Row
    <3>3. run' \in [Run -> Thread]
      BY <1>0, <3>1, <3>2 DEF TakeKept, TypeOK, Thread, Place
    <3>4. row' \in [Task -> Row]
      BY <3>1, <3>2, RowsTyped DEF TakeKept, TypeOK
    <3> QED
      BY <1>7, <3>3, <3>4 DEF Reclaim, TypeOK
  <2> QED
    BY <2>1, <2>2
<1>8. CASE DeleteTaken(r)
  BY <1>0, <1>8, Fewer, ThreadsTyped DEF DeleteTaken, TypeOK, Thread, Place
<1>9. CASE GiveBack(r)
  <2>1. run' \in [Run -> Thread]
    BY <1>0, <1>9 DEF GiveBack, TypeOK, Thread, Place
  <2>2. run[r].held \in Box \cup {NoBox}
    BY <1>0 DEF Thread
  <2>3. row' \in [Task -> Row]
    BY <1>9, <2>2 DEF GiveBack, Returned, TypeOK, Row
  <2> QED
    BY <1>9, <2>1, <2>3 DEF GiveBack, TypeOK
<1>10. CASE BoxLost(r)
  BY <1>0, <1>10, RowsTyped DEF BoxLost, TypeOK, Thread
<1>11. CASE End(r)
  BY <1>0, <1>11, Fewer, ThreadsTyped DEF End, TypeOK, Place, Ending
<1>12. CASE Finish(r)
  <2>1. PICK good \in BOOLEAN :
          /\ row' = [row EXCEPT ![TaskOf[r]] =
                       Released(TaskOf[r], IF good THEN "finished" ELSE "ended", TRUE)]
          /\ run' = [run EXCEPT ![r] =
                       IF run[r].at = "discarding" /\ run[r].box # NoBox
                       THEN [@ EXCEPT !.at = "removing", !.good = good]
                       ELSE Afterwards(good)]
    BY <1>12 DEF Finish
  <2>2. Afterwards(good) \in Thread
    BY ThreadsTyped
  <2>3. [run[r] EXCEPT !.at = "removing", !.good = good] \in Thread
    BY <1>0 DEF Thread, Place, Ended
  <2>4. run' \in [Run -> Thread]
    BY <2>1, <2>2, <2>3 DEF TypeOK
  <2>5. row' \in [Task -> Row]
    BY <1>0, <2>1, RowsTyped DEF TypeOK
  <2> QED
    BY <1>12, <2>4, <2>5 DEF Finish, TypeOK
<1>13. CASE RemoveOwn(r)
  BY <1>13, Fewer, ThreadsTyped DEF RemoveOwn, TypeOK, Place, Ended
<1>14. CASE ClearOwn(r)
  BY <1>0, <1>14, RowsTyped, ThreadsTyped DEF ClearOwn, Cleared, TypeOK
<1>15. CASE AfterRun(r)
  <2>1. row[TaskOf[r]].pending \in 0..MaxPending
    BY <1>0 DEF Row
  <2>2. CASE Over(r)
    BY <1>0, <1>15, <2>1, <2>2, ResumeTyped, ThreadsTyped DEF AfterRun, TypeOK
  <2>3. CASE /\ Resume(TaskOf[r], row[TaskOf[r]].pending)
             /\ run' = [run EXCEPT ![r] = OverThread, ![NewRun(TaskOf[r])].at = "launched"]
    <3>1. run' \in [Run -> Thread]
      <4> DEFINE q == NewRun(TaskOf[r])
                 over == [run EXCEPT ![r] = OverThread]
      <4>1. q \in Run /\ over \in [Run -> Thread]
        BY <1>0, <2>1, <2>3, ResumeTyped, ThreadsTyped DEF TypeOK
      <4>2. [over[q] EXCEPT !.at = "launched"] \in Thread
        BY <4>1 DEF Thread, Place
      <4>3. run' = [over EXCEPT ![q] = [over[q] EXCEPT !.at = "launched"]]
        BY <2>3
      <4> QED
        BY <4>1, <4>2, <4>3
    <3> QED
      BY <1>0, <1>15, <2>1, <2>3, <3>1, ResumeTyped DEF AfterRun, TypeOK
  <2> QED
    BY <1>15, <2>2, <2>3 DEF AfterRun
<1>16. CASE Lose(r)
  BY <1>0, <1>16, Fewer, ThreadsTyped DEF Lose, TypeOK
<1>17. CASE Die(r)
  BY <1>0, <1>17, ThreadsTyped DEF Die, TypeOK
<1> QED
  BY <1>1, <1>2, <1>3, <1>4, <1>5, <1>6, <1>7, <1>8, <1>9, <1>10, <1>11, <1>12, <1>13,
     <1>14, <1>15, <1>16, <1>17 DEF RunStep

LEMMA TypeJobs ==
    ASSUME TypeOK, NEW j \in jobs, JobStep(j) \/ DeleteFails(j) \/ DropJob(j)
    PROVE  TypeOK'
<1> USE AgentTasksAssumption
<1>0. j \in Job
  BY DEF TypeOK
<1>1. CASE KillLeftovers(j)
  <2>1. CASE UNCHANGED <<row, boxes>>
    BY <1>1, <2>1 DEF KillLeftovers, TypeOK
  <2>2. CASE /\ boxes' \in Perhaps(row[j.task].box)
             /\ row' = [row EXCEPT ![j.task].timed = @ \/ row[j.task].owner = NoRun]
    <3> DEFINE due == row[j.task].timed \/ row[j.task].owner = NoRun
    <3>1. due \in BOOLEAN /\ row' = [row EXCEPT ![j.task].timed = due]
      BY <2>2
    <3> HIDE DEF due
    <3>2. row' \in [Task -> Row]
      BY <3>1 DEF TypeOK, Row
    <3> QED
      BY <1>1, <2>2, <3>2, Fewer DEF KillLeftovers, TypeOK
  <2> QED
    BY <1>1, <2>1, <2>2 DEF KillLeftovers
<1>2. CASE Delete(j)
  BY <1>0, <1>2 DEF Delete, Later, TypeOK, Job
<1>3. CASE ClearReaped(j)
  <2>1. row' \in [Task -> Row]
    BY <1>3, RowsTyped DEF ClearReaped, Cleared, TypeOK
  <2> QED
    BY <1>3, <2>1 DEF ClearReaped, TypeOK
<1>4. CASE ForgetUnknown(j)
  BY <1>4, RowsTyped DEF ForgetUnknown, TypeOK
<1>5. CASE EraseRow(j)
  BY <1>5, RowsTyped DEF EraseRow, Forget, TypeOK
<1>6. CASE DeleteFails(j)
  BY <1>6, Fewer DEF DeleteFails, TypeOK
<1>7. CASE DropJob(j)
  BY <1>7 DEF DropJob, TypeOK
<1> QED
  BY <1>1, <1>2, <1>3, <1>4, <1>5, <1>6, <1>7 DEF JobStep

LEMMA TypeTask ==
    ASSUME TypeOK, NEW t \in Task, Recover(t) \/ ListExpired(t) \/ Purge(t)
    PROVE  TypeOK'
<1> USE AgentTasksAssumption
<1>0. row[t] \in Row
  BY DEF TypeOK
<1>1. CASE Recover(t)
  <2>1. Released(t, "ended", TRUE) \in Row
    BY RowsTyped
  <2> QED
    <3>1. row' \in [Task -> Row]
      BY <1>1, <2>1 DEF Recover, TypeOK
    <3>2. jobs' \subseteq Job
      BY <1>1 DEF Recover, TypeOK, Job
    <3> QED
      BY <1>1, <3>1, <3>2 DEF Recover, TypeOK
<1>2. CASE ListExpired(t)
  BY <1>0, <1>2 DEF ListExpired, TypeOK, Job, Row
<1>3. CASE Purge(t)
  BY <1>3, RowsTyped, Fewer DEF Purge, Forget, TypeOK
<1> QED
  BY <1>1, <1>2, <1>3

LEMMA TypeNext == TypeOK /\ [Next]_vars => TypeOK'
<1> SUFFICES ASSUME TypeOK, [Next]_vars PROVE TypeOK'
  OBVIOUS
<1>1. ASSUME NEW b \in Box, ListUnknown(b) \/ Vanish(b)
      PROVE  TypeOK'
  BY <1>1 DEF ListUnknown, Vanish, TypeOK, Job
<1>2. CASE UNCHANGED vars
  BY <1>2 DEF vars, TypeOK
<1> QED
  BY <1>1, <1>2, TypeRequest, TypeRun, TypeJobs, TypeTask DEF Next

(* The columns of a task, the state of a run and a step of housekeeping     *)
(* always have their types, and no more messages wait than may.             *)
THEOREM TypeCorrect == Spec => []TypeOK
BY TypeInit, TypeNext, PTL DEF Spec

-----------------------------------------------------------------------------
(* A late message always has someone to pass it on.                         *)

Passes(r, t) == TaskOf[r] = t /\ run[r].at \in Ended /\ run[r].good

(* What keeps NoMessageForgotten for a task: no new end, and who passes its *)
(* messages on stays, or is excused.                                        *)
LEMMA StillPassed ==
    ASSUME NoMessageForgotten, NEW t \in Task,
           (row'[t].status = "finished" /\ row'[t].pending > 0)
               => (row[t].status = "finished" /\ row[t].pending > 0),
           t \in dropped => t \in dropped',
           \A r \in Run : Passes(r, t) => (Passes(r, t)' \/ t \in dropped')
    PROVE  (row'[t].status = "finished" /\ row'[t].pending > 0) =>
               (t \in dropped' \/ \E r \in Run : Passes(r, t)')
BY DEF NoMessageForgotten, Passes

(* What the changes of a row leave of it.                                   *)
LEMMA RowParts ==
    ASSUME TypeOK, NEW t \in Task
    PROVE  /\ Unboxed(t).status = row[t].status /\ Unboxed(t).pending = row[t].pending
           /\ Unboxed(t).owner = row[t].owner /\ Unboxed(t).box = NoBox
           /\ \A s : \A timed \in BOOLEAN :
                  /\ Released(t, s, timed).status = s
                  /\ Released(t, s, timed).pending = row[t].pending
                  /\ Released(t, s, timed).owner = NoRun
                  /\ Released(t, s, timed).box = row[t].box
           /\ Erased(t).status = "gone" /\ Erased(t).owner = NoRun /\ Erased(t).box = NoBox
<1>1. row[t] \in Row
  BY DEF TypeOK
<1> QED
  BY <1>1 DEF Unboxed, Released, Erased, NoRow, Row

LEMMA ResumeParts ==
    ASSUME TypeOK, NEW t \in Task, NEW n, Resume(t, n)
    PROVE  /\ row'[t].status = "active" /\ row'[t].owner = NewRun(t) /\ row'[t].box = row[t].box
           /\ \A u \in Task \ {t} : row'[u] = row[u] /\ (u \in dropped => u \in dropped')
           /\ NewRun(t) \in Run /\ TaskOf[NewRun(t)] = t /\ run[NewRun(t)].at = "idle"
<1>1. row \in [Task -> Row] /\ row[t] \in Row
  BY DEF TypeOK
<1> QED
  BY <1>1, NewRunUnused DEF Resume, Row

LEMMA PassedRequest ==
    ASSUME TypeOK, NoMessageForgotten, NEW u \in Task, Request(u)
    PROVE  NoMessageForgotten'
<1> SUFFICES ASSUME NEW t \in Task, row'[t].status = "finished", row'[t].pending > 0
             PROVE  t \in dropped' \/ \E r \in Run : Passes(r, t)'
  BY DEF NoMessageForgotten, Passes
<1>0. row \in [Task -> Row] /\ run \in [Run -> Thread] /\ row[t] \in Row
  BY DEF TypeOK
<1>1. ASSUME Resume(u, row'[u].pending), At(NewRun(u), "launched")
      PROVE  t \in dropped' \/ \E r \in Run : Passes(r, t)'
  <2>1. t # u /\ row'[t] = row[t] /\ (t \in dropped => t \in dropped')
    BY <1>1, ResumeParts
  <2>2. \A r \in Run : Passes(r, t) => Passes(r, t)'
    BY <1>0, <1>1, ResumeParts DEF At, Passes, Ended
  <2> QED
    BY <2>1, <2>2, StillPassed
<1>2. CASE StartTask(u)
  BY <1>0, <1>1, <1>2 DEF StartTask, Resume
<1>3. CASE QueueFollowUp(u)
  BY <1>0, <1>3, StillPassed DEF QueueFollowUp, Worked, Passes
<1>4. CASE FollowUp(u)
  BY <1>0, <1>1, <1>4 DEF FollowUp, Resume
<1>5. CASE Stop(u)
  BY <1>0, <1>5, StillPassed DEF Stop, Passes
<1>6. CASE AskErase(u)
  BY <1>0, <1>6, StillPassed DEF AskErase, Passes
<1>7. CASE LoseAccount(u)
  BY <1>0, <1>7, StillPassed DEF LoseAccount, Forget, Erased, NoRow, Passes
<1> QED
  BY <1>2, <1>3, <1>4, <1>5, <1>6, <1>7 DEF Request

LEMMA PassedRun ==
    ASSUME TypeOK, NoMessageForgotten, NEW q \in Run, RunStep(q)
    PROVE  NoMessageForgotten'
<1> SUFFICES ASSUME NEW t \in Task, row'[t].status = "finished", row'[t].pending > 0
             PROVE  t \in dropped' \/ \E r \in Run : Passes(r, t)'
  BY DEF NoMessageForgotten, Passes
<1>0. /\ row \in [Task -> Row] /\ run \in [Run -> Thread] /\ row[t] \in Row
      /\ TaskOf[q] \in Task /\ run[q] \in Thread
  BY AgentTasksAssumption DEF TypeOK
<1>1. CASE LaunchFails(q)
  BY <1>0, <1>1, StillPassed DEF LaunchFails, Released, Over, Passes, Ended
<1>2. CASE Begin(q)
  BY <1>0, <1>2, StillPassed DEF Begin, Passes, Ended
<1>3. CASE Adopt(q)
  BY <1>0, <1>3, StillPassed DEF Adopt, At, Passes, Ended
<1>4. CASE TakeMessages(q)
  BY <1>0, <1>4, StillPassed DEF TakeMessages, Passes, Row
<1>5. CASE CreateBox(q)
  BY <1>0, <1>5, StillPassed DEF CreateBox, Passes, Ended
<1>6. CASE NameBox(q)
  <2>1. row'[t].status = row[t].status /\ row'[t].pending = row[t].pending
    BY <1>0, <1>6 DEF NameBox, Row
  <2>2. \A r \in Run : Passes(r, t) => Passes(r, t)'
    BY <1>0, <1>6 DEF NameBox, Over, Passes, Ended
  <2> QED
    BY <1>6, <2>1, <2>2, StillPassed DEF NameBox
<1>7. CASE Reclaim(q)
  <2>1. row'[t].status = row[t].status /\ row'[t].pending = row[t].pending
    BY <1>0, <1>7, RowParts DEF Reclaim, Kept, TakeKept
  <2>2. \A r \in Run : Passes(r, t) => Passes(r, t)'
    BY <1>0, <1>7 DEF Reclaim, TakeKept, At, Passes, Ended
  <2> QED
    BY <1>7, <2>1, <2>2, StillPassed DEF Reclaim
<1>8. CASE DeleteTaken(q)
  BY <1>0, <1>8, StillPassed DEF DeleteTaken, At, Passes, Ended
<1>9. CASE GiveBack(q)
  <2>1. row'[t].status = row[t].status /\ row'[t].pending = row[t].pending
    BY <1>0, <1>9 DEF GiveBack, Returned, Row
  <2>2. \A r \in Run : Passes(r, t) => Passes(r, t)'
    BY <1>0, <1>9 DEF GiveBack, Passes, Ended
  <2> QED
    BY <1>9, <2>1, <2>2, StillPassed DEF GiveBack
<1>10. CASE BoxLost(q)
  BY <1>0, <1>10, StillPassed DEF BoxLost, Unboxed, Passes, Ended
<1>11. CASE End(q)
  BY <1>0, <1>11, StillPassed DEF End, At, Passes, Ended
<1>12. CASE Finish(q)
  <2>1. PICK good \in BOOLEAN :
          /\ row' = [row EXCEPT ![TaskOf[q]] =
                       Released(TaskOf[q], IF good THEN "finished" ELSE "ended", TRUE)]
          /\ run' = [run EXCEPT ![q] =
                       IF run[q].at = "discarding" /\ run[q].box # NoBox
                       THEN [@ EXCEPT !.at = "removing", !.good = good]
                       ELSE Afterwards(good)]
    BY <1>12 DEF Finish
  <2>2. CASE t = TaskOf[q]
    <3>1. good
      BY <1>0, <2>1, <2>2 DEF Released
    <3>2. run'[q].at \in Ended /\ run'[q].good
      BY <1>0, <2>1, <3>1 DEF Afterwards, NewThread, Thread, Ended
    <3> QED
      BY <2>2, <3>2 DEF Passes
  <2>3. CASE t # TaskOf[q]
    BY <1>0, <1>12, <2>1, <2>3, StillPassed DEF Finish, Passes
  <2> QED
    BY <2>2, <2>3
<1>13. CASE RemoveOwn(q)
  <2>1. \A r \in Run : Passes(r, t) => Passes(r, t)'
    <3>1. CASE At(q, "clearing")
      BY <1>0, <3>1 DEF At, Passes, Ended, Thread
    <3>2. CASE Done(q)
      BY <1>0, <3>2 DEF Done, Afterwards, NewThread, Passes, Ended
    <3> QED
      BY <1>13, <3>1, <3>2 DEF RemoveOwn
  <2> QED
    BY <1>13, <2>1, StillPassed DEF RemoveOwn
<1>14. CASE ClearOwn(q)
  BY <1>0, <1>14, StillPassed DEF ClearOwn, Cleared, Unboxed, Done, Afterwards, NewThread, Passes, Ended, Thread
<1>15. CASE AfterRun(q)
  <2>1. CASE ~(run[q].good /\ row[TaskOf[q]].status = "finished" /\ row[TaskOf[q]].pending > 0)
    BY <1>0, <1>15, <2>1 DEF AfterRun, Over, NoMessageForgotten, Passes, Ended
  <2>2. CASE Over(q) /\ dropped' = dropped \cup {TaskOf[q]} /\ UNCHANGED row
    BY <1>0, <2>2, StillPassed DEF Over, Passes
  <2>3. CASE /\ Resume(TaskOf[q], row[TaskOf[q]].pending)
             /\ run' = [run EXCEPT ![q] = OverThread, ![NewRun(TaskOf[q])].at = "launched"]
    <3>1. t # TaskOf[q] /\ row'[t] = row[t] /\ (t \in dropped => t \in dropped')
      BY <1>0, <2>3, ResumeParts
    <3>2. \A r \in Run : Passes(r, t) => Passes(r, t)'
      BY <1>0, <2>3, <3>1, ResumeParts DEF Passes, Ended
    <3> QED
      BY <3>1, <3>2, StillPassed
  <2> QED
    BY <1>15, <2>1, <2>2, <2>3 DEF AfterRun
<1>16. CASE Lose(q)
  BY <1>0, <1>16, StillPassed DEF Lose, Over, Passes, Ended, Ending
<1>17. CASE Die(q)
  BY <1>0, <1>17, StillPassed DEF Die, Over, Passes
<1> QED
  BY <1>1, <1>2, <1>3, <1>4, <1>5, <1>6, <1>7, <1>8, <1>9, <1>10, <1>11, <1>12, <1>13,
     <1>14, <1>15, <1>16, <1>17 DEF RunStep

LEMMA PassedElsewhere ==
    ASSUME TypeOK, NoMessageForgotten, [Next]_vars,
           ~\E u \in Task : Request(u), ~\E q \in Run : RunStep(q)
    PROVE  NoMessageForgotten'
<1> SUFFICES ASSUME NEW t \in Task, row'[t].status = "finished", row'[t].pending > 0
             PROVE  t \in dropped' \/ \E r \in Run : Passes(r, t)'
  BY DEF NoMessageForgotten, Passes
<1>0. row \in [Task -> Row] /\ row[t] \in Row
  BY DEF TypeOK
<1>1. ASSUME NEW u \in Task, Recover(u) \/ Purge(u)
      PROVE  t \in dropped' \/ \E r \in Run : Passes(r, t)'
  <2>1. CASE Recover(u)
    <3>1. Released(u, "ended", TRUE).status = "ended"
      BY RowParts
    <3> QED
      BY <1>0, <2>1, <3>1, StillPassed DEF Recover, Passes
  <2>2. CASE Purge(u)
    BY <1>0, <2>2, RowParts, StillPassed DEF Purge, Forget, Passes
  <2> QED
    BY <1>1, <2>1, <2>2
<1>2. ASSUME NEW j \in jobs, KillLeftovers(j) \/ ClearReaped(j)
      PROVE  t \in dropped' \/ \E r \in Run : Passes(r, t)'
  <2>1. row'[t].status = row[t].status /\ row'[t].pending = row[t].pending
    BY <1>0, <1>2, RowParts DEF KillLeftovers, ClearReaped, Cleared, Row
  <2> QED
    BY <1>2, <2>1, StillPassed DEF KillLeftovers, ClearReaped, Passes
<1>3. ASSUME NEW j \in jobs, ForgetUnknown(j)
      PROVE  t \in dropped' \/ \E r \in Run : Passes(r, t)'
  BY <1>0, <1>3, RowParts, StillPassed DEF ForgetUnknown, Passes
<1>4. ASSUME NEW j \in jobs, EraseRow(j)
      PROVE  t \in dropped' \/ \E r \in Run : Passes(r, t)'
  BY <1>0, <1>4, StillPassed DEF EraseRow, Forget, Erased, NoRow, Passes
<1>5. CASE UNCHANGED <<row, run, dropped>>
  BY <1>5, StillPassed DEF Passes
<1>6. \/ \E u \in Task : Recover(u) \/ Purge(u)
      \/ \E j \in jobs : KillLeftovers(j) \/ ClearReaped(j) \/ ForgetUnknown(j) \/ EraseRow(j)
      \/ UNCHANGED <<row, run, dropped>>
  BY DEF Next, JobStep, ListExpired, ListUnknown, Delete, DeleteFails, DropJob, Vanish, vars
<1> QED
  BY <1>1, <1>2, <1>3, <1>4, <1>5, <1>6

(* A message that came too late for a run that finished (add_message after  *)
(* the last take_messages) is passed on by _after_run, whatever follow-ups, *)
(* recovery, deletion and crashes do meanwhile, or the end of that run says *)
(* why it could not be.                                                     *)
THEOREM MessagesArePassedOn == Spec => []NoMessageForgotten
<1>1. Init => NoMessageForgotten
  BY DEF Init, NoRow, NoMessageForgotten
<1>2. TypeOK /\ NoMessageForgotten /\ [Next]_vars => NoMessageForgotten'
  BY PassedRequest, PassedRun, PassedElsewhere
<1> QED
  BY <1>1, <1>2, TypeCorrect, PTL DEF Spec

-----------------------------------------------------------------------------
(* The sandboxes.  LiveBoxIsNamed and ReclaimSparesRuns are not inductive   *)
(* by themselves: that one sandbox is never two things needs to know whose  *)
(* it is (Sessions), what housekeeping may still do to it (Errands,         *)
(* Removed), and that who holds a sandbox no row names is its only holder   *)
(* (Apart).                                                                 *)

Fresh == \A r \in Run : run[r].at = "idle" => run[r] = NewThread

Sessions ==
    /\ \A b \in boxes : session[b] # NoTask
    /\ \A t \in Task : row[t].box # NoBox => session[row[t].box] = t
    /\ \A r \in Run : run[r].box # NoBox => session[run[r].box] = TaskOf[r]
    /\ \A r \in Run : run[r].held # NoBox =>
          /\ session[run[r].held] # NoTask
          /\ run[r].at = "made" => session[run[r].held] = TaskOf[r]
    /\ \A j \in jobs : j.box # NoBox => session[j.box] # NoTask

Errands ==
    \A j \in jobs : /\ j.kind \in {"kill", "reap", "clear", "erase"} => j.task \in Task
                    /\ j.kind \in {"reap", "clear", "unknown", "forget"} => j.box # NoBox
                    /\ j.kind = "clear" => j.box \notin boxes

Removed == \A r \in Run : run[r].at = "clearing" => run[r].box \notin boxes

Holding == {"made", "reclaiming", "giving"}

Apart ==
    /\ \A a \in Run : run[a].at \in Holding =>
          /\ run[a].held # NoBox
          /\ \A t \in Task : row[t].box # run[a].held
          /\ \A r \in Run : Holds(r) => run[r].box # run[a].held
    /\ \A a, c \in Run : (a # c /\ run[a].at \in Holding /\ run[c].at \in Holding)
                              => run[a].held # run[c].held

Sound == TypeOK /\ Fresh /\ Sessions /\ Errands /\ Removed /\ Apart /\ LiveBoxIsNamed

LEMMA SoundInit == Init => Sound
BY TypeInit, AgentTasksAssumption DEF Init, Sound, Fresh, Sessions, Errands, Removed, Apart, Holding,
   LiveBoxIsNamed, NoRow, NewThread

-----------------------------------------------------------------------------
(* Idle runs.                                                               *)

(* A step of a run that starts no other leaves the idle ones as they were.  *)
LEMMA FreshStep ==
    ASSUME Sound, [Next]_vars
    PROVE  Fresh'
<1>0. run \in [Run -> Thread] /\ Fresh /\ TypeOK
  BY DEF Sound, TypeOK
<1>1. ASSUME NEW q \in Run, RunStep(q)
      PROVE  Fresh'
  <2>1. run'[q].at # "idle"
    <3>1. CASE AfterRun(q)
      BY <1>0, <3>1, AgentTasksAssumption, ResumeParts DEF AfterRun, Over, OverThread, NewThread, TypeOK
    <3>2. CASE CreateBox(q)
      BY <1>0, <3>2 DEF CreateBox, Thread
    <3>3. CASE TakeMessages(q)
      BY <1>0, <3>3 DEF TakeMessages
    <3>4. CASE LaunchFails(q) \/ Lose(q) \/ Die(q) \/ NameBox(q)
      BY <1>0, <3>4 DEF LaunchFails, Lose, Die, NameBox, Over, OverThread, NewThread, Thread
    <3>5. CASE Reclaim(q)
      BY <1>0, <3>5 DEF Reclaim, TakeKept, At, Thread
    <3>6. CASE Begin(q) \/ Adopt(q) \/ DeleteTaken(q) \/ GiveBack(q) \/ BoxLost(q) \/ End(q)
      BY <1>0, <3>6 DEF Begin, Adopt, DeleteTaken, GiveBack, BoxLost, End, At, Thread
    <3>7. CASE Finish(q)
      BY <1>0, <3>7 DEF Finish, Afterwards, NewThread, Thread
    <3>8. CASE RemoveOwn(q) \/ ClearOwn(q)
      BY <1>0, <3>8 DEF RemoveOwn, ClearOwn, Done, Afterwards, NewThread, At, Thread
    <3> QED
      BY <1>1, <3>1, <3>2, <3>3, <3>4, <3>5, <3>6, <3>7, <3>8 DEF RunStep
  <2>2. CASE AfterRun(q)
    <3>1. CASE Over(q)
      BY <1>0, <2>1, <3>1 DEF Over, Fresh, NewThread
    <3>2. CASE /\ Resume(TaskOf[q], row[TaskOf[q]].pending)
               /\ run' = [run EXCEPT ![q] = OverThread, ![NewRun(TaskOf[q])].at = "launched"]
      <4> DEFINE n == NewRun(TaskOf[q])
      <4>1. n \in Run
        BY <1>0, <3>2, AgentTasksAssumption, ResumeParts DEF TypeOK
      <4>2. run'[n].at = "launched"
        BY <1>0, <3>2, <4>1 DEF OverThread, NewThread, Thread
      <4>3. \A r \in Run \ {q, n} : run'[r] = run[r]
        BY <1>0, <3>2
      <4> QED
        BY <1>0, <2>1, <4>2, <4>3 DEF Fresh, NewThread
    <3> QED
      BY <2>2, <3>1, <3>2 DEF AfterRun
  <2>3. CASE ~AfterRun(q)
    <3>1. \A r \in Run \ {q} : run'[r] = run[r]
      BY <1>0, <1>1, <2>3 DEF RunStep, LaunchFails, Begin, Adopt, TakeMessages, CreateBox, NameBox,
         Reclaim, TakeKept, DeleteTaken, GiveBack, BoxLost, End, Finish, RemoveOwn, ClearOwn, Lose,
         Die, At, Over, Done
    <3> QED
      BY <1>0, <2>1, <3>1 DEF Fresh
  <2> QED
    BY <2>2, <2>3
<1>2. ASSUME NEW t \in Task, StartTask(t) \/ FollowUp(t)
      PROVE  Fresh'
  BY <1>0, <1>2, ResumeParts DEF StartTask, FollowUp, At, Fresh, Thread
<1>3. CASE UNCHANGED run
  BY <1>0, <1>3 DEF Fresh, NewThread
<1>4. \/ \E q \in Run : RunStep(q)
      \/ \E t \in Task : StartTask(t) \/ FollowUp(t)
      \/ UNCHANGED run
  BY DEF Next, Request, QueueFollowUp, Stop, AskErase, LoseAccount, Recover, ListExpired, Purge,
     ListUnknown, Vanish, JobStep, KillLeftovers, Delete, ClearReaped, ForgetUnknown, EraseRow,
     DeleteFails, DropJob, vars
<1> QED
  BY <1>1, <1>2, <1>3, <1>4

-----------------------------------------------------------------------------
(* A step that gives no sandbox to anybody: it keeps the invariant.  Most   *)
(* steps are of this kind.                                                  *)

(* Nobody has the lease of t, or who has it has no sandbox.                 *)
HasNone(t) == \/ row'[t].owner = NoRun
              \/ row'[t].owner \in Run /\ run'[row'[t].owner].box = NoBox

CalmRow(t) ==
    /\ row'[t].owner = row[t].owner \/ HasNone(t)
    /\ \/ row'[t].box = row[t].box
       \/ row'[t].box = NoBox /\ (HasNone(t) \/ row[t].box \notin boxes)

CalmThread(r) ==
    /\ run'[r].box \in {run[r].box, NoBox}
    /\ run'[r].held \in {run[r].held, NoBox}
    /\ run'[r].at \in Holding => run[r].at \in Holding /\ run'[r].held = run[r].held
    /\ run'[r].at = "made" => run[r].at = "made"
    /\ run[r].at \in {"idle", "launched"} =>
          run'[r].at \in {"idle", "launched"} \/ run'[r].box = NoBox
    /\ run'[r].at = "clearing" => run[r].at = "clearing" \/ run'[r].box \notin boxes'

CalmJob(j) ==
    /\ j.kind \in {"kill", "reap", "clear", "erase"} => j.task \in Task
    /\ j.kind \in {"reap", "clear", "unknown", "forget"} => j.box # NoBox
    /\ j.kind = "clear" => j.box \notin boxes'
    /\ j.box # NoBox => session[j.box] # NoTask

Calm ==
    /\ session' = session /\ boxes' \subseteq boxes
    /\ \A t \in Task : CalmRow(t)
    /\ \A r \in Run : CalmThread(r)
    /\ \A j \in jobs' : j \in jobs \/ CalmJob(j)

Held == Sessions /\ Errands /\ Removed /\ Apart /\ LiveBoxIsNamed

LEMMA CalmKeeps ==
    ASSUME Sound, Calm
    PROVE  Held'
<1>0. /\ TypeOK /\ Sessions /\ Errands /\ Removed /\ Apart /\ LiveBoxIsNamed
      /\ boxes \subseteq Box /\ NoBox \notin Box /\ NoRun \notin Run
      /\ \A r \in Run : TaskOf[r] \in Task
  BY AgentTasksAssumption DEF Sound, TypeOK
<1>1. ASSUME NEW r \in Run, Holds(r)', run'[r].box # NoBox
      PROVE  Holds(r) /\ ~HasNone(TaskOf[r]) /\ run'[r].box = run[r].box
  BY <1>0, <1>1 DEF Calm, CalmRow, CalmThread, HasNone, Holds
<1>2. Sessions'
  BY <1>0 DEF Sessions, Calm, CalmRow, CalmThread, CalmJob
<1>3. Errands'
  BY <1>0 DEF Errands, Calm, CalmJob
<1>4. Removed'
  BY <1>0 DEF Removed, Calm, CalmThread
<1>5. Apart'
  <2>1. ASSUME NEW a \in Run, run'[a].at \in Holding
        PROVE  /\ run'[a].held # NoBox /\ run'[a].held = run[a].held /\ run[a].at \in Holding
               /\ \A t \in Task : row'[t].box # run'[a].held
               /\ \A r \in Run : Holds(r)' => run'[r].box # run'[a].held
    BY <1>0, <1>1, <2>1 DEF Apart, Calm, CalmRow, CalmThread
  <2> QED
    BY <1>0, <2>1 DEF Apart
<1>6. LiveBoxIsNamed'
  <2> SUFFICES ASSUME NEW r \in Run, Holds(r)', run'[r].at \notin {"launched", "idle"},
                      run'[r].box \in boxes'
               PROVE  row'[TaskOf[r]].box = run'[r].box
    BY DEF LiveBoxIsNamed
  <2>1. run'[r].box # NoBox
    BY <1>0 DEF Calm
  <2>2. Holds(r) /\ ~HasNone(TaskOf[r]) /\ run'[r].box = run[r].box
    BY <1>1, <2>1
  <2>3. row[TaskOf[r]].box = run[r].box /\ run[r].box \in boxes
    BY <1>0, <2>1, <2>2 DEF LiveBoxIsNamed, Calm, CalmThread
  <2> QED
    BY <1>0, <2>2, <2>3 DEF Calm, CalmRow
<1> QED
  BY <1>2, <1>3, <1>4, <1>5, <1>6 DEF Held

-----------------------------------------------------------------------------
(* The calm steps.                                                          *)

(* The next run of t gets the lease, the runs in over are done.             *)
Resumed(t, n, over) ==
    /\ Resume(t, n)
    /\ \A r \in over : run'[r].box = NoBox /\ run'[r].held = NoBox /\ run'[r].at = "over"
    /\ run'[NewRun(t)] = [NewThread EXCEPT !.at = "launched"]
    /\ \A r \in Run \ (over \cup {NewRun(t)}) : run'[r] = run[r]
    /\ UNCHANGED <<boxes, session, jobs>>

LEMMA ResumeCalm ==
    ASSUME Sound, NEW t \in Task, NEW n, NEW over \in SUBSET Run, Resumed(t, n, over)
    PROVE  Calm
<1>0. TypeOK /\ Fresh
  BY DEF Sound
<1>1. /\ row'[t].owner = NewRun(t) /\ row'[t].box = row[t].box
      /\ \A u \in Task \ {t} : row'[u] = row[u]
      /\ NewRun(t) \in Run /\ run[NewRun(t)] = NewThread
  BY <1>0, ResumeParts DEF Fresh, Resumed
<1>2. run'[NewRun(t)].box = NoBox /\ run'[NewRun(t)].held = NoBox /\ run'[NewRun(t)].at = "launched"
  BY DEF NewThread, Resumed
<1>3. \A u \in Task : CalmRow(u)
  BY <1>1, <1>2 DEF CalmRow, HasNone
<1>4. \A r \in Run : CalmThread(r)
  BY <1>1, <1>2 DEF CalmThread, Holding, Resumed
<1> QED
  BY <1>3, <1>4 DEF Calm, Resumed

LEMMA CalmRequest ==
    ASSUME Sound, NEW t \in Task, Request(t)
    PROVE  Calm
<1> USE AgentTasksAssumption
<1>0. TypeOK /\ Fresh /\ row \in [Task -> Row] /\ run \in [Run -> Thread] /\ row[t] \in Row
  BY DEF Sound, TypeOK
<1>1. ASSUME NEW n, Resume(t, n), At(NewRun(t), "launched"), UNCHANGED <<boxes, session, jobs>>
      PROVE  Calm
  <2>1. NewRun(t) \in Run /\ run[NewRun(t)] = NewThread
    BY <1>0, <1>1, ResumeParts DEF Fresh
  <2>2. run'[NewRun(t)] = [NewThread EXCEPT !.at = "launched"]
    BY <1>0, <1>1, <2>1 DEF At
  <2>3. \A r \in Run \ {NewRun(t)} : run'[r] = run[r]
    BY <1>0, <1>1 DEF At
  <2>4. Resumed(t, n, {})
    BY <1>1, <2>2, <2>3 DEF Resumed
  <2> QED
    BY <2>4, ResumeCalm, {} \in SUBSET Run
<1>2. CASE StartTask(t)
  BY <1>1, <1>2 DEF StartTask
<1>3. CASE FollowUp(t)
  BY <1>1, <1>3 DEF FollowUp
<1>4. CASE QueueFollowUp(t) \/ Stop(t)
  <2>1. \A u \in Task : row'[u].box = row[u].box /\ row'[u].owner = row[u].owner
    BY <1>0, <1>4 DEF QueueFollowUp, Stop, Row
  <2> QED
    BY <1>4, <2>1 DEF QueueFollowUp, Stop, Calm, CalmRow, CalmThread
<1>5. CASE AskErase(t)
  <2>1. \A u \in Task : row'[u].box = row[u].box /\ row'[u].owner = row[u].owner
    BY <1>0, <1>5 DEF AskErase, Row
  <2>2. boxes' \subseteq boxes
    BY <1>5, Fewer DEF AskErase
  <2> QED
    BY <1>5, <2>1, <2>2 DEF AskErase, Calm, CalmRow, CalmThread, CalmJob
<1>6. CASE LoseAccount(t)
  <2>1. \A u \in Task : CalmRow(u)
    BY <1>0, <1>6, RowParts DEF LoseAccount, Forget, CalmRow, HasNone
  <2>2. boxes' \subseteq boxes
    BY <1>6, Fewer DEF LoseAccount
  <2> QED
    BY <1>6, <2>1, <2>2 DEF LoseAccount, Calm, CalmThread
<1> QED
  BY <1>2, <1>3, <1>4, <1>5, <1>6 DEF Request

(* What a step of run q is, when it changes no other.                       *)
LEMMA OneThread ==
    ASSUME Sound, NEW q \in Run, CalmThread(q), \A r \in Run \ {q} : run'[r] = run[r],
           \A t \in Task : CalmRow(t), boxes' \subseteq boxes, UNCHANGED <<session, jobs>>
    PROVE  Calm
<1>1. \A r \in Run : CalmThread(r)
  BY DEF CalmThread
<1> QED
  BY <1>1 DEF Calm

LEMMA OverThreads ==
    ASSUME TypeOK, NEW q \in Run, Over(q) \/ Done(q)
    PROVE  /\ run'[q].box = NoBox /\ run'[q].held = NoBox /\ run'[q].at \in {"over", "after"}
           /\ \A r \in Run \ {q} : run'[r] = run[r]
           /\ CalmThread(q)
<1>1. run'[q].box = NoBox /\ run'[q].held = NoBox /\ run'[q].at \in {"over", "after"}
  BY DEF TypeOK, Over, Done, OverThread, Afterwards, NewThread
<1>2. \A r \in Run \ {q} : run'[r] = run[r]
  BY DEF TypeOK, Over, Done
<1>3. CalmThread(q)
  BY <1>1 DEF CalmThread, Holding
<1> QED
  BY <1>1, <1>2, <1>3

LEMMA AtThreads ==
    ASSUME TypeOK, NEW q \in Run, NEW p \in Place, At(q, p)
    PROVE  /\ run'[q].at = p /\ run'[q].box = run[q].box /\ run'[q].held = run[q].held
           /\ \A r \in Run \ {q} : run'[r] = run[r]
BY DEF TypeOK, At, Thread

LEMMA CalmRun ==
    ASSUME Sound, NEW q \in Run, RunStep(q),
           ~Begin(q), ~Adopt(q), ~CreateBox(q), ~NameBox(q), ~GiveBack(q),
           Reclaim(q) => Kept = {}
    PROVE  Calm
<1> USE AgentTasksAssumption
<1> DEFINE t == TaskOf[q]
<1>0. /\ TypeOK /\ Removed /\ row \in [Task -> Row] /\ run \in [Run -> Thread]
      /\ t \in Task /\ row[t] \in Row /\ run[q] \in Thread
  BY DEF Sound, TypeOK
<1>r. \A s : \A timed \in BOOLEAN : /\ Released(t, s, timed).owner = NoRun
                                     /\ Released(t, s, timed).box = row[t].box
  BY <1>0, RowParts
<1>a. UNCHANGED row => \A u \in Task : CalmRow(u)
  BY DEF CalmRow
<1>1. CASE LaunchFails(q)
  <2>1. CalmRow(t) /\ \A u \in Task \ {t} : row'[u] = row[u]
    <3>1. CASE row' = [row EXCEPT ![t] = Released(t, "ended", FALSE)]
      BY <1>0, <3>1, <1>r DEF CalmRow, HasNone
    <3>2. CASE UNCHANGED row
      BY <3>2 DEF CalmRow
    <3> QED
      BY <1>1, <3>1, <3>2 DEF LaunchFails
  <2>2. \A u \in Task : CalmRow(u)
    BY <2>1 DEF CalmRow
  <2> QED
    BY <1>0, <1>1, <2>2, OneThread, OverThreads DEF LaunchFails
<1>2. CASE TakeMessages(q)
  <2>1. \A u \in Task : row'[u].box = row[u].box /\ row'[u].owner = row[u].owner
    BY <1>0, <1>2 DEF TakeMessages, Row
  <2> QED
    BY <1>2, <2>1 DEF TakeMessages, Calm, CalmRow, CalmThread
<1>3. CASE Reclaim(q)
  <2>1. At(q, "waiting") /\ UNCHANGED <<row, boxes, session, jobs>> /\ run[q].at = "working"
    BY <1>3 DEF Reclaim
  <2>2. CalmThread(q)
    BY <1>0, <2>1, AtThreads DEF CalmThread, Holding, Place
  <2> QED
    BY <1>0, <1>a, <2>1, <2>2, AtThreads, OneThread DEF Place
<1>4. CASE DeleteTaken(q)
  <2>1. boxes' \subseteq boxes
    BY <1>4, Fewer DEF DeleteTaken
  <2>2. CASE run' = [run EXCEPT ![q].at = "waiting", ![q].held = NoBox]
    <3>1. run'[q].at = "waiting" /\ run'[q].held = NoBox /\ run'[q].box = run[q].box
      BY <1>0, <2>2 DEF Thread
    <3>2. \A r \in Run \ {q} : run'[r] = run[r]
      BY <1>0, <2>2
    <3>3. CalmThread(q)
      BY <1>4, <3>1 DEF CalmThread, Holding, DeleteTaken
    <3> QED
      BY <1>4, <1>a, <2>1, <3>2, <3>3, OneThread DEF DeleteTaken
  <2>3. CASE At(q, "giving")
    <3>1. CalmThread(q)
      BY <1>0, <1>4, <2>3, AtThreads DEF CalmThread, Holding, DeleteTaken, Place
    <3> QED
      BY <1>0, <1>4, <1>a, <2>1, <2>3, <3>1, AtThreads, OneThread DEF DeleteTaken, Place
  <2> QED
    BY <1>4, <2>2, <2>3 DEF DeleteTaken
<1>5. CASE BoxLost(q)
  <2>1. run'[q].box = NoBox /\ run'[q].held = run[q].held /\ run'[q].at = run[q].at
    BY <1>0, <1>5 DEF BoxLost, Thread
  <2>2. \A r \in Run \ {q} : run'[r] = run[r]
    BY <1>0, <1>5 DEF BoxLost
  <2>3. CalmThread(q)
    BY <1>5, <2>1 DEF CalmThread, BoxLost
  <2>4. \A u \in Task : CalmRow(u)
    <3>1. CASE Holds(q)
      <4>1. row' = [row EXCEPT ![t] = Unboxed(t)]
        BY <1>5, <3>1 DEF BoxLost
      <4>2. row'[t].owner = q /\ row'[t].box = NoBox
        BY <1>0, <3>1, <4>1, RowParts DEF Holds
      <4>3. CalmRow(t)
        BY <2>1, <4>2 DEF CalmRow, HasNone
      <4> QED
        BY <1>0, <4>1, <4>3 DEF CalmRow
    <3>2. CASE ~Holds(q)
      BY <1>5, <1>a, <3>2 DEF BoxLost
    <3> QED
      BY <3>1, <3>2
  <2> QED
    BY <1>5, <2>2, <2>3, <2>4, OneThread DEF BoxLost
<1>6. CASE End(q)
  <2>1. boxes' \subseteq boxes
    BY <1>6, Fewer DEF End
  <2>2. PICK p \in Ending : At(q, p)
    BY <1>6 DEF End, Ending
  <2>3. p \in Place
    BY DEF Place
  <2>4. CalmThread(q)
    BY <1>0, <1>6, <2>2, <2>3, AtThreads DEF CalmThread, Holding, End, Ending
  <2> QED
    BY <1>0, <1>6, <1>a, <2>1, <2>2, <2>3, <2>4, AtThreads, OneThread DEF End
<1>7. CASE Finish(q)
  <2>1. PICK good \in BOOLEAN :
          /\ row' = [row EXCEPT ![t] =
                       Released(t, IF good THEN "finished" ELSE "ended", TRUE)]
          /\ run' = [run EXCEPT ![q] =
                       IF run[q].at = "discarding" /\ run[q].box # NoBox
                       THEN [@ EXCEPT !.at = "removing", !.good = good]
                       ELSE Afterwards(good)]
    BY <1>7 DEF Finish
  <2>2. \A u \in Task : CalmRow(u)
    BY <1>0, <2>1, <1>r DEF CalmRow, HasNone
  <2>3. /\ run'[q].box \in {run[q].box, NoBox} /\ run'[q].held \in {run[q].held, NoBox}
        /\ run'[q].at \in {"removing", "after"}
    BY <1>0, <2>1 DEF Thread, Afterwards, NewThread
  <2>4. CalmThread(q)
    BY <1>7, <2>3 DEF CalmThread, Holding, Finish, Ending
  <2>5. \A r \in Run \ {q} : run'[r] = run[r]
    BY <1>0, <2>1
  <2> QED
    BY <1>7, <2>2, <2>4, <2>5, OneThread DEF Finish
<1>8. CASE RemoveOwn(q)
  <2>1. CASE boxes' = boxes \ {run[q].box} /\ At(q, "clearing")
    <3>1. CalmThread(q)
      BY <1>0, <1>8, <2>1, AtThreads DEF CalmThread, Holding, RemoveOwn, Place, Ended
    <3> QED
      BY <1>0, <1>8, <1>a, <2>1, <3>1, AtThreads, OneThread DEF RemoveOwn, Place, Ended
  <2>2. CASE boxes' \in Perhaps(run[q].box) /\ Done(q)
    BY <1>0, <1>8, <1>a, <2>2, Fewer, OverThreads, OneThread DEF RemoveOwn
  <2> QED
    BY <1>8, <2>1, <2>2 DEF RemoveOwn
<1>9. CASE ClearOwn(q)
  <2>1. run[q].box \notin boxes
    BY <1>0, <1>9 DEF Removed, ClearOwn
  <2>2. \A u \in Task : CalmRow(u)
    BY <1>0, <1>9, <2>1, RowParts DEF ClearOwn, Cleared, CalmRow
  <2> QED
    BY <1>0, <1>9, <2>2, OverThreads, OneThread DEF ClearOwn
<1>10. CASE AfterRun(q)
  <2>1. CASE Over(q) /\ UNCHANGED row
    BY <1>0, <1>10, <1>a, <2>1, OverThreads, OneThread DEF AfterRun
  <2>2. CASE /\ Resume(t, row[t].pending)
             /\ run' = [run EXCEPT ![q] = OverThread, ![NewRun(t)].at = "launched"]
    <3> DEFINE n == NewRun(t)
    <3>1. n \in Run /\ run[n] = NewThread /\ n # q
      BY <1>0, <1>10, <2>2, ResumeParts DEF Sound, Fresh, AfterRun
    <3>2. run'[n] = [NewThread EXCEPT !.at = "launched"]
      BY <1>0, <2>2, <3>1
    <3>3. run'[q] = OverThread
      BY <1>0, <2>2, <3>1
    <3>4. run'[q].box = NoBox /\ run'[q].held = NoBox /\ run'[q].at = "over"
      BY <3>3 DEF OverThread, NewThread
    <3>5. \A r \in Run \ ({q} \cup {n}) : run'[r] = run[r]
      BY <1>0, <2>2, <3>1
    <3>6. {q} \in SUBSET Run /\ UNCHANGED <<boxes, session, jobs>>
      BY <1>10 DEF AfterRun
    <3>7. Resumed(t, row[t].pending, {q})
      BY <2>2, <3>2, <3>4, <3>5, <3>6 DEF Resumed
    <3> QED
      BY <1>0, <3>6, <3>7, ResumeCalm
  <2> QED
    BY <1>10, <2>1, <2>2 DEF AfterRun
<1>11. CASE Lose(q)
  BY <1>0, <1>11, <1>a, Fewer, OverThreads, OneThread DEF Lose
<1>12. CASE Die(q)
  BY <1>0, <1>12, <1>a, OverThreads, OneThread DEF Die
<1> QED
  BY <1>1, <1>2, <1>3, <1>4, <1>5, <1>6, <1>7, <1>8, <1>9, <1>10, <1>11, <1>12 DEF RunStep

LEMMA CalmElsewhere ==
    ASSUME Sound, [Next]_vars, ~\E t \in Task : Request(t), ~\E q \in Run : RunStep(q)
    PROVE  Calm
<1> USE AgentTasksAssumption
<1>0. /\ TypeOK /\ Errands /\ Sessions /\ row \in [Task -> Row] /\ jobs \subseteq Job
      /\ boxes \subseteq Box /\ \A u \in Task : row[u] \in Row
  BY DEF Sound, TypeOK
<1>a. UNCHANGED row => \A u \in Task : CalmRow(u)
  BY DEF CalmRow
<1>b. UNCHANGED run => \A r \in Run : CalmThread(r)
  BY DEF CalmThread
<1>1. ASSUME NEW u \in Task, Recover(u)
      PROVE  Calm
  <2>1. Released(u, "ended", TRUE).owner = NoRun /\ Released(u, "ended", TRUE).box = row[u].box
    BY <1>0, RowParts
  <2>2. \A t \in Task : CalmRow(t)
    BY <1>0, <1>1, <2>1 DEF Recover, CalmRow, HasNone
  <2>3. \A j \in jobs' : j \in jobs \/ CalmJob(j)
    BY <1>1 DEF Recover, CalmJob
  <2> QED
    BY <1>1, <1>b, <2>2, <2>3 DEF Recover, Calm
<1>2. ASSUME NEW u \in Task, ListExpired(u)
      PROVE  Calm
  <2>1. \A j \in jobs' : j \in jobs \/ CalmJob(j)
    BY <1>0, <1>2 DEF ListExpired, Kept, Sessions, CalmJob
  <2> QED
    BY <1>2, <1>a, <1>b, <2>1 DEF ListExpired, Calm
<1>3. ASSUME NEW u \in Task, Purge(u) \/ \E j \in jobs : EraseRow(j) /\ j.task = u
      PROVE  Calm
  <2>1. Erased(u).owner = NoRun /\ Erased(u).box = NoBox /\ row' = [row EXCEPT ![u] = Erased(u)]
    BY <1>0, <1>3, RowParts DEF Purge, EraseRow, Forget
  <2>2. \A t \in Task : CalmRow(t)
    BY <1>0, <2>1 DEF CalmRow, HasNone
  <2> QED
    BY <1>3, <1>b, <2>2, Fewer DEF Purge, EraseRow, Calm
<1>4. ASSUME NEW b \in Box, ListUnknown(b) \/ Vanish(b)
      PROVE  Calm
  <2>1. \A j \in jobs' : j \in jobs \/ CalmJob(j)
    BY <1>0, <1>4 DEF ListUnknown, Vanish, Sessions, CalmJob
  <2> QED
    BY <1>4, <1>a, <1>b, <2>1 DEF ListUnknown, Vanish, Calm
<1>5. ASSUME NEW j \in jobs, KillLeftovers(j)
      PROVE  Calm
  <2>1. boxes' \subseteq boxes
    BY <1>5, Fewer DEF KillLeftovers
  <2>2. \A u \in Task : row'[u].box = row[u].box /\ row'[u].owner = row[u].owner
    BY <1>0, <1>5 DEF KillLeftovers, Row
  <2> QED
    BY <1>5, <1>b, <2>1, <2>2 DEF KillLeftovers, Calm, CalmRow
<1>6. ASSUME NEW j \in jobs, Delete(j) \/ DeleteFails(j)
      PROVE  Calm
  <2>1. boxes' \subseteq boxes
    BY <1>6, Fewer DEF Delete, DeleteFails
  <2>2. \A k \in jobs' : k \in jobs \/ CalmJob(k)
    <3>1. CASE DeleteFails(j)
      BY <3>1 DEF DeleteFails
    <3>2. CASE Delete(j)
      <4> DEFINE next == IF j.kind = "reap" THEN "clear" ELSE "forget"
      <4>1. j \in Job /\ j.kind \in {"reap", "unknown"}
        BY <1>0, <3>2 DEF Delete
      <4>2. /\ [j EXCEPT !.kind = next].kind = next
            /\ [j EXCEPT !.kind = next].task = j.task
            /\ [j EXCEPT !.kind = next].box = j.box
        BY <4>1 DEF Job
      <4>3. CalmJob([j EXCEPT !.kind = next])
        BY <1>0, <3>2, <4>1, <4>2 DEF CalmJob, Errands, Sessions, Delete
      <4> QED
        BY <3>2, <4>3 DEF Delete, Later
    <3> QED
      BY <1>6, <3>1, <3>2
  <2> QED
    BY <1>6, <1>a, <1>b, <2>1, <2>2 DEF Delete, DeleteFails, Calm
<1>7. ASSUME NEW j \in jobs, ClearReaped(j)
      PROVE  Calm
  <2>1. j.box \notin boxes /\ j.task \in Task
    BY <1>0, <1>7 DEF ClearReaped, Errands
  <2>2. \A u \in Task : CalmRow(u)
    BY <1>0, <1>7, <2>1, RowParts DEF ClearReaped, Cleared, CalmRow
  <2> QED
    BY <1>7, <1>b, <2>2 DEF ClearReaped, Calm
<1>8. ASSUME NEW j \in jobs, ForgetUnknown(j)
      PROVE  Calm
  <2>1. \A u \in Task : CalmRow(u)
    BY <1>0, <1>8, RowParts DEF ForgetUnknown, CalmRow, HasNone
  <2> QED
    BY <1>8, <1>b, <2>1 DEF ForgetUnknown, Calm
<1>9. ASSUME NEW j \in jobs, EraseRow(j)
      PROVE  Calm
  <2>1. j.task \in Task
    BY <1>0, <1>9 DEF EraseRow, Errands
  <2> QED
    BY <1>3, <1>9, <2>1
<1>10. CASE UNCHANGED vars \/ \E j \in jobs : DropJob(j)
  BY <1>10, <1>a, <1>b DEF vars, DropJob, Calm
<1> QED
  BY <1>1, <1>2, <1>3, <1>4, <1>5, <1>6, <1>7, <1>8, <1>9, <1>10 DEF Next, JobStep

-----------------------------------------------------------------------------
(* The steps that give somebody a sandbox.                                  *)

(* The parts of the invariant as the steps below use them.                  *)
LEMMA SoundParts ==
    ASSUME Sound
    PROVE  /\ TypeOK /\ Sessions /\ Errands /\ Removed /\ Apart /\ LiveBoxIsNamed
           /\ NoRun \notin Run /\ NoBox \notin boxes /\ NoTask \notin Task
           /\ \A t \in Task : row[t] \in Row
           /\ \A r \in Run : TaskOf[r] \in Task /\ run[r] \in Thread
BY AgentTasksAssumption DEF Sound, TypeOK

LEMMA HeldBegin ==
    ASSUME Sound, NEW q \in Run, Begin(q)
    PROVE  Held'
<1>0. /\ run'[q].at = "adopting" /\ run'[q].box = row[TaskOf[q]].box /\ run'[q].held = run[q].held
      /\ \A r \in Run \ {q} : run'[r] = run[r]
      /\ UNCHANGED <<row, boxes, session, jobs>> /\ Holds(q)
  BY SoundParts DEF Begin, TypeOK, Thread
<1>1. \A r \in Run : Holds(r)' <=> Holds(r)
  BY <1>0 DEF Holds
<1>2. Sessions'
  BY <1>0, SoundParts DEF Sessions
<1>3. Errands'
  BY <1>0, SoundParts DEF Errands
<1>4. Removed'
  BY <1>0, SoundParts DEF Removed
<1>5. Apart'
  BY <1>0, <1>1, SoundParts DEF Apart, Holding
<1>6. LiveBoxIsNamed'
  BY <1>0, <1>1, SoundParts DEF LiveBoxIsNamed
<1> QED
  BY <1>2, <1>3, <1>4, <1>5, <1>6 DEF Held

LEMMA HeldAdopt ==
    ASSUME Sound, NEW q \in Run, Adopt(q)
    PROVE  Held'
<1>0. /\ run'[q].at = "working" /\ run'[q].box = run[q].box /\ run'[q].held = run[q].held
      /\ \A r \in Run \ {q} : run'[r] = run[r]
      /\ UNCHANGED <<boxes, session, jobs>> /\ Holds(q)
  BY SoundParts, AtThreads DEF Adopt, Place
<1>1. /\ \A u \in Task \ {TaskOf[q]} : row'[u] = row[u]
      /\ row'[TaskOf[q]].owner = row[TaskOf[q]].owner
      /\ row'[TaskOf[q]].box = IF run[q].box = NoBox THEN row[TaskOf[q]].box ELSE run[q].box
  BY SoundParts DEF Adopt, TypeOK, Row
<1>2. \A r \in Run : Holds(r)' <=> Holds(r)
  BY <1>1, SoundParts DEF Holds
<1>3. Sessions'
  BY <1>0, <1>1, SoundParts DEF Sessions
<1>4. Errands'
  BY <1>0, SoundParts DEF Errands
<1>5. Removed'
  BY <1>0, SoundParts DEF Removed
<1>6. Apart'
  BY <1>0, <1>1, <1>2, SoundParts DEF Apart, Holding
<1>7. LiveBoxIsNamed'
  <2> SUFFICES ASSUME NEW r \in Run, Holds(r), run'[r].at \notin {"launched", "idle"},
                      run'[r].box \in boxes
               PROVE  row'[TaskOf[r]].box = run'[r].box
    BY <1>0, <1>2 DEF LiveBoxIsNamed
  <2>1. CASE r = q
    BY <1>0, <1>1, <2>1, SoundParts
  <2>2. CASE r # q
    <3>1. TaskOf[r] # TaskOf[q]
      BY <1>0, <2>2 DEF Holds
    <3> QED
      BY <1>0, <1>1, <2>2, <3>1, SoundParts DEF LiveBoxIsNamed
  <2> QED
    BY <2>1, <2>2
<1> QED
  BY <1>3, <1>4, <1>5, <1>6, <1>7 DEF Held

(* A new sandbox is none that anybody has or asked for.                     *)
LEMMA HeldCreate ==
    ASSUME Sound, NEW q \in Run, CreateBox(q)
    PROVE  Held'
<1> DEFINE fresh == {x \in Box : session[x] = NoTask}
           b == CHOOSE x \in fresh : TRUE
<1>0. /\ b \in Box /\ session[b] = NoTask
      /\ session' = [session EXCEPT ![b] = TaskOf[q]] /\ boxes' = boxes \cup {b}
      /\ UNCHANGED <<row, jobs>>
      /\ run[q].at \in {"working", "waiting"} /\ run[q].box = NoBox
      /\ run' = [run EXCEPT ![q].at = "made", ![q].held = b] \/ UNCHANGED run
  BY NewBox DEF CreateBox
<1> HIDE DEF fresh, b
<1>1. /\ session'[b] = TaskOf[q]
      /\ \A x : x # b => session'[x] = session[x]
  BY <1>0, SoundParts DEF TypeOK
<1>2. /\ \A r \in Run \ {q} : run'[r] = run[r]
      /\ run'[q].box = NoBox
      /\ run'[q] = run[q] \/ (run'[q].at = "made" /\ run'[q].held = b)
  BY <1>0, SoundParts DEF TypeOK, Thread
<1>3. /\ \A t \in Task : row[t].box # b
      /\ \A r \in Run : run[r].box # b /\ run[r].held # b
      /\ \A j \in jobs : j.box # b
  BY <1>0, SoundParts, AgentTasksAssumption DEF Sessions
<1>4. \A r \in Run : Holds(r)' <=> Holds(r)
  BY <1>0 DEF Holds
<1>5. Sessions'
  BY <1>0, <1>1, <1>2, <1>3, SoundParts DEF Sessions
<1>6. Errands'
  BY <1>0, <1>3, SoundParts DEF Errands
<1>7. Removed'
  BY <1>0, <1>2, <1>3, SoundParts DEF Removed
<1>8. Apart'
  <2>1. ASSUME NEW r \in Run
        PROVE  run'[r].box = run[r].box
    BY <1>0, <1>2
  <2>2. ASSUME NEW a \in Run, run'[a].at \in Holding
        PROVE  \/ run'[a] = run[a]
               \/ a = q /\ run'[a].held = b /\ b # NoBox
    BY <1>0, <1>2, AgentTasksAssumption
  <2>3. ASSUME NEW a \in Run, run'[a].at \in Holding
        PROVE  /\ run'[a].held # NoBox
               /\ \A t \in Task : row'[t].box # run'[a].held
               /\ \A r \in Run : Holds(r)' => run'[r].box # run'[a].held
    BY <1>0, <1>3, <1>4, <2>1, <2>2, <2>3, SoundParts DEF Apart
  <2>4. ASSUME NEW a \in Run, NEW c \in Run, a # c,
               run'[a].at \in Holding, run'[c].at \in Holding
        PROVE  run'[a].held # run'[c].held
    BY <1>3, <2>2, <2>4, SoundParts DEF Apart
  <2> QED
    BY <2>3, <2>4 DEF Apart, Holding
<1>9. LiveBoxIsNamed'
  BY <1>0, <1>2, <1>3, <1>4, SoundParts DEF LiveBoxIsNamed
<1> QED
  BY <1>5, <1>6, <1>7, <1>8, <1>9 DEF Held

LEMMA HeldName ==
    ASSUME Sound, NEW q \in Run, NameBox(q)
    PROVE  Held'
<1> DEFINE t == TaskOf[q]
           b == run[q].held
<1>1. CASE ~Holds(q)
  <2>1. UNCHANGED <<row, session, jobs>> /\ Over(q) /\ boxes' \subseteq boxes
    BY <1>1, Fewer DEF NameBox
  <2>2. \A u \in Task : CalmRow(u)
    BY <2>1 DEF CalmRow
  <2> QED
    BY <2>1, <2>2, SoundParts, OverThreads, OneThread, CalmKeeps
<1>2. CASE Holds(q)
  <2>0. /\ row' = [row EXCEPT ![t].box = b, ![t].timed = FALSE]
        /\ run' = [run EXCEPT ![q].at = "working", ![q].box = b, ![q].held = NoBox]
    BY <1>2 DEF NameBox
  <2>n. run[q].at = "made" /\ UNCHANGED <<boxes, session, jobs>>
    BY <1>2 DEF NameBox
  <2>1. /\ run'[q].at = "working" /\ run'[q].box = b /\ run'[q].held = NoBox
        /\ \A r \in Run \ {q} : run'[r] = run[r]
    BY <2>0, SoundParts DEF TypeOK, Thread
  <2>2. /\ row'[t].box = b /\ row'[t].owner = row[t].owner
        /\ \A u \in Task \ {t} : row'[u] = row[u]
    BY <2>0, SoundParts DEF TypeOK, Row
  <2>3. b # NoBox /\ session[b] = t
    BY <2>n, SoundParts DEF Sessions, Apart, Holding
  <2>4. \A r \in Run : Holds(r)' <=> Holds(r)
    BY <2>2, SoundParts DEF Holds
  <2> HIDE DEF t, b
  <2>5. Sessions'
    BY <2>n, <2>1, <2>2, <2>3, SoundParts DEF Sessions, t
  <2>6. Errands'
    BY <2>n, SoundParts DEF Errands
  <2>7. Removed'
    BY <2>n, <2>1, SoundParts DEF Removed
  <2>8. Apart'
    BY <2>n, <2>1, <2>2, <2>4, SoundParts DEF Apart, Holding, b
  <2>9. LiveBoxIsNamed'
    <3> SUFFICES ASSUME NEW r \in Run, Holds(r), run'[r].at \notin {"launched", "idle"},
                        run'[r].box \in boxes
                 PROVE  row'[TaskOf[r]].box = run'[r].box
      BY <2>n, <2>4 DEF LiveBoxIsNamed
    <3>1. CASE r = q
      BY <2>1, <2>2, <3>1 DEF t
    <3>2. CASE r # q
      <4>1. TaskOf[r] # t
        BY <1>2, <3>2 DEF Holds, t
      <4> QED
        BY <2>1, <2>2, <3>2, <4>1, SoundParts DEF LiveBoxIsNamed
    <3> QED
      BY <3>1, <3>2
  <2> QED
    BY <2>5, <2>6, <2>7, <2>8, <2>9 DEF Held
<1> QED
  BY <1>1, <1>2

(* Nobody has the lease of a task that is kept.                             *)
LEMMA HeldTake ==
    ASSUME Sound, NEW q \in Run, Reclaim(q), Kept # {}
    PROVE  Held'
<1>1. PICK t \in Kept : TakeKept(q, t)
  BY DEF Reclaim
<1> DEFINE b == row[t].box
<1>2. t \in Task /\ b # NoBox /\ row[t].owner = NoRun /\ session[b] = t
  BY SoundParts DEF Kept, Sessions
<1>3. UNCHANGED <<boxes, session, jobs>> /\ run[q].at = "working" /\ run[q].box = NoBox
  BY DEF Reclaim
<1>4. /\ run'[q].at = "reclaiming" /\ run'[q].held = b /\ run'[q].box = NoBox
      /\ \A r \in Run \ {q} : run'[r] = run[r]
  BY <1>1, <1>3, SoundParts DEF TakeKept, TypeOK, Thread
<1>5. /\ row'[t].box = NoBox /\ row'[t].owner = NoRun
      /\ \A u \in Task \ {t} : row'[u] = row[u]
  BY <1>1, <1>2, SoundParts, RowParts DEF TakeKept, TypeOK
<1>6. /\ \A u \in Task \ {t} : row[u].box # b
      /\ \A r \in Run : Holds(r) => run[r].box # b /\ TaskOf[r] # t
      /\ \A a \in Run : run[a].at \in Holding => run[a].held # b
  BY <1>2, SoundParts DEF Sessions, Holds, Apart
<1>7. \A r \in Run : Holds(r)' <=> Holds(r)
  BY <1>2, <1>5, SoundParts DEF Holds
<1> HIDE DEF b
<1>8. Sessions'
  BY <1>2, <1>3, <1>4, <1>5, SoundParts DEF Sessions
<1>9. Errands'
  BY <1>3, SoundParts DEF Errands
<1>10. Removed'
  BY <1>3, <1>4, SoundParts DEF Removed
<1>11. Apart'
  BY <1>2, <1>3, <1>4, <1>5, <1>6, <1>7, SoundParts DEF Apart, Holding
<1>12. LiveBoxIsNamed'
  BY <1>3, <1>4, <1>5, <1>6, <1>7, SoundParts DEF LiveBoxIsNamed
<1> QED
  BY <1>8, <1>9, <1>10, <1>11, <1>12 DEF Held

(* The row gets it back only while nobody has the lease.                    *)
LEMMA HeldGive ==
    ASSUME Sound, NEW q \in Run, GiveBack(q)
    PROVE  Held'
<1> DEFINE b == run[q].held
           t == session[b]
<1>0. /\ run' = [run EXCEPT ![q].at = "waiting", ![q].held = NoBox]
      /\ row' \in {row, Returned(t, b)}
  BY DEF GiveBack
<1>1. run[q].at = "giving" /\ UNCHANGED <<boxes, session, jobs>>
  BY DEF GiveBack
<1>2. b # NoBox /\ t \in Task
  BY <1>1, SoundParts DEF Apart, Holding, Sessions, TypeOK, Thread
<1>3. /\ run'[q].at = "waiting" /\ run'[q].held = NoBox /\ run'[q].box = run[q].box
      /\ \A r \in Run \ {q} : run'[r] = run[r]
  BY <1>0, SoundParts DEF TypeOK, Thread
<1>4. /\ \A u \in Task \ {t} : row'[u] = row[u]
      /\ row'[t].owner = row[t].owner
      /\ row'[t].box = row[t].box \/ (row'[t].box = b /\ row[t].owner = NoRun)
  BY <1>0, <1>2, SoundParts DEF Returned, TypeOK, Row
<1>5. \A r \in Run : Holds(r)' <=> Holds(r)
  BY <1>4, SoundParts DEF Holds
<1>6. \A a \in Run \ {q} : run[a].at \in Holding => run[a].held # b
  BY <1>1, SoundParts DEF Apart, Holding
<1>7. session[b] = t
  OBVIOUS
<1> HIDE DEF b, t
<1>8. Sessions'
  BY <1>1, <1>2, <1>3, <1>4, <1>7, SoundParts DEF Sessions
<1>9. Errands'
  BY <1>1, SoundParts DEF Errands
<1>10. Removed'
  BY <1>1, <1>3, SoundParts DEF Removed
<1>11. Apart'
  BY <1>1, <1>3, <1>4, <1>5, <1>6, SoundParts DEF Apart, Holding
<1>12. LiveBoxIsNamed'
  BY <1>1, <1>3, <1>4, <1>5, SoundParts DEF LiveBoxIsNamed, Holds
<1> QED
  BY <1>8, <1>9, <1>10, <1>11, <1>12 DEF Held

-----------------------------------------------------------------------------
LEMMA SoundNext == Sound /\ [Next]_vars => Sound'
<1> SUFFICES ASSUME Sound, [Next]_vars PROVE Sound'
  OBVIOUS
<1>1. Held'
  <2>1. ASSUME NEW t \in Task, Request(t)
        PROVE  Held'
    BY <2>1, CalmRequest, CalmKeeps
  <2>2. ASSUME NEW q \in Run, RunStep(q)
        PROVE  Held'
    <3>1. CASE Begin(q) \/ Adopt(q) \/ CreateBox(q) \/ NameBox(q) \/ GiveBack(q)
      BY <3>1, HeldBegin, HeldAdopt, HeldCreate, HeldName, HeldGive
    <3>2. CASE Reclaim(q) /\ Kept # {}
      BY <3>2, HeldTake
    <3> QED
      BY <2>2, <3>1, <3>2, CalmRun, CalmKeeps
  <2> QED
    BY <2>1, <2>2, CalmElsewhere, CalmKeeps
<1> QED
  BY <1>1, TypeNext, FreshStep DEF Sound, Held

(* The sandbox a run with the lease works in is the one its row names       *)
(* (set_sandbox, under the token): whoever stops the task, recovers it or   *)
(* takes it over finds the sandbox there, through every change of hands.    *)
THEOREM RunsNameTheirSandbox == Spec => []LiveBoxIsNamed
<1>1. Sound => LiveBoxIsNamed
  BY DEF Sound
<1> QED
  BY <1>1, SoundInit, SoundNext, PTL DEF Spec

(* What take_kept_sandbox took off a task is nobody's while the runner is   *)
(* asked to delete it: no follow-up of that task got it in between, and no  *)
(* other run reclaims it too.                                               *)
THEOREM ReclaimIsSafe == Spec => []ReclaimSparesRuns
<1>1. Sound => ReclaimSparesRuns
  BY DEF Sound, Apart, Holding, ReclaimSparesRuns
<1> QED
  BY <1>1, SoundInit, SoundNext, PTL DEF Spec
=============================================================================
