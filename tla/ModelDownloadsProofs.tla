------------------------ MODULE ModelDownloadsProofs ------------------------
(***************************************************************************)
(* Proofs about ModelDownloads, for any number of jobs, models, runs,       *)
(* processes and requests.                                                  *)
(***************************************************************************)
EXTENDS ModelDownloads, TLAPS

-----------------------------------------------------------------------------
(* Types.                                                                   *)

(* What a thread or a deletion works on is known while it works.            *)
Given ==
    /\ \A r \in Run : /\ run[r].at \notin {"idle", "over"} => run[r].job \in Job /\ run[r].proc \in Proc
                      /\ run[r].at = "cut" => run[r].why \in Reason
    /\ \A d \in Deleter : del[d].at \notin {"idle", "over"} => del[d].model \in Model

Typed == TypeOK /\ Given

LEMMA BecomesTyped ==
    ASSUME TypeOK, NEW j \in Job, NEW s \in {"queued", "done", "failed"}
    PROVE  Becomes(j, s) \in [Job -> Row]
<1>1. job[j] \in Row
  BY DEF TypeOK
<1>2. [[job[j] EXCEPT !.status = s] EXCEPT !.claim = IF s \in {"done", "failed"} THEN NoRun ELSE @] \in Row
  BY <1>1 DEF Row
<1> QED
  BY <1>1, <1>2 DEF TypeOK, Becomes, Row

LEMMA OutcomesTyped ==
    ASSUME TypeOK, NEW r \in Run, run[r].job \in Job
    PROVE  Requeued(r) \in [Job -> Row] /\ Failed(r) \in [Job -> Row]
BY BecomesTyped DEF Requeued, Failed, TypeOK

LEMMA UnlockedTyped ==
    ASSUME TypeOK, NEW gone
    PROVE  Unlocked(gone) \in [Model -> Run \cup Deleter \cup {Free}]
BY DEF TypeOK, Unlocked

(* A thread that goes on is given what it was given.                        *)
LEMMA RunTyped ==
    ASSUME Typed, NEW r \in Run, run[r].at \notin {"idle", "over"}, del' = del,
           \/ \E place \in {"locking", "locked", "verified", "cleaning", "left"} : Goes(r, place)
           \/ Leaves(r)
    PROVE  run' \in [Run -> Thread] /\ Given'
<1>1. run[r] \in Thread
  BY DEF Typed, TypeOK
<1>2. CASE \E place \in {"locking", "locked", "verified", "cleaning", "left"} : Goes(r, place)
  <2> PICK place \in {"locking", "locked", "verified", "cleaning", "left"} : Goes(r, place)
    BY <1>2
  <2>1. [run[r] EXCEPT !.at = place] \in Thread
    BY <1>1 DEF Thread
  <2> QED
    BY <1>1, <2>1 DEF Typed, TypeOK, Given, Goes, Thread
<1>3. CASE Leaves(r)
  <2>1. [run[r] EXCEPT !.at = "leaving", !.why = "", !.absent = FALSE] \in Thread
    BY <1>1 DEF Thread
  <2> QED
    BY <1>1, <1>3, <2>1 DEF Typed, TypeOK, Given, Leaves, Thread
<1> QED
  BY <1>2, <1>3

LEMMA DeletionTyped ==
    ASSUME Typed, NEW d \in Deleter, run' = run,
           \/ Close(d)
           \/ del[d].at \notin {"idle", "over"} /\ \E place \in {"deleted", "failed"} : Step(d, place)
    PROVE  del' \in [Deleter -> Deletion] /\ Given'
<1>1. del[d] \in Deletion /\ Closed(d) \in Deletion /\ Closed(d).at \in {"idle", "over"}
  BY DEF Typed, TypeOK, Closed, NoDeletion, Deletion
<1>2. CASE Close(d)
  BY <1>1, <1>2 DEF Typed, TypeOK, Given, Close
<1>3. CASE del[d].at \notin {"idle", "over"} /\ \E place \in {"deleted", "failed"} : Step(d, place)
  <2> PICK place \in {"deleted", "failed"} : Step(d, place)
    BY <1>3
  <2>1. [del[d] EXCEPT !.at = place] \in Deletion
    BY <1>1 DEF Deletion
  <2> QED
    BY <1>1, <1>3, <2>1 DEF Typed, TypeOK, Given, Step, Deletion
<1> QED
  BY <1>2, <1>3

LEMMA TypedInit == Init => Typed
<1> SUFFICES ASSUME Init PROVE Typed
  OBVIOUS
<1>1. NoRow \in Row /\ NoThread \in Thread /\ NoDeletion \in Deletion
  BY DEF NoRow, NoThread, NoDeletion, Row, Thread, Deletion
<1>2. TypeOK
  BY <1>1, ModelDownloadsAssumption DEF Init, TypeOK, Phase
<1>3. Given
  BY DEF Init, Given, NoThread, NoDeletion
<1> QED
  BY <1>2, <1>3 DEF Typed

LEMMA TypedLead ==
    ASSUME Typed,
           \/ Elect
           \/ \E p \in Proc : Stop(p) \/ End(p) \/ Recover(p) \/ ClaimNext(p)
           \/ \E p \in Proc, j \in Job : RecoverOrphan(p, j)
    PROVE  Typed'
<1>1. CASE Elect
  BY <1>1 DEF Typed, TypeOK, Given, Elect, Candidate, Waiting, Phase, rows, models
<1>2. ASSUME NEW p \in Proc, Stop(p)
      PROVE  Typed'
  BY <1>2 DEF Typed, TypeOK, Given, Stop, Phase, rows, models
<1>3. ASSUME NEW p \in Proc, End(p)
      PROVE  Typed'
  <2>1. OverThread \in Thread /\ OverThread.at = "over"
    BY DEF OverThread, NoThread, Thread
  <2>2. NoDeletion \in Deletion /\ NoDeletion.at = "idle"
    BY DEF NoDeletion, Deletion
  <2>3. run' \in [Run -> Thread] /\ \A r \in Run : run'[r] \in {run[r], OverThread}
    BY <1>3, <2>1 DEF End, Typed, TypeOK
  <2>4. del' \in [Deleter -> Deletion] /\ \A d \in Deleter : del'[d] \in {del[d], NoDeletion}
    BY <1>3, <2>2 DEF End, Typed, TypeOK
  <2>5. Given'
    BY <2>1, <2>2, <2>3, <2>4 DEF Given, Typed
  <2>6. lock' \in [Model -> Run \cup Deleter \cup {Free}]
    BY <1>3, UnlockedTyped DEF End, Typed
  <2> QED
    BY <1>3, <2>3, <2>4, <2>5, <2>6 DEF End, Typed, TypeOK, Phase, models
<1>4. ASSUME NEW p \in Proc, Recover(p)
      PROVE  Typed'
  <2>1. \A j \in Job : [job[j] EXCEPT !.status = "queued", !.claim = NoRun] \in Row
    BY DEF Typed, TypeOK, Row
  <2>2. job' \in [Job -> Row]
    BY <1>4, <2>1 DEF Recover, Typed, TypeOK
  <2> QED
    BY <1>4, <2>2 DEF Typed, TypeOK, Given, Recover, Phase, models
<1>5. ASSUME NEW p \in Proc, ClaimNext(p)
      PROVE  Typed'
  <2> DEFINE r == CHOOSE x \in Unused : TRUE
  <2>1. r \in Run
    BY <1>5 DEF ClaimNext, Unused
  <2>2. PICK j \in Job : /\ job' = [job EXCEPT ![j].status = "pulling", ![j].claim = r]
                         /\ run' = [run EXCEPT ![r] = [@ EXCEPT !.at = "claimed", !.proc = p, !.job = j]]
    BY <1>5 DEF ClaimNext
  <2> HIDE DEF r
  <2>3. [job[j] EXCEPT !.status = "pulling", !.claim = r] \in Row
    BY <2>1 DEF Typed, TypeOK, Row
  <2>4. [run[r] EXCEPT !.at = "claimed", !.proc = p, !.job = j] \in Thread
    BY <2>1 DEF Typed, TypeOK, Thread
  <2>5. job' \in [Job -> Row] /\ run' \in [Run -> Thread]
    BY <2>1, <2>2, <2>3, <2>4 DEF Typed, TypeOK
  <2>6. /\ run'[r].at = "claimed" /\ run'[r].job = j /\ run'[r].proc = p
        /\ \A x \in Run \ {r} : run'[x] = run[x]
    BY <2>1, <2>2 DEF Typed, TypeOK, Thread
  <2>7. del' = del
    BY <1>5 DEF ClaimNext
  <2>8. Given'
    BY <2>6, <2>7 DEF Given, Typed
  <2> QED
    BY <1>5, <2>5, <2>8 DEF ClaimNext, Typed, TypeOK, models
<1>6. ASSUME NEW p \in Proc, NEW j \in Job, RecoverOrphan(p, j)
      PROVE  Typed'
  <2>1. [job[j] EXCEPT !.status = "queued", !.claim = NoRun] \in Row
    BY DEF Typed, TypeOK, Row
  <2>2. job' \in [Job -> Row]
    BY <1>6, <2>1 DEF RecoverOrphan, Typed, TypeOK
  <2> QED
    BY <1>6, <2>2 DEF Typed, TypeOK, Given, RecoverOrphan, models
<1> QED
  BY <1>1, <1>2, <1>3, <1>4, <1>5, <1>6

LEMMA TypedAdmin ==
    ASSUME Typed,
           \/ \E j \in Job : DeleteFinished(j)
           \/ \E j \in Job, cleanup \in BOOLEAN : Cancel(j, cleanup)
           \/ \E m \in Model : Enqueue(m) \/ CancelDelete(m)
           \/ \E d \in Request, m \in Model, idle \in BOOLEAN : AskDelete(d, m, idle)
           \/ \E p \in Proc, m \in Model : PendingDelete(p, m)
    PROVE  Typed'
<1>1. ASSUME NEW j \in Job, DeleteFinished(j)
      PROVE  Typed'
  <2>1. [NoRow EXCEPT !.status = "removed"] \in Row
    BY DEF NoRow, Row
  <2>2. job' \in [Job -> Row]
    BY <1>1, <2>1 DEF DeleteFinished, Typed, TypeOK
  <2> QED
    BY <1>1, <2>2 DEF Typed, TypeOK, Given, DeleteFinished, models
<1>2. ASSUME NEW j \in Job, NEW cleanup \in BOOLEAN, Cancel(j, cleanup)
      PROVE  Typed'
  <2>1. [job[j] EXCEPT !.status = "cancelled", !.cleanup = cleanup] \in Row
    BY DEF Typed, TypeOK, Row
  <2>2. job' \in [Job -> Row]
    BY <1>2, <2>1 DEF Cancel, Typed, TypeOK
  <2> QED
    BY <1>2, <2>2 DEF Typed, TypeOK, Given, Cancel, models
<1>3. ASSUME NEW m \in Model, Enqueue(m)
      PROVE  Typed'
  <2>1. job' \in [Job -> Row]
    BY <1>3, BecomesTyped DEF Enqueue, Typed
  <2> QED
    BY <1>3, <2>1 DEF Typed, TypeOK, Given, Enqueue, models
<1>4. ASSUME NEW m \in Model, CancelDelete(m)
      PROVE  Typed'
  BY <1>4 DEF Typed, TypeOK, Given, CancelDelete, rows
<1>5. ASSUME NEW d \in Request, NEW m \in Model, NEW idle \in BOOLEAN, AskDelete(d, m, idle)
      PROVE  Typed'
  <2>0. d \in Deleter /\ run' = run
    BY <1>5 DEF Deleter, AskDelete, rows
  <2>1. CASE Close(d)
    BY <1>5, <2>0, <2>1, DeletionTyped DEF AskDelete, Typed, TypeOK, rows
  <2>2. CASE del' = [del EXCEPT ![d] = [at |-> "chosen", model |-> m, idle |-> idle,
                                        already |-> m \in marked]]
    <3>1. [at |-> "chosen", model |-> m, idle |-> idle, already |-> m \in marked] \in Deletion
      <4>1. (m \in marked) \in BOOLEAN
        OBVIOUS
      <4> QED
        BY <4>1 DEF Deletion
    <3>2. del' \in [Deleter -> Deletion]
      BY <2>0, <2>2, <3>1 DEF Typed, TypeOK
    <3>3. Given'
      BY <2>0, <2>2 DEF Given, Typed, TypeOK
    <3> QED
      BY <1>5, <3>2, <3>3 DEF AskDelete, Typed, TypeOK, rows
  <2> QED
    BY <1>5, <2>1, <2>2 DEF AskDelete
<1>6. ASSUME NEW p \in Proc, NEW m \in Model, PendingDelete(p, m)
      PROVE  Typed'
  <2>1. [at |-> "chosen", model |-> m, idle |-> TRUE, already |-> TRUE] \in Deletion
    BY DEF Deletion
  <2>2. del' \in [Deleter -> Deletion]
    BY <1>6, <2>1 DEF PendingDelete, Typed, TypeOK, Deleter
  <2>3. Given'
    BY <1>6 DEF PendingDelete, Given, Typed, TypeOK, rows, Deleter
  <2> QED
    BY <1>6, <2>2, <2>3 DEF PendingDelete, Typed, TypeOK, rows, models
<1> QED
  BY <1>1, <1>2, <1>3, <1>4, <1>5, <1>6

LEMMA TypedServe ==
    ASSUME Typed, NEW r \in Run, Serve(r)
    PROVE  Typed'
<1>1. run[r].at \notin {"idle", "over"}
  BY DEF Serve, Register, Acquire, Look, Complete, Finish, PullFails, Break, Cut, Interrupted,
         Cleanup, Leave, RequeueAbandoned
<1>2. run[r].job \in Job /\ run[r].proc \in Proc /\ Target(r) \in Model /\ run[r] \in Thread
  BY <1>1, ModelDownloadsAssumption DEF Typed, Given, TypeOK, Target
<1>3. Requeued(r) \in [Job -> Row] /\ Failed(r) \in [Job -> Row]
  BY <1>2, OutcomesTyped DEF Typed
<1>4. CASE Register(r)
  BY <1>1, <1>2, <1>4, RunTyped DEF Register, Typed, TypeOK, models
<1>5. CASE Acquire(r)
  BY <1>1, <1>2, <1>5, RunTyped DEF Acquire, Typed, TypeOK, models
<1>6. CASE Look(r)
  <2>1. PICK absent \in BOOLEAN :
            run' = [run EXCEPT ![r] = [@ EXCEPT !.at = "pulling", !.absent = absent]]
    BY <1>6 DEF Look
  <2>2. [run[r] EXCEPT !.at = "pulling", !.absent = absent] \in Thread
    BY <1>2 DEF Thread
  <2>3. run' \in [Run -> Thread] /\ Given'
    BY <1>2, <1>6, <2>1, <2>2 DEF Look, Typed, TypeOK, Given, Thread
  <2> QED
    BY <1>6, <2>3 DEF Look, Typed, TypeOK, models
<1>7. CASE Complete(r)
  BY <1>1, <1>2, <1>7, RunTyped DEF Complete, Typed, TypeOK
<1>8. CASE Finish(r)
  BY <1>1, <1>2, <1>8, RunTyped, BecomesTyped DEF Finish, Typed, TypeOK
<1>9. CASE PullFails(r)
  BY <1>1, <1>2, <1>3, <1>9, RunTyped DEF PullFails, Perhaps, Typed, TypeOK
<1>10. CASE Break(r)
  BY <1>1, <1>2, <1>3, <1>10, RunTyped DEF Break, Typed, TypeOK, models
<1>11. CASE Cut(r)
  <2>1. PICK why \in Reason : run' = [run EXCEPT ![r] = [@ EXCEPT !.at = "cut", !.why = why]]
    BY <1>11 DEF Cut
  <2>2. [run[r] EXCEPT !.at = "cut", !.why = why] \in Thread
    BY <1>2 DEF Thread
  <2>3. run' \in [Run -> Thread] /\ Given'
    BY <1>2, <1>11, <2>1, <2>2 DEF Cut, Typed, TypeOK, Given, Thread
  <2> QED
    BY <1>2, <1>11, <2>3 DEF Cut, Perhaps, Typed, TypeOK
<1>12. CASE Interrupted(r)
  <2>1. run[r].why \in Reason
    BY <1>12 DEF Interrupted, Typed, Given
  <2>2. job' \in {job, Requeued(r), Failed(r)}
    BY <1>12, <2>1 DEF Interrupted, Reason
  <2>3. Goes(r, "cleaning") \/ Leaves(r)
    BY <1>12 DEF Interrupted
  <2> QED
    BY <1>1, <1>3, <1>12, <2>2, <2>3, RunTyped DEF Interrupted, Typed, TypeOK, models
<1>13. CASE Cleanup(r)
  BY <1>1, <1>2, <1>13, RunTyped DEF Cleanup, Typed, TypeOK
<1>14. CASE Leave(r) \/ RequeueAbandoned(r)
  <2>1. \/ run' = [run EXCEPT ![r] = [@ EXCEPT !.at = "left"]]
        \/ run' = [run EXCEPT ![r] = OverThread]
    BY <1>14 DEF Leave, RequeueAbandoned
  <2>2. OverThread \in Thread /\ OverThread.at = "over"
    BY DEF OverThread, NoThread, Thread
  <2>3. del' = del
    BY <1>14 DEF Leave, RequeueAbandoned
  <2>4. run' \in [Run -> Thread] /\ Given'
    <3>1. CASE run' = [run EXCEPT ![r] = [@ EXCEPT !.at = "left"]]
      BY <1>1, <2>3, <3>1, RunTyped DEF Goes
    <3>2. CASE run' = [run EXCEPT ![r] = OverThread]
      BY <2>2, <2>3, <3>2 DEF Typed, TypeOK, Given
    <3> QED
      BY <2>1, <3>1, <3>2
  <2>5. job' \in [Job -> Row]
    BY <1>3, <1>14 DEF Leave, RequeueAbandoned, Typed, TypeOK
  <2>6. reg' \in [Proc -> SUBSET Job]
    BY <1>14 DEF Leave, RequeueAbandoned, Typed, TypeOK
  <2>7. lock' \in [Model -> Run \cup Deleter \cup {Free}]
    BY <1>14, UnlockedTyped DEF Leave, RequeueAbandoned, Typed, TypeOK
  <2> QED
    BY <1>14, <2>4, <2>5, <2>6, <2>7 DEF Leave, RequeueAbandoned, Typed, TypeOK, models
<1> QED
  BY <1>4, <1>5, <1>6, <1>7, <1>8, <1>9, <1>10, <1>11, <1>12, <1>13, <1>14 DEF Serve

LEMMA TypedDelete ==
    ASSUME Typed, NEW d \in Deleter, Delete(d) \/ RequestDies(d)
    PROVE  Typed'
<1>1. del[d].at \notin {"idle", "over"}
  BY DEF Delete, StartDelete, Busy, DeleteNow, DeleteFails, Record, Undo, RequestDies
<1>2. del[d].model \in Model /\ del[d] \in Deletion /\ run' = run
  BY <1>1 DEF Typed, Given, TypeOK, Delete, StartDelete, Busy, DeleteNow, DeleteFails, Record, Undo,
              RequestDies, rows
<1>3. CASE StartDelete(d)
  <2>1. CASE Close(d)
    BY <1>2, <1>3, <2>1, DeletionTyped DEF StartDelete, Typed, TypeOK, rows, models
  <2>2. CASE /\ lock' = [lock EXCEPT ![del[d].model] = d]
             /\ del' = [del EXCEPT ![d] = [@ EXCEPT !.at = "deleting", !.idle = FALSE]]
    <3>1. [del[d] EXCEPT !.at = "deleting", !.idle = FALSE] \in Deletion
      BY <1>2 DEF Deletion
    <3>2. del' \in [Deleter -> Deletion] /\ Given'
      BY <1>2, <2>2, <3>1 DEF Typed, TypeOK, Given, Deletion
    <3> QED
      BY <1>2, <1>3, <2>2, <3>2 DEF StartDelete, Typed, TypeOK, rows, models
  <2> QED
    BY <1>3, <2>1, <2>2 DEF StartDelete
<1>4. CASE Busy(d) \/ Record(d) \/ Undo(d) \/ RequestDies(d)
  BY <1>2, <1>4, DeletionTyped, UnlockedTyped
     DEF Busy, Record, Undo, RequestDies, Typed, TypeOK, rows, models
<1>5. CASE DeleteNow(d)
  BY <1>1, <1>2, <1>5, DeletionTyped DEF DeleteNow, Typed, TypeOK, rows
<1>6. CASE DeleteFails(d)
  BY <1>1, <1>2, <1>6, DeletionTyped, UnlockedTyped DEF DeleteFails, Typed, TypeOK, rows
<1> QED
  BY <1>3, <1>4, <1>5, <1>6 DEF Delete

LEMMA TypedNext == Typed /\ [Next]_vars => Typed'
<1>1. ASSUME Typed, UNCHANGED vars
      PROVE  Typed'
  BY <1>1 DEF Typed, TypeOK, Given, vars
<1> QED
  BY <1>1, TypedLead, TypedAdmin, TypedServe, TypedDelete DEF Next

(* Every reachable state is of the declared types.                          *)
THEOREM TypeCorrect == Spec => []TypeOK
<1>1. Typed => TypeOK
  BY DEF Typed
<1> QED
  BY <1>1, TypedInit, TypedNext, PTL DEF Spec

-----------------------------------------------------------------------------
(* Marked models are not downloaded.                                        *)

(* No job becomes active, and no model is marked.                           *)
Wanes ==
    /\ marked' \subseteq marked
    /\ \A j \in Job : job'[j].status \in {"queued", "pulling"} => Active(j)

LEMMA WanesKeeps == Wanes /\ MarkedIsUnwanted => MarkedIsUnwanted'
BY DEF Wanes, MarkedIsUnwanted, Wanted, Active

(* What a run writes makes no job active.                                   *)
LEMMA OutcomesWane ==
    ASSUME Typed, NEW r \in Run, run[r].job \in Job, marked' \subseteq marked,
           job' \in {job, Requeued(r), Failed(r)}
    PROVE  Wanes
<1> DEFINE j == run[r].job
<1>1. /\ Pulls(r) => Active(j)
      /\ Owns(r) => Active(j)
  BY DEF Pulls, Owns, RowOf, Active
<1>2. CASE job' = job
  BY <1>2 DEF Wanes, Active
<1>3. CASE job' = Becomes(j, "queued") /\ Pulls(r)
  BY <1>1, <1>3 DEF Wanes, Becomes, Active, Typed, TypeOK
<1>4. CASE job' = Becomes(j, "failed") /\ Owns(r)
  BY <1>1, <1>4 DEF Wanes, Becomes, Active, Typed, TypeOK
<1> QED
  BY <1>2, <1>3, <1>4 DEF Requeued, Failed

LEMMA ServeWanes ==
    ASSUME Typed, NEW r \in Run, Serve(r)
    PROVE  Wanes
<1>1. run[r].at \notin {"idle", "over"}
  BY DEF Serve, Register, Acquire, Look, Complete, Finish, PullFails, Break, Cut, Interrupted,
         Cleanup, Leave, RequeueAbandoned
<1>2. run[r].job \in Job
  BY <1>1 DEF Typed, Given
<1>3. marked' = marked
  BY DEF Serve, Register, Acquire, Look, Complete, Finish, PullFails, Break, Cut, Interrupted,
         Cleanup, Leave, RequeueAbandoned, models
<1>4. CASE Finish(r)
  BY <1>2, <1>3, <1>4 DEF Finish, Becomes, Wanes, Active, Typed, TypeOK
<1>5. CASE Interrupted(r)
  <2>1. run[r].why \in Reason
    BY <1>5 DEF Interrupted, Typed, Given
  <2>2. job' \in {job, Requeued(r), Failed(r)}
    BY <1>5, <2>1 DEF Interrupted, Reason
  <2> QED
    BY <1>2, <1>3, <2>2, OutcomesWane
<1>6. CASE PullFails(r) \/ Break(r) \/ RequeueAbandoned(r)
  BY <1>2, <1>3, <1>6, OutcomesWane DEF PullFails, Break, RequeueAbandoned
<1>7. CASE Register(r) \/ Acquire(r) \/ Look(r) \/ Complete(r) \/ Cut(r) \/ Cleanup(r) \/ Leave(r)
  BY <1>2, <1>3, <1>7, OutcomesWane DEF Register, Acquire, Look, Complete, Cut, Cleanup, Leave
<1> QED
  BY <1>4, <1>5, <1>6, <1>7 DEF Serve

LEMMA UnwantedNext ==
    ASSUME Typed, MarkedIsUnwanted, [Next]_vars
    PROVE  MarkedIsUnwanted'
<1>1. ASSUME NEW m \in Model, Enqueue(m)
      PROVE  MarkedIsUnwanted'
  <2>1. PICK j \in Job : ModelOf[j] = m /\ job' = Becomes(j, "queued")
    BY <1>1 DEF Enqueue
  <2>2. m \notin marked /\ marked' = marked
    BY <1>1 DEF Enqueue, models
  <2>3. \A i \in Job \ {j} : job'[i] = job[i]
    BY <2>1 DEF Becomes, Typed, TypeOK
  <2> QED
    BY <2>1, <2>2, <2>3 DEF MarkedIsUnwanted, Wanted, Active
<1>2. ASSUME NEW d \in Request, NEW m \in Model, NEW idle \in BOOLEAN, AskDelete(d, m, idle)
      PROVE  MarkedIsUnwanted'
  BY <1>2 DEF AskDelete, MarkedIsUnwanted, Wanted, Active, rows
<1>3. CASE Elect \/ \E p \in Proc : Stop(p) \/ End(p)
  BY <1>3, WanesKeeps DEF Wanes, Active, Elect, Stop, End, rows, models
<1>4. ASSUME NEW p \in Proc, Recover(p)
      PROVE  MarkedIsUnwanted'
  BY <1>4, WanesKeeps DEF Wanes, Active, Recover, models, Typed, TypeOK
<1>5. ASSUME NEW p \in Proc, ClaimNext(p)
      PROVE  MarkedIsUnwanted'
  <2>1. (CHOOSE x \in Unused : TRUE) \in Run
    BY <1>5 DEF ClaimNext, Unused
  <2>2. PICK j \in Job, r \in Run : /\ job[j].status = "queued"
                                   /\ job' = [job EXCEPT ![j].status = "pulling", ![j].claim = r]
    BY <1>5, <2>1 DEF ClaimNext
  <2> QED
    BY <1>5, <2>2, WanesKeeps DEF Wanes, Active, ClaimNext, models, Typed, TypeOK
<1>6. ASSUME NEW p \in Proc, NEW j \in Job, RecoverOrphan(p, j)
      PROVE  MarkedIsUnwanted'
  BY <1>6, WanesKeeps DEF Wanes, Active, RecoverOrphan, models, Typed, TypeOK
<1>7. ASSUME NEW j \in Job, DeleteFinished(j) \/ \E cleanup \in BOOLEAN : Cancel(j, cleanup)
      PROVE  MarkedIsUnwanted'
  BY <1>7, WanesKeeps DEF Wanes, Active, DeleteFinished, Cancel, NoRow, models, Typed, TypeOK, Row
<1>8. ASSUME NEW m \in Model, CancelDelete(m) \/ \E p \in Proc : PendingDelete(p, m)
      PROVE  MarkedIsUnwanted'
  BY <1>8, WanesKeeps DEF Wanes, Active, CancelDelete, PendingDelete, rows, models
<1>9. ASSUME NEW d \in Deleter, Delete(d) \/ RequestDies(d)
      PROVE  MarkedIsUnwanted'
  BY <1>9, WanesKeeps DEF Wanes, Active, Delete, StartDelete, Busy, DeleteNow, DeleteFails, Record,
                          Undo, RequestDies, rows, models
<1>10. ASSUME NEW r \in Run, Serve(r)
       PROVE  MarkedIsUnwanted'
  BY <1>10, ServeWanes, WanesKeeps
<1>11. CASE UNCHANGED vars
  BY <1>11 DEF vars, MarkedIsUnwanted, Wanted, Active
<1> QED
  BY <1>1, <1>2, <1>3, <1>4, <1>5, <1>6, <1>7, <1>8, <1>9, <1>10, <1>11 DEF Next

(* No job is waiting or running for a model that waits for its deletion     *)
(* (enqueue_ollama and delete_from_server each look at what the other one   *)
(* writes): whatever writes a job's outcome or queues it again makes no     *)
(* model wanted that was not.                                               *)
THEOREM MarkedIsNeverWanted == Spec => []MarkedIsUnwanted
<1>1. Init => MarkedIsUnwanted
  BY DEF Init, MarkedIsUnwanted
<1>2. Typed /\ MarkedIsUnwanted /\ [Next]_vars => MarkedIsUnwanted'
  BY UnwantedNext
<1> QED
  BY <1>1, <1>2, TypedInit, TypedNext, PTL DEF Spec

-----------------------------------------------------------------------------
(* What is kept is served.                                                  *)

(* Who downloads or removes a model has its lock.  What was seen absent     *)
(* under the lock was not promised to anybody since.                        *)
Fetching ==
    \A r \in Run :
        /\ run[r].at \in {"locked", "pulling", "verified"} => lock[Target(r)] = r
        /\ run[r].absent => /\ run[r].at \in {"pulling", "verified", "cut", "cleaning"}
                            /\ lock[Target(r)] = r
                            /\ Target(r) \notin kept
        /\ run[r].at = "verified" => Target(r) \in server

Removing ==
    \A d \in Deleter : del[d].at = "deleting" => /\ lock[del[d].model] = d
                                                 /\ del[d].model \notin kept

Unasked == marked \cap kept = {}

Safe == Typed /\ MarkedIsUnwanted /\ Unasked /\ KeptIsServed /\ Fetching /\ Removing

LEMMA SafeInit == Init => Safe
<1> SUFFICES ASSUME Init PROVE Safe
  OBVIOUS
<1>1. Typed
  BY TypedInit
<1>2. MarkedIsUnwanted /\ Unasked /\ KeptIsServed
  BY DEF Init, MarkedIsUnwanted, Unasked, KeptIsServed
<1>3. Fetching /\ Removing
  BY DEF Init, Fetching, Removing, NoThread, NoDeletion
<1> QED
  BY <1>1, <1>2, <1>3 DEF Safe

(* Nothing to do with models, locks or what is on its way.                  *)
LEMMA SafeElsewhere ==
    ASSUME Safe, UNCHANGED <<run, lock, models, del>>
    PROVE  Unasked' /\ KeptIsServed' /\ Fetching' /\ Removing'
BY DEF Safe, Unasked, KeptIsServed, Fetching, Removing, Target, models

LEMMA SafeEnd ==
    ASSUME Safe, NEW p \in Proc, End(p)
    PROVE  Unasked' /\ KeptIsServed' /\ Fetching' /\ Removing'
<1> DEFINE mine == {r \in Run : run[r].proc = p}
<1>1. /\ run' = [r \in Run |-> IF r \in mine THEN OverThread ELSE run[r]]
      /\ lock' = Unlocked(mine \cup {p})
      /\ del' = [del EXCEPT ![p] = NoDeletion]
      /\ UNCHANGED models
  BY DEF End
<1>2. OverThread.at = "over" /\ ~OverThread.absent /\ NoDeletion.at = "idle"
  BY DEF OverThread, NoThread, NoDeletion
<1>3. \A m \in Model : lock'[m] = lock[m] \/ lock[m] \in mine \cup {p}
  BY <1>1 DEF Unlocked
<1>4. Fetching'
  <2> SUFFICES ASSUME NEW r \in Run, r \notin mine
               PROVE  /\ run[r].at \in {"locked", "pulling", "verified"} => lock'[Target(r)] = r
                      /\ run[r].absent => /\ run[r].at \in {"pulling", "verified", "cut", "cleaning"}
                                          /\ lock'[Target(r)] = r
                                          /\ Target(r) \notin kept
                      /\ run[r].at = "verified" => Target(r) \in server
    BY <1>1, <1>2 DEF Fetching, Target, models
  <2>1. run[r].at \notin {"idle", "over"} => Target(r) \in Model
    BY ModelDownloadsAssumption DEF Safe, Typed, Given, Target
  <2>2. r \notin mine \cup {p}
    BY ModelDownloadsAssumption
  <2> HIDE DEF mine
  <2> QED
    BY <1>3, <2>1, <2>2 DEF Safe, Fetching
<1>5. Removing'
  <2> SUFFICES ASSUME NEW d \in Deleter, d # p, del[d].at = "deleting"
               PROVE  lock'[del[d].model] = d /\ del[d].model \notin kept
    BY <1>1, <1>2 DEF Removing, models, Safe, Typed, TypeOK
  <2>1. del[d].model \in Model
    BY DEF Safe, Typed, Given
  <2>2. d \notin mine \cup {p}
    BY ModelDownloadsAssumption DEF Deleter
  <2> HIDE DEF mine
  <2> QED
    BY <1>3, <2>1, <2>2 DEF Safe, Removing
<1> QED
  BY <1>1, <1>4, <1>5 DEF Safe, Unasked, KeptIsServed, models

LEMMA SafeAdmin ==
    ASSUME Safe,
           \/ \E m \in Model : CancelDelete(m)
           \/ \E d \in Request, m \in Model, idle \in BOOLEAN : AskDelete(d, m, idle)
           \/ \E p \in Proc, m \in Model : PendingDelete(p, m)
    PROVE  Unasked' /\ KeptIsServed' /\ Fetching' /\ Removing'
<1> USE DEF Safe
<1>1. ASSUME NEW m \in Model, CancelDelete(m)
      PROVE  Unasked' /\ KeptIsServed' /\ Fetching' /\ Removing'
  <2>1. /\ lock[m] = Free /\ UNCHANGED <<run, lock, server, del>>
        /\ marked' = marked \ {m} /\ kept' = kept \cup (server \cap {m})
    BY <1>1 DEF CancelDelete, rows
  <2>2. Fetching'
    BY <2>1, ModelDownloadsAssumption DEF Fetching, Target
  <2>3. Removing'
    BY <2>1, ModelDownloadsAssumption DEF Removing, Deleter
  <2> QED
    BY <2>1, <2>2, <2>3 DEF Unasked, KeptIsServed
<1>2. ASSUME NEW d \in Request, NEW m \in Model, NEW idle \in BOOLEAN, AskDelete(d, m, idle)
      PROVE  Unasked' /\ KeptIsServed' /\ Fetching' /\ Removing'
  <2>1. /\ UNCHANGED <<run, lock, server>>
        /\ marked' = marked \cup {m} /\ kept' = kept \ {m}
    BY <1>2 DEF AskDelete, rows
  <2>2. /\ d \in Deleter /\ del'[d].at # "deleting"
        /\ \A x \in Deleter \ {d} : del'[x] = del[x]
    BY <1>2 DEF AskDelete, Close, Closed, NoDeletion, Deleter, Typed, TypeOK
  <2>3. Fetching' /\ Removing'
    BY <2>1, <2>2 DEF Fetching, Removing, Target
  <2> QED
    BY <2>1, <2>3 DEF Unasked, KeptIsServed
<1>3. ASSUME NEW p \in Proc, NEW m \in Model, PendingDelete(p, m)
      PROVE  Unasked' /\ KeptIsServed' /\ Fetching' /\ Removing'
  <2>1. UNCHANGED <<run, lock, server, kept, marked>>
    BY <1>3 DEF PendingDelete, rows, models
  <2>2. /\ p \in Deleter /\ del'[p].at # "deleting"
        /\ \A x \in Deleter \ {p} : del'[x] = del[x]
    BY <1>3 DEF PendingDelete, Deleter, Typed, TypeOK
  <2>3. Fetching' /\ Removing'
    BY <2>1, <2>2 DEF Fetching, Removing, Target
  <2> QED
    BY <2>1, <2>3 DEF Unasked, KeptIsServed
<1> QED
  BY <1>1, <1>2, <1>3

LEMMA GoesThere ==
    ASSUME Typed, NEW r \in Run, NEW place, Goes(r, place)
    PROVE  /\ run'[r].at = place /\ run'[r].absent = run[r].absent /\ Target(r)' = Target(r)
           /\ \A x \in Run \ {r} : run'[x] = run[x] /\ Target(x)' = Target(x)
BY DEF Goes, Typed, TypeOK, Thread, Target

(* A run's own step: the other runs keep their locks, and what they saw.    *)
LEMMA SafeServe ==
    ASSUME Safe, NEW r \in Run, Serve(r)
    PROVE  Unasked' /\ KeptIsServed' /\ Fetching' /\ Removing'
<1> USE DEF Safe
<1>1. run[r].at \notin {"idle", "over"}
  BY DEF Serve, Register, Acquire, Look, Complete, Finish, PullFails, Break, Cut, Interrupted,
         Cleanup, Leave, RequeueAbandoned
<1>2. run[r].job \in Job /\ Target(r) \in Model /\ run[r] \in Thread
  BY <1>1, ModelDownloadsAssumption DEF Typed, Given, TypeOK, Target
<1>3. r \notin Deleter /\ Free # r
  BY ModelDownloadsAssumption DEF Deleter
<1>4. del' = del /\ marked' = marked
  BY DEF Serve, Register, Acquire, Look, Complete, Finish, PullFails, Break, Cut, Interrupted,
         Cleanup, Leave, RequeueAbandoned, models
<1>5. CASE Register(r)
  <2>1. Goes(r, "locking") /\ run[r].at = "claimed" /\ UNCHANGED <<lock, server, kept>>
    BY <1>5 DEF Register, models
  <2>2. ~run[r].absent
    BY <2>1 DEF Fetching
  <2>3. Fetching'
    BY <2>1, <2>2, GoesThere DEF Fetching
  <2> QED
    BY <1>4, <2>1, <2>3 DEF Unasked, KeptIsServed, Removing
<1>6. CASE Acquire(r)
  <2>1. /\ Goes(r, "locked") /\ UNCHANGED <<server, kept>>
        /\ run[r].at = "locking" /\ lock[Target(r)] = Free
        /\ lock' = [lock EXCEPT ![Target(r)] = r]
    BY <1>6 DEF Acquire, models
  <2>2. Fetching'
    <3> SUFFICES ASSUME NEW x \in Run
                 PROVE  /\ run'[x].at \in {"locked", "pulling", "verified"} => lock'[Target(x)'] = x
                        /\ run'[x].absent => /\ run'[x].at \in {"pulling", "verified", "cut", "cleaning"}
                                             /\ lock'[Target(x)'] = x
                                             /\ Target(x)' \notin kept
                        /\ run'[x].at = "verified" => Target(x)' \in server
      BY <2>1 DEF Fetching
    <3>1. Target(x)' = Target(x)
      BY <2>1, GoesThere
    <3>2. CASE x = r
      <4>1. run'[r].at = "locked" /\ ~run'[r].absent
        BY <2>1, GoesThere DEF Fetching
      <4>2. lock'[Target(r)] = r
        BY <1>2, <2>1 DEF Typed, TypeOK
      <4> QED
        BY <3>1, <3>2, <4>1, <4>2
    <3>3. CASE x # r
      <4>1. run'[x] = run[x]
        BY <2>1, <3>3, GoesThere
      <4>2. lock[Target(x)] = x => Target(x) # Target(r)
        BY <2>1, ModelDownloadsAssumption
      <4>3. lock[Target(x)] = x /\ Target(x) \in Model => lock'[Target(x)] = x
        BY <2>1, <4>2 DEF Typed, TypeOK
      <4>4. run[x].at \notin {"idle", "over"} => Target(x) \in Model
        BY ModelDownloadsAssumption DEF Typed, Given, Target
      <4> QED
        BY <3>1, <4>1, <4>3, <4>4 DEF Fetching
    <3> QED
      BY <3>2, <3>3
  <2>3. Removing'
    BY <1>2, <1>4, <2>1, ModelDownloadsAssumption DEF Removing, Typed, TypeOK, Given, Deleter
  <2> QED
    BY <1>4, <2>1, <2>2, <2>3 DEF Unasked, KeptIsServed
<1>7. CASE Look(r)
  <2>1. PICK absent \in {FALSE, Target(r) \notin server} :
            run' = [run EXCEPT ![r].at = "pulling", ![r].absent = absent]
    BY <1>7 DEF Look
  <2>2. run[r].at = "locked" /\ UNCHANGED <<lock, server, kept>>
    BY <1>7 DEF Look, models
  <2>3. lock[Target(r)] = r /\ (absent => Target(r) \notin kept)
    BY <2>1, <2>2 DEF Fetching, KeptIsServed
  <2>4. /\ run'[r].at = "pulling" /\ run'[r].absent = absent /\ run'[r].job = run[r].job
        /\ \A x \in Run \ {r} : run'[x] = run[x]
    BY <1>2, <2>1 DEF Typed, TypeOK, Thread
  <2>5. Fetching'
    BY <2>2, <2>3, <2>4 DEF Fetching, Target
  <2> QED
    BY <1>4, <2>2, <2>5 DEF Unasked, KeptIsServed, Removing
<1>8. CASE Complete(r)
  <2>1. /\ Goes(r, "verified") /\ UNCHANGED <<lock, kept>>
        /\ run[r].at = "pulling" /\ server' = server \cup {Target(r)}
    BY <1>8 DEF Complete
  <2>2. Fetching'
    BY <2>1, GoesThere DEF Fetching
  <2> QED
    BY <1>4, <2>1, <2>2 DEF Unasked, KeptIsServed, Removing
<1>9. CASE Finish(r)
  <2>1. /\ Leaves(r) /\ UNCHANGED <<lock, server>> /\ run[r].at = "verified" /\ Owns(r)
        /\ kept' = kept \cup {Target(r)}
    BY <1>9 DEF Finish
  <2>2. lock[Target(r)] = r /\ Target(r) \in server
    BY <2>1 DEF Fetching
  <2>3. Target(r) \notin marked
    BY <1>2, <2>1 DEF Owns, RowOf, MarkedIsUnwanted, Wanted, Active, Target
  <2>4. \A x \in Run \ {r} : run'[x] = run[x] /\ Target(x)' = Target(x)
    BY <2>1 DEF Leaves, Target, Typed, TypeOK
  <2>5. run'[r].at = "leaving" /\ ~run'[r].absent
    BY <1>2, <2>1 DEF Leaves, Typed, TypeOK, Thread
  <2>6. \A x \in Run \ {r} : lock[Target(x)] = x => Target(x) # Target(r)
    BY <2>2
  <2>7. Fetching'
    BY <2>1, <2>4, <2>5, <2>6 DEF Fetching
  <2>8. Removing'
    BY <1>3, <1>4, <2>1, <2>2 DEF Removing
  <2> QED
    BY <1>4, <2>1, <2>2, <2>3, <2>7, <2>8 DEF Unasked, KeptIsServed
<1>10. CASE PullFails(r) \/ Break(r)
  <2>1. Leaves(r) /\ server \subseteq server' /\ UNCHANGED <<lock, kept>>
    BY <1>10 DEF PullFails, Break, Perhaps, models
  <2>2. \A x \in Run \ {r} : run'[x] = run[x] /\ Target(x)' = Target(x)
    BY <2>1 DEF Leaves, Target, Typed, TypeOK
  <2>3. run'[r].at = "leaving" /\ ~run'[r].absent
    BY <1>2, <2>1 DEF Leaves, Typed, TypeOK, Thread
  <2>4. Fetching'
    BY <2>1, <2>2, <2>3 DEF Fetching
  <2> QED
    BY <1>4, <2>1, <2>4 DEF Unasked, KeptIsServed, Removing
<1>11. CASE Cut(r)
  <2>1. PICK why \in Reason : run' = [run EXCEPT ![r].at = "cut", ![r].why = why]
    BY <1>11 DEF Cut
  <2>2. server \subseteq server' /\ UNCHANGED <<lock, kept>>
    BY <1>11 DEF Cut, Perhaps
  <2>3. /\ run'[r].at = "cut" /\ run'[r].absent = run[r].absent /\ run'[r].job = run[r].job
        /\ \A x \in Run \ {r} : run'[x] = run[x]
    BY <1>2, <2>1 DEF Typed, TypeOK, Thread
  <2>4. Fetching'
    BY <2>2, <2>3 DEF Fetching, Target
  <2> QED
    BY <1>4, <2>2, <2>4 DEF Unasked, KeptIsServed, Removing
<1>12. CASE Interrupted(r)
  <2>1. UNCHANGED <<lock, server, kept>>
    BY <1>12 DEF Interrupted, models
  <2>2. CASE Goes(r, "cleaning")
    <3>1. Fetching'
      BY <2>1, <2>2, GoesThere DEF Fetching
    <3> QED
      BY <1>4, <2>1, <3>1 DEF Unasked, KeptIsServed, Removing
  <2>3. CASE Leaves(r)
    <3>1. run'[r].at = "leaving" /\ ~run'[r].absent
      BY <1>2, <2>3 DEF Leaves, Typed, TypeOK, Thread
    <3>2. \A x \in Run \ {r} : run'[x] = run[x] /\ Target(x)' = Target(x)
      BY <2>3 DEF Leaves, Target, Typed, TypeOK
    <3>3. Fetching'
      BY <2>1, <3>1, <3>2 DEF Fetching
    <3> QED
      BY <1>4, <2>1, <3>3 DEF Unasked, KeptIsServed, Removing
  <2> QED
    BY <1>12, <2>2, <2>3 DEF Interrupted
<1>13. CASE Cleanup(r)
  <2>1. /\ Leaves(r) /\ UNCHANGED <<lock, kept>>
        /\ server' \in {server, IF run[r].absent THEN server \ {Target(r)} ELSE server}
    BY <1>13 DEF Cleanup
  <2>2. \A x \in Run \ {r} : run'[x] = run[x] /\ Target(x)' = Target(x)
    BY <2>1 DEF Leaves, Target, Typed, TypeOK
  <2>3. run'[r].at = "leaving" /\ ~run'[r].absent
    BY <1>2, <2>1 DEF Leaves, Typed, TypeOK, Thread
  <2>4. run[r].absent => lock[Target(r)] = r /\ Target(r) \notin kept
    BY DEF Fetching
  <2>5. KeptIsServed'
    BY <2>1, <2>4 DEF KeptIsServed
  <2>6. Fetching'
    BY <2>1, <2>2, <2>3, <2>4 DEF Fetching
  <2> QED
    BY <1>4, <2>1, <2>5, <2>6 DEF Unasked, Removing
<1>14. CASE Leave(r) \/ RequeueAbandoned(r)
  <2>1. /\ UNCHANGED <<server, kept>>
        /\ lock' \in {lock, Unlocked({r})}
    BY <1>14 DEF Leave, RequeueAbandoned, models
  <2>2. \A m \in Model : lock'[m] = lock[m] \/ lock[m] = r
    BY <2>1 DEF Unlocked
  <2>3. ~run[r].absent
    BY <1>14 DEF Leave, RequeueAbandoned, Fetching
  <2>4. Goes(r, "left") \/ run' = [run EXCEPT ![r] = OverThread]
    BY <1>14 DEF Leave, RequeueAbandoned, Goes
  <2>5. /\ run'[r].at \in {"left", "over"} /\ ~run'[r].absent
        /\ \A x \in Run \ {r} : run'[x] = run[x] /\ Target(x)' = Target(x)
    <3>1. CASE Goes(r, "left")
      BY <2>3, <3>1, GoesThere
    <3>2. CASE run' = [run EXCEPT ![r] = OverThread]
      BY <3>2 DEF Typed, TypeOK, OverThread, NoThread, Target
    <3> QED
      BY <2>4, <3>1, <3>2
  <2>6. \A x \in Run : run[x].at \notin {"idle", "over"} => Target(x) \in Model
    BY ModelDownloadsAssumption DEF Typed, Given, Target
  <2>7. Fetching'
    BY <2>1, <2>2, <2>5, <2>6 DEF Fetching
  <2>8. Removing'
    BY <1>3, <1>4, <2>1, <2>2 DEF Removing, Typed, Given
  <2> QED
    BY <1>4, <2>1, <2>7, <2>8 DEF Unasked, KeptIsServed
<1> QED
  BY <1>5, <1>6, <1>7, <1>8, <1>9, <1>10, <1>11, <1>12, <1>13, <1>14 DEF Serve

LEMMA SafeClaim ==
    ASSUME Safe, NEW p \in Proc, ClaimNext(p)
    PROVE  Unasked' /\ KeptIsServed' /\ Fetching' /\ Removing'
<1> USE DEF Safe
<1> DEFINE r == CHOOSE x \in Unused : TRUE
<1>1. r \in Run /\ run[r].at = "idle"
  BY DEF ClaimNext, Unused
<1>2. PICK j \in Job : run' = [run EXCEPT ![r] = [@ EXCEPT !.at = "claimed", !.proc = p, !.job = j]]
  BY DEF ClaimNext
<1>3. UNCHANGED <<lock, server, kept, marked, del>>
  BY DEF ClaimNext, models
<1> HIDE DEF r
<1>4. /\ run'[r].at = "claimed" /\ run'[r].absent = run[r].absent
      /\ \A x \in Run \ {r} : run'[x] = run[x] /\ Target(x)' = Target(x)
  BY <1>1, <1>2 DEF Typed, TypeOK, Thread, Target
<1>5. Fetching'
  BY <1>1, <1>3, <1>4 DEF Fetching
<1> QED
  BY <1>3, <1>5 DEF Unasked, KeptIsServed, Removing

LEMMA SafeDelete ==
    ASSUME Safe, NEW d \in Deleter, Delete(d) \/ RequestDies(d)
    PROVE  Unasked' /\ KeptIsServed' /\ Fetching' /\ Removing'
<1> USE DEF Safe
<1> DEFINE m == del[d].model
<1>1. del[d].at \notin {"idle", "over"} /\ m \in Model /\ del[d] \in Deletion
  BY DEF Typed, Given, TypeOK, Delete, StartDelete, Busy, DeleteNow, DeleteFails, Record, Undo,
         RequestDies
<1>2. UNCHANGED <<run, kept>> /\ marked' \subseteq marked /\ \A x \in Run : Target(x)' = Target(x)
  BY DEF Delete, StartDelete, Busy, DeleteNow, DeleteFails, Record, Undo, RequestDies, rows, models,
         Target
<1>3. d \notin Run /\ Free \notin Run \cup Deleter
  BY ModelDownloadsAssumption DEF Deleter
<1>4. \A x \in Run : run[x].at \notin {"idle", "over"} => Target(x) \in Model
  BY ModelDownloadsAssumption DEF Typed, Given, Target
<1>5. Closed(d).at # "deleting"
  BY DEF Closed, NoDeletion
<1>6. CASE StartDelete(d) /\ m \in marked
  <2>1. /\ lock[m] = Free /\ lock' = [lock EXCEPT ![m] = d] /\ server' = server
        /\ del' = [del EXCEPT ![d] = [@ EXCEPT !.at = "deleting", !.idle = FALSE]]
    BY <1>6 DEF StartDelete, models
  <2>2. m \notin kept
    BY <1>6 DEF Unasked
  <2>3. /\ del'[d].at = "deleting" /\ del'[d].model = m
        /\ \A x \in Deleter \ {d} : del'[x] = del[x]
    BY <1>1, <2>1 DEF Typed, TypeOK, Deletion
  <2>4. lock'[m] = d /\ \A n \in Model : lock'[n] = lock[n] \/ lock[n] = Free
    BY <1>1, <2>1 DEF Typed, TypeOK
  <2>5. Removing'
    BY <1>2, <1>3, <2>2, <2>3, <2>4 DEF Removing, Typed, Given
  <2>6. Fetching'
    BY <1>2, <1>3, <1>4, <2>1, <2>4 DEF Fetching
  <2> QED
    BY <1>2, <2>1, <2>5, <2>6 DEF Unasked, KeptIsServed
<1>7. CASE (StartDelete(d) /\ m \notin marked) \/ Busy(d) \/ Undo(d)
  <2>1. UNCHANGED <<lock, server>> /\ Close(d)
    BY <1>7 DEF StartDelete, Busy, Undo, models
  <2>2. del'[d].at # "deleting" /\ \A x \in Deleter \ {d} : del'[x] = del[x]
    BY <1>5, <2>1 DEF Close, Typed, TypeOK
  <2> QED
    BY <1>2, <2>1, <2>2 DEF Unasked, KeptIsServed, Fetching, Removing
<1>8. CASE DeleteNow(d)
  <2>1. /\ del[d].at = "deleting" /\ server' = server \ {m} /\ lock' = lock
        /\ del' = [del EXCEPT ![d].at = "deleted"]
    BY <1>8 DEF DeleteNow, Step
  <2>2. lock[m] = d /\ m \notin kept
    BY <2>1 DEF Removing
  <2>3. del'[d].at # "deleting" /\ \A x \in Deleter \ {d} : del'[x] = del[x]
    BY <1>1, <2>1 DEF Typed, TypeOK, Deletion
  <2>4. Fetching'
    BY <1>2, <1>3, <2>1, <2>2 DEF Fetching
  <2> QED
    BY <1>2, <2>1, <2>2, <2>3, <2>4 DEF Unasked, KeptIsServed, Removing
<1>9. CASE DeleteFails(d)
  <2>1. /\ del[d].at = "deleting" /\ server' \in {server, server \ {m}} /\ lock' = Unlocked({d})
        /\ Close(d) \/ Step(d, "failed")
    BY <1>9 DEF DeleteFails
  <2>2. lock[m] = d /\ m \notin kept
    BY <2>1 DEF Removing
  <2>3. del'[d].at # "deleting" /\ \A x \in Deleter \ {d} : del'[x] = del[x]
    BY <1>1, <1>5, <2>1 DEF Close, Step, Typed, TypeOK, Deletion
  <2>4. \A n \in Model : lock'[n] = lock[n] \/ lock[n] = d
    BY <2>1 DEF Unlocked
  <2>5. Fetching'
    <3>1. \A x \in Run : run[x].at = "verified" => Target(x) # m
      BY <1>3, <2>2 DEF Fetching
    <3>2. \A x \in Run : run[x].at = "verified" => Target(x) \in server'
      BY <2>1, <3>1 DEF Fetching
    <3>3. ASSUME NEW x \in Run, run[x].at \notin {"idle", "over"}, lock[Target(x)] = x
          PROVE  lock'[Target(x)] = x
      BY <1>3, <1>4, <2>4, <3>3
    <3> QED
      BY <1>2, <3>2, <3>3 DEF Fetching
  <2>6. Removing'
    BY <1>2, <2>3, <2>4 DEF Removing, Typed, Given
  <2> QED
    BY <1>2, <2>1, <2>2, <2>5, <2>6 DEF Unasked, KeptIsServed
<1>10. CASE Record(d) \/ RequestDies(d)
  <2>1. server' = server /\ lock' = Unlocked({d}) /\ Close(d)
    BY <1>10 DEF Record, RequestDies, models
  <2>2. del'[d].at # "deleting" /\ \A x \in Deleter \ {d} : del'[x] = del[x]
    BY <1>5, <2>1 DEF Close, Typed, TypeOK
  <2>3. \A n \in Model : lock'[n] = lock[n] \/ lock[n] = d
    BY <2>1 DEF Unlocked
  <2>4. Fetching'
    <3>1. ASSUME NEW x \in Run, run[x].at \notin {"idle", "over"}, lock[Target(x)] = x
          PROVE  lock'[Target(x)] = x
      BY <1>3, <1>4, <2>3, <3>1
    <3> QED
      BY <1>2, <2>1, <3>1 DEF Fetching
  <2>5. Removing'
    BY <1>2, <2>2, <2>3 DEF Removing, Typed, Given
  <2> QED
    BY <1>2, <2>1, <2>4, <2>5 DEF Unasked, KeptIsServed
<1> QED
  BY <1>6, <1>7, <1>8, <1>9, <1>10 DEF Delete

LEMMA SafeNext == Safe /\ [Next]_vars => Safe'
<1> SUFFICES ASSUME Safe, [Next]_vars PROVE Safe'
  OBVIOUS
<1>1. Typed' /\ MarkedIsUnwanted'
  BY TypedNext, UnwantedNext DEF Safe
<1>2. Unasked' /\ KeptIsServed' /\ Fetching' /\ Removing'
  <2>1. CASE \/ Elect
             \/ \E p \in Proc : Stop(p) \/ Recover(p)
             \/ \E p \in Proc, j \in Job : RecoverOrphan(p, j)
             \/ \E j \in Job : DeleteFinished(j)
             \/ \E j \in Job, cleanup \in BOOLEAN : Cancel(j, cleanup)
             \/ \E m \in Model : Enqueue(m)
             \/ UNCHANGED vars
    <3>1. UNCHANGED <<run, lock, models, del>>
      BY <2>1 DEF Elect, Stop, Recover, RecoverOrphan, DeleteFinished, Cancel, Enqueue, vars, rows, models
    <3> QED
      BY <3>1, SafeElsewhere
  <2> QED
    BY <2>1, SafeEnd, SafeAdmin, SafeServe, SafeClaim, SafeDelete DEF Next
<1> QED
  BY <1>1, <1>2 DEF Safe

(* A model an administrator was told is there stays there until they ask to *)
(* delete it: neither the cleanup of a cancelled download (cleanup, on what *)
(* it saw before) nor a deletion that was taken back in time removes it,    *)
(* however many downloads, leaders and deletions of it there are.           *)
THEOREM KeptStaysServed == Spec => []KeptIsServed
<1>1. Safe => KeptIsServed
  BY DEF Safe
<1> QED
  BY <1>1, SafeInit, SafeNext, PTL DEF Spec
=============================================================================
