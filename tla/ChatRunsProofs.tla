--------------------------- MODULE ChatRunsProofs ---------------------------
(***************************************************************************)
(* Proofs about ChatRuns for every set of runs, chats and processes, every *)
(* lease and any delay of the supervisors: each answer has one outcome and *)
(* is billed as AnswerBilling promises.                                    *)
(***************************************************************************)
EXTENDS ChatRuns, SequenceTheorems, TLAPS

LEMMA InitType == Init => TypeOK
<1>1. 0 \in 0..Lease+1 /\ 0 \in 0..MaxUsage
  BY ChatRunsAssumption
<1>2. <<>> \in Seq(Nat)
  OBVIOUS
<1> QED
  BY <1>1, <1>2 DEF Init, TypeOK, Control

(* The types of what the helpers build.                                     *)
LEMMA ResetType ==
    ASSUME NEW T, NEW f \in [Session -> T], NEW v \in T, NEW S
    PROVE  Reset(f, S, v) \in [Session -> T]
  BY DEF Reset

LEMMA CancelledType ==
    ASSUME TypeOK, NEW R, NEW why \in {"lease_lost", "stopped", "shutdown"}
    PROVE  Cancelled(R, why)
             \in [Run -> {"none", "lease_lost", "stopped", "shutdown"}]
<1>1. cancel \in [Run -> {"none", "lease_lost", "stopped", "shutdown"}]
  BY DEF TypeOK
<1> QED
  BY <1>1 DEF Cancelled

LEMMA RecordedType ==
    ASSUME TypeOK, NEW S
    PROVE  Recorded(S) \in [Session -> {"idle", "queued", "running", "ended"}]
<1>1. gen \in [Session -> {"idle", "queued", "running", "ended"}]
  BY DEF TypeOK
<1> QED
  BY <1>1 DEF Recorded

LEMMA ChargedType ==
    ASSUME TypeOK, NEW S, NEW use \in [Run -> Nat]
    PROVE  Charged(S, use) \in [Run -> Seq(Nat)]
<1>1. bill \in [Run -> Seq(Nat)]
  BY DEF TypeOK
<1> SUFFICES ASSUME NEW r \in Run PROVE Append(bill[r], use[r]) \in Seq(Nat)
  BY <1>1 DEF Charged
<1>2. bill[r] \in Seq(Nat) /\ use[r] \in Nat
  BY <1>1
<1> QED
  BY <1>2, AppendProperties

LEMMA UsageType ==
    ASSUME TypeOK PROVE produced \in [Run -> Nat] /\ LastSaved \in [Run -> Nat]
<1>1. produced \in [Run -> 0..MaxUsage] /\ saved \in [Session -> 0..MaxUsage]
  BY DEF TypeOK
<1> QED
  BY <1>1, ChatRunsAssumption DEF LastSaved

LEMMA DropLeasesType ==
    ASSUME TypeOK, NEW S, DropLeases(S)
    PROVE  /\ lease' \in [Session -> Run \cup {NoRun}]
           /\ age' \in [Session -> 0..Lease+1]
           /\ stop' \in [Session -> BOOLEAN]
           /\ saved' \in [Session -> 0..MaxUsage]
<1>1. lease \in [Session -> Run \cup {NoRun}]
  BY DEF TypeOK
<1>2. age \in [Session -> 0..Lease+1] /\ 0 \in 0..Lease+1
  BY ChatRunsAssumption DEF TypeOK
<1>3. stop \in [Session -> BOOLEAN]
  BY DEF TypeOK
<1>4. saved \in [Session -> 0..MaxUsage] /\ 0 \in 0..MaxUsage
  BY ChatRunsAssumption DEF TypeOK
<1>5. lease' \in [Session -> Run \cup {NoRun}]
  BY <1>1 DEF DropLeases, WithoutLease
<1> QED
  BY <1>2, <1>3, <1>4, <1>5, ResetType DEF DropLeases

LEMMA WithdrawType ==
    ASSUME TypeOK, NEW r \in Run, Withdraw(r) \/ UNCHANGED <<rows, asked, gen>>
    PROVE  /\ lease' \in [Session -> Run \cup {NoRun}]
           /\ age' \in [Session -> 0..Lease+1]
           /\ stop' \in [Session -> BOOLEAN]
           /\ saved' \in [Session -> 0..MaxUsage]
           /\ gen' \in [Session -> {"idle", "queued", "running", "ended"}]
           /\ asked' \subseteq Run
<1>1. CASE UNCHANGED <<rows, asked, gen>>
  BY <1>1 DEF TypeOK, rows
<1>2. CASE HasLease(r) /\ Withdraw(r)
  <2>1. gen \in [Session -> {"idle", "queued", "running", "ended"}] /\ asked \subseteq Run
    BY DEF TypeOK
  <2> QED
    BY <1>2, <2>1, DropLeasesType DEF Withdraw
<1> QED
  BY <1>1, <1>2 DEF Withdraw

LEMMA TypeStep == TypeOK /\ [Next]_vars => TypeOK'
<1> SUFFICES ASSUME TypeOK, [Next]_vars PROVE TypeOK'
  OBVIOUS
<1> USE ChatRunsAssumption
<1>1. ASSUME NEW r \in Run, Begin(r) PROVE TypeOK'
  <2> DEFINE m == SessionOf[r]
  <2>1. bill' \in [Run -> Seq(Nat)]
    BY <1>1, UsageType, ChargedType DEF Begin
  <2>2. gen' \in [Session -> {"idle", "queued", "running", "ended"}]
    BY <1>1, RecordedType DEF Begin
  <2>3. /\ age' \in [Session -> 0..Lease+1]
        /\ stop' \in [Session -> BOOLEAN]
        /\ saved' \in [Session -> 0..MaxUsage]
    <3>1. /\ age \in [Session -> 0..Lease+1] /\ 0 \in 0..Lease+1
          /\ stop \in [Session -> BOOLEAN]
          /\ saved \in [Session -> 0..MaxUsage] /\ 0 \in 0..MaxUsage
      BY ChatRunsAssumption DEF TypeOK
    <3> QED
      BY <1>1, <3>1, ResetType DEF Begin
  <2>4. lease' \in [Session -> Run \cup {NoRun}]
    <3>1. lease \in [Session -> Run \cup {NoRun}]
      BY DEF TypeOK
    <3>2. WithoutLease(Stale) \in [Session -> Run \cup {NoRun}]
      BY <3>1 DEF WithoutLease
    <3> QED
      BY <1>1, <3>2 DEF Begin
  <2> QED
    BY <1>1, <2>1, <2>2, <2>3, <2>4 DEF Begin, TypeOK, Control, Thread, threads, supers, procs, rows
<1>2. ASSUME NEW r \in Run, Refuse(r) PROVE TypeOK'
  BY <1>2 DEF Refuse, TypeOK, Control, Thread, Control, Thread, threads, supers, procs, rows
<1>3. ASSUME NEW r \in Run, Start(r) PROVE TypeOK'
  BY <1>3 DEF Start, Register, TypeOK, Control, Thread, Control, Thread, threads, supers, procs, rows
<1>4. ASSUME NEW r \in Run, StartFails(r) PROVE TypeOK'
  BY <1>4, WithdrawType DEF StartFails, TypeOK, Control, Thread, threads, supers, procs, rows
<1>5. ASSUME NEW r \in Run, Queue(r) PROVE TypeOK'
  BY <1>5 DEF Queue, Running, TypeOK, Control, Thread, Control, Thread, threads, supers, procs, rows
<1>6. ASSUME NEW r \in Run, MarkRunning(r) PROVE TypeOK'
  BY <1>6 DEF MarkRunning, Running, Cancelled, TypeOK, Control, Thread, Control, Thread, threads, supers, procs, rows
<1>7. ASSUME NEW r \in Run, Produce(r) PROVE TypeOK'
  BY <1>7 DEF Produce, Running, TypeOK, Control, Thread, Control, Thread, threads, supers, procs, rows
<1>8. ASSUME NEW r \in Run, Checkpoint(r) PROVE TypeOK'
  <2>1. saved' \in [Session -> 0..MaxUsage]
    <3>1. produced \in [Run -> 0..MaxUsage] /\ saved \in [Session -> 0..MaxUsage]
      BY DEF TypeOK
    <3> QED
      BY <1>8, <3>1 DEF Checkpoint
  <2>2. cancel' \in [Run -> {"none", "lease_lost", "stopped", "shutdown"}]
    BY <1>8, CancelledType DEF Checkpoint, TypeOK
  <2> QED
    BY <1>8, <2>1, <2>2 DEF Checkpoint, TypeOK, Control, Thread, threads, supers, procs, rows
<1>9. ASSUME NEW r \in Run, Finish(r) PROVE TypeOK'
  <2>1. CASE HasLease(r) /\ cancel[r] # "lease_lost"
    <3>1. /\ bill' = Charged({SessionOf[r]}, produced)
          /\ gen' = Recorded({SessionOf[r]})
          /\ DropLeases({SessionOf[r]})
      BY <1>9, <2>1 DEF Finish
    <3>2. bill' \in [Run -> Seq(Nat)]
      BY <3>1, UsageType, ChargedType
    <3> QED
      BY <1>9, <3>1, <3>2, RecordedType, DropLeasesType DEF Finish, TypeOK, Control, Thread, threads, supers, procs, rows
  <2>2. CASE ~(HasLease(r) /\ cancel[r] # "lease_lost")
    BY <1>9, <2>2 DEF Finish, TypeOK, Control, Thread, threads, supers, procs, rows
  <2> QED
    BY <2>1, <2>2
<1>10. ASSUME NEW r \in Run, FinishFails(r) PROVE TypeOK'
  BY <1>10 DEF FinishFails, Running, TypeOK, Control, Thread, Control, Thread, threads, supers, procs, rows
<1>11. ASSUME NEW r \in Run, Abort(r) PROVE TypeOK'
  BY <1>11, WithdrawType DEF Abort, TypeOK, Control, Thread, threads, supers, procs, rows
<1>12. ASSUME NEW r \in Run, Release(r) PROVE TypeOK'
  BY <1>12 DEF Release, Unregister, TypeOK, Control, Thread, Control, Thread, threads, supers, procs, rows
<1>13. ASSUME NEW p \in Proc, NEW renew \in BOOLEAN, Supervise(p, renew) PROVE TypeOK'
  <2>1. cancel' \in [Run -> {"none", "lease_lost", "stopped", "shutdown"}]
    <3>1. cancel \in [Run -> {"none", "lease_lost", "stopped", "shutdown"}]
      BY DEF TypeOK
    <3> QED
      BY <1>13, <3>1 DEF Supervise
  <2>2. since' \in [Proc -> 0..Lease+1]
    <3>1. since \in [Proc -> 0..Lease+1] /\ 0 \in 0..Lease+1
      BY ChatRunsAssumption DEF TypeOK
    <3> QED
      BY <1>13, <3>1 DEF Supervise
  <2>3. renewing' \subseteq Run
    BY <1>13 DEF Supervise, ToRenew, Mine, TypeOK
  <2> QED
    BY <1>13, <2>1, <2>2, <2>3 DEF Supervise, TypeOK, Control, Thread, threads, supers, procs, rows
<1>14. ASSUME NEW r \in Run, Renew(r) PROVE TypeOK'
  BY <1>14 DEF Renew, TypeOK, Control, Thread, Control, Thread, threads, supers, procs, rows
<1>15. ASSUME NEW S \in SUBSET Session, RecoverStale(S) PROVE TypeOK'
  BY <1>15, UsageType, ChargedType, RecordedType, DropLeasesType
  DEF RecoverStale, TypeOK, Control, Thread, threads, supers, procs, rows
<1>16. ASSUME NEW s \in Session, NEW p \in Proc, StopRequest(s, p) PROVE TypeOK'
  BY <1>16 DEF StopRequest, Cancelled, TypeOK, Control, Thread, Control, Thread, threads, supers, procs, rows
<1>17. ASSUME NEW s \in Session, NEW how \in {"deleted", "erased"}, Delete(s, how) PROVE TypeOK'
  BY <1>17 DEF Delete, TypeOK, Control, Thread, Control, Thread, threads, supers, procs, rows
<1>18. ASSUME NEW p \in Proc, Shutdown(p) PROVE TypeOK'
  BY <1>18 DEF Shutdown, Cancelled, TypeOK, Control, Thread, Control, Thread, threads, supers, procs, rows
<1>19. ASSUME NEW r \in Run, Abandon(r) PROVE TypeOK'
  BY <1>19 DEF Abandon, TypeOK, Control, Thread, Control, Thread, threads, supers, procs, rows
<1>20. ASSUME NEW p \in Proc, Exit(p) PROVE TypeOK'
  BY <1>20 DEF Exit, TypeOK, Control, Thread, Control, Thread, threads, supers, procs, rows
<1>21. ASSUME Tick PROVE TypeOK'
  BY <1>21 DEF Tick, LaterThan, TypeOK, Control, Thread, Control, Thread, threads, supers, procs, rows
<1>22. ASSUME UNCHANGED vars PROVE TypeOK'
  BY <1>22 DEF vars, TypeOK, Control, Thread, Control, Thread, threads, supers, procs, rows
<1> QED
  BY <1>1, <1>2, <1>3, <1>4, <1>5, <1>6, <1>7, <1>8, <1>9, <1>10, <1>11,
     <1>12, <1>13, <1>14, <1>15, <1>16, <1>17, <1>18, <1>19, <1>20, <1>21,
     <1>22 DEF Next

-----------------------------------------------------------------------------
(* The ledger of the answers.  An answer that was asked for is open under   *)
(* its lease or has exactly one outcome; the others have none.  That is     *)
(* inductive only together with where in its thread a run can be: before it *)
(* begins it has no message, until its first event it has produced nothing  *)
(* (so that abort withdraws nothing that was shown), and its lease never    *)
(* records more than it produced.                                           *)
Ledger ==
    /\ \A r \in Run : HasLease(r) => r \in asked
    /\ \A r \in Run : IF r \in asked /\ ~HasLease(r) THEN Len(bill[r]) = 1
                                                     ELSE bill[r] = <<>>

Asked ==
    /\ \A r \in Run : pc[r] \in {"new", "refused"} => r \notin asked
    /\ \A r \in Run : pc[r] \in {"begun"} \cup Thread => r \in asked

Shown ==
    /\ \A r \in Run : produced[r] > 0 =>
          r \in asked /\ pc[r] \notin {"new", "refused", "begun", "waiting", "queued"}
    /\ \A r \in Run : HasLease(r) => saved[SessionOf[r]] <= produced[r]

IInv == /\ TypeOK
        /\ Ledger
        /\ Asked
        /\ Shown

LEMMA InitIInv == Init => IInv
<1> SUFFICES ASSUME Init PROVE IInv
  OBVIOUS
<1>1. TypeOK
  BY InitType
<1>2. Ledger /\ Asked /\ Shown
  BY ChatRunsAssumption DEF Init, Ledger, Asked, Shown, HasLease, Thread
<1> QED
  BY <1>1, <1>2 DEF IInv

(* What one transaction does to a ledger: the outcomes of S are appended.   *)
LEMMA SettleLedger ==
    ASSUME TypeOK, Ledger, NEW S, NEW use \in [Run -> Nat],
           bill' = Charged(S, use), asked' = asked, lease' = WithoutLease(S)
    PROVE  Ledger'
<1>1. \A r \in Run : HasLease(r)' <=> (HasLease(r) /\ SessionOf[r] \notin S)
  BY ChatRunsAssumption DEF WithoutLease, HasLease, TypeOK
<1>2. ASSUME NEW r \in Run, HasLease(r), SessionOf[r] \in S
      PROVE  Len(bill'[r]) = 1
  <2>1. bill[r] = <<>> /\ bill'[r] = Append(bill[r], use[r])
    BY <1>2 DEF Ledger, Charged
  <2> QED
    BY <2>1
<1>3. ASSUME NEW r \in Run, ~(HasLease(r) /\ SessionOf[r] \in S)
      PROVE  bill'[r] = bill[r]
  BY <1>3 DEF Charged
<1> QED
  BY <1>1, <1>2, <1>3 DEF Ledger

(* What abort does to the ledger: the answer of r was open, or nothing.     *)
LEMMA WithdrawLedger ==
    ASSUME IInv, NEW r \in Run, bill' = bill,
           Withdraw(r) \/ UNCHANGED <<rows, asked, gen>>
    PROVE  /\ Ledger'
           /\ \A q \in Run : HasLease(q)' =>
                 HasLease(q) /\ saved'[SessionOf[q]] = saved[SessionOf[q]]
           /\ asked' = asked \/ asked' = asked \ {r}
<1> USE ChatRunsAssumption DEF IInv, TypeOK
<1>1. CASE UNCHANGED <<rows, asked, gen>>
  BY <1>1 DEF Ledger, HasLease, rows
<1>2. CASE HasLease(r) /\ Withdraw(r)
  <2> DEFINE m == SessionOf[r]
  <2>1. /\ lease' = [s \in Session |-> IF s = m THEN NoRun ELSE lease[s]]
        /\ saved' = [s \in Session |-> IF s = m THEN 0 ELSE saved[s]]
        /\ asked' = asked \ {r}
    BY <1>2 DEF Withdraw, DropLeases, WithoutLease, Reset
  <2>2. \A q \in Run : HasLease(q)' <=> (HasLease(q) /\ q # r)
    BY <1>2, <2>1 DEF HasLease
  <2>3. \A q \in Run : HasLease(q)' => saved'[SessionOf[q]] = saved[SessionOf[q]]
    BY <2>1 DEF HasLease
  <2>4. bill[r] = <<>>
    BY <1>2 DEF Ledger
  <2>5. Ledger'
    BY <2>1, <2>2, <2>4 DEF Ledger
  <2> QED
    BY <2>1, <2>2, <2>3, <2>5
<1> QED
  BY <1>1, <1>2 DEF Withdraw

LEMMA LedgerStep == IInv /\ [Next]_vars => Ledger'
<1> SUFFICES ASSUME IInv, [Next]_vars PROVE Ledger'
  OBVIOUS
<1> USE ChatRunsAssumption DEF IInv, TypeOK, threads, supers, procs, rows, Ledger, HasLease
<1>1. ASSUME NEW r \in Run, Begin(r) PROVE Ledger'
  <2> DEFINE m == SessionOf[r]
  <2>1. r \notin asked /\ \A q \in Run : HasLease(q) => q # r
    BY <1>1 DEF Begin, Asked
  <2> QED
    BY <1>1, <2>1 DEF Begin, Charged, WithoutLease, Stale, Leased, Asked, Busy
<1>2. ASSUME NEW r \in Run, Refuse(r) PROVE Ledger'
  BY <1>2 DEF Refuse
<1>3. ASSUME NEW r \in Run, Start(r) PROVE Ledger'
  BY <1>3 DEF Start, Register
<1>4. ASSUME NEW r \in Run, StartFails(r) PROVE Ledger'
  BY <1>4, WithdrawLedger DEF StartFails
<1>5. ASSUME NEW r \in Run, Queue(r) PROVE Ledger'
  BY <1>5 DEF Queue, Running
<1>6. ASSUME NEW r \in Run, MarkRunning(r) PROVE Ledger'
  BY <1>6 DEF MarkRunning, Running, Cancelled
<1>7. ASSUME NEW r \in Run, Produce(r) PROVE Ledger'
  BY <1>7 DEF Produce, Running
<1>8. ASSUME NEW r \in Run, Checkpoint(r) PROVE Ledger'
  BY <1>8 DEF Checkpoint, Running, Cancelled
<1>9. ASSUME NEW r \in Run, Finish(r) PROVE Ledger'
  <2>1. CASE HasLease(r) /\ cancel[r] # "lease_lost"
    <3>1. /\ bill' = Charged({SessionOf[r]}, produced) /\ asked' = asked
          /\ lease' = WithoutLease({SessionOf[r]})
      BY <1>9, <2>1 DEF Finish, DropLeases
    <3> QED
      BY <3>1, UsageType, SettleLedger
  <2>2. CASE ~(HasLease(r) /\ cancel[r] # "lease_lost")
    BY <1>9, <2>2 DEF Finish
  <2> QED
    BY <2>1, <2>2
<1>10. ASSUME NEW r \in Run, FinishFails(r) PROVE Ledger'
  BY <1>10 DEF FinishFails, Running
<1>11. ASSUME NEW r \in Run, Abort(r) PROVE Ledger'
  BY <1>11, WithdrawLedger DEF Abort
<1>12. ASSUME NEW r \in Run, Release(r) PROVE Ledger'
  BY <1>12 DEF Release, Unregister
<1>13. ASSUME NEW p \in Proc, NEW renew \in BOOLEAN, Supervise(p, renew) PROVE Ledger'
  BY <1>13 DEF Supervise, ToRenew, Mine
<1>14. ASSUME NEW r \in Run, Renew(r) PROVE Ledger'
  BY <1>14 DEF Renew
<1>15. ASSUME NEW S \in SUBSET Session, RecoverStale(S) PROVE Ledger'
  BY <1>15, UsageType, SettleLedger DEF RecoverStale, DropLeases
<1>16. ASSUME NEW s \in Session, NEW p \in Proc, StopRequest(s, p) PROVE Ledger'
  BY <1>16 DEF StopRequest, Cancelled
<1>17. ASSUME NEW s \in Session, NEW how \in {"deleted", "erased"}, Delete(s, how) PROVE Ledger'
  BY <1>17 DEF Delete
<1>18. ASSUME NEW p \in Proc, Shutdown(p) PROVE Ledger'
  BY <1>18 DEF Shutdown, Cancelled
<1>19. ASSUME NEW r \in Run, Abandon(r) PROVE Ledger'
  BY <1>19 DEF Abandon
<1>20. ASSUME NEW p \in Proc, Exit(p) PROVE Ledger'
  BY <1>20 DEF Exit
<1>21. ASSUME Tick PROVE Ledger'
  BY <1>21 DEF Tick, LaterThan
<1>22. ASSUME UNCHANGED vars PROVE Ledger'
  BY <1>22 DEF vars
<1> QED
  BY <1>1, <1>2, <1>3, <1>4, <1>5, <1>6, <1>7, <1>8, <1>9, <1>10, <1>11,
     <1>12, <1>13, <1>14, <1>15, <1>16, <1>17, <1>18, <1>19, <1>20, <1>21,
     <1>22 DEF Next

LEMMA AskedStep == IInv /\ [Next]_vars => Asked'
<1> SUFFICES ASSUME IInv, [Next]_vars PROVE Asked'
  OBVIOUS
<1> USE ChatRunsAssumption DEF IInv, TypeOK, threads, supers, procs, rows, Asked, Thread
<1>1. ASSUME NEW r \in Run, Begin(r) PROVE Asked'
  BY <1>1 DEF Begin, Charged, Recorded, WithoutLease, Reset, LastSaved, Stale, Leased, HasLease
<1>2. ASSUME NEW r \in Run, Refuse(r) PROVE Asked'
  BY <1>2 DEF Refuse
<1>3. ASSUME NEW r \in Run, Start(r) PROVE Asked'
  BY <1>3 DEF Start, Register
<1>4. ASSUME NEW r \in Run, StartFails(r) PROVE Asked'
  BY <1>4 DEF StartFails, Withdraw, DropLeases, WithoutLease, Reset, HasLease
<1>5. ASSUME NEW r \in Run, Queue(r) PROVE Asked'
  BY <1>5 DEF Queue, Running
<1>6. ASSUME NEW r \in Run, MarkRunning(r) PROVE Asked'
  BY <1>6 DEF MarkRunning, Running, Cancelled
<1>7. ASSUME NEW r \in Run, Produce(r) PROVE Asked'
  BY <1>7 DEF Produce, Running
<1>8. ASSUME NEW r \in Run, Checkpoint(r) PROVE Asked'
  BY <1>8 DEF Checkpoint, Running, Cancelled, HasLease
<1>9. ASSUME NEW r \in Run, Finish(r) PROVE Asked'
  BY <1>9 DEF Finish, Running, Charged, Recorded, DropLeases, WithoutLease, Reset, HasLease
<1>10. ASSUME NEW r \in Run, FinishFails(r) PROVE Asked'
  BY <1>10 DEF FinishFails, Running
<1>11. ASSUME NEW r \in Run, Abort(r) PROVE Asked'
  BY <1>11 DEF Abort, Running, Withdraw, DropLeases, WithoutLease, Reset, HasLease
<1>12. ASSUME NEW r \in Run, Release(r) PROVE Asked'
  BY <1>12 DEF Release, Unregister
<1>13. ASSUME NEW p \in Proc, NEW renew \in BOOLEAN, Supervise(p, renew) PROVE Asked'
  BY <1>13 DEF Supervise, ToRenew, Mine
<1>14. ASSUME NEW r \in Run, Renew(r) PROVE Asked'
  BY <1>14 DEF Renew
<1>15. ASSUME NEW S \in SUBSET Session, RecoverStale(S) PROVE Asked'
  BY <1>15 DEF RecoverStale, Charged, Recorded, DropLeases, WithoutLease, Reset, LastSaved, HasLease
<1>16. ASSUME NEW s \in Session, NEW p \in Proc, StopRequest(s, p) PROVE Asked'
  BY <1>16 DEF StopRequest, Cancelled
<1>17. ASSUME NEW s \in Session, NEW how \in {"deleted", "erased"}, Delete(s, how) PROVE Asked'
  BY <1>17 DEF Delete
<1>18. ASSUME NEW p \in Proc, Shutdown(p) PROVE Asked'
  BY <1>18 DEF Shutdown, Cancelled
<1>19. ASSUME NEW r \in Run, Abandon(r) PROVE Asked'
  BY <1>19 DEF Abandon
<1>20. ASSUME NEW p \in Proc, Exit(p) PROVE Asked'
  BY <1>20 DEF Exit
<1>21. ASSUME Tick PROVE Asked'
  BY <1>21 DEF Tick, LaterThan
<1>22. ASSUME UNCHANGED vars PROVE Asked'
  BY <1>22 DEF vars
<1> QED
  BY <1>1, <1>2, <1>3, <1>4, <1>5, <1>6, <1>7, <1>8, <1>9, <1>10, <1>11,
     <1>12, <1>13, <1>14, <1>15, <1>16, <1>17, <1>18, <1>19, <1>20, <1>21,
     <1>22 DEF Next

LEMMA ShownStep == IInv /\ [Next]_vars => Shown'
<1> SUFFICES ASSUME IInv, [Next]_vars PROVE Shown'
  OBVIOUS
<1> USE ChatRunsAssumption DEF IInv, TypeOK, threads, supers, procs, rows, Shown, Thread
<1>1. ASSUME NEW r \in Run, Begin(r) PROVE Shown'
  BY <1>1 DEF Begin, Charged, Recorded, WithoutLease, Reset, LastSaved, Stale, Leased, HasLease
<1>2. ASSUME NEW r \in Run, Refuse(r) PROVE Shown'
  BY <1>2 DEF Refuse, HasLease
<1>3. ASSUME NEW r \in Run, Start(r) PROVE Shown'
  BY <1>3 DEF Start, Register, HasLease
<1>4. ASSUME NEW r \in Run, StartFails(r) PROVE Shown'
  <2>1. produced[r] = 0
    BY <1>4 DEF StartFails, Running
  <2>2. /\ \A q \in Run : HasLease(q)' =>
              HasLease(q) /\ saved'[SessionOf[q]] = saved[SessionOf[q]]
        /\ asked' = asked \/ asked' = asked \ {r}
    BY <1>4, WithdrawLedger DEF StartFails
  <2> QED
    BY <1>4, <2>1, <2>2 DEF StartFails
<1>5. ASSUME NEW r \in Run, Queue(r) PROVE Shown'
  BY <1>5 DEF Queue, Running, HasLease
<1>6. ASSUME NEW r \in Run, MarkRunning(r) PROVE Shown'
  BY <1>6 DEF MarkRunning, Running, Cancelled, HasLease
<1>7. ASSUME NEW r \in Run, Produce(r) PROVE Shown'
  <2>1. r \in asked /\ produced[r] \in Nat
    BY <1>7 DEF Produce, Running, Asked
  <2> QED
    BY <1>7, <2>1 DEF Produce, Running, HasLease
<1>8. ASSUME NEW r \in Run, Checkpoint(r) PROVE Shown'
  <2>1. \A q \in Run : HasLease(q) => saved'[SessionOf[q]] <= produced[q]
    <3>1. CASE HasLease(r)
      <4>1. saved' = [saved EXCEPT ![SessionOf[r]] = produced[r]]
        BY <1>8, <3>1 DEF Checkpoint
      <4>2. \A q \in Run : HasLease(q) => q = r \/ SessionOf[q] # SessionOf[r]
        BY <3>1 DEF HasLease
      <4>3. produced[r] \in Nat /\ SessionOf[r] \in Session
        OBVIOUS
      <4> QED
        BY <4>1, <4>2, <4>3
    <3>2. CASE ~HasLease(r)
      BY <1>8, <3>2 DEF Checkpoint
    <3> QED
      BY <3>1, <3>2
  <2> QED
    BY <1>8, <2>1 DEF Checkpoint, HasLease
<1>9. ASSUME NEW r \in Run, Finish(r) PROVE Shown'
  <2>1. \A q \in Run : HasLease(q)' =>
           HasLease(q) /\ saved'[SessionOf[q]] = saved[SessionOf[q]]
    <3>1. CASE DropLeases({SessionOf[r]})
      BY <3>1 DEF DropLeases, WithoutLease, Reset, HasLease
    <3>2. CASE UNCHANGED rows
      BY <3>2 DEF HasLease
    <3> QED
      BY <1>9, <3>1, <3>2 DEF Finish
  <2>2. produced' = produced /\ asked' = asked /\ pc' = [pc EXCEPT ![r] = "ending"]
    BY <1>9 DEF Finish
  <2> QED
    BY <2>1, <2>2
<1>10. ASSUME NEW r \in Run, FinishFails(r) PROVE Shown'
  BY <1>10 DEF FinishFails, Running, HasLease
<1>11. ASSUME NEW r \in Run, Abort(r) PROVE Shown'
  <2>1. produced[r] = 0
    BY <1>11 DEF Abort, Running
  <2>2. /\ \A q \in Run : HasLease(q)' =>
              HasLease(q) /\ saved'[SessionOf[q]] = saved[SessionOf[q]]
        /\ asked' = asked \/ asked' = asked \ {r}
    BY <1>11, WithdrawLedger DEF Abort
  <2> QED
    BY <1>11, <2>1, <2>2 DEF Abort
<1>12. ASSUME NEW r \in Run, Release(r) PROVE Shown'
  BY <1>12 DEF Release, Unregister, HasLease
<1>13. ASSUME NEW p \in Proc, NEW renew \in BOOLEAN, Supervise(p, renew) PROVE Shown'
  BY <1>13 DEF Supervise, ToRenew, Mine, HasLease
<1>14. ASSUME NEW r \in Run, Renew(r) PROVE Shown'
  BY <1>14 DEF Renew, HasLease
<1>15. ASSUME NEW S \in SUBSET Session, RecoverStale(S) PROVE Shown'
  BY <1>15 DEF RecoverStale, Charged, Recorded, DropLeases, WithoutLease, Reset, LastSaved, HasLease
<1>16. ASSUME NEW s \in Session, NEW p \in Proc, StopRequest(s, p) PROVE Shown'
  BY <1>16 DEF StopRequest, Cancelled, HasLease
<1>17. ASSUME NEW s \in Session, NEW how \in {"deleted", "erased"}, Delete(s, how) PROVE Shown'
  BY <1>17 DEF Delete, HasLease
<1>18. ASSUME NEW p \in Proc, Shutdown(p) PROVE Shown'
  BY <1>18 DEF Shutdown, Cancelled, HasLease
<1>19. ASSUME NEW r \in Run, Abandon(r) PROVE Shown'
  BY <1>19 DEF Abandon, HasLease
<1>20. ASSUME NEW p \in Proc, Exit(p) PROVE Shown'
  BY <1>20 DEF Exit, HasLease
<1>21. ASSUME Tick PROVE Shown'
  BY <1>21 DEF Tick, LaterThan, HasLease
<1>22. ASSUME UNCHANGED vars PROVE Shown'
  BY <1>22 DEF vars, HasLease
<1> QED
  BY <1>1, <1>2, <1>3, <1>4, <1>5, <1>6, <1>7, <1>8, <1>9, <1>10, <1>11,
     <1>12, <1>13, <1>14, <1>15, <1>16, <1>17, <1>18, <1>19, <1>20, <1>21,
     <1>22 DEF Next

LEMMA IInvAlways == Spec => []IInv
<1>1. Init => IInv
  BY InitIInv
<1>2. IInv /\ [Next]_vars => IInv'
  <2> SUFFICES ASSUME IInv, [Next]_vars PROVE IInv'
    OBVIOUS
  <2>1. TypeOK'
    BY TypeStep DEF IInv
  <2> QED
    BY <2>1, LedgerStep, AskedStep, ShownStep DEF IInv
<1> QED
  BY <1>1, <1>2, PTL DEF Spec

(* The state variables keep their types.                                    *)
THEOREM TypeCorrect == Spec => []TypeOK
<1>1. IInv => TypeOK
  BY DEF IInv
<1> QED
  BY <1>1, IInvAlways, PTL

(* runs.begin, finish, abort and recovery together give every stored        *)
(* message one outcome, however late a thread or a supervisor is and        *)
(* whichever transaction fails.                                             *)
THEOREM AnswersHaveOneOutcome == Spec => []OneOutcome
<1>1. IInv => OneOutcome
  <2> SUFFICES ASSUME IInv, NEW r \in Run
               PROVE  Len(bill[r]) = IF r \in asked /\ ~HasLease(r) THEN 1 ELSE 0
    BY DEF OneOutcome
  <2>1. IF r \in asked /\ ~HasLease(r) THEN Len(bill[r]) = 1 ELSE bill[r] = <<>>
    BY DEF IInv, Ledger
  <2> QED
    BY <2>1
<1> QED
  BY <1>1, IInvAlways, PTL

(* runs.abort withdraws a message only if nothing of its answer was shown.  *)
THEOREM ShownIsKept == Spec => []NothingShownWithdrawn
<1>1. IInv => NothingShownWithdrawn
  BY DEF IInv, Shown, NothingShownWithdrawn
<1> QED
  BY <1>1, IInvAlways, PTL

-----------------------------------------------------------------------------
LEMMA FewerLeases ==
    ASSUME TypeOK, NEW S, DropLeases(S) \/ UNCHANGED rows PROVE Leased' \subseteq Leased
  BY DEF TypeOK, DropLeases, WithoutLease, Leased, rows

(* Only begin takes a lease.                                                *)
LEMMA AccountStep == TypeOK /\ OneAnswerPerAccount /\ [Next]_vars => OneAnswerPerAccount'
<1> SUFFICES ASSUME TypeOK, OneAnswerPerAccount, [Next]_vars PROVE OneAnswerPerAccount'
  OBVIOUS
<1> USE ChatRunsAssumption DEF TypeOK, OneAnswerPerAccount, Leased, threads,
         supers, procs, rows
<1>1. ASSUME NEW r \in Run, Begin(r) PROVE OneAnswerPerAccount'
  <2> DEFINE m == SessionOf[r]
  <2>1. Leased' = (Leased \ Stale) \cup {m}
    BY <1>1 DEF Begin, WithoutLease, Stale
  <2>2. UserOf[m] \in Admin \/ \A t \in Leased \ Stale : UserOf[t] # UserOf[m]
    BY <1>1 DEF Begin, Busy, UserBusy
  <2> QED
    BY <2>1, <2>2
<1>2. ASSUME NEW r \in Run, Refuse(r) PROVE OneAnswerPerAccount'
  BY <1>2 DEF Refuse
<1>3. ASSUME NEW r \in Run, Start(r) PROVE OneAnswerPerAccount'
  BY <1>3 DEF Start, Register
<1>4. ASSUME NEW r \in Run, StartFails(r) PROVE OneAnswerPerAccount'
  BY <1>4, FewerLeases DEF StartFails, Withdraw
<1>5. ASSUME NEW r \in Run, Queue(r) PROVE OneAnswerPerAccount'
  BY <1>5 DEF Queue, Running
<1>6. ASSUME NEW r \in Run, MarkRunning(r) PROVE OneAnswerPerAccount'
  BY <1>6 DEF MarkRunning, Running, Cancelled
<1>7. ASSUME NEW r \in Run, Produce(r) PROVE OneAnswerPerAccount'
  BY <1>7 DEF Produce, Running
<1>8. ASSUME NEW r \in Run, Checkpoint(r) PROVE OneAnswerPerAccount'
  BY <1>8 DEF Checkpoint, Running, Cancelled, HasLease
<1>9. ASSUME NEW r \in Run, Finish(r) PROVE OneAnswerPerAccount'
  BY <1>9, FewerLeases DEF Finish
<1>10. ASSUME NEW r \in Run, FinishFails(r) PROVE OneAnswerPerAccount'
  BY <1>10 DEF FinishFails, Running
<1>11. ASSUME NEW r \in Run, Abort(r) PROVE OneAnswerPerAccount'
  BY <1>11, FewerLeases DEF Abort, Withdraw
<1>12. ASSUME NEW r \in Run, Release(r) PROVE OneAnswerPerAccount'
  BY <1>12 DEF Release, Unregister
<1>13. ASSUME NEW p \in Proc, NEW renew \in BOOLEAN, Supervise(p, renew) PROVE OneAnswerPerAccount'
  BY <1>13 DEF Supervise, ToRenew, Mine
<1>14. ASSUME NEW r \in Run, Renew(r) PROVE OneAnswerPerAccount'
  BY <1>14 DEF Renew
<1>15. ASSUME NEW S \in SUBSET Session, RecoverStale(S) PROVE OneAnswerPerAccount'
  BY <1>15 DEF RecoverStale, Charged, Recorded, DropLeases, WithoutLease, Reset, LastSaved, HasLease
<1>16. ASSUME NEW s \in Session, NEW p \in Proc, StopRequest(s, p) PROVE OneAnswerPerAccount'
  BY <1>16 DEF StopRequest, Cancelled
<1>17. ASSUME NEW s \in Session, NEW how \in {"deleted", "erased"}, Delete(s, how) PROVE OneAnswerPerAccount'
  BY <1>17 DEF Delete
<1>18. ASSUME NEW p \in Proc, Shutdown(p) PROVE OneAnswerPerAccount'
  BY <1>18 DEF Shutdown, Cancelled
<1>19. ASSUME NEW r \in Run, Abandon(r) PROVE OneAnswerPerAccount'
  BY <1>19 DEF Abandon
<1>20. ASSUME NEW p \in Proc, Exit(p) PROVE OneAnswerPerAccount'
  BY <1>20 DEF Exit
<1>21. ASSUME Tick PROVE OneAnswerPerAccount'
  BY <1>21 DEF Tick, LaterThan
<1>22. ASSUME UNCHANGED vars PROVE OneAnswerPerAccount'
  BY <1>22 DEF vars
<1> QED
  BY <1>1, <1>2, <1>3, <1>4, <1>5, <1>6, <1>7, <1>8, <1>9, <1>10, <1>11,
     <1>12, <1>13, <1>14, <1>15, <1>16, <1>17, <1>18, <1>19, <1>20, <1>21,
     <1>22 DEF Next

(* user_busy in the transaction of begin keeps one answer per account,      *)
(* whatever chats are deleted and leases lapse meanwhile.                   *)
THEOREM AccountsHaveOneAnswer == Spec => []OneAnswerPerAccount
<1>1. Init => OneAnswerPerAccount
  BY DEF Init, OneAnswerPerAccount, Leased
<1> QED
  BY <1>1, AccountStep, TypeCorrect, PTL DEF Spec

(* What a cancelled thread may rely on.  The registries hold no run that    *)
(* was not started, so that no run is cancelled before it is.               *)
Told == /\ \A r \in watched : pc[r] \notin {"new", "refused", "begun"}
        /\ \A r \in Run : cancel[r] = "lease_lost" =>
              /\ pc[r] \notin {"new", "begun"}
              /\ pc[r] \in Thread => bill[r] # <<>>

(* A thread whose run holds no lease has its outcome.                       *)
LEMMA LostHasOutcome ==
    ASSUME IInv, NEW r \in Run, pc[r] \in Thread, ~HasLease(r)
    PROVE  bill[r] # <<>>
<1>1. Len(bill[r]) = 1
  BY DEF IInv, Asked, Ledger
<1> QED
  BY <1>1

LEMMA BillsGrow ==
    ASSUME IInv, NEW S, NEW use \in [Run -> Nat], bill' = Charged(S, use),
           NEW r \in Run, bill[r] # <<>>
    PROVE  bill'[r] # <<>>
<1>1. Append(bill[r], use[r]) # <<>>
  <2>1. bill[r] \in Seq(Nat) /\ use[r] \in Nat
    BY DEF IInv, TypeOK
  <2> QED
    BY <2>1, AppendProperties
<1> QED
  BY <1>1 DEF Charged

LEMMA ToldStep == IInv /\ Told /\ [Next]_vars => Told'
<1> SUFFICES ASSUME IInv, Told, [Next]_vars PROVE Told'
  OBVIOUS
<1> USE ChatRunsAssumption DEF IInv, TypeOK, Told, Thread, threads, supers, procs, rows
<1>1. ASSUME NEW r \in Run, Begin(r) PROVE Told'
  BY <1>1, UsageType, BillsGrow DEF Begin
<1>2. ASSUME NEW r \in Run, Refuse(r) PROVE Told'
  BY <1>2 DEF Refuse
<1>3. ASSUME NEW r \in Run, Start(r) PROVE Told'
  BY <1>3 DEF Start, Register
<1>4. ASSUME NEW r \in Run, StartFails(r) PROVE Told'
  BY <1>4 DEF StartFails, Withdraw, DropLeases, WithoutLease, Reset, HasLease
<1>5. ASSUME NEW r \in Run, Queue(r) PROVE Told'
  BY <1>5 DEF Queue, Running
<1>6. ASSUME NEW r \in Run, MarkRunning(r) PROVE Told'
  BY <1>6, LostHasOutcome DEF MarkRunning, Running, Cancelled
<1>7. ASSUME NEW r \in Run, Produce(r) PROVE Told'
  BY <1>7 DEF Produce, Running
<1>8. ASSUME NEW r \in Run, Checkpoint(r) PROVE Told'
  BY <1>8, LostHasOutcome DEF Checkpoint, Running, Cancelled
<1>9. ASSUME NEW r \in Run, Finish(r) PROVE Told'
  BY <1>9, UsageType, BillsGrow DEF Finish
<1>10. ASSUME NEW r \in Run, FinishFails(r) PROVE Told'
  BY <1>10 DEF FinishFails, Running
<1>11. ASSUME NEW r \in Run, Abort(r) PROVE Told'
  BY <1>11 DEF Abort, Running, Withdraw, DropLeases, WithoutLease, Reset, HasLease
<1>12. ASSUME NEW r \in Run, Release(r) PROVE Told'
  BY <1>12 DEF Release, Unregister
<1>13. ASSUME NEW p \in Proc, NEW renew \in BOOLEAN, Supervise(p, renew) PROVE Told'
  BY <1>13, LostHasOutcome DEF Supervise, Lost, Mine
<1>14. ASSUME NEW r \in Run, Renew(r) PROVE Told'
  BY <1>14 DEF Renew
<1>15. ASSUME NEW S \in SUBSET Session, RecoverStale(S) PROVE Told'
  BY <1>15, UsageType, BillsGrow DEF RecoverStale
<1>16. ASSUME NEW s \in Session, NEW p \in Proc, StopRequest(s, p) PROVE Told'
  BY <1>16 DEF StopRequest, Cancelled
<1>17. ASSUME NEW s \in Session, NEW how \in {"deleted", "erased"}, Delete(s, how) PROVE Told'
  BY <1>17 DEF Delete
<1>18. ASSUME NEW p \in Proc, Shutdown(p) PROVE Told'
  BY <1>18 DEF Shutdown, Cancelled
<1>19. ASSUME NEW r \in Run, Abandon(r) PROVE Told'
  BY <1>19 DEF Abandon
<1>20. ASSUME NEW p \in Proc, Exit(p) PROVE Told'
  BY <1>20 DEF Exit
<1>21. ASSUME Tick PROVE Told'
  BY <1>21 DEF Tick, LaterThan
<1>22. ASSUME UNCHANGED vars PROVE Told'
  BY <1>22 DEF vars
<1> QED
  BY <1>1, <1>2, <1>3, <1>4, <1>5, <1>6, <1>7, <1>8, <1>9, <1>10, <1>11,
     <1>12, <1>13, <1>14, <1>15, <1>16, <1>17, <1>18, <1>19, <1>20, <1>21,
     <1>22 DEF Next

(* "lease lost" comes from a supervisor, a checkpoint or mark_running that  *)
(* found no row: the run then commits nothing, and need not.                *)
THEOREM LostAnswersAreSettled == Spec => []LostIsSettled
<1>1. Init => Told
  BY DEF Init, Told
<1>2. Told => LostIsSettled
  BY DEF Told, LostIsSettled
<1> QED
  BY <1>1, <1>2, ToldStep, IInvAlways, PTL DEF Spec

-----------------------------------------------------------------------------
(* The step simulation.                                                     *)
Started == {r \in Run : pc[r] \notin {"new", "refused"}}
Opened  == {r \in Run : HasLease(r)}
Closed  == {r \in Run : pc[r] \notin {"new", "refused"} /\ ~HasLease(r)}

LEMMA OpenIsStarted == IInv => Opened \subseteq Started
  BY DEF IInv, Ledger, Asked, Opened, Started

(* A transaction that settles the runs of S and begins the runs of T.       *)
LEMMA SettleRefines ==
    ASSUME IInv, NEW S, NEW T \in SUBSET Run, NEW use \in [Run -> Nat],
           \A r \in Run : HasLease(r) => use[r] <= produced[r],
           bill' = Charged(S, use), produced' = produced,
           Started' = Started \cup T, T \cap Started = {},
           Opened' = {r \in Opened : SessionOf[r] \notin S} \cup T
    PROVE  AB!Next
<1> DEFINE D == {r \in Opened : SessionOf[r] \in S}
<1>1. Opened' = (Opened \ D) \cup T /\ D \subseteq Opened /\ Opened \subseteq Run
  BY DEF Opened
<1>2. Closed' = Closed \cup D
  BY <1>1, OpenIsStarted DEF Opened, Closed, Started
<1>3. T \cap (Opened \cup Closed) = {}
  BY OpenIsStarted DEF Closed, Started
<1>4. \A r \in Run \ D : bill'[r] = bill[r]
  BY DEF Charged, Opened
<1>5. ASSUME NEW r \in D PROVE use[r] \in 0..produced[r] /\ bill'[r] = <<use[r]>>
  <2>1. r \in Run /\ HasLease(r) /\ SessionOf[r] \in S
    BY DEF Opened
  <2>2. bill[r] = <<>> /\ bill'[r] = Append(bill[r], use[r])
    BY <2>1 DEF IInv, Ledger, Charged
  <2>3. use[r] \in Nat /\ use[r] <= produced[r] /\ produced[r] \in Nat
    BY <2>1, UsageType DEF IInv
  <2>4. use[r] \in 0..produced[r]
    BY <2>3
  <2> QED
    BY <2>2, <2>3, <2>4
<1>6. AB!Turn(D, {}, T)
  BY <1>1, <1>2, <1>3, <1>4, <1>5 DEF AB!Turn, Opened, Closed
<1> QED
  BY <1>1, <1>6 DEF AB!Next

(* The transaction of finish and of recovery begins none.                   *)
LEMMA SettleOnlyRefines ==
    ASSUME IInv, NEW S, NEW use \in [Run -> Nat],
           \A r \in Run : HasLease(r) => use[r] <= produced[r],
           bill' = Charged(S, use), lease' = WithoutLease(S),
           produced' = produced, Started' = Started
    PROVE  AB!Next
<1>1. \A r \in Run : HasLease(r)' <=> (HasLease(r) /\ SessionOf[r] \notin S)
  BY ChatRunsAssumption DEF HasLease, WithoutLease, IInv, TypeOK
<1>2. Opened' = {r \in Opened : SessionOf[r] \notin S} \cup {}
  BY <1>1 DEF Opened
<1>3. Started' = Started \cup {} /\ {} \cap Started = {} /\ {} \in SUBSET Run
  OBVIOUS
<1> QED
  BY <1>2, <1>3, SettleRefines

(* abort: withdrawn, or recovery was faster and nothing happens.            *)
LEMMA WithdrawRefines ==
    ASSUME IInv, NEW r \in Run, Withdraw(r) \/ UNCHANGED <<rows, asked, gen>>,
           produced[r] = 0, r \in Started,
           bill' = bill, produced' = produced, Started' = Started
    PROVE  [AB!Next]_AB!vars
<1>1. CASE lease' = lease
  <2>1. Opened' = Opened /\ Closed' = Closed
    BY <1>1 DEF Opened, Closed, Started, HasLease
  <2> QED
    BY <2>1 DEF AB!vars, Opened, Closed
<1>2. CASE HasLease(r) /\ DropLeases({SessionOf[r]})
  <2>1. Opened' = Opened \ {r} /\ r \in Opened
    BY <1>2, ChatRunsAssumption DEF Opened, HasLease, DropLeases, WithoutLease, IInv, TypeOK
  <2>2. Closed' = Closed \cup {r}
    BY <2>1 DEF Opened, Closed, Started
  <2>3. AB!Turn({}, {r}, {})
    BY <2>1, <2>2 DEF AB!Turn, Opened, Closed
  <2> QED
    BY <2>3 DEF AB!Next
<1> QED
  BY <1>1, <1>2 DEF Withdraw, rows

LEMMA StepRefines == IInv /\ [Next]_vars => [AB!Next]_AB!vars
<1> SUFFICES ASSUME IInv, [Next]_vars PROVE [AB!Next]_AB!vars
  OBVIOUS
<1> DEFINE Quiet == /\ lease' = lease /\ bill' = bill /\ produced' = produced
                    /\ Started' = Started
<1>0. Quiet => UNCHANGED AB!vars
  BY DEF Started, HasLease, AB!vars
<1>1. ASSUME NEW r \in Run, Begin(r) PROVE [AB!Next]_AB!vars
  <2> DEFINE m == SessionOf[r]
  <2>1. /\ bill' = Charged(Stale, LastSaved) /\ produced' = produced
        /\ pc' = [pc EXCEPT ![r] = "begun"] /\ pc[r] = "new"
        /\ lease' = [WithoutLease(Stale) EXCEPT ![m] = r]
        /\ m \notin Leased \ Stale
    BY <1>1 DEF Begin, Busy
  <2>2. Started' = Started \cup {r} /\ r \notin Started
    BY <2>1 DEF Started, IInv, TypeOK
  <2>3. \A q \in Run : HasLease(q)' <=> (q = r \/ (HasLease(q) /\ SessionOf[q] \notin Stale))
    <3> SUFFICES ASSUME NEW q \in Run
                 PROVE  HasLease(q)' <=> (q = r \/ (HasLease(q) /\ SessionOf[q] \notin Stale))
      OBVIOUS
    <3>1. SessionOf[q] \in Session /\ m \in Session /\ q # NoRun
      BY ChatRunsAssumption
    <3>2. lease' = [[s \in Session |-> IF s \in Stale THEN NoRun ELSE lease[s]]
                       EXCEPT ![m] = r]
      BY <2>1 DEF WithoutLease
    <3>3. CASE SessionOf[q] = m
      <4>1. HasLease(q)' <=> q = r
        BY <3>1, <3>2, <3>3 DEF HasLease
      <4>2. HasLease(q) => m \in Stale
        BY <2>1, <3>1, <3>3 DEF HasLease, Leased
      <4> QED
        BY <3>3, <4>1, <4>2
    <3>4. CASE SessionOf[q] # m
      <4>1. lease'[SessionOf[q]] = IF SessionOf[q] \in Stale THEN NoRun
                                   ELSE lease[SessionOf[q]]
        BY <3>1, <3>2, <3>4
      <4> QED
        BY <3>1, <3>4, <4>1 DEF HasLease
    <3> QED
      BY <3>3, <3>4
  <2>4. Opened' = {q \in Opened : SessionOf[q] \notin Stale} \cup {r}
    BY <2>3 DEF Opened
  <2>5. \A q \in Run : HasLease(q) => LastSaved[q] <= produced[q]
    BY DEF IInv, Shown, LastSaved
  <2>6. LastSaved \in [Run -> Nat]
    BY UsageType DEF IInv
  <2>7. {r} \in SUBSET Run /\ {r} \cap Started = {}
    BY <2>2
  <2>8. AB!Next
    BY <2>1, <2>2, <2>4, <2>5, <2>6, <2>7, SettleRefines
  <2> QED
    BY <2>8
<1>2. ASSUME NEW r \in Run, Refuse(r) PROVE [AB!Next]_AB!vars
  <2>1. Quiet
    BY <1>2 DEF Refuse, Started, threads, rows, IInv, TypeOK
  <2> QED
    BY <1>0, <2>1
<1>3. ASSUME NEW r \in Run, Start(r) PROVE [AB!Next]_AB!vars
  <2>1. Quiet
    BY <1>3 DEF Start, Register, Started, threads, rows, IInv, TypeOK
  <2> QED
    BY <1>0, <2>1
<1>4. ASSUME NEW r \in Run, StartFails(r) PROVE [AB!Next]_AB!vars
  <2>1. produced[r] = 0 /\ r \in Started /\ Started' = Started
    BY <1>4 DEF StartFails, Started, IInv, TypeOK, Shown
  <2> QED
    BY <1>4, <2>1, WithdrawRefines DEF StartFails
<1>5. ASSUME NEW r \in Run, Queue(r) PROVE [AB!Next]_AB!vars
  <2>1. Quiet
    BY <1>5 DEF Queue, Running, Started, threads, rows, IInv, TypeOK
  <2> QED
    BY <1>0, <2>1
<1>6. ASSUME NEW r \in Run, MarkRunning(r) PROVE [AB!Next]_AB!vars
  <2>1. Quiet
    BY <1>6 DEF MarkRunning, Running, Thread, Started, threads, rows, IInv, TypeOK
  <2> QED
    BY <1>0, <2>1
<1>7. ASSUME NEW r \in Run, Produce(r) PROVE [AB!Next]_AB!vars
  <2>1. /\ produced' = [produced EXCEPT ![r] = @ + 1]
        /\ bill' = bill /\ Opened' = Opened /\ Closed' = Closed
    BY <1>7 DEF Produce, Opened, Closed, HasLease, rows
  <2>2. AB!Use(r)
    BY <2>1 DEF AB!Use, Opened, Closed
  <2> QED
    BY <2>2 DEF AB!Next
<1>8. ASSUME NEW r \in Run, Checkpoint(r) PROVE [AB!Next]_AB!vars
  <2>1. Quiet
    BY <1>8 DEF Checkpoint, Started, threads, rows, IInv, TypeOK
  <2> QED
    BY <1>0, <2>1
<1>9. ASSUME NEW r \in Run, Finish(r) PROVE [AB!Next]_AB!vars
  <2>1. Started' = Started /\ produced' = produced
    BY <1>9 DEF Finish, Running, Thread, Started, IInv, TypeOK
  <2>2. CASE HasLease(r) /\ cancel[r] # "lease_lost"
    <3>1. /\ bill' = Charged({SessionOf[r]}, produced)
          /\ lease' = WithoutLease({SessionOf[r]})
      BY <1>9, <2>2 DEF Finish, DropLeases
    <3>2. produced \in [Run -> Nat] /\ \A q \in Run : produced[q] <= produced[q]
      BY UsageType DEF IInv
    <3>3. AB!Next
      BY <2>1, <3>1, <3>2, SettleOnlyRefines
    <3> QED
      BY <3>3
  <2>3. CASE ~(HasLease(r) /\ cancel[r] # "lease_lost")
    <3>1. Opened' = Opened /\ Closed' = Closed /\ bill' = bill
      BY <1>9, <2>1, <2>3 DEF Finish, Opened, Closed, Started, HasLease, rows
    <3> QED
      BY <2>1, <3>1 DEF AB!vars, Opened, Closed
  <2> QED
    BY <2>2, <2>3
<1>10. ASSUME NEW r \in Run, FinishFails(r) PROVE [AB!Next]_AB!vars
  <2>1. Quiet
    BY <1>10 DEF FinishFails, Running, Thread, Started, threads, rows, IInv, TypeOK
  <2> QED
    BY <1>0, <2>1
<1>11. ASSUME NEW r \in Run, Abort(r) PROVE [AB!Next]_AB!vars
  <2>1. produced[r] = 0 /\ r \in Started /\ Started' = Started
    BY <1>11 DEF Abort, Running, Started, IInv, TypeOK, Shown
  <2> QED
    BY <1>11, <2>1, WithdrawRefines DEF Abort
<1>12. ASSUME NEW r \in Run, Release(r) PROVE [AB!Next]_AB!vars
  <2>1. Quiet
    BY <1>12 DEF Release, Started, threads, rows, IInv, TypeOK
  <2> QED
    BY <1>0, <2>1
<1>13. ASSUME NEW p \in Proc, NEW renew \in BOOLEAN, Supervise(p, renew) PROVE [AB!Next]_AB!vars
  <2>1. Quiet
    BY <1>13 DEF Supervise, Started, threads, rows, IInv, TypeOK
  <2> QED
    BY <1>0, <2>1
<1>14. ASSUME NEW r \in Run, Renew(r) PROVE [AB!Next]_AB!vars
  <2>1. Quiet
    BY <1>14 DEF Renew, Started, threads, rows, IInv, TypeOK
  <2> QED
    BY <1>0, <2>1
<1>15. ASSUME NEW S \in SUBSET Session, RecoverStale(S) PROVE [AB!Next]_AB!vars
  <2>1. /\ bill' = Charged(S, LastSaved) /\ produced' = produced
        /\ lease' = WithoutLease(S) /\ Started' = Started
    BY <1>15 DEF RecoverStale, DropLeases, threads, Started
  <2>2. LastSaved \in [Run -> Nat]
    BY UsageType DEF IInv
  <2>3. \A q \in Run : HasLease(q) => LastSaved[q] <= produced[q]
    BY DEF IInv, Shown, LastSaved
  <2>4. AB!Next
    BY <2>1, <2>2, <2>3, SettleOnlyRefines
  <2> QED
    BY <2>4
<1>16. ASSUME NEW s \in Session, NEW p \in Proc, StopRequest(s, p) PROVE [AB!Next]_AB!vars
  <2>1. Quiet
    BY <1>16 DEF StopRequest, Started, threads, rows, IInv, TypeOK
  <2> QED
    BY <1>0, <2>1
<1>17. ASSUME NEW s \in Session, NEW how \in {"deleted", "erased"}, Delete(s, how) PROVE [AB!Next]_AB!vars
  <2>1. Quiet
    BY <1>17 DEF Delete, Started, threads, rows, IInv, TypeOK
  <2> QED
    BY <1>0, <2>1
<1>18. ASSUME NEW p \in Proc, Shutdown(p) PROVE [AB!Next]_AB!vars
  <2>1. Quiet
    BY <1>18 DEF Shutdown, Started, threads, rows, IInv, TypeOK
  <2> QED
    BY <1>0, <2>1
<1>19. ASSUME NEW r \in Run, Abandon(r) PROVE [AB!Next]_AB!vars
  <2>1. Quiet
    BY <1>19 DEF Abandon, Started, threads, rows, IInv, TypeOK
  <2> QED
    BY <1>0, <2>1
<1>20. ASSUME NEW p \in Proc, Exit(p) PROVE [AB!Next]_AB!vars
  <2>1. Quiet
    BY <1>20 DEF Exit, Started, threads, rows, IInv, TypeOK
  <2> QED
    BY <1>0, <2>1
<1>21. ASSUME Tick PROVE [AB!Next]_AB!vars
  <2>1. Quiet
    BY <1>21 DEF Tick, Started, threads, rows, IInv, TypeOK
  <2> QED
    BY <1>0, <2>1
<1>22. ASSUME UNCHANGED vars PROVE [AB!Next]_AB!vars
  <2>1. Quiet
    BY <1>22 DEF vars, Started, threads, rows, IInv, TypeOK
  <2> QED
    BY <1>0, <2>1
<1> QED
  BY <1>1, <1>2, <1>3, <1>4, <1>5, <1>6, <1>7, <1>8, <1>9, <1>10, <1>11,
     <1>12, <1>13, <1>14, <1>15, <1>16, <1>17, <1>18, <1>19, <1>20, <1>21,
     <1>22 DEF Next

(* Chat answers are billed as AnswerBilling promises: once, for no more     *)
(* than was generated, and never forgotten, by finish or by recovery.       *)
THEOREM RunsImplementBilling == Spec => ImplementsAnswerBilling
<1>1. Init => AB!Init
  BY ChatRunsAssumption DEF Init, AB!Init, HasLease
<1> QED
  BY <1>1, StepRefines, IInvAlways, PTL DEF Spec, AB!Spec, ImplementsAnswerBilling

-----------------------------------------------------------------------------
(* The state of a chat and its lease.                                       *)

(* A settlement that ends the leases of S records that their answers ended. *)
LEMMA SettleMatches ==
    ASSUME TypeOK, StateMatchesLease, NEW S, gen' = Recorded(S), lease' = WithoutLease(S),
           chat' = chat
    PROVE  StateMatchesLease'
<1> SUFFICES ASSUME NEW s \in Session, chat[s] = "live"
             PROVE  gen'[s] \in {"queued", "running"} <=> lease'[s] # NoRun
  BY DEF StateMatchesLease, Leased
<1>1. CASE s \in S
  BY <1>1 DEF Recorded, WithoutLease
<1>2. CASE s \notin S
  BY <1>2 DEF Recorded, WithoutLease, StateMatchesLease, Leased
<1> QED
  BY <1>1, <1>2

LEMMA WithdrawMatches ==
    ASSUME TypeOK, StateMatchesLease, NEW r \in Run, chat' = chat,
           Withdraw(r) \/ UNCHANGED <<rows, asked, gen>>
    PROVE  StateMatchesLease'
<1> USE ChatRunsAssumption
<1>1. CASE UNCHANGED <<rows, asked, gen>>
  BY <1>1 DEF StateMatchesLease, Leased, rows
<1>2. CASE HasLease(r) /\ Withdraw(r)
  <2>1. /\ gen' = [gen EXCEPT ![SessionOf[r]] = "idle"]
        /\ lease' = WithoutLease({SessionOf[r]})
    BY <1>2 DEF Withdraw, DropLeases
  <2> QED
    BY <2>1 DEF WithoutLease, StateMatchesLease, Leased, TypeOK
<1> QED
  BY <1>1, <1>2 DEF Withdraw

LEMMA MatchesStep == TypeOK /\ StateMatchesLease /\ [Next]_vars => StateMatchesLease'
<1> SUFFICES ASSUME TypeOK, StateMatchesLease, [Next]_vars PROVE StateMatchesLease'
  OBVIOUS
<1> USE ChatRunsAssumption
<1>1. ASSUME NEW r \in Run, Begin(r) PROVE StateMatchesLease'
  <2>1. /\ gen' = [Recorded(Stale) EXCEPT ![SessionOf[r]] = "queued"]
        /\ lease' = [WithoutLease(Stale) EXCEPT ![SessionOf[r]] = r]
        /\ chat' = chat /\ r # NoRun
    BY <1>1 DEF Begin
  <2> QED
    BY <2>1 DEF Recorded, WithoutLease, StateMatchesLease, Leased
<1>2. ASSUME NEW r \in Run, MarkRunning(r) PROVE StateMatchesLease'
  BY <1>2 DEF MarkRunning, HasLease, StateMatchesLease, Leased, TypeOK, rows
<1>3. ASSUME NEW r \in Run, Finish(r) PROVE StateMatchesLease'
  <2>1. CASE HasLease(r) /\ cancel[r] # "lease_lost"
    BY <1>3, <2>1, SettleMatches DEF Finish, DropLeases
  <2>2. CASE ~(HasLease(r) /\ cancel[r] # "lease_lost")
    BY <1>3, <2>2 DEF Finish, StateMatchesLease, Leased, rows
  <2> QED
    BY <2>1, <2>2
<1>4. ASSUME NEW r \in Run, StartFails(r) \/ Abort(r) PROVE StateMatchesLease'
  BY <1>4, WithdrawMatches DEF StartFails, Abort
<1>5. ASSUME NEW S \in SUBSET Session, RecoverStale(S) PROVE StateMatchesLease'
  BY <1>5, SettleMatches DEF RecoverStale, DropLeases
<1>6. ASSUME NEW s \in Session, NEW how \in {"deleted", "erased"}, Delete(s, how)
      PROVE  StateMatchesLease'
  BY <1>6 DEF Delete, StateMatchesLease, Leased, TypeOK
<1>7. CASE UNCHANGED <<lease, gen, chat>>
  BY <1>7 DEF StateMatchesLease, Leased
<1>8. \/ \E r \in Run : Begin(r) \/ MarkRunning(r) \/ Finish(r) \/ StartFails(r) \/ Abort(r)
      \/ \E S \in SUBSET Session : RecoverStale(S)
      \/ \E s \in Session, how \in {"deleted", "erased"} : Delete(s, how)
      \/ UNCHANGED <<lease, gen, chat>>
  BY DEF Next, vars, rows, Refuse, Start, Queue, Produce, Checkpoint, FinishFails, Release,
     Supervise, Renew, StopRequest, Shutdown, Abandon, Exit, Tick
<1> QED
  BY <1>1, <1>2, <1>3, <1>4, <1>5, <1>6, <1>7, <1>8

(* A chat that is there says that an answer is on its way exactly while it  *)
(* has a lease (_commit and abort under the owner token, mark_running under *)
(* it too), however late a recovered run marks, aborts or finishes.         *)
THEOREM StatesMatchLeases == Spec => []StateMatchesLease
<1>1. Init => StateMatchesLease
  BY DEF Init, StateMatchesLease, Leased
<1>2. TypeOK /\ StateMatchesLease /\ [Next]_vars => StateMatchesLease'
  BY MatchesStep
<1> QED
  BY <1>1, <1>2, TypeCorrect, PTL DEF Spec

-----------------------------------------------------------------------------
(* Leases of timely processes.                                              *)

(* An answer is worked on by a timely process and nobody asked it to end.   *)
Worked(r) == /\ pc[r] \in Thread /\ cancel[r] = "none"
             /\ ProcOf[r] \in Timely \ draining

(* The lease of a run that was begun is new: time does not pass before it   *)
(* starts.  Afterwards it is as old as the last renewal of its process, or  *)
(* it is about to be renewed and no older than the one before.              *)
InTime ==
    /\ \A r \in Run : pc[r] \in {"begun"} \cup Thread => ProcOf[r] \in live
    /\ \A p \in Timely \cap live : since[p] <= RenewEvery
    /\ \A r \in renewing \cup watched \cup local : pc[r] \notin {"new", "refused", "begun"}
    /\ \A r \in Run : (pc[r] = "begun" /\ ProcOf[r] \in Timely)
                          => HasLease(r) /\ age[SessionOf[r]] = 0
    /\ \A r \in Run : Worked(r) =>
          /\ HasLease(r) /\ r \in watched
          /\ \/ age[SessionOf[r]] <= since[ProcOf[r]]
             \/ r \in renewing /\ age[SessionOf[r]] <= RenewEvery

(* Who is served in time: no settlement of stale leases is theirs.          *)
Served(r) == Worked(r) \/ (pc[r] = "begun" /\ ProcOf[r] \in Timely)

LEMMA ServedIsFresh ==
    ASSUME TypeOK, InTime, NEW r \in Run, Served(r)
    PROVE  HasLease(r) /\ SessionOf[r] \in Leased \ Stale /\ age[SessionOf[r]] <= Lease
<1> USE ChatRunsAssumption
<1>1. HasLease(r) /\ SessionOf[r] \in Leased
  BY DEF InTime, Served, HasLease, Leased
<1>2. age[SessionOf[r]] \in Nat /\ since[ProcOf[r]] \in Nat
  BY DEF TypeOK
<1>3. age[SessionOf[r]] <= RenewEvery
  <2>1. CASE Worked(r)
    <3>1. since[ProcOf[r]] <= RenewEvery
      BY <2>1 DEF InTime, Worked
    <3> QED
      BY <1>2, <2>1, <3>1 DEF InTime
  <2>2. CASE pc[r] = "begun" /\ ProcOf[r] \in Timely
    BY <2>2 DEF InTime
  <2> QED
    BY <2>1, <2>2 DEF Served
<1>4. age[SessionOf[r]] <= Lease
  BY <1>2, <1>3
<1> QED
  BY <1>1, <1>2, <1>4 DEF Stale

(* Two runs cannot hold the lease of one chat.                              *)
LEMMA OneHolder ==
    ASSUME NEW r \in Run, NEW q \in Run, HasLease(r), HasLease(q), SessionOf[r] = SessionOf[q]
    PROVE  r = q
BY DEF HasLease

(* Most steps begin and start nothing, and take nothing from a run that is  *)
(* served.                                                                  *)
KeepsTime ==
    /\ live' = live /\ since' = since /\ draining \subseteq draining'
    /\ renewing' \subseteq renewing /\ watched' \subseteq watched /\ local' \subseteq local
    /\ \A r \in Run :
          /\ pc'[r] \in {"new", "refused", "begun"} => pc[r] \in {"new", "refused", "begun"}
          /\ pc'[r] = "begun" => pc[r] = "begun"
          /\ pc'[r] \in Thread => pc[r] \in Thread
          /\ cancel'[r] = "none" => cancel[r] = "none"
    /\ \A r \in Run : (Served(r) /\ Served(r)') =>
          /\ HasLease(r)' /\ age'[SessionOf[r]] = age[SessionOf[r]]
          /\ r \in watched => r \in watched'
          /\ r \in renewing => r \in renewing'

LEMMA TimeKept ==
    ASSUME TypeOK, InTime, KeepsTime
    PROVE  InTime'
<1> USE ChatRunsAssumption DEF KeepsTime, InTime
<1>1. \A r \in Run : Worked(r)' => Worked(r)
  BY DEF Worked
<1>2. \A r \in Run : pc'[r] \in {"begun"} \cup Thread => ProcOf[r] \in live'
  OBVIOUS
<1>3. \A r \in renewing' \cup watched' \cup local' : pc'[r] \notin {"new", "refused", "begun"}
  BY DEF TypeOK
<1>4. \A r \in Run : (pc'[r] = "begun" /\ ProcOf[r] \in Timely)
                          => HasLease(r)' /\ age'[SessionOf[r]] = 0
  BY DEF Served
<1>5. ASSUME NEW r \in Run, Worked(r)'
      PROVE  /\ HasLease(r)' /\ r \in watched'
             /\ \/ age'[SessionOf[r]] <= since'[ProcOf[r]]
                \/ r \in renewing' /\ age'[SessionOf[r]] <= RenewEvery
  <2>1. Worked(r) /\ Served(r) /\ Served(r)'
    BY <1>1, <1>5 DEF Served
  <2> QED
    BY <2>1
<1> QED
  BY <1>2, <1>3, <1>4, <1>5

(* The settlement of stale leases, and of a run that is not served any      *)
(* more, leaves the served ones alone.                                      *)
LEMMA OthersKeep ==
    ASSUME TypeOK, InTime, NEW S, NEW r \in Run, Served(r), SessionOf[r] \notin S,
           lease' = WithoutLease(S), age' = Reset(age, S, 0)
    PROVE  HasLease(r)' /\ age'[SessionOf[r]] = age[SessionOf[r]]
<1> USE ChatRunsAssumption
<1>1. HasLease(r)
  BY ServedIsFresh
<1> QED
  BY <1>1 DEF WithoutLease, Reset, HasLease

LEMMA WithdrawKeeps ==
    ASSUME TypeOK, InTime, NEW q \in Run, NEW r \in Run, Served(r), r # q,
           Withdraw(q) \/ UNCHANGED <<rows, asked, gen>>
    PROVE  HasLease(r)' /\ age'[SessionOf[r]] = age[SessionOf[r]]
<1> USE ChatRunsAssumption
<1>1. HasLease(r)
  BY ServedIsFresh
<1>2. CASE UNCHANGED <<rows, asked, gen>>
  BY <1>1, <1>2 DEF rows, HasLease
<1>3. CASE HasLease(q) /\ Withdraw(q)
  <2>1. SessionOf[r] \notin {SessionOf[q]}
    BY <1>1, <1>3, OneHolder
  <2>2. lease' = WithoutLease({SessionOf[q]}) /\ age' = Reset(age, {SessionOf[q]}, 0)
    BY <1>3 DEF Withdraw, DropLeases
  <2> QED
    BY <2>1, <2>2, OthersKeep
<1> QED
  BY <1>2, <1>3 DEF Withdraw

(* A step that touches no lease and no supervisor.                          *)
LEMMA TimeUnless ==
    ASSUME TypeOK, InTime, UNCHANGED <<live, since, renewing, watched, local, lease, age>>,
           draining \subseteq draining',
           \A r \in Run :
              /\ pc'[r] \in {"new", "refused", "begun"} => pc[r] \in {"new", "refused", "begun"}
              /\ pc'[r] = "begun" => pc[r] = "begun"
              /\ pc'[r] \in Thread => pc[r] \in Thread
              /\ cancel'[r] = "none" => cancel[r] = "none"
    PROVE  InTime'
<1>1. \A r \in Run : Served(r) => HasLease(r)' /\ age'[SessionOf[r]] = age[SessionOf[r]]
  <2> SUFFICES ASSUME NEW r \in Run, Served(r) PROVE HasLease(r)'
    OBVIOUS
  <2> QED
    BY ServedIsFresh DEF HasLease
<1> QED
  BY <1>1, TimeKept DEF KeepsTime

LEMMA TimeThread ==
    ASSUME TypeOK, InTime, NEW r \in Run,
           \/ Refuse(r) \/ StartFails(r) \/ Queue(r) \/ MarkRunning(r) \/ Produce(r)
           \/ Checkpoint(r) \/ Finish(r) \/ FinishFails(r) \/ Abort(r) \/ Release(r) \/ Abandon(r)
    PROVE  InTime'
<1> USE ChatRunsAssumption
<1>1. CASE Refuse(r)
  BY <1>1, TimeUnless DEF Refuse, supers, procs, rows, TypeOK, Thread
<1>2. CASE Queue(r)
  BY <1>2, TimeUnless DEF Queue, supers, procs, rows, TypeOK, Thread
<1>3. CASE MarkRunning(r)
  BY <1>3, TimeUnless DEF MarkRunning, Running, Cancelled, supers, procs, rows, TypeOK, Thread
<1>4. CASE Produce(r)
  BY <1>4, TimeUnless DEF Produce, supers, procs, rows
<1>5. CASE Checkpoint(r)
  BY <1>5, TimeUnless DEF Checkpoint, Cancelled, supers, procs, TypeOK
<1>6. CASE FinishFails(r)
  BY <1>6, TimeUnless DEF FinishFails, supers, procs, rows, TypeOK, Thread
<1>7. CASE Finish(r)
  <2>1. CASE ~(HasLease(r) /\ cancel[r] # "lease_lost")
    BY <1>7, <2>1, TimeUnless DEF Finish, supers, procs, rows, TypeOK, Thread
  <2>2. CASE HasLease(r) /\ cancel[r] # "lease_lost"
    <3>1. /\ lease' = WithoutLease({SessionOf[r]}) /\ age' = Reset(age, {SessionOf[r]}, 0)
          /\ pc' = [pc EXCEPT ![r] = "ending"]
          /\ UNCHANGED <<cancel, produced, local, supers, procs, chat, asked>>
      BY <1>7, <2>2 DEF Finish, DropLeases
    <3>2. ASSUME NEW q \in Run, Served(q), Served(q)'
          PROVE  HasLease(q)' /\ age'[SessionOf[q]] = age[SessionOf[q]]
      <4>1. q # r
        BY <3>1, <3>2 DEF Served, Worked, TypeOK, Thread
      <4>2. SessionOf[q] \notin {SessionOf[r]}
        BY <2>2, <3>2, <4>1, ServedIsFresh, OneHolder
      <4> QED
        BY <3>1, <3>2, <4>2, OthersKeep
    <3>3. KeepsTime
      BY <3>1, <3>2 DEF KeepsTime, supers, procs, TypeOK, Thread
    <3> QED
      BY <3>3, TimeKept
  <2> QED
    BY <2>1, <2>2
<1>8. CASE Abort(r)
  <2>1. \A q \in Run : (Served(q) /\ Served(q)')
            => HasLease(q)' /\ age'[SessionOf[q]] = age[SessionOf[q]]
    <3> SUFFICES ASSUME NEW q \in Run, Served(q), Served(q)'
                 PROVE  HasLease(q)' /\ age'[SessionOf[q]] = age[SessionOf[q]]
      OBVIOUS
    <3>1. q # r
      BY <1>8 DEF Abort, Served, Worked, TypeOK, Thread
    <3> QED
      BY <1>8, <3>1, WithdrawKeeps DEF Abort
  <2>2. KeepsTime
    BY <1>8, <2>1 DEF Abort, KeepsTime, supers, procs, TypeOK, Thread
  <2> QED
    BY <2>2, TimeKept
<1>9. CASE StartFails(r)
  <2>1. ASSUME NEW q \in Run, Served(q), Served(q)'
        PROVE  /\ HasLease(q)' /\ age'[SessionOf[q]] = age[SessionOf[q]]
               /\ q \in watched => q \in watched'
    <3>1. q # r
      BY <1>9, <2>1 DEF StartFails, Served, Worked, TypeOK, Thread
    <3>2. HasLease(q)' /\ age'[SessionOf[q]] = age[SessionOf[q]]
      BY <1>9, <2>1, <3>1, WithdrawKeeps DEF StartFails
    <3>3. ASSUME q \in Namesakes(r)
          PROVE  FALSE
      <4>1. ProcOf[q] \in Timely /\ ProcOf[r] = ProcOf[q] /\ SessionOf[r] = SessionOf[q]
        BY <2>1, <3>3 DEF Served, Worked, Namesakes
      <4>2. Served(r)
        BY <1>9, <4>1 DEF StartFails, Served
      <4> QED
        BY <2>1, <3>1, <4>1, <4>2, ServedIsFresh, OneHolder
    <3> QED
      BY <1>9, <3>2, <3>3 DEF StartFails
  <2>2. KeepsTime
    BY <1>9, <2>1 DEF StartFails, KeepsTime, procs, TypeOK, Thread
  <2> QED
    BY <2>2, TimeKept
<1>10. CASE Release(r)
  <2>1. \A q \in Run : Served(q) => HasLease(q)
    BY ServedIsFresh
  <2>2. KeepsTime
    BY <1>10, <2>1 DEF Release, Unregister, KeepsTime, Served, Worked, procs, rows, HasLease,
       TypeOK, Thread
  <2> QED
    BY <2>2, TimeKept
<1>11. CASE Abandon(r)
  <2>1. ASSUME NEW q \in Run, Served(q), Served(q)'
        PROVE  /\ HasLease(q)' /\ age'[SessionOf[q]] = age[SessionOf[q]] /\ q # r
    <3>1. HasLease(q)
      BY <2>1, ServedIsFresh
    <3>2. q # r
      <4>1. ProcOf[r] \in draining /\ pc' = pc /\ draining' = draining
        BY <1>11 DEF Abandon, threads, procs
      <4>2. pc[r] # "begun"
        BY <1>11 DEF Abandon, InTime
      <4> QED
        BY <2>1, <4>1, <4>2 DEF Served, Worked
    <3>3. HasLease(r) => SessionOf[q] # SessionOf[r]
      BY <3>1, <3>2, OneHolder
    <3> QED
      BY <1>11, <3>1, <3>2, <3>3 DEF Abandon, HasLease, TypeOK
  <2>2. KeepsTime
    BY <1>11, <2>1 DEF Abandon, KeepsTime, threads, procs
  <2> QED
    BY <2>2, TimeKept
<1> QED
  BY <1>1, <1>2, <1>3, <1>4, <1>5, <1>6, <1>7, <1>8, <1>9, <1>10, <1>11

LEMMA TimeRequests ==
    ASSUME TypeOK, InTime,
           \/ \E S \in SUBSET Session : RecoverStale(S)
           \/ \E s \in Session, p \in Proc : StopRequest(s, p)
           \/ \E s \in Session, how \in {"deleted", "erased"} : Delete(s, how)
           \/ \E p \in Proc : Shutdown(p)
           \/ UNCHANGED vars
    PROVE  InTime'
<1> USE ChatRunsAssumption
<1>1. ASSUME NEW S \in SUBSET Session, RecoverStale(S) PROVE InTime'
  <2>1. \A q \in Run : Served(q) => HasLease(q)' /\ age'[SessionOf[q]] = age[SessionOf[q]]
    <3> SUFFICES ASSUME NEW q \in Run, Served(q)
                 PROVE  HasLease(q)' /\ age'[SessionOf[q]] = age[SessionOf[q]]
      OBVIOUS
    <3>1. SessionOf[q] \notin S
      BY <1>1, ServedIsFresh DEF RecoverStale
    <3> QED
      BY <1>1, <3>1, OthersKeep DEF RecoverStale, DropLeases
  <2> QED
    BY <1>1, <2>1, TimeKept DEF RecoverStale, KeepsTime, threads, supers, procs
<1>2. ASSUME NEW s \in Session, NEW p \in Proc, StopRequest(s, p) PROVE InTime'
  BY <1>2, TimeUnless DEF StopRequest, Cancelled, supers, procs
<1>3. ASSUME NEW s \in Session, NEW how \in {"deleted", "erased"}, Delete(s, how) PROVE InTime'
  BY <1>3, TimeUnless DEF Delete, threads, supers, procs
<1>4. ASSUME NEW p \in Proc, Shutdown(p) PROVE InTime'
  BY <1>4, TimeUnless DEF Shutdown, Cancelled, supers, rows
<1>5. ASSUME UNCHANGED vars PROVE InTime'
  BY <1>5, TimeUnless DEF vars, threads, supers, procs, rows
<1> QED
  BY <1>1, <1>2, <1>3, <1>4, <1>5

LEMMA TimeBegin ==
    ASSUME TypeOK, InTime, NEW r \in Run, Begin(r)
    PROVE  InTime'
<1> USE ChatRunsAssumption
<1> DEFINE m == SessionOf[r]
<1>1. /\ lease' = [WithoutLease(Stale) EXCEPT ![m] = r]
      /\ age' = Reset(age, Stale \cup {m}, 0)
      /\ pc' = [pc EXCEPT ![r] = "begun"] /\ pc[r] = "new" /\ ProcOf[r] \in live
      /\ m \notin Leased \ Stale
      /\ UNCHANGED <<cancel, local, watched, renewing, since, live, draining>>
  BY DEF Begin, Busy, supers, procs
<1>2. ASSUME NEW q \in Run, Served(q)
      PROVE  HasLease(q)' /\ age'[SessionOf[q]] = age[SessionOf[q]] /\ q # r
  <2>1. HasLease(q) /\ SessionOf[q] \in Leased \ Stale
    BY <1>2, ServedIsFresh
  <2>2. SessionOf[q] \notin Stale \cup {m}
    BY <1>1, <2>1
  <2>3. lease'[SessionOf[q]] = lease[SessionOf[q]] /\ age'[SessionOf[q]] = age[SessionOf[q]]
    BY <1>1, <2>2 DEF WithoutLease, Reset
  <2>4. q # r
    BY <2>2
  <2> QED
    BY <2>1, <2>3, <2>4 DEF HasLease
<1>3. HasLease(r)' /\ age'[m] = 0
  BY <1>1 DEF HasLease, WithoutLease, Reset
<1>4. \A q \in Run \ {r} : pc'[q] = pc[q]
  BY <1>1 DEF TypeOK
<1>5. \A q \in Run : Worked(q)' => Worked(q) /\ Served(q)
  BY <1>1, <1>4 DEF Worked, Served, Thread, TypeOK
<1>6. \A q \in Run : pc'[q] \in {"begun"} \cup Thread => ProcOf[q] \in live'
  BY <1>1, <1>4 DEF InTime
<1>7. \A q \in renewing' \cup watched' \cup local' : pc'[q] \notin {"new", "refused", "begun"}
  BY <1>1, <1>4 DEF InTime, TypeOK
<1>8. \A q \in Run : (pc'[q] = "begun" /\ ProcOf[q] \in Timely)
                         => HasLease(q)' /\ age'[SessionOf[q]] = 0
  BY <1>2, <1>3, <1>4 DEF InTime, Served
<1> QED
  BY <1>1, <1>2, <1>5, <1>6, <1>7, <1>8 DEF InTime

LEMMA TimeStart ==
    ASSUME TypeOK, InTime, NEW r \in Run, Start(r)
    PROVE  InTime'
<1> USE ChatRunsAssumption
<1>1. /\ pc[r] = "begun" /\ pc' = [pc EXCEPT ![r] = "waiting"] /\ ProcOf[r] \in live
      /\ local' = (local \ Namesakes(r)) \cup {r}
      /\ watched' = (watched \ Namesakes(r)) \cup {r}
      /\ UNCHANGED <<cancel, renewing, since, live, draining, lease, age>>
  BY DEF Start, Register, procs, rows
<1>2. \A q \in Run \ {r} : pc'[q] = pc[q]
  BY <1>1 DEF TypeOK
<1>3. ASSUME NEW q \in Run, Worked(q)'
      PROVE  /\ HasLease(q)' /\ q \in watched'
             /\ \/ age'[SessionOf[q]] <= since'[ProcOf[q]]
                \/ q \in renewing' /\ age'[SessionOf[q]] <= RenewEvery
  <2>1. CASE q = r
    <3>1. HasLease(r) /\ age[SessionOf[r]] = 0
      BY <1>1, <1>3, <2>1 DEF InTime, Worked
    <3>2. since[ProcOf[r]] \in Nat
      BY DEF TypeOK
    <3> QED
      BY <1>1, <2>1, <3>1, <3>2 DEF HasLease
  <2>2. CASE q # r
    <3>1. Worked(q) /\ Served(q)
      BY <1>1, <1>2, <1>3, <2>2 DEF Worked, Served
    <3>2. q \notin Namesakes(r)
      <4> SUFFICES ASSUME q \in Namesakes(r) PROVE FALSE
        OBVIOUS
      <4>1. ProcOf[r] \in Timely /\ SessionOf[r] = SessionOf[q]
        BY <3>1 DEF Worked, Namesakes
      <4>2. Served(r)
        BY <1>1, <4>1 DEF Served
      <4> QED
        BY <2>2, <3>1, <4>1, <4>2, ServedIsFresh, OneHolder
    <3> QED
      BY <1>1, <3>1, <3>2 DEF InTime, HasLease
  <2> QED
    BY <2>1, <2>2
<1>4. \A q \in Run : pc'[q] \in {"begun"} \cup Thread => ProcOf[q] \in live'
  BY <1>1, <1>2 DEF InTime
<1>5. \A q \in renewing' \cup watched' \cup local' : pc'[q] \notin {"new", "refused", "begun"}
  BY <1>1, <1>2 DEF InTime, TypeOK
<1>6. \A q \in Run : (pc'[q] = "begun" /\ ProcOf[q] \in Timely)
                         => HasLease(q)' /\ age'[SessionOf[q]] = 0
  BY <1>1, <1>2 DEF InTime, HasLease, TypeOK
<1> QED
  BY <1>1, <1>3, <1>4, <1>5, <1>6 DEF InTime

LEMMA TimeSupervise ==
    ASSUME TypeOK, InTime, NEW p \in Proc, NEW renew \in BOOLEAN, Supervise(p, renew)
    PROVE  InTime'
<1> USE ChatRunsAssumption
<1>1. /\ p \in live /\ (Renewing(p) = {} \/ p \notin Timely)
      /\ UNCHANGED <<pc, watched, local, live, draining, lease, age>>
  BY DEF Supervise, procs, rows
<1>2. \A q \in Run : cancel'[q] = "none" =>
          cancel[q] = "none" /\ q \notin Lost(p) /\ q \notin ToStop(p)
  BY DEF Supervise
<1>3. \A q \in Run : Worked(q)' => Worked(q)
  BY <1>1, <1>2 DEF Worked
<1>4. renewing' \subseteq renewing \cup watched
  BY DEF Supervise, ToRenew, Mine
<1>5. ASSUME NEW q \in Timely \cap live'
      PROVE  since'[q] <= RenewEvery
  <2>1. q \in Proc /\ since[q] <= RenewEvery
    BY <1>1, <1>5 DEF InTime
  <2>2. since'[q] = 0 \/ since'[q] = since[q]
    BY <2>1 DEF Supervise, TypeOK
  <2> QED
    BY <2>1, <2>2
<1>6. ASSUME NEW q \in Run, Worked(q)'
      PROVE  \/ age'[SessionOf[q]] <= since'[ProcOf[q]]
             \/ q \in renewing' /\ age'[SessionOf[q]] <= RenewEvery
  <2>1. Worked(q) /\ Served(q) /\ HasLease(q) /\ q \in watched
    BY <1>3, <1>6 DEF InTime, Served
  <2>2. /\ ProcOf[q] \in Timely \cap live /\ since[ProcOf[q]] <= RenewEvery
        /\ since[ProcOf[q]] \in Nat /\ age[SessionOf[q]] \in Nat
    BY <2>1 DEF InTime, Worked, TypeOK
  <2>3. CASE ProcOf[q] # p
    <3>1. since'[ProcOf[q]] = since[ProcOf[q]] /\ (q \in renewing => q \in renewing')
      BY <2>3 DEF Supervise, Renewing, TypeOK
    <3> QED
      BY <1>1, <2>1, <3>1 DEF InTime
  <2>4. CASE ProcOf[q] = p
    <3>1. Renewing(p) = {} /\ q \notin renewing /\ age[SessionOf[q]] <= since[p]
      BY <1>1, <2>1, <2>2, <2>4 DEF Renewing, InTime
    <3>2. CASE renew
      <4>1. q \in ToRenew(p)
        BY <1>2, <1>6, <2>1, <2>4 DEF ToRenew, Mine, Worked
      <4>2. q \in renewing'
        BY <3>2, <4>1 DEF Supervise
      <4> QED
        BY <1>1, <2>2, <2>4, <3>1, <4>2
    <3>3. CASE ~renew
      BY <1>1, <2>4, <3>1, <3>3 DEF Supervise
    <3> QED
      BY <3>2, <3>3
  <2> QED
    BY <2>3, <2>4
<1>7. \A q \in Run : Worked(q)' => HasLease(q)' /\ q \in watched'
  BY <1>1, <1>3 DEF InTime, HasLease
<1>8. \A q \in renewing' \cup watched' \cup local' : pc'[q] \notin {"new", "refused", "begun"}
  BY <1>1, <1>4 DEF InTime
<1>9. /\ \A q \in Run : pc'[q] \in {"begun"} \cup Thread => ProcOf[q] \in live'
      /\ \A q \in Run : (pc'[q] = "begun" /\ ProcOf[q] \in Timely)
                            => HasLease(q)' /\ age'[SessionOf[q]] = 0
  BY <1>1 DEF InTime, HasLease
<1> QED
  BY <1>5, <1>6, <1>7, <1>8, <1>9 DEF InTime

LEMMA TimeRenew ==
    ASSUME TypeOK, InTime, NEW r \in Run, Renew(r)
    PROVE  InTime'
<1> USE ChatRunsAssumption
<1>1. /\ r \in renewing /\ renewing' = renewing \ {r}
      /\ UNCHANGED <<pc, cancel, local, watched, since, live, draining, lease>>
  BY DEF Renew, threads, procs
<1>2. pc[r] \notin {"new", "refused", "begun"}
  BY <1>1 DEF InTime
<1>3. ASSUME NEW q \in Run, HasLease(q), q # r
      PROVE  age'[SessionOf[q]] = age[SessionOf[q]]
  <2>1. HasLease(r) => SessionOf[q] # SessionOf[r]
    BY <1>3, OneHolder
  <2> QED
    BY <2>1 DEF Renew, TypeOK
<1>4. HasLease(r) => age'[SessionOf[r]] = since[ProcOf[r]]
  BY DEF Renew, TypeOK
<1>5. ASSUME NEW q \in Run, Worked(q)'
      PROVE  /\ HasLease(q)' /\ q \in watched'
             /\ \/ age'[SessionOf[q]] <= since'[ProcOf[q]]
                \/ q \in renewing' /\ age'[SessionOf[q]] <= RenewEvery
  <2>1. Worked(q) /\ HasLease(q) /\ since[ProcOf[q]] \in Nat
    BY <1>1, <1>5 DEF Worked, InTime, TypeOK
  <2> QED
    BY <1>1, <1>3, <1>4, <2>1 DEF InTime, HasLease
<1>6. \A q \in Run : (pc'[q] = "begun" /\ ProcOf[q] \in Timely)
                         => HasLease(q)' /\ age'[SessionOf[q]] = 0
  BY <1>1, <1>2, <1>3 DEF InTime, HasLease
<1> QED
  BY <1>1, <1>5, <1>6 DEF InTime

LEMMA TimeExit ==
    ASSUME TypeOK, InTime, NEW p \in Proc, Exit(p)
    PROVE  InTime'
<1> USE ChatRunsAssumption
<1> DEFINE mine == {r \in Run : ProcOf[r] = p}
<1>1. /\ live' = live \ {p} /\ draining' = draining \ {p}
      /\ local' = local \ mine /\ watched' = watched \ mine /\ renewing' = renewing \ mine
      /\ since' = [since EXCEPT ![p] = 0] /\ lease' = lease /\ age' = age
  BY DEF Exit, rows
<1>2. \A r \in Run : pc'[r] = IF r \notin mine THEN pc[r]
                              ELSE IF pc[r] \in {"new", "refused"} THEN "refused" ELSE "ended"
  BY DEF Exit
<1>3. \A r \in Run \ mine : cancel'[r] = cancel[r]
  BY DEF Exit
<1>4. \A r \in Run : Worked(r)' => Worked(r) /\ r \notin mine
  BY <1>1, <1>2, <1>3 DEF Worked, Thread
<1>5. \A r \in Run : pc'[r] \in {"begun"} \cup Thread => ProcOf[r] \in live'
  BY <1>1, <1>2 DEF InTime, Thread
<1>6. \A q \in Timely \cap live' : since'[q] <= RenewEvery
  BY <1>1 DEF InTime, TypeOK
<1>7. \A r \in renewing' \cup watched' \cup local' : pc'[r] \notin {"new", "refused", "begun"}
  BY <1>1, <1>2 DEF InTime, TypeOK
<1>8. \A r \in Run : (pc'[r] = "begun" /\ ProcOf[r] \in Timely)
                         => HasLease(r)' /\ age'[SessionOf[r]] = 0
  BY <1>1, <1>2 DEF InTime, HasLease
<1>9. ASSUME NEW r \in Run, Worked(r)'
      PROVE  /\ HasLease(r)' /\ r \in watched'
             /\ \/ age'[SessionOf[r]] <= since'[ProcOf[r]]
                \/ r \in renewing' /\ age'[SessionOf[r]] <= RenewEvery
  <2>1. Worked(r) /\ r \notin mine /\ since'[ProcOf[r]] = since[ProcOf[r]]
    BY <1>1, <1>4, <1>9 DEF TypeOK
  <2> QED
    BY <1>1, <2>1 DEF InTime, HasLease
<1> QED
  BY <1>5, <1>6, <1>7, <1>8, <1>9 DEF InTime

LEMMA TimeTick ==
    ASSUME TypeOK, InTime, Tick
    PROVE  InTime'
<1> USE ChatRunsAssumption
<1>1. /\ UNCHANGED <<pc, cancel, local, watched, renewing, live, draining, lease>>
      /\ \A s \in Session : age'[s] = IF s \in Leased THEN LaterThan(age[s]) ELSE age[s]
  BY DEF Tick, threads, procs
<1>2. ASSUME NEW p \in Timely \cap live
      PROVE  /\ Renewing(p) = {} /\ since[p] < RenewEvery /\ since'[p] = since[p] + 1
             /\ since[p] \in Nat /\ \A r \in Run : ProcOf[r] = p => pc[r] # "begun"
  BY <1>2 DEF Tick, LaterThan, TypeOK
<1>3. ASSUME NEW r \in Run, Worked(r)'
      PROVE  HasLease(r)' /\ r \in watched' /\ age'[SessionOf[r]] <= since'[ProcOf[r]]
  <2>1. Worked(r) /\ ProcOf[r] \in Timely \cap live
    BY <1>1, <1>3 DEF Worked, InTime
  <2>2. r \notin renewing
    BY <1>2, <2>1 DEF Renewing
  <2>3. HasLease(r) /\ r \in watched /\ age[SessionOf[r]] <= since[ProcOf[r]]
    BY <2>1, <2>2 DEF InTime
  <2>4. age[SessionOf[r]] \in Nat /\ since[ProcOf[r]] \in Nat
    BY DEF TypeOK
  <2>5. age'[SessionOf[r]] <= age[SessionOf[r]] + 1
    BY <1>1, <2>4 DEF LaterThan
  <2>6. age'[SessionOf[r]] \in Nat
    BY <1>1, <2>4 DEF LaterThan
  <2> QED
    BY <1>1, <1>2, <2>1, <2>3, <2>4, <2>5, <2>6 DEF HasLease
<1>4. \A p \in Timely \cap live' : since'[p] <= RenewEvery
  BY <1>1, <1>2
<1>5. \A r \in Run : ~(pc'[r] = "begun" /\ ProcOf[r] \in Timely)
  BY <1>1, <1>2 DEF InTime
<1> QED
  BY <1>1, <1>3, <1>4, <1>5 DEF InTime

LEMMA TimeStep == TypeOK /\ InTime /\ [Next]_vars => InTime'
BY TimeThread, TimeRequests, TimeBegin, TimeStart, TimeSupervise, TimeRenew, TimeExit, TimeTick
   DEF Next

(* The supervisor renews what it watches early enough (LEASE_INTERVAL,      *)
(* LEASE_SECONDS): recovery never takes the lease of an answer that a       *)
(* timely process works on and nobody cancelled.                            *)
THEOREM LeasesAreKept == Spec => []LeaseKept
<1> USE ChatRunsAssumption
<1>1. Init => InTime
  BY DEF Init, InTime, Worked, Thread
<1>2. TypeOK /\ InTime => LeaseKept
  BY ServedIsFresh DEF LeaseKept, Served, Worked
<1> QED
  BY <1>1, <1>2, TimeStep, TypeCorrect, PTL DEF Spec
=============================================================================
