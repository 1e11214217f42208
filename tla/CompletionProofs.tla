-------------------------- MODULE CompletionProofs --------------------------
(***************************************************************************)
(* Theorems about CompletionLeases.  Each answer is charged once, by itself *)
(* or by recovery, and a success is never uncharged: that rests on an       *)
(* inductive invariant about leases and outcomes (Ledger), to which what is *)
(* held of the allowance, the cancellations and the clock do not matter.    *)
(* Nobody recovers what a timely process works on: that rests on IInv,      *)
(* which adds the types and how the rounds of the supervisors bound the age *)
(* of a lease.  Requests of an account never spend the same tokens: that    *)
(* rests on AllHeld, on what is held for whom as long as a charge can come, *)
(* and on the sums of FiniteSums.                                           *)
(***************************************************************************)
EXTENDS CompletionLeases, FiniteSums, SequenceTheorems, TLAPS

(* A lease is opened once, and its end is the one outcome of the answer; it *)
(* never records more than was produced.                                    *)
Ledger ==
    /\ produced \in [Answer -> Nat] /\ saved \in [Answer -> Nat]
    /\ bill \in [Answer -> Seq(Nat)]
    /\ lease \subseteq opened /\ opened \subseteq Answer
    /\ \A a \in Answer : IF a \in opened \ lease THEN Len(bill[a]) = 1
                                                 ELSE bill[a] = <<>>
    /\ \A a \in Answer : saved[a] <= produced[a]
    /\ \A a \in Answer \ lease : saved[a] = 0
    /\ told \subseteq opened \ lease

(* Steps that leave the ledger alone.                                       *)
Quiet == UNCHANGED <<produced, saved, bill, lease, opened, told>>

(* A transaction that settles the leases of A for what `use` says.          *)
LEMMA SettleKeepsLedger ==
    ASSUME Ledger, NEW A \in SUBSET Answer, NEW use \in [Answer -> Nat],
           bill' = Charged(A, use), DropLeases(A),
           produced' = produced, opened' = opened,
           told' \subseteq told \cup (A \cap opened)
    PROVE  Ledger'
<1>1. bill' \in [Answer -> Seq(Nat)]
  BY DEF Ledger, Charged
<1>2. /\ lease' = lease \ A
      /\ saved' = [a \in Answer |-> IF a \in A THEN 0 ELSE saved[a]]
  BY DEF DropLeases
<1>3. ASSUME NEW a \in Answer
      PROVE  IF a \in opened \ (lease \ A) THEN Len(bill'[a]) = 1 ELSE bill'[a] = <<>>
  <2>1. CASE a \in A \cap lease
    <3>1. bill[a] = <<>> /\ bill'[a] = Append(bill[a], use[a]) /\ use[a] \in Nat
      BY <1>3, <2>1 DEF Ledger, Charged
    <3>2. Len(bill'[a]) = 1
      BY <3>1
    <3> QED
      BY <2>1, <3>2 DEF Ledger
  <2>2. CASE a \notin A \cap lease
    BY <1>3, <2>2 DEF Ledger, Charged
  <2> QED
    BY <2>1, <2>2
<1>4. told' \subseteq opened \ lease'
  BY <1>2 DEF Ledger
<1> QED
  BY <1>1, <1>2, <1>3, <1>4 DEF Ledger

(* ... and settles the answers as AnswerBilling says.                       *)
LEMMA SettleRefines ==
    ASSUME Ledger, NEW A \in SUBSET Answer, NEW use \in [Answer -> Nat],
           \A a \in Answer : use[a] <= produced[a],
           bill' = Charged(A, use), DropLeases(A),
           produced' = produced, opened' = opened
    PROVE  AB!Next
<1> DEFINE S == A \cap lease
<1>1. lease' = lease \ S
  BY DEF DropLeases
<1>2. (opened \ lease)' = (opened \ lease) \cup S
  BY <1>1 DEF Ledger
<1>3. \A a \in Answer \ S : bill'[a] = bill[a]
  BY DEF Charged
<1>4. ASSUME NEW a \in S PROVE \E n \in 0..produced[a] : bill'[a] = <<n>>
  <2>1. a \in Answer /\ a \in A /\ a \in lease
    OBVIOUS
  <2>2. bill[a] = <<>> /\ bill'[a] = Append(bill[a], use[a])
    BY <2>1 DEF Ledger, Charged
  <2>3. use[a] \in Nat /\ use[a] <= produced[a] /\ produced[a] \in Nat
    BY <2>1 DEF Ledger
  <2>4. use[a] \in 0..produced[a] /\ bill'[a] = <<use[a]>>
    BY <2>2, <2>3
  <2> QED
    BY <2>4
<1>5. AB!Turn(S, {}, {})
  BY <1>1, <1>2, <1>3, <1>4 DEF AB!Turn
<1>6. S \in SUBSET Answer /\ {} \in SUBSET Answer
  OBVIOUS
<1> QED
  BY <1>5, <1>6 DEF AB!Next

LEMMA QuietKeeps == Ledger /\ Quiet => Ledger' /\ UNCHANGED AB!vars
  BY DEF Ledger, Quiet, AB!vars

LEMMA Step == Ledger /\ [Next]_vars => Ledger' /\ [AB!Next]_AB!vars
<1> SUFFICES ASSUME Ledger, [Next]_vars PROVE Ledger' /\ [AB!Next]_AB!vars
  OBVIOUS
<1> USE DEF thread, supers, procs, leases, holds, images, answers
<1>1. ASSUME NEW a \in Answer, Authorize(a) PROVE Quiet
  BY <1>1 DEF Authorize, Quiet
<1>2. ASSUME NEW a \in Answer, Refuse(a) PROVE Quiet
  BY <1>2 DEF Refuse, Quiet
<1>3. ASSUME NEW a \in Answer, GiveUp(a) PROVE Quiet
  BY <1>3 DEF GiveUp, Quiet
<1>4. ASSUME NEW a \in Answer, FinishFails(a) PROVE Quiet
  BY <1>4 DEF FinishFails, Quiet
<1>5. ASSUME NEW a \in Answer, Release(a) PROVE Quiet
  BY <1>5 DEF Release, Quiet
<1>6. ASSUME NEW p \in Proc, Supervise(p) PROVE Quiet
  BY <1>6 DEF Supervise, Quiet
<1>7. Purge => Quiet
  BY DEF Purge, Quiet
<1>8. ASSUME NEW u \in Barrable, Bar(u) PROVE Quiet
  BY <1>8 DEF Bar, Quiet
<1>9. ASSUME NEW p \in Proc, Shutdown(p) PROVE Quiet
  BY <1>9 DEF Shutdown, Quiet
<1>10. ASSUME NEW a \in Answer, Abandon(a) PROVE Quiet
  BY <1>10 DEF Abandon, Quiet
<1>11. ASSUME NEW p \in Proc, Exit(p) PROVE Quiet
  BY <1>11 DEF Exit, Quiet
<1>12. Tick => Quiet
  BY DEF Tick, Quiet
<1>13. UNCHANGED vars => Quiet
  BY DEF vars, Quiet
<1>14. ASSUME NEW i \in Image,
              Reserve(i) \/ Draw(i) \/ Beat(i) \/ Deliver(i) \/ FailImage(i)
       PROVE  Quiet
  BY <1>14 DEF Reserve, Draw, Beat, Deliver, FailImage, Quiet
<1>15. ASSUME NEW a \in Answer, Open(a) PROVE Ledger' /\ [AB!Next]_AB!vars
  <2>1. CASE a \in opened
    BY <1>15, <2>1, QuietKeeps DEF Open, Quiet
  <2>2. CASE a \notin opened
    <3>1. /\ opened' = opened \cup {a} /\ lease' = lease \cup {a}
          /\ UNCHANGED <<saved, produced, bill, told>>
      BY <1>15, <2>2 DEF Open
    <3>2. Ledger'
      BY <2>2, <3>1 DEF Ledger
    <3>3. (opened \ lease)' = opened \ lease
      BY <2>2, <3>1 DEF Ledger
    <3>4. AB!Turn({}, {}, {a})
      BY <2>2, <3>1, <3>3 DEF AB!Turn, Ledger
    <3>5. AB!Next
      BY <3>4 DEF AB!Next
    <3> QED
      BY <3>2, <3>5
  <2> QED
    BY <2>1, <2>2
<1>16. ASSUME NEW a \in Answer, Produce(a) PROVE Ledger' /\ [AB!Next]_AB!vars
  <2>1. /\ produced' = [produced EXCEPT ![a] = @ + 1]
        /\ UNCHANGED <<saved, bill, lease, opened, told>>
    BY <1>16 DEF Produce
  <2>2. Ledger'
    BY <2>1 DEF Ledger
  <2>3. AB!Use(a)
    BY <2>1 DEF AB!Use
  <2> QED
    BY <2>2, <2>3 DEF AB!Next
<1>17. ASSUME NEW a \in Answer, NEW completed \in BOOLEAN, Finish(a, completed)
       PROVE  Ledger' /\ [AB!Next]_AB!vars
  <2>1. /\ bill' = Charged({a}, produced) /\ DropLeases({a})
        /\ produced' = produced /\ opened' = opened
        /\ told' \subseteq told \cup ({a} \cap opened)
    BY <1>17 DEF Finish, Settle
  <2>2. /\ {a} \in SUBSET Answer /\ produced \in [Answer -> Nat]
        /\ \A b \in Answer : produced[b] <= produced[b]
    BY DEF Ledger
  <2>3. Ledger'
    BY <2>1, <2>2, SettleKeepsLedger
  <2>4. AB!Next
    BY <2>1, <2>2, SettleRefines
  <2> QED
    BY <2>3, <2>4
<1>18. ASSUME NEW a \in Answer, Check(a) PROVE Ledger' /\ [AB!Next]_AB!vars
  <2>1. /\ UNCHANGED <<produced, bill, lease, opened, told>>
        /\ \/ saved' = saved
           \/ a \in lease /\ saved' = [saved EXCEPT ![a] = produced[a]]
    BY <1>18 DEF Check
  <2>2. /\ saved' \in [Answer -> Nat]
        /\ \A b \in Answer : saved'[b] <= produced[b]
        /\ \A b \in Answer \ lease : saved'[b] = 0
    <3>1. /\ produced \in [Answer -> Nat] /\ saved \in [Answer -> Nat]
          /\ \A b \in Answer : saved[b] <= produced[b]
          /\ \A b \in Answer \ lease : saved[b] = 0
      BY DEF Ledger
    <3>2. CASE saved' = saved
      BY <3>1, <3>2
    <3>3. CASE a \in lease /\ saved' = [saved EXCEPT ![a] = produced[a]]
      BY <3>1, <3>3
    <3> QED
      BY <2>1, <3>2, <3>3
  <2>3. Ledger'
    BY <2>1, <2>2 DEF Ledger
  <2> QED
    BY <2>1, <2>3 DEF AB!vars
<1>19. ASSUME NEW A \in SUBSET Answer, Recover(A)
       PROVE  Ledger' /\ [AB!Next]_AB!vars
  <2>1. /\ bill' = Charged(A, saved) /\ DropLeases(A)
        /\ produced' = produced /\ opened' = opened /\ told' = told
    BY <1>19 DEF Recover
  <2>2. saved \in [Answer -> Nat] /\ \A b \in Answer : saved[b] <= produced[b]
    BY DEF Ledger
  <2>3. Ledger'
    BY <2>1, <2>2, SettleKeepsLedger
  <2>4. AB!Next
    BY <2>1, <2>2, SettleRefines
  <2> QED
    BY <2>3, <2>4
<1> QED
  BY <1>1, <1>2, <1>3, <1>4, <1>5, <1>6, <1>7, <1>8, <1>9, <1>10, <1>11, <1>12,
     <1>13, <1>15, <1>16, <1>17, <1>18, <1>19, <1>14, QuietKeeps DEF Next

LEMMA LedgerAlways == Spec => []Ledger
<1>1. Init => Ledger
  BY DEF Init, Ledger, Zero
<1> QED
  BY <1>1, Step, PTL DEF Spec

(* "never an uncharged success": _settle raises before the answer is        *)
(* reported, and what a report relies on is stored for good.                *)
THEOREM SuccessesAreCharged == Spec => []SuccessIsCharged
<1>1. ASSUME Ledger, NEW a \in told PROVE bill[a] # <<>>
  <2>1. Len(bill[a]) = 1
    BY <1>1 DEF Ledger
  <2> QED
    BY <2>1
<1>2. Ledger => SuccessIsCharged
  BY <1>1 DEF SuccessIsCharged
<1> QED
  BY <1>2, LedgerAlways, PTL

(* API answers are billed as AnswerBilling promises, whether the answer or  *)
(* recovery settles them, for any number of answers and processes.          *)
THEOREM CompletionsImplementBilling == Spec => ImplementsAnswerBilling
<1>1. Init => AB!Init
  BY DEF Init, AB!Init, Zero
<1> QED
  BY <1>1, Step, LedgerAlways, PTL DEF Spec, AB!Spec, ImplementsAnswerBilling
-----------------------------------------------------------------------------
(* Types.                                                                   *)

LEMMA SmallerTypes ==
    ASSUME NEW m \in Nat, NEW n \in Nat
    PROVE  Smaller(m, n) \in 0..m /\ Smaller(m, n) <= n
  BY DEF Smaller

LEMMA GrantTypes == ASSUME NEW a \in Answer PROVE Grant(a) \in 0..Want
<1>1. Want \in Nat /\ Budget \in Nat
  BY CompletionAssumption
<1>2. ASSUME NEW n PROVE Rest(n) \in Nat
  BY <1>1 DEF Rest
<1>3. Left(a) \in Nat
  BY <1>2 DEF Left
<1> QED
  BY <1>1, <1>3, SmallerTypes DEF Grant

LEMMA LaterTypes ==
    ASSUME NEW cap \in Nat, NEW t \in 0..cap+1
    PROVE  Later(t, cap) \in 0..cap+1
  BY DEF Later

(* What the ledger does not say about types.                                *)
Types ==
    /\ pc \in [Answer -> Active \cup {"ended"}]
    /\ cancel \in [Answer -> {"none", "barred", "lease_lost", "shutdown"}]
    /\ produced \in [Answer -> 0..Want]
    /\ settled \subseteq Answer /\ mine \subseteq Answer
    /\ watched \subseteq Answer /\ round \subseteq Answer
    /\ since \in [Proc -> 0..Lease+1]
    /\ live \subseteq Proc /\ draining \subseteq Proc
    /\ age \in [Answer -> 0..Lease+1]
    /\ saved \in [Answer -> 0..Want]
    /\ hold \in [Answer -> 0..Want]
    /\ held \in [Answer -> 0..HoldTtl+1]
    /\ given \in [Answer -> 0..Want]
    /\ barred \subseteq Account
    /\ draw \in [Image -> {"new", "waiting", "drawing", "ended"}]
    /\ stake \in [Image -> {0, Price}] /\ paid \in [Image -> {0, Price}]
    /\ worn \in [Image -> 0..HoldTtl+1] /\ woke \in [Image -> Nat]

LEMMA TypesSuffice == Types /\ Ledger => TypeOK
<1>1. ASSUME Types, Ledger PROVE told \subseteq Answer
  BY <1>1 DEF Ledger
<1> QED
  BY <1>1 DEF Types, Ledger, TypeOK

LEMMA TypesStep == Types /\ Ledger /\ [Next]_vars => Types'
<1> SUFFICES ASSUME Types, Ledger, [Next]_vars PROVE Types'
  OBVIOUS
<1> USE CompletionAssumption
<1> USE DEF thread, supers, procs, leases, holds, images, answers, Types
<1>1. ASSUME NEW a \in Answer, Authorize(a) PROVE Types'
  BY <1>1, GrantTypes DEF Authorize, Active
<1>2. ASSUME NEW a \in Answer, Refuse(a) PROVE Types'
  BY <1>2 DEF Refuse, ReleaseHold, Active
<1>3. ASSUME NEW a \in Answer, Open(a) PROVE Types'
  BY <1>3 DEF Open, Active
<1>4. ASSUME NEW a \in Answer, GiveUp(a) PROVE Types'
  BY <1>4 DEF GiveUp, Active
<1>5. ASSUME NEW a \in Answer, Produce(a) PROVE Types'
  BY <1>5 DEF Produce
<1>6. ASSUME NEW a \in Answer, NEW completed \in BOOLEAN, Finish(a, completed)
      PROVE  Types'
  BY <1>6 DEF Finish, Settle, ReleaseHold, DropLeases, Active
<1>7. ASSUME NEW a \in Answer, FinishFails(a) PROVE Types'
  BY <1>7 DEF FinishFails, Active
<1>8. ASSUME NEW a \in Answer, Release(a) PROVE Types'
  BY <1>8 DEF Release, ReleaseHold, Unwatch, Active
<1>9. ASSUME NEW p \in Proc, Supervise(p) PROVE Types'
  BY <1>9 DEF Supervise
<1>10. ASSUME NEW a \in Answer, Check(a) PROVE Types'
  BY <1>10 DEF Check, Cancelled
<1>11. ASSUME NEW A \in SUBSET Answer, Recover(A) PROVE Types'
  BY <1>11 DEF Recover, DropLeases
<1>12. CASE Purge
  BY <1>12 DEF Purge, FreshHolds, FreshStakes
<1>13. ASSUME NEW i \in Image, Reserve(i) PROVE Types'
  BY <1>13 DEF Reserve, FreshHolds, FreshStakes
<1>14. ASSUME NEW i \in Image, Draw(i) \/ Beat(i) \/ Deliver(i) \/ FailImage(i)
       PROVE  Types'
  BY <1>14 DEF Draw, Beat, Deliver, FailImage
<1>15. ASSUME NEW u \in Barrable, Bar(u) PROVE Types'
  BY <1>15 DEF Bar
<1>16. ASSUME NEW p \in Proc, Shutdown(p) PROVE Types'
  BY <1>16 DEF Shutdown, Cancelled
<1>17. ASSUME NEW a \in Answer, Abandon(a) PROVE Types'
  BY <1>17 DEF Abandon, Unwatch
<1>18. ASSUME NEW p \in Proc, Exit(p) PROVE Types'
  BY <1>18 DEF Exit
<1>19. CASE Tick
  <2>1. \A i \in Image : Later(woke[i], BeatEvery) \in Nat
    BY DEF Later
  <2> QED
    BY <1>19, <2>1, LaterTypes DEF Tick
<1>20. CASE UNCHANGED vars
  BY <1>20 DEF vars
<1> QED
  BY <1>1, <1>2, <1>3, <1>4, <1>5, <1>6, <1>7, <1>8, <1>9, <1>10, <1>11, <1>12, <1>13,
     <1>14, <1>15, <1>16, <1>17, <1>18, <1>19, <1>20 DEF Next

LEMMA TypesAlways == Spec => []Types
<1>1. Init => Types
  BY CompletionAssumption DEF Init, Types, Zero, Active
<1> QED
  BY <1>1, TypesStep, LedgerAlways, PTL DEF Spec

(* The types of the variables, for any number of requests and processes.    *)
THEOREM TypeCorrect == Spec => []TypeOK
  BY TypesAlways, LedgerAlways, TypesSuffice, PTL
-----------------------------------------------------------------------------
(* Leases of timely processes.                                              *)

Working == {"admitted", "running", "failing"}

(* How far a request has come.                                              *)
Phases ==
    \A a \in Answer :
        /\ pc[a] # "ended" => ProcOf[a] \in live
        /\ pc[a] = "queued" => a \notin opened
        /\ pc[a] = "running" => a \in opened
        /\ pc[a] \in Working \cup {"queued"} => a \notin settled
        /\ a \notin opened => a \notin watched \cup round
        /\ a \notin lease => age[a] = 0

(* Timely supervisors list their watches in time, ...                       *)
Rounds == \A p \in live \cap Timely : since[p] <= RenewEvery

(* ... and those they have listed are checked before time goes on.          *)
Bound(a) == IF a \in round THEN RenewEvery ELSE since[ProcOf[a]]

Tended(a) == a \in watched /\ a \in lease /\ age[a] <= Bound(a)

Kept == \A a \in Answer :
            (/\ pc[a] \in Working /\ a \in opened /\ cancel[a] = "none"
             /\ ProcOf[a] \in Timely \ draining)
            => Tended(a)

IInv == Types /\ Ledger /\ Phases /\ Rounds /\ Kept

(* Steps of images and administrators.                                      *)
Aside == UNCHANGED <<pc, cancel, settled, watched, round, since, live, draining, opened,
                     lease, age>>

LEMMA AsideSteps ==
    /\ Purge => Aside
    /\ \A i \in Image : (Reserve(i) \/ Draw(i) \/ Beat(i) \/ Deliver(i) \/ FailImage(i))
                        => Aside
    /\ \A u \in Barrable : Bar(u) => Aside
  BY DEF Purge, Reserve, Draw, Beat, Deliver, FailImage, Bar, Aside, thread, supers,
         procs, leases, answers

LEMMA PhasesStep == Types /\ Ledger /\ Phases /\ [Next]_vars => Phases'
<1> SUFFICES ASSUME Types, Ledger, Phases, [Next]_vars PROVE Phases'
  OBVIOUS
<1>0. lease \subseteq opened /\ opened \subseteq Answer
  BY DEF Ledger
<1> USE <1>0 DEF thread, supers, procs, leases, holds, images, answers, Working, At
<1> USE DEF Types, Phases
<1>1. ASSUME NEW a \in Answer, Authorize(a) PROVE Phases'
  <2>1. /\ pc' = [pc EXCEPT ![a] = "admitted"] /\ pc[a] \in {"queued", "failing", "running"}
        /\ ProcOf[a] \in live
        /\ UNCHANGED <<settled, watched, round, live, opened, lease, age>>
    BY <1>1 DEF Authorize, AsksAdmission
  <2>2. pc[a] = "queued" => a \notin settled
    BY DEF Phases
  <2> QED
    BY <2>1, <2>2
<1>2. ASSUME NEW a \in Answer, Refuse(a) PROVE Phases'
  BY <1>2 DEF Refuse, AsksAdmission
<1>3. ASSUME NEW a \in Answer, Open(a) PROVE Phases'
  <2>1. CASE a \in opened
    BY <1>3, <2>1 DEF Open
  <2>2. CASE a \notin opened
    BY <1>3, <2>2 DEF Open
  <2> QED
    BY <2>1, <2>2
<1>4. ASSUME NEW a \in Answer, GiveUp(a) PROVE Phases'
  BY <1>4 DEF GiveUp
<1>5. ASSUME NEW a \in Answer, Produce(a) PROVE Phases'
  BY <1>5 DEF Produce
<1>6. ASSUME NEW a \in Answer, NEW completed \in BOOLEAN, Finish(a, completed)
      PROVE  Phases'
  BY <1>6 DEF Finish, Settle, DropLeases
<1>7. ASSUME NEW a \in Answer, FinishFails(a) PROVE Phases'
  BY <1>7 DEF FinishFails
<1>8. ASSUME NEW a \in Answer, Release(a) PROVE Phases'
  BY <1>8 DEF Release, Unwatch
<1>9. ASSUME NEW p \in Proc, Supervise(p) PROVE Phases'
  BY <1>9 DEF Supervise
<1>10. ASSUME NEW a \in Answer, Check(a) PROVE Phases'
  BY <1>10 DEF Check
<1>11. ASSUME NEW A \in SUBSET Answer, Recover(A) PROVE Phases'
  BY <1>11 DEF Recover, DropLeases
<1>12. ASSUME Aside PROVE Phases'
  BY <1>12 DEF Aside
<1>13. ASSUME NEW p \in Proc, Shutdown(p) PROVE Phases'
  BY <1>13 DEF Shutdown
<1>14. ASSUME NEW a \in Answer, Abandon(a) PROVE Phases'
  BY <1>14 DEF Abandon, Unwatch
<1>15. ASSUME NEW p \in Proc, Exit(p) PROVE Phases'
  BY <1>15 DEF Exit, Of
<1>16. CASE Tick
  BY <1>16 DEF Tick
<1>17. CASE UNCHANGED vars
  BY <1>17 DEF vars
<1> QED
  BY <1>1, <1>2, <1>3, <1>4, <1>5, <1>6, <1>7, <1>8, <1>9, <1>10, <1>11, <1>12, <1>13,
     <1>14, <1>15, <1>16, <1>17, AsideSteps DEF Next

LEMMA RoundsStep == Types /\ Rounds /\ [Next]_vars => Rounds'
<1> SUFFICES ASSUME Types, Rounds, [Next]_vars PROVE Rounds'
  OBVIOUS
<1> USE DEF thread, supers, procs, leases, holds, images, answers, Types, Rounds
<1>1. ASSUME NEW p \in Proc, Supervise(p) PROVE Rounds'
  BY <1>1, CompletionAssumption DEF Supervise
<1>2. ASSUME NEW p \in Proc, Exit(p) PROVE Rounds'
  BY <1>2 DEF Exit
<1>3. CASE Tick
  <2>1. ASSUME NEW p \in live \cap Timely PROVE since'[p] <= RenewEvery
    <3>1. since[p] \in Nat /\ since[p] < RenewEvery /\ since[p] <= Lease
      BY <1>3, CompletionAssumption DEF Tick
    <3>2. since'[p] = since[p] + 1
      BY <1>3, <3>1 DEF Tick, Later
    <3> QED
      BY <3>1, <3>2, CompletionAssumption
  <2> QED
    BY <1>3, <2>1 DEF Tick
<1>4. ASSUME live' = live, since' = since PROVE Rounds'
  BY <1>4
<1>5. ASSUME NEW a \in Answer,
             \/ Authorize(a) \/ Refuse(a) \/ Open(a) \/ GiveUp(a) \/ Produce(a)
             \/ FinishFails(a) \/ Release(a) \/ Check(a) \/ Abandon(a)
             \/ \E completed \in BOOLEAN : Finish(a, completed)
      PROVE  live' = live /\ since' = since
  BY <1>5 DEF Authorize, Refuse, Open, GiveUp, Produce, FinishFails, Release, Check,
              Abandon, Finish
<1>6. ASSUME NEW A \in SUBSET Answer, Recover(A) PROVE live' = live /\ since' = since
  BY <1>6 DEF Recover
<1>7. ASSUME NEW p \in Proc, Shutdown(p) PROVE live' = live /\ since' = since
  BY <1>7 DEF Shutdown
<1>8. UNCHANGED vars => live' = live /\ since' = since
  BY DEF vars
<1> QED
  BY <1>1, <1>2, <1>3, <1>4, <1>5, <1>6, <1>7, <1>8, AsideSteps DEF Next, Aside

(* A step that leaves alone what Kept says of an answer it still works on.  *)
Same(a) ==
    /\ pc[a] \in Working /\ a \in opened /\ cancel[a] = "none"
    /\ ProcOf[a] \notin draining
    /\ Tended(a) => Tended(a)'

Dropped(a) == \/ pc'[a] \notin Working \/ a \notin opened' \/ cancel'[a] # "none"
              \/ ProcOf[a] \in draining' \/ ProcOf[a] \notin Timely

LEMMA KeptByStep ==
    ASSUME Kept, \A a \in Answer : Dropped(a) \/ Same(a) \/ Tended(a)'
    PROVE  Kept'
  BY DEF Kept, Dropped, Same

LEMMA KeptStep ==
    Types /\ Ledger /\ Phases /\ Rounds /\ Kept /\ [Next]_vars => Kept'
<1> SUFFICES ASSUME Types, Ledger, Phases, Rounds, Kept, [Next]_vars PROVE Kept'
  OBVIOUS
<1> USE DEF thread, supers, procs, leases, holds, images, answers, At, Types
<1> USE DEF Working, Tended, Bound, Same, Dropped
<1>0. lease \subseteq opened /\ opened \subseteq Answer
  BY DEF Ledger
<1>1. ASSUME NEW a \in Answer, Authorize(a) PROVE Kept'
  <2>1. /\ pc' = [pc EXCEPT ![a] = "admitted"] /\ pc[a] \in {"queued", "failing", "running"}
        /\ UNCHANGED <<cancel, draining, watched, round, since, opened, lease, age>>
    BY <1>1 DEF Authorize, AsksAdmission
  <2>2. pc[a] = "queued" => a \notin opened
    BY DEF Phases
  <2>3. \A b \in Answer : Dropped(b) \/ Same(b)
    BY <2>1, <2>2
  <2> QED
    BY <2>3, KeptByStep
<1>2. ASSUME NEW a \in Answer, Refuse(a) PROVE Kept'
  <2>1. /\ \/ pc' = [pc EXCEPT ![a] = "over"]
           \/ pc' = [pc EXCEPT ![a] = "failing"] /\ pc[a] \in {"failing", "running"}
        /\ UNCHANGED <<cancel, draining, watched, round, since, opened, lease, age>>
    BY <1>2 DEF Refuse, AsksAdmission
  <2>2. \A b \in Answer : Dropped(b) \/ Same(b)
    BY <2>1
  <2> QED
    BY <2>2, KeptByStep
<1>3. ASSUME NEW a \in Answer, Open(a) PROVE Kept'
  <2>1. CASE a \in opened
    <3>1. \A b \in Answer : Dropped(b) \/ Same(b)
      BY <1>3, <2>1 DEF Open
    <3> QED
      BY <3>1, KeptByStep
  <2>2. CASE a \notin opened
    <3>1. /\ pc' = [pc EXCEPT ![a] = "running"]
          /\ opened' = opened \cup {a} /\ lease' = lease \cup {a}
          /\ watched' = watched \cup {a}
          /\ UNCHANGED <<age, cancel, draining, round, since>>
      BY <1>3, <2>2 DEF Open
    <3>2. age[a] = 0 /\ a \notin round
      BY <2>2, <1>0 DEF Phases
    <3>3. since[ProcOf[a]] \in Nat
      BY CompletionAssumption
    <3>4. Tended(a)'
      BY <3>1, <3>2, <3>3
    <3>5. \A b \in Answer \ {a} : Dropped(b) \/ Same(b)
      BY <3>1
    <3> QED
      BY <3>4, <3>5, KeptByStep
  <2> QED
    BY <2>1, <2>2
<1>4. ASSUME NEW a \in Answer, GiveUp(a) \/ FinishFails(a) PROVE Kept'
  <2>1. \A b \in Answer : Dropped(b) \/ Same(b)
    BY <1>4 DEF GiveUp, FinishFails
  <2> QED
    BY <2>1, KeptByStep
<1>5. ASSUME NEW a \in Answer, Produce(a) PROVE Kept'
  <2>1. \A b \in Answer : Dropped(b) \/ Same(b)
    BY <1>5 DEF Produce
  <2> QED
    BY <2>1, KeptByStep
<1>6. ASSUME NEW a \in Answer, NEW completed \in BOOLEAN, Finish(a, completed)
      PROVE  Kept'
  <2>1. \A b \in Answer : Dropped(b) \/ Same(b)
    BY <1>6 DEF Finish, Settle, DropLeases
  <2> QED
    BY <2>1, KeptByStep
<1>7. ASSUME NEW a \in Answer, Release(a) PROVE Kept'
  <2>1. \A b \in Answer : Dropped(b) \/ Same(b)
    BY <1>7 DEF Release, Unwatch
  <2> QED
    BY <2>1, KeptByStep
<1>8. ASSUME NEW p \in Proc, Supervise(p) PROVE Kept'
  <2>1. ASSUME NEW b \in Answer, ~ Dropped(b), ~ Same(b) PROVE Tended(b)'
    <3>1. CASE ProcOf[b] # p
      BY <1>8, <2>1, <3>1 DEF Supervise, Of
    <3>2. CASE ProcOf[b] = p
      <4>1. b \in watched /\ b \in lease /\ b \notin round /\ age[b] <= since[p]
        BY <1>8, <2>1, <3>2 DEF Supervise, Of, Kept
      <4>2. since[p] <= RenewEvery
        BY <1>8, <2>1, <3>2 DEF Supervise, Rounds
      <4>3. b \in round' /\ b \in watched' /\ b \in lease' /\ age' = age
        BY <1>8, <3>2, <4>1 DEF Supervise, Of
      <4>4. age[b] \in Nat /\ since[p] \in Nat
        BY CompletionAssumption
      <4> QED
        BY <4>1, <4>2, <4>3, <4>4, CompletionAssumption
    <3> QED
      BY <3>1, <3>2
  <2> QED
    BY <2>1, KeptByStep
<1>9. ASSUME NEW a \in Answer, Check(a) PROVE Kept'
  <2>1. ASSUME ~ Dropped(a) PROVE Tended(a)'
    <3>1. /\ pc' = pc /\ opened' = opened /\ draining' = draining
          /\ cancel'[a] = "none" /\ cancel[a] = "none"
      BY <1>9, <2>1 DEF Check, Cancelled
    <3>2. Tended(a) /\ a \notin settled
      BY <2>1, <3>1 DEF Kept, Phases
    <3>3. a \in lease /\ age' = [age EXCEPT ![a] = 0]
      BY <1>9, <3>1, <3>2 DEF Check, Cancelled
    <3>4. a \notin round' /\ UNCHANGED <<watched, lease, since>>
      BY <1>9 DEF Check
    <3>5. since[ProcOf[a]] \in Nat
      BY CompletionAssumption
    <3> QED
      BY <3>2, <3>3, <3>4, <3>5
  <2>2. \A b \in Answer \ {a} : Dropped(b) \/ Same(b)
    BY <1>9 DEF Check, Cancelled
  <2> QED
    BY <2>1, <2>2, KeptByStep
<1>10. ASSUME NEW A \in SUBSET Answer, Recover(A) PROVE Kept'
  <2>1. ASSUME NEW b \in Answer, ~ Dropped(b) PROVE Tended(b)'
    <3>1. /\ UNCHANGED <<pc, cancel, opened, draining, watched, round, since>>
          /\ lease' = lease \ A
          /\ age' = [a \in Answer |-> IF a \in A THEN 0 ELSE age[a]]
          /\ A \subseteq Stale
      BY <1>10 DEF Recover, DropLeases
    <3>2. Tended(b)
      BY <2>1, <3>1 DEF Kept
    <3>3. ProcOf[b] \in live \cap Timely
      BY <2>1, <3>1 DEF Phases
    <3>4. since[ProcOf[b]] <= RenewEvery
      BY <3>3 DEF Rounds
    <3>5. age[b] \in Nat /\ since[ProcOf[b]] \in Nat
      BY CompletionAssumption
    <3>6. age[b] <= Lease
      BY <3>2, <3>4, <3>5, CompletionAssumption
    <3>7. b \notin A
      BY <3>1, <3>5, <3>6, CompletionAssumption DEF Stale
    <3> QED
      BY <3>1, <3>2, <3>7
  <2> QED
    BY <2>1, KeptByStep
<1>11. ASSUME Aside PROVE Kept'
  <2>1. \A b \in Answer : Dropped(b) \/ Same(b)
    BY <1>11 DEF Aside
  <2> QED
    BY <2>1, KeptByStep
<1>12. ASSUME NEW p \in Proc, Shutdown(p) PROVE Kept'
  <2>1. \A b \in Answer : Dropped(b) \/ Same(b)
    BY <1>12 DEF Shutdown, Cancelled
  <2> QED
    BY <2>1, KeptByStep
<1>13. ASSUME NEW a \in Answer, Abandon(a) PROVE Kept'
  <2>1. \A b \in Answer : Dropped(b) \/ Same(b)
    BY <1>13 DEF Abandon, Unwatch
  <2> QED
    BY <2>1, KeptByStep
<1>14. ASSUME NEW p \in Proc, Exit(p) PROVE Kept'
  <2>1. ASSUME NEW b \in Answer PROVE Dropped(b) \/ Same(b)
    <3>1. CASE ProcOf[b] = p
      BY <1>14, <3>1 DEF Exit, Of
    <3>2. CASE ProcOf[b] # p
      BY <1>14, <3>2 DEF Exit, Of
    <3> QED
      BY <3>1, <3>2
  <2> QED
    BY <2>1, KeptByStep
<1>15. CASE Tick
  <2>1. ASSUME NEW b \in Answer, ~ Dropped(b) PROVE Tended(b)'
    <3>1. /\ UNCHANGED <<pc, cancel, opened, draining, watched, round, lease>>
          /\ age' = [a \in Answer |-> IF a \in lease THEN Later(age[a], Lease) ELSE age[a]]
      BY <1>15 DEF Tick
    <3>2. Tended(b) /\ ProcOf[b] \in live \cap Timely
      BY <2>1, <3>1 DEF Kept, Phases
    <3>3. since[ProcOf[b]] < RenewEvery /\ b \notin round
      BY <1>15, <3>2 DEF Tick, Of
    <3>4. since'[ProcOf[b]] = Later(since[ProcOf[b]], Lease)
      BY <1>15, <3>2 DEF Tick
    <3>5. age[b] \in Nat /\ since[ProcOf[b]] \in Nat
      BY CompletionAssumption
    <3>6. age[b] <= since[ProcOf[b]] /\ since[ProcOf[b]] <= Lease
      BY <3>2, <3>3, <3>5, CompletionAssumption
    <3>7. age'[b] <= since'[ProcOf[b]]
      BY <3>1, <3>2, <3>4, <3>5, <3>6, CompletionAssumption DEF Later
    <3> QED
      BY <3>1, <3>2, <3>3, <3>7
  <2> QED
    BY <2>1, KeptByStep
<1>16. CASE UNCHANGED vars
  <2>1. \A b \in Answer : Dropped(b) \/ Same(b)
    BY <1>16 DEF vars
  <2> QED
    BY <2>1, KeptByStep
<1> QED
  BY <1>1, <1>2, <1>3, <1>4, <1>5, <1>6, <1>7, <1>8, <1>9, <1>10, <1>11, <1>12, <1>13,
     <1>14, <1>15, <1>16, AsideSteps DEF Next

LEMMA IInvAlways == Spec => []IInv
<1>1. Init => Phases /\ Rounds /\ Kept
  BY CompletionAssumption DEF Init, Phases, Rounds, Kept, Working, Zero
<1>2. Phases /\ Rounds /\ Kept /\ Types /\ Ledger /\ [Next]_vars
      => Phases' /\ Rounds' /\ Kept'
  BY PhasesStep, RoundsStep, KeptStep
<1> QED
  BY <1>1, <1>2, TypesAlways, LedgerAlways, PTL DEF Spec, IInv

(* No answer that its process renews in time is recovered behind its back,  *)
(* however the rounds of the supervisors, the requests and the jobs meet.   *)
THEOREM LeasesAreKept == Spec => []LeaseKept
<1>1. ASSUME IInv PROVE LeaseKept
  <2>1. SUFFICES ASSUME NEW a \in Answer, pc[a] = "running", cancel[a] = "none",
                        ProcOf[a] \in Timely \ draining
                 PROVE  a \in lease /\ age[a] <= Lease
    BY DEF LeaseKept
  <2>2. Tended(a) /\ ProcOf[a] \in live \cap Timely
    BY <1>1, <2>1 DEF IInv, Kept, Phases, Working
  <2>3. since[ProcOf[a]] <= RenewEvery
    BY <1>1, <2>2 DEF IInv, Rounds
  <2>4. age[a] \in Nat /\ since[ProcOf[a]] \in Nat
    BY <1>1, CompletionAssumption DEF IInv, Types
  <2> QED
    BY <2>2, <2>3, <2>4, CompletionAssumption DEF Tended, Bound
<1> QED
  BY <1>1, IInvAlways, PTL
-----------------------------------------------------------------------------
(* The allowance.                                                           *)

(* A grant is held from the admission of an answer on, known to its process *)
(* and touched with the watches, until the answer is settled.               *)
Granted(a) ==
    /\ hold[a] \in {0, given[a]}
    /\ UserOf[a] \in Unmetered => given[a] = 0
    /\ a \in mine => /\ hold[a] > 0 /\ held[a] <= since[ProcOf[a]]
                     /\ ProcOf[a] \in live
    /\ a \in mine /\ a \in lease => pc[a] \in Working
    /\ pc[a] \in Working \cup {"queued"} /\ a \notin mine => hold[a] = 0
    /\ pc[a] \in {"admitted", "running"} /\ UserOf[a] \notin Unmetered => a \in mine

(* An answer that has produced something is held for until its lease is     *)
(* closed: the hold outlives the lease of a process that died.              *)
Covered(a) ==
    /\ a \notin opened \/ pc[a] = "failing" => produced[a] = 0
    /\ a \in watched => pc[a] # "ended"
    /\ a \in watched \cup round => ProcOf[a] \in live
    /\ a \in watched \cup round /\ hold[a] > 0 => held[a] <= RenewEvery
    /\ a \in lease /\ hold[a] > 0 => held[a] <= age[a] + RenewEvery
    /\ a \in lease /\ UserOf[a] \notin Unmetered => hold[a] > 0 \/ produced[a] = 0

(* The heartbeat of an image keeps its reservation until it is delivered.   *)
Reserved(i) ==
    /\ draw[i] # "ended" => DrawnOn[i] \in live
    /\ draw[i] \in {"waiting", "drawing"} /\ DrawnFor[i] \notin Unmetered =>
          stake[i] = Price /\ worn[i] <= woke[i] /\ woke[i] <= BeatEvery

(* Requests that timely processes serve.                                    *)
TimelyAnswers == {a \in Answer : ProcOf[a] \in Timely}
TimelyImages  == {i \in Image : DrawnOn[i] \in Timely}

AllHeld == /\ \A a \in TimelyAnswers : Granted(a) /\ Covered(a)
           /\ \A i \in TimelyImages : Reserved(i)

(* Numbers that the proofs compare.                                         *)
LEMMA Numbers ==
    ASSUME IInv
    PROVE  /\ \A a \in Answer : /\ hold[a] \in Nat /\ held[a] \in Nat /\ given[a] \in Nat
                                /\ age[a] \in Nat /\ age[a] <= Lease + 1
                                /\ produced[a] \in Nat /\ since[ProcOf[a]] \in Nat
                                /\ saved[a] \in Nat /\ saved[a] <= produced[a]
           /\ \A i \in Image : worn[i] \in Nat /\ woke[i] \in Nat
           /\ Lease \in Nat /\ RenewEvery \in Nat /\ HoldTtl \in Nat /\ BeatEvery \in Nat
           /\ RenewEvery <= Lease /\ RenewEvery + Lease < HoldTtl /\ BeatEvery < HoldTtl
           /\ Price \in Nat /\ Price > 0 /\ Want \in Nat /\ Want > 0 /\ Budget \in Nat
BY CompletionAssumption DEF IInv, Types, Ledger

(* A timely process renews in time, and its requests are those of a process *)
(* that lives.                                                              *)
LEMMA InTime ==
    ASSUME IInv, NEW a \in TimelyAnswers, ProcOf[a] \in live
    PROVE  since[ProcOf[a]] <= RenewEvery
BY CompletionAssumption DEF IInv, Types, Rounds, TimelyAnswers

(* What a purge leaves alone.                                               *)
LEMMA PurgeSpares ==
    ASSUME IInv, AllHeld
    PROVE  /\ \A a \in Answer : FreshHolds[a] \in {hold[a], 0}
           /\ \A a \in TimelyAnswers : a \in mine \cup lease => FreshHolds[a] = hold[a]
           /\ \A i \in Image : FreshStakes[i] \in {stake[i], 0}
           /\ \A i \in TimelyImages :
                 draw[i] \in {"waiting", "drawing"} /\ DrawnFor[i] \notin Unmetered
                 => FreshStakes[i] = stake[i]
<1>1. ASSUME NEW a \in TimelyAnswers, a \in mine \cup lease
      PROVE  FreshHolds[a] = hold[a]
  <2>0. a \in Answer /\ hold[a] \in Nat
    BY Numbers DEF TimelyAnswers
  <2>1. a \in mine => held[a] <= RenewEvery
    BY <2>0, InTime, Numbers DEF AllHeld, Granted
  <2>2. a \in lease /\ hold[a] > 0 => held[a] <= age[a] + RenewEvery
    BY DEF AllHeld, Covered
  <2> QED
    BY <1>1, <2>0, <2>1, <2>2, Numbers DEF FreshHolds
<1>2. ASSUME NEW i \in TimelyImages, draw[i] \in {"waiting", "drawing"},
             DrawnFor[i] \notin Unmetered
      PROVE  FreshStakes[i] = stake[i]
  <2>1. i \in Image
    BY DEF TimelyImages
  <2> QED
    BY <1>2, <2>1, Numbers DEF AllHeld, Reserved, FreshStakes
<1> QED
  BY <1>1, <1>2 DEF FreshHolds, FreshStakes

(* An answer that a step does not touch.                                    *)
Untouched(b) ==
    /\ hold'[b] = hold[b] /\ held'[b] = held[b] /\ given'[b] = given[b]
    /\ pc'[b] = pc[b] /\ produced'[b] = produced[b] /\ age'[b] = age[b]
    /\ b \in mine' <=> b \in mine
    /\ b \in opened' <=> b \in opened
    /\ b \in lease' => b \in lease
    /\ b \in watched' => b \in watched
    /\ b \in round' => b \in watched \cup round
    /\ since'[ProcOf[b]] = since[ProcOf[b]]
    /\ ProcOf[b] \in live' <=> ProcOf[b] \in live

LEMMA UntouchedHeld ==
    ASSUME NEW b \in Answer, Granted(b), Covered(b), Untouched(b)
    PROVE  Granted(b)' /\ Covered(b)'
BY DEF Granted, Covered, Untouched, Working

LEMMA AnswersHeld ==
    ASSUME IInv, AllHeld, [Next]_vars
    PROVE  \A b \in TimelyAnswers : Granted(b)' /\ Covered(b)'
<1> USE DEF thread, supers, procs, leases, holds, images, answers, At
<1>0. /\ lease \subseteq opened /\ opened \subseteq Answer
      /\ pc \in [Answer -> Active \cup {"ended"}] /\ produced \in [Answer -> Nat]
      /\ hold \in [Answer -> Nat] /\ held \in [Answer -> Nat] /\ given \in [Answer -> Nat]
      /\ age \in [Answer -> Nat] /\ since \in [Proc -> Nat]
      /\ ProcOf \in [Answer -> Proc]
  BY CompletionAssumption DEF IInv, Types, Ledger
<1>1. ASSUME NEW a \in Answer, \A b \in Answer \ {a} : Untouched(b),
             a \in TimelyAnswers => Granted(a)' /\ Covered(a)'
      PROVE  \A b \in TimelyAnswers : Granted(b)' /\ Covered(b)'
  BY <1>1, UntouchedHeld DEF AllHeld, TimelyAnswers
<1>2. ASSUME \A b \in Answer : Untouched(b)
      PROVE  \A b \in TimelyAnswers : Granted(b)' /\ Covered(b)'
  BY <1>2, UntouchedHeld DEF AllHeld, TimelyAnswers
<1>3. ASSUME NEW a \in Answer, Authorize(a)
      PROVE  \A b \in TimelyAnswers : Granted(b)' /\ Covered(b)'
  <2>1. \A b \in Answer \ {a} : Untouched(b)
    BY <1>0, <1>3 DEF Authorize, Untouched
  <2> SUFFICES ASSUME a \in TimelyAnswers
               PROVE  Granted(a)' /\ Covered(a)'
    BY <2>1, <1>1
  <2>2. /\ pc[a] \in {"queued", "running", "failing"} /\ ProcOf[a] \in live
        /\ pc'[a] = "admitted" /\ produced[a] = 0
    <3>1. pc[a] = "queued" => a \notin opened
      BY DEF IInv, Phases
    <3> QED
      BY <1>0, <1>3, <3>1 DEF Authorize, AsksAdmission, AllHeld, Covered
  <2>3. CASE UserOf[a] \in Unmetered
    BY <1>0, <1>3, <2>2, <2>3 DEF Authorize, AllHeld, Granted, Covered, Working
  <2>4. CASE UserOf[a] \notin Unmetered
    <3>1. Grant(a) \in Nat /\ Grant(a) > 0
      <4>1. Left(a) \in Nat /\ Left(a) > 0
        BY <1>3, <2>4, CompletionAssumption DEF Authorize, Left, Rest
      <4> QED
        BY <4>1, Numbers DEF Grant, Smaller
    <3>2. /\ hold'[a] = Grant(a) /\ given'[a] = Grant(a) /\ held'[a] = 0 /\ a \in mine'
          /\ UNCHANGED <<produced, supers, procs, leases>>
      BY <1>0, <1>3, <2>4 DEF Authorize
    <3>3. Granted(a)'
      BY <2>2, <2>4, <3>1, <3>2, Numbers DEF Granted, Working
    <3>4. Covered(a)'
      BY <2>2, <2>4, <3>1, <3>2, Numbers DEF AllHeld, Covered
    <3> QED
      BY <3>3, <3>4
  <2> QED
    BY <2>3, <2>4
<1>4. ASSUME NEW a \in Answer, Refuse(a)
      PROVE  \A b \in TimelyAnswers : Granted(b)' /\ Covered(b)'
  <2>1. \A b \in Answer \ {a} : Untouched(b)
    BY <1>0, <1>4 DEF Refuse, ReleaseHold, Untouched
  <2> SUFFICES ASSUME a \in TimelyAnswers
               PROVE  Granted(a)' /\ Covered(a)'
    BY <2>1, <1>1
  <2>2. /\ pc[a] \in {"queued", "running", "failing"}
        /\ pc'[a] = IF pc[a] = "queued" THEN "over" ELSE "failing"
        /\ produced[a] = 0 /\ (pc[a] = "queued" => a \notin opened)
    <3>1. pc[a] = "queued" => a \notin opened
      BY DEF IInv, Phases
    <3> QED
      BY <1>0, <1>4, <3>1 DEF Refuse, AsksAdmission, AllHeld, Covered
  <2>3. /\ \/ UNCHANGED <<hold, mine>>
           \/ hold'[a] = 0 /\ a \notin mine'
        /\ UNCHANGED <<produced, supers, procs, leases, held, given>>
    BY <1>0, <1>4, <2>2 DEF Refuse, ReleaseHold, AllHeld, Granted, Working
  <2>4. Granted(a)' /\ Covered(a)'
    BY <1>0, <2>2, <2>3 DEF AllHeld, Granted, Covered, Working
  <2> QED
    BY <2>4
<1>5. ASSUME NEW a \in Answer, Open(a)
      PROVE  \A b \in TimelyAnswers : Granted(b)' /\ Covered(b)'
  <2>1. \A b \in Answer \ {a} : Untouched(b)
    BY <1>0, <1>5 DEF Open, Untouched
  <2> SUFFICES ASSUME a \in TimelyAnswers
               PROVE  Granted(a)' /\ Covered(a)'
    BY <2>1, <1>1
  <2>2. /\ pc[a] = "admitted" /\ pc'[a] = "running" /\ ProcOf[a] \in live
        /\ since[ProcOf[a]] <= RenewEvery
        /\ UNCHANGED <<produced, mine, since, procs, holds, age, round>>
        /\ a \in opened' /\ (watched' = watched \/ (watched' = watched \cup {a} /\ a \notin opened))
        /\ a \in opened => lease' = lease
    BY <1>0, <1>5, InTime DEF Open
  <2>3. hold[a] > 0 => held[a] <= RenewEvery
    BY <2>2, Numbers DEF AllHeld, Granted, Working
  <2>4. Granted(a)' /\ Covered(a)'
    BY <1>0, <2>2, <2>3, Numbers DEF AllHeld, Granted, Covered, Working
  <2> QED
    BY <2>4
<1>6. ASSUME NEW a \in Answer, GiveUp(a)
      PROVE  \A b \in TimelyAnswers : Granted(b)' /\ Covered(b)'
  <2>1. \A b \in Answer \ {a} : Untouched(b)
    BY <1>0, <1>6 DEF GiveUp, Untouched
  <2> SUFFICES ASSUME a \in TimelyAnswers
               PROVE  Granted(a)' /\ Covered(a)'
    BY <2>1, <1>1
  <2>2. /\ a \notin opened /\ pc'[a] = "over"
        /\ UNCHANGED <<produced, mine, supers, procs, leases, holds>>
    BY <1>0, <1>6 DEF GiveUp
  <2>3. Granted(a)' /\ Covered(a)'
    BY <1>0, <2>2 DEF AllHeld, Granted, Covered, Working
  <2> QED
    BY <2>3
<1>7. ASSUME NEW a \in Answer, Produce(a)
      PROVE  \A b \in TimelyAnswers : Granted(b)' /\ Covered(b)'
  <2>1. \A b \in Answer \ {a} : Untouched(b)
    BY <1>0, <1>7 DEF Produce, Untouched
  <2> SUFFICES ASSUME a \in TimelyAnswers
               PROVE  Granted(a)' /\ Covered(a)'
    BY <2>1, <1>1
  <2>2. pc[a] = "running" /\ a \in opened
    BY <1>7 DEF Produce, IInv, Phases
  <2>3. Granted(a)' /\ Covered(a)'
    BY <1>0, <1>7, <2>2 DEF Produce, AllHeld, Granted, Covered, Working
  <2> QED
    BY <2>3
<1>8. ASSUME NEW a \in Answer, NEW completed \in BOOLEAN, Finish(a, completed)
      PROVE  \A b \in TimelyAnswers : Granted(b)' /\ Covered(b)'
  <2>1. \A b \in Answer \ {a} : Untouched(b)
    BY <1>0, <1>8 DEF Finish, Settle, ReleaseHold, DropLeases, Untouched
  <2> SUFFICES ASSUME a \in TimelyAnswers
               PROVE  Granted(a)' /\ Covered(a)'
    BY <2>1, <1>1
  <2>2. /\ a \in opened /\ pc'[a] = "over" /\ a \notin lease' /\ a \notin mine'
        /\ hold'[a] \in {0, hold[a]}
        /\ UNCHANGED <<produced, supers, procs, opened, held, given>>
        /\ pc[a] # "ended"
    BY <1>0, <1>8 DEF Finish, Settle, ReleaseHold, DropLeases
  <2>3. Granted(a)' /\ Covered(a)'
    BY <1>0, <2>2 DEF AllHeld, Granted, Covered, Working
  <2> QED
    BY <2>3
<1>9. ASSUME NEW a \in Answer, FinishFails(a)
      PROVE  \A b \in TimelyAnswers : Granted(b)' /\ Covered(b)'
  <2>1. \A b \in Answer \ {a} : Untouched(b)
    BY <1>0, <1>9 DEF FinishFails, Untouched
  <2> SUFFICES ASSUME a \in TimelyAnswers
               PROVE  Granted(a)' /\ Covered(a)'
    BY <2>1, <1>1
  <2>2. /\ a \in opened /\ pc'[a] = "over" /\ a \notin mine' /\ pc[a] # "ended"
        /\ UNCHANGED <<produced, supers, procs, leases, holds>>
    BY <1>0, <1>9 DEF FinishFails
  <2>3. Granted(a)' /\ Covered(a)'
    BY <1>0, <2>2 DEF AllHeld, Granted, Covered, Working
  <2> QED
    BY <2>3
<1>10. ASSUME NEW a \in Answer, Release(a)
       PROVE  \A b \in TimelyAnswers : Granted(b)' /\ Covered(b)'
  <2>1. \A b \in Answer \ {a} : Untouched(b)
    BY <1>0, <1>10 DEF Release, ReleaseHold, Unwatch, Untouched
  <2> SUFFICES ASSUME a \in TimelyAnswers
               PROVE  Granted(a)' /\ Covered(a)'
    BY <2>1, <1>1
  <2>2. /\ pc[a] = "over" /\ pc'[a] = "ended" /\ a \notin mine' /\ a \notin watched'
        /\ hold'[a] = hold[a] \/ (a \in mine /\ hold'[a] = 0)
        /\ UNCHANGED <<produced, round, since, procs, leases, held, given>>
    BY <1>0, <1>10 DEF Release, ReleaseHold, Unwatch
  <2>3. a \in mine => a \notin lease
    BY <2>2 DEF AllHeld, Granted, Working
  <2>4. Granted(a)' /\ Covered(a)'
    BY <1>0, <2>2, <2>3 DEF AllHeld, Granted, Covered, Working
  <2> QED
    BY <2>4
<1>11. ASSUME NEW p \in Proc, Supervise(p)
       PROVE  \A b \in TimelyAnswers : Granted(b)' /\ Covered(b)'
  <2> SUFFICES ASSUME NEW b \in Answer, b \in TimelyAnswers
               PROVE  Granted(b)' /\ Covered(b)'
    BY DEF TimelyAnswers
  <2>1. /\ held'[b] = IF b \in mine /\ ProcOf[b] = p THEN 0 ELSE held[b]
        /\ since'[ProcOf[b]] = IF ProcOf[b] = p THEN 0 ELSE since[ProcOf[b]]
        /\ b \in round' => b \in watched \cup round
        /\ UNCHANGED <<thread, watched, procs, leases, hold, given>>
    BY <1>0, <1>11 DEF Supervise, Touched, Of
  <2>2. Granted(b) /\ Covered(b)
    BY DEF AllHeld
  <2> QED
    BY <1>0, <2>1, <2>2, Numbers DEF Granted, Covered
<1>12. ASSUME NEW a \in Answer, Check(a)
       PROVE  \A b \in TimelyAnswers : Granted(b)' /\ Covered(b)'
  <2>1. \A b \in Answer \ {a} : Untouched(b)
    BY <1>0, <1>12 DEF Check, Untouched
  <2> SUFFICES ASSUME a \in TimelyAnswers
               PROVE  Granted(a)' /\ Covered(a)'
    BY <2>1, <1>1
  <2>2. /\ a \in round /\ age'[a] \in {age[a], 0}
        /\ a \in round' => a \in round
        /\ UNCHANGED <<pc, produced, mine, watched, since, procs, opened, lease, holds>>
    BY <1>0, <1>12 DEF Check
  <2>3. Granted(a)' /\ Covered(a)'
    BY <1>0, <2>2, Numbers DEF AllHeld, Granted, Covered
  <2> QED
    BY <2>3
<1>13. ASSUME NEW A \in SUBSET Answer, Recover(A)
       PROVE  \A b \in TimelyAnswers : Granted(b)' /\ Covered(b)'
  <2> SUFFICES ASSUME NEW b \in Answer, b \in TimelyAnswers
               PROVE  Granted(b)' /\ Covered(b)'
    BY DEF TimelyAnswers
  <2>1. /\ b \in lease' => b \in lease /\ age'[b] = age[b]
        /\ UNCHANGED <<thread, supers, procs, opened, holds>>
    BY <1>0, <1>13 DEF Recover, DropLeases
  <2>2. Granted(b) /\ Covered(b)
    BY DEF AllHeld
  <2> QED
    BY <2>1, <2>2 DEF Granted, Covered
<1>14. ASSUME hold' = FreshHolds, UNCHANGED <<thread, supers, procs, leases, held, given>>
       PROVE  \A b \in TimelyAnswers : Granted(b)' /\ Covered(b)'
  <2> SUFFICES ASSUME NEW b \in Answer, b \in TimelyAnswers
               PROVE  Granted(b)' /\ Covered(b)'
    BY DEF TimelyAnswers
  <2>1. /\ hold'[b] \in {hold[b], 0}
        /\ b \in mine \cup lease => hold'[b] = hold[b]
    BY <1>14, PurgeSpares
  <2>2. Granted(b) /\ Covered(b)
    BY DEF AllHeld
  <2> QED
    BY <1>14, <2>1, <2>2 DEF Granted, Covered, Working
<1>15. ASSUME NEW i \in Image, Draw(i) \/ Beat(i) \/ Deliver(i) \/ FailImage(i)
       PROVE  \A b \in Answer : Untouched(b)
  BY <1>15 DEF Draw, Beat, Deliver, FailImage, Untouched
<1>16. ASSUME NEW u \in Barrable, Bar(u)
       PROVE  \A b \in Answer : Untouched(b)
  BY <1>16 DEF Bar, Untouched
<1>17. ASSUME NEW p \in Proc, Shutdown(p)
       PROVE  \A b \in Answer : Untouched(b)
  BY <1>17 DEF Shutdown, Untouched
<1>18. ASSUME NEW a \in Answer, Abandon(a)
       PROVE  \A b \in TimelyAnswers : Granted(b)' /\ Covered(b)'
  <2>1. \A b \in Answer \ {a} : Untouched(b)
    BY <1>0, <1>18 DEF Abandon, Unwatch, Untouched
  <2> SUFFICES ASSUME a \in TimelyAnswers
               PROVE  Granted(a)' /\ Covered(a)'
    BY <2>1, <1>1
  <2>2. /\ age'[a] = age[a] \/ age'[a] = Lease + 1
        /\ a \in watched' => a \in watched
        /\ UNCHANGED <<thread, round, since, procs, opened, lease, holds>>
    BY <1>0, <1>18 DEF Abandon, Unwatch
  <2>3. Granted(a)' /\ Covered(a)'
    BY <2>2, Numbers DEF AllHeld, Granted, Covered
  <2> QED
    BY <2>3
<1>19. ASSUME NEW p \in Proc, Exit(p)
       PROVE  \A b \in TimelyAnswers : Granted(b)' /\ Covered(b)'
  <2> SUFFICES ASSUME NEW b \in Answer, b \in TimelyAnswers
               PROVE  Granted(b)' /\ Covered(b)'
    BY DEF TimelyAnswers
  <2>1. Granted(b) /\ Covered(b)
    BY DEF AllHeld
  <2>2. CASE ProcOf[b] = p
    BY <1>0, <1>19, <2>1, <2>2 DEF Exit, Of, Granted, Covered, Working
  <2>3. CASE ProcOf[b] # p
    <3>1. Untouched(b)
      BY <1>0, <1>19, <2>3 DEF Exit, Of, Untouched
    <3> QED
      BY <2>1, <3>1, UntouchedHeld
  <2> QED
    BY <2>2, <2>3
<1>20. CASE Tick
  <2> SUFFICES ASSUME NEW b \in Answer, b \in TimelyAnswers
               PROVE  Granted(b)' /\ Covered(b)'
    BY DEF TimelyAnswers
  <2>1. Granted(b) /\ Covered(b)
    BY DEF AllHeld
  <2>2. UNCHANGED <<thread, watched, round, procs, opened, lease, hold, given>>
    BY <1>20 DEF Tick
  <2>3. hold[b] > 0 => held'[b] <= held[b] + 1
    BY <1>0, <1>20 DEF Tick, Later
  <2>4. /\ hold[b] = 0 => held'[b] = held[b]
        /\ held'[b] \in Nat
    BY <1>0, <1>20 DEF Tick, Later
  <2>5. ProcOf[b] \in live => /\ since[ProcOf[b]] < RenewEvery
                              /\ since'[ProcOf[b]] = since[ProcOf[b]] + 1
                              /\ b \notin round /\ pc[b] # "over"
    <3>1. ProcOf[b] \in Proc /\ ProcOf[b] \in Timely /\ b \in Of(ProcOf[b])
      BY <1>0 DEF Of, TimelyAnswers
    <3>2. ASSUME ProcOf[b] \in live
          PROVE  since[ProcOf[b]] < RenewEvery /\ b \notin round /\ pc[b] # "over"
      BY <1>20, <3>1, <3>2 DEF Tick
    <3>3. ASSUME ProcOf[b] \in live
          PROVE  since'[ProcOf[b]] = since[ProcOf[b]] + 1
      <4>1. since'[ProcOf[b]] = Later(since[ProcOf[b]], Lease)
        BY <1>20, <3>1, <3>3 DEF Tick
      <4> QED
        BY <3>2, <3>3, <4>1, Numbers DEF Later
    <3> QED
      BY <3>2, <3>3
  <2>6. b \in lease => age'[b] = age[b] + 1
    <3>1. b \in lease => age[b] <= Lease
      BY <1>20, Numbers DEF Tick, Stale
    <3>2. b \in lease => age'[b] = Later(age[b], Lease)
      BY <1>20 DEF Tick
    <3> QED
      BY <3>1, <3>2 DEF Later
  <2>7. Granted(b)'
    BY <2>1, <2>2, <2>3, <2>4, <2>5, Numbers DEF Granted, Working
  <2>8. b \in watched \cup round /\ hold[b] > 0 => held'[b] <= RenewEvery
    <3>1. ASSUME b \in watched \cup round, hold[b] > 0
          PROVE  held'[b] <= RenewEvery
      <4>1. ProcOf[b] \in live /\ b \in watched /\ pc[b] \notin {"ended", "over"}
        BY <2>1, <2>5, <3>1 DEF Covered
      <4>2. pc[b] \in Working \cup {"queued"}
        BY <1>0, <4>1 DEF Working, Active
      <4>3. b \in mine /\ held[b] <= since[ProcOf[b]]
        BY <2>1, <3>1, <4>2 DEF Granted
      <4> QED
        BY <2>3, <2>4, <2>5, <3>1, <4>1, <4>3, Numbers
    <3> QED
      BY <3>1
  <2>9. b \in lease /\ hold[b] > 0 => held'[b] <= age'[b] + RenewEvery
    BY <2>1, <2>3, <2>4, <2>6, Numbers DEF Covered
  <2>10. Covered(b)'
    BY <2>1, <2>2, <2>8, <2>9 DEF Covered
  <2> QED
    BY <2>7, <2>10
<1>21. CASE UNCHANGED vars
  BY <1>2, <1>21 DEF vars, Untouched
<1>22. ASSUME Purge \/ \E i \in Image : Reserve(i)
       PROVE  \A b \in TimelyAnswers : Granted(b)' /\ Covered(b)'
  BY <1>14, <1>22 DEF Purge, Reserve
<1> QED
  BY <1>2, <1>3, <1>4, <1>5, <1>6, <1>7, <1>8, <1>9, <1>10, <1>11, <1>12, <1>13, <1>15,
     <1>16, <1>17, <1>18, <1>19, <1>20, <1>21, <1>22 DEF Next

LEMMA ImagesHeld ==
    ASSUME IInv, AllHeld, [Next]_vars
    PROVE  \A j \in TimelyImages : Reserved(j)'
<1> USE DEF thread, supers, procs, leases, holds, images, answers
<1>0. /\ draw \in [Image -> {"new", "waiting", "drawing", "ended"}]
      /\ stake \in [Image -> {0, Price}] /\ worn \in [Image -> Nat]
      /\ woke \in [Image -> Nat] /\ DrawnOn \in [Image -> Proc]
      /\ Price \in Nat /\ Price > 0
  BY CompletionAssumption DEF IInv, Types
<1>1. SUFFICES ASSUME NEW j \in TimelyImages
               PROVE  Reserved(j)'
  OBVIOUS
<1> j \in Image
  BY DEF TimelyImages
<1>2. Reserved(j)
  BY DEF AllHeld
<1>3. ASSUME draw'[j] \in {draw[j], "ended"}, draw'[j] # "ended" => DrawnOn[j] \in live',
             draw'[j] # "ended" => stake'[j] = stake[j],
             worn'[j] = worn[j], woke'[j] = woke[j]
      PROVE  Reserved(j)'
  BY <1>2, <1>3 DEF Reserved
<1>4. ASSUME UNCHANGED <<images, live>>
      PROVE  Reserved(j)'
  BY <1>2, <1>4 DEF Reserved
<1>5. ASSUME stake'[j] = FreshStakes[j], UNCHANGED <<draw, live>>,
             worn'[j] = worn[j], woke'[j] = woke[j]
      PROVE  Reserved(j)'
  BY <1>0, <1>2, <1>5, PurgeSpares DEF Reserved
<1>6. CASE Purge
  BY <1>5, <1>6 DEF Purge
<1>7. ASSUME NEW i \in Image, Reserve(i)
      PROVE  Reserved(j)'
  <2>1. CASE i = j
    <3>1. /\ DrawnOn[j] \in live' /\ worn'[j] = 0 /\ woke'[j] = 0
          /\ DrawnFor[j] \notin Unmetered => stake'[j] = Price
      BY <1>0, <1>7, <2>1 DEF Reserve, DrawAt, FreshStakes
    <3> QED
      BY <3>1, Numbers DEF Reserved
  <2>2. CASE i # j
    <3>1. /\ draw'[j] = draw[j] /\ worn'[j] = worn[j] /\ woke'[j] = woke[j]
          /\ live' = live /\ stake'[j] = FreshStakes[j]
      BY <1>0, <1>7, <2>2 DEF Reserve, FreshStakes
    <3> QED
      BY <1>0, <1>2, <3>1, PurgeSpares DEF Reserved
  <2> QED
    BY <2>1, <2>2
<1>8. ASSUME NEW i \in Image, Draw(i)
      PROVE  Reserved(j)'
  BY <1>0, <1>2, <1>8 DEF Draw, DrawAt, Reserved
<1>9. ASSUME NEW i \in Image, Beat(i)
      PROVE  Reserved(j)'
  BY <1>0, <1>2, <1>9, Numbers DEF Beat, DrawAt, Reserved
<1>10. ASSUME NEW i \in Image, Deliver(i) \/ FailImage(i)
       PROVE  Reserved(j)'
  BY <1>0, <1>2, <1>10 DEF Deliver, FailImage, Reserved
<1>11. ASSUME NEW p \in Proc, Exit(p)
       PROVE  Reserved(j)'
  BY <1>0, <1>2, <1>3, <1>11 DEF Exit, Reserved
<1>12. CASE Tick
  <2>1. UNCHANGED <<draw, stake, live>>
    BY <1>12 DEF Tick
  <2>2. CASE draw[j] \in {"waiting", "drawing"} /\ DrawnFor[j] \notin Unmetered
    <3>1. stake[j] > 0 /\ DrawnOn[j] \in live \cap Timely /\ draw[j] # "ended"
      BY <1>0, <1>2, <2>2 DEF Reserved, TimelyImages
    <3>2. woke[j] < BeatEvery
      BY <1>12, <3>1 DEF Tick
    <3>3. woke'[j] = Later(woke[j], BeatEvery) /\ worn'[j] = Later(worn[j], HoldTtl)
      BY <1>12, <3>1 DEF Tick
    <3>4. woke'[j] = woke[j] + 1 /\ worn'[j] <= worn[j] + 1 /\ worn'[j] \in Nat
      BY <3>2, <3>3, Numbers DEF Later
    <3> QED
      BY <1>2, <2>1, <2>2, <3>2, <3>4, Numbers DEF Reserved
  <2>3. CASE ~(draw[j] \in {"waiting", "drawing"} /\ DrawnFor[j] \notin Unmetered)
    BY <1>2, <2>1, <2>3 DEF Reserved
  <2> QED
    BY <2>2, <2>3
<1>13. ASSUME \/ \E a \in Answer :
                     \/ Authorize(a) \/ Refuse(a) \/ Open(a) \/ GiveUp(a) \/ Produce(a)
                     \/ \E completed \in BOOLEAN : Finish(a, completed)
                     \/ FinishFails(a) \/ Release(a) \/ Check(a) \/ Abandon(a)
              \/ \E p \in Proc : Supervise(p) \/ Shutdown(p)
              \/ \E A \in SUBSET Answer : Recover(A)
              \/ \E u \in Barrable : Bar(u)
              \/ UNCHANGED vars
       PROVE  UNCHANGED <<images, live>>
  BY <1>13 DEF Authorize, Refuse, Open, GiveUp, Produce, Finish, FinishFails, Release,
               Check, Abandon, Supervise, Shutdown, Recover, Bar, vars
<1> QED
  BY <1>4, <1>6, <1>7, <1>8, <1>9, <1>10, <1>11, <1>12, <1>13 DEF Next

(* An answer whose share of the allowance cannot grow: its hold stays or    *)
(* goes, and what was produced under it is charged at most.                 *)
Fallen(a) ==
    /\ given'[a] = given[a] /\ hold'[a] \in {hold[a], 0}
    /\ \/ bill'[a] = bill[a]
       \/ a \in lease /\ \E n \in 0..produced[a] : bill'[a] = Append(bill[a], n)

Charge(a) == IF bill[a] = <<>> THEN 0 ELSE Head(bill[a])

(* What an answer and an image take is a number that admission counts.      *)
LEMMA SharesCounted ==
    ASSUME IInv
    PROVE  /\ \A a \in Answer : /\ Share(a) \in Nat /\ Charge(a) \in Nat
                                /\ Share(a) <= Charge(a) + hold[a]
           /\ \A i \in Image : /\ Stake(i) \in Nat /\ paid[i] \in Nat /\ stake[i] \in Nat
                               /\ Stake(i) <= paid[i] + stake[i] /\ Stake(i) <= Price
<1>1. ASSUME NEW a \in Answer
      PROVE  /\ Share(a) \in Nat /\ Charge(a) \in Nat
             /\ Share(a) <= Charge(a) + hold[a]
  <2>1. hold[a] \in Nat /\ given[a] \in Nat
    BY <1>1, Numbers
  <2>2. bill[a] # <<>> => Head(bill[a]) \in Nat
    BY <1>1 DEF IInv, Ledger
  <2> QED
    BY <2>1, <2>2, SmallerTypes DEF Share, Charge, Smaller
<1>2. ASSUME NEW i \in Image
      PROVE  stake[i] \in {0, Price} /\ paid[i] \in {0, Price} /\ Price \in Nat
  BY <1>2, Numbers DEF IInv, Types
<1> QED
  BY <1>1, <1>2 DEF Stake

LEMMA ShareFalls ==
    ASSUME IInv, AllHeld, NEW a \in TimelyAnswers, UserOf[a] \notin Unmetered, Fallen(a)
    PROVE  Share(a)' <= Share(a)
<1>0. a \in Answer
  BY DEF TimelyAnswers
<1>1. /\ hold[a] \in {0, given[a]} /\ hold[a] \in Nat /\ given[a] \in Nat
      /\ produced[a] \in Nat /\ bill[a] \in Seq(Nat)
  BY <1>0, Numbers DEF AllHeld, Granted, IInv, Ledger
<1>2. CASE bill'[a] = bill[a]
  <2>1. bill[a] # <<>> => Head(bill[a]) \in Nat
    BY <1>1
  <2> QED
    BY <1>1, <1>2, <2>1 DEF Fallen, Share, Smaller
<1>3. CASE a \in lease /\ \E n \in 0..produced[a] : bill'[a] = Append(bill[a], n)
  <2>1. PICK n \in 0..produced[a] : bill'[a] = Append(bill[a], n)
    BY <1>3
  <2>2. bill[a] = <<>> /\ (hold[a] > 0 \/ produced[a] = 0)
    BY <1>0, <1>3 DEF IInv, Ledger, AllHeld, Covered
  <2>3. bill'[a] # <<>> /\ Head(bill'[a]) = n
    BY <2>1, <2>2
  <2> QED
    BY <1>1, <2>1, <2>2, <2>3 DEF Fallen, Share, Smaller
<1> QED
  BY <1>2, <1>3 DEF Fallen

(* Only an admission lets an answer take more, ...                          *)
LEMMA AllFall ==
    ASSUME IInv, AllHeld, [Next]_vars,
           ~ \E a \in Answer : Authorize(a)
    PROVE  \A b \in Answer : Fallen(b)
<1> USE DEF thread, supers, procs, leases, holds, images, answers
<1>0. /\ hold \in [Answer -> Nat] /\ given \in [Answer -> Nat]
      /\ produced \in [Answer -> Nat] /\ saved \in [Answer -> Nat]
      /\ bill \in [Answer -> Seq(Nat)]
  BY DEF IInv, Types, Ledger
<1> SUFFICES ASSUME NEW b \in Answer
             PROVE  Fallen(b)
  OBVIOUS
<1>1. ASSUME UNCHANGED <<holds, bill>>
      PROVE  Fallen(b)
  BY <1>1 DEF Fallen
<1>2. ASSUME NEW a \in Answer, Refuse(a)
      PROVE  Fallen(b)
  BY <1>0, <1>2 DEF Refuse, ReleaseHold, Fallen
<1>3. ASSUME NEW a \in Answer, NEW completed \in BOOLEAN, Finish(a, completed)
      PROVE  Fallen(b)
  <2>1. given' = given /\ hold'[b] \in {hold[b], 0}
    BY <1>0, <1>3 DEF Finish, Settle, ReleaseHold
  <2>2. bill'[b] = IF b \in {a} \cap lease THEN Append(bill[b], produced[b]) ELSE bill[b]
    BY <1>3 DEF Finish, Settle, Charged
  <2>3. produced[b] \in 0..produced[b]
    BY <1>0
  <2> QED
    BY <2>1, <2>2, <2>3 DEF Fallen
<1>4. ASSUME NEW a \in Answer, Release(a)
      PROVE  Fallen(b)
  BY <1>0, <1>4 DEF Release, ReleaseHold, Fallen
<1>5. ASSUME NEW A \in SUBSET Answer, Recover(A)
      PROVE  Fallen(b)
  <2>1. given' = given /\ hold' = hold
    BY <1>5 DEF Recover
  <2>2. bill'[b] = IF b \in A \cap lease THEN Append(bill[b], saved[b]) ELSE bill[b]
    BY <1>5 DEF Recover, Charged
  <2>3. saved[b] \in 0..produced[b]
    BY Numbers
  <2> QED
    BY <2>1, <2>2, <2>3 DEF Fallen
<1>6. ASSUME hold' = FreshHolds, given' = given, bill' = bill
      PROVE  Fallen(b)
  BY <1>6, PurgeSpares DEF Fallen
<1>7. ASSUME \/ Purge
             \/ \E i \in Image : Reserve(i)
      PROVE  Fallen(b)
  BY <1>6, <1>7 DEF Purge, Reserve
<1>8. ASSUME \/ \E a \in Answer : \/ Open(a) \/ GiveUp(a) \/ Produce(a)
                                  \/ FinishFails(a) \/ Check(a) \/ Abandon(a)
             \/ \E p \in Proc : Shutdown(p) \/ Exit(p)
             \/ \E u \in Barrable : Bar(u)
             \/ UNCHANGED vars
      PROVE  Fallen(b)
  BY <1>1, <1>8 DEF Open, GiveUp, Produce, FinishFails, Check, Abandon, Shutdown, Exit,
                    Bar, vars
<1>9. ASSUME \/ \E i \in Image : Draw(i) \/ Beat(i) \/ Deliver(i) \/ FailImage(i)
             \/ \E p \in Proc : Supervise(p)
             \/ Tick
      PROVE  Fallen(b)
  BY <1>9 DEF Draw, Beat, Deliver, FailImage, Supervise, Tick, Fallen
<1> QED
  BY <1>2, <1>3, <1>4, <1>5, <1>7, <1>8, <1>9 DEF Next

(* ... and only a reservation an image.                                     *)
LEMMA StakesFall ==
    ASSUME IInv, AllHeld, [Next]_vars,
           ~ \E i \in Image : Reserve(i)
    PROVE  \A j \in TimelyImages : DrawnFor[j] \notin Unmetered => Stake(j)' <= Stake(j)
<1> USE DEF thread, supers, procs, leases, holds, images, answers
<1>0. /\ stake \in [Image -> {0, Price}] /\ paid \in [Image -> {0, Price}]
      /\ Price \in Nat /\ Price > 0
  BY Numbers DEF IInv, Types
<1> SUFFICES ASSUME NEW j \in Image, j \in TimelyImages, DrawnFor[j] \notin Unmetered
             PROVE  Stake(j)' <= Stake(j)
  BY DEF TimelyImages
<1>1. ASSUME stake'[j] \in {stake[j], 0}, paid'[j] = paid[j]
      PROVE  Stake(j)' <= Stake(j)
  BY <1>0, <1>1 DEF Stake
<1>2. ASSUME NEW i \in Image, Deliver(i)
      PROVE  Stake(j)' <= Stake(j)
  <2>1. CASE i = j
    <3>1. stake[j] = Price
      BY <1>2, <2>1 DEF Deliver, DrawAt, AllHeld, Reserved
    <3>2. stake'[j] = 0 /\ paid'[j] = Price
      BY <1>0, <1>2, <2>1 DEF Deliver
    <3> QED
      BY <1>0, <3>1, <3>2 DEF Stake
  <2>2. CASE i # j
    BY <1>0, <1>1, <1>2, <2>2 DEF Deliver
  <2> QED
    BY <2>1, <2>2
<1>3. ASSUME NEW i \in Image, FailImage(i)
      PROVE  Stake(j)' <= Stake(j)
  BY <1>0, <1>1, <1>3 DEF FailImage
<1>4. CASE Purge
  BY <1>1, <1>4, PurgeSpares DEF Purge
<1>5. ASSUME \/ \E a \in Answer :
                    \/ Authorize(a) \/ Refuse(a) \/ Open(a) \/ GiveUp(a) \/ Produce(a)
                    \/ \E completed \in BOOLEAN : Finish(a, completed)
                    \/ FinishFails(a) \/ Release(a) \/ Check(a) \/ Abandon(a)
             \/ \E p \in Proc : Supervise(p) \/ Shutdown(p) \/ Exit(p)
             \/ \E A \in SUBSET Answer : Recover(A)
             \/ \E i \in Image : Draw(i) \/ Beat(i)
             \/ \E u \in Barrable : Bar(u)
             \/ Tick
             \/ UNCHANGED vars
      PROVE  stake' = stake /\ paid' = paid
  BY <1>5 DEF Authorize, Refuse, Open, GiveUp, Produce, Finish, FinishFails, Release,
              Check, Abandon, Supervise, Shutdown, Exit, Recover, Draw, Beat, Bar, Tick,
              vars
<1> QED
  BY <1>1, <1>2, <1>3, <1>4, <1>5 DEF Next

(* The requests of an account, and what they take together.                 *)
Asked(u) == {a \in Answer : UserOf[a] = u}
Drawn(u) == {i \in Image : DrawnFor[i] = u}
Shares(u) == [a \in Asked(u) |-> Share(a)]
Stakes(u) == [i \in Drawn(u) |-> Stake(i)]

Spent(u) == SumFunction(Shares(u)) + SumFunction(Stakes(u)) <= Budget

LEMMA FiniteRequests ==
    ASSUME NEW u
    PROVE  IsFiniteSet(Asked(u)) /\ IsFiniteSet(Drawn(u))
BY CompletionAssumption, FS_Subset DEF Asked, Drawn

(* What admission counts as used.                                           *)
Rows(u, rows)     == [a \in Asked(u) |-> Charge(a) + rows[a]]
Paids(u, stakes)  == [i \in Drawn(u) |-> paid[i] + stakes[i]]

LEMMA UsedCounts ==
    ASSUME NEW u, NEW rows, NEW stakes
    PROVE  Used(u, rows, stakes) = SumFunction(Rows(u, rows)) + SumFunction(Paids(u, stakes))
<1> DEFINE charge == [a \in Answer |-> IF bill[a] = <<>> THEN 0 ELSE Head(bill[a])]
<1>1. [a \in Asked(u) |-> charge[a] + rows[a]] = Rows(u, rows)
  BY DEF Asked, Rows, Charge
<1>2. Used(u, rows, stakes) = SumFunction([a \in Asked(u) |-> charge[a] + rows[a]])
                              + SumFunction(Paids(u, stakes))
  BY DEF Used, Asked, Drawn, Paids
<1> QED
  BY <1>1, <1>2

(* SharesCounted after a step.                                              *)
LEMMA SharesCountedNext ==
    ASSUME IInv'
    PROVE  /\ \A a \in Answer : Share(a)' \in Nat /\ Share(a)' <= Charge(a)' + hold'[a]
           /\ \A i \in Image : Stake(i)' \in Nat /\ Stake(i)' <= paid'[i] + stake'[i]
<1>0. Want \in Nat /\ Price \in Nat
  BY CompletionAssumption
<1>1. ASSUME NEW a \in Answer
      PROVE  Share(a)' \in Nat /\ Share(a)' <= Charge(a)' + hold'[a]
  <2>1. hold'[a] \in Nat /\ given'[a] \in Nat
    BY <1>0, <1>1 DEF IInv, Types
  <2>2. bill'[a] # <<>> => Head(bill'[a]) \in Nat
    BY <1>1 DEF IInv, Ledger
  <2> QED
    BY <2>1, <2>2 DEF Share, Charge, Smaller
<1>2. ASSUME NEW i \in Image
      PROVE  Stake(i)' \in Nat /\ Stake(i)' <= paid'[i] + stake'[i]
  <2>1. stake'[i] \in {0, Price} /\ paid'[i] \in {0, Price}
    BY <1>0, <1>2 DEF IInv, Types
  <2> QED
    BY <1>0, <2>1 DEF Stake
<1> QED
  BY <1>1, <1>2

(* An admission grants what is left of the allowance at most, its own       *)
(* former hold aside.                                                       *)
LEMMA AdmissionSpends ==
    ASSUME IInv, IInv', NEW a \in Answer, Authorize(a), UserOf[a] \notin Unmetered
    PROVE  Spent(UserOf[a])'
<1> DEFINE u == UserOf[a]
           rows == IF a \in mine THEN [hold EXCEPT ![a] = 0] ELSE hold
<1>0. /\ hold \in [Answer -> Nat] /\ Budget \in Nat /\ Want \in Nat
      /\ IsFiniteSet(Asked(u)) /\ IsFiniteSet(Drawn(u))
  BY Numbers, FiniteRequests DEF IInv, Types
<1>1. /\ hold' = [hold EXCEPT ![a] = Grant(a)]
      /\ Left(a) > 0 /\ bill' = bill /\ paid' = paid /\ stake' = stake
  BY <1>0 DEF Authorize, images
<1>2. /\ Left(a) = Rest(Used(u, rows, stake))
      /\ Used(u, rows, stake) \in 0..Budget
      /\ Grant(a) \in Nat /\ Grant(a) <= Budget - Used(u, rows, stake)
      /\ Grant(a) > 0
  <2>1. Left(a) = Rest(Used(u, rows, stake))
    BY DEF Left
  <2>2. /\ Used(u, rows, stake) \in 0..Budget
        /\ Left(a) = Budget - Used(u, rows, stake)
    <3> HIDE DEF u, rows
    <3> QED
      BY <1>1, <2>1 DEF Rest
  <2>3. Left(a) \in Nat /\ Left(a) > 0 /\ Want > 0
    <3> HIDE DEF u, rows
    <3> QED
      BY <1>0, <1>1, <2>2, Numbers
  <2>4. Grant(a) \in Nat /\ Grant(a) <= Left(a) /\ Grant(a) > 0
    BY <1>0, <2>3 DEF Grant, Smaller
  <2> QED
    BY <2>1, <2>2, <2>4
<1>3. \A b \in Answer : rows[b] \in Nat /\ (b # a => rows[b] = hold'[b])
  BY <1>0, <1>1
<1> HIDE DEF rows
<1>4. /\ Shares(u)' \in [Asked(u) -> Nat] /\ Rows(u, rows) \in [Asked(u) -> Nat]
      /\ Stakes(u)' \in [Drawn(u) -> Nat] /\ Paids(u, stake) \in [Drawn(u) -> Nat]
  BY <1>3, SharesCounted, SharesCountedNext DEF Shares, Stakes, Rows, Paids, Asked, Drawn
<1>5. \A b \in Asked(u) : Shares(u)'[b] <= IF b = a THEN Rows(u, rows)[b] + Grant(a)
                                                  ELSE Rows(u, rows)[b]
  <2> SUFFICES ASSUME NEW b \in Asked(u)
               PROVE  Share(b)' <= IF b = a THEN Charge(b) + rows[b] + Grant(a)
                                            ELSE Charge(b) + rows[b]
    BY DEF Shares, Rows
  <2>0. b \in Answer
    BY DEF Asked
  <2>1. Charge(b) \in Nat /\ rows[b] \in Nat /\ Charge(b)' = Charge(b)
    BY <1>1, <1>3, <2>0, SharesCounted DEF Charge
  <2>2. CASE b = a
    <3>1. Share(b)' = Grant(a)
      BY <1>0, <1>1, <1>2, <2>2 DEF Share
    <3> QED
      BY <1>2, <2>1, <2>2, <3>1
  <2>3. CASE b # a
    BY <1>3, <2>0, <2>1, <2>3, SharesCountedNext
  <2> QED
    BY <2>2, <2>3
<1>6. \A i \in Drawn(u) : Stakes(u)'[i] <= Paids(u, stake)[i]
  BY <1>1, SharesCountedNext DEF Stakes, Paids, Drawn
<1>7. SumFunction(Shares(u)') <= SumFunction(Rows(u, rows)) + Grant(a)
  <2> HIDE DEF u
  <2> QED
    BY <1>0, <1>2, <1>4, <1>5, SumBound
<1>8. SumFunction(Stakes(u)') <= SumFunction(Paids(u, stake))
  <2> HIDE DEF u
  <2> QED
    BY <1>0, <1>4, <1>6, SumMonotone
<1>9. /\ SumFunction(Shares(u)') \in Nat /\ SumFunction(Rows(u, rows)) \in Nat
      /\ SumFunction(Stakes(u)') \in Nat /\ SumFunction(Paids(u, stake)) \in Nat
  <2> HIDE DEF u
  <2> QED
    BY <1>0, <1>4, SumNat
<1>10. Used(u, rows, stake) = SumFunction(Rows(u, rows)) + SumFunction(Paids(u, stake))
  BY UsedCounts
<1>11. SumFunction(Shares(u)') + SumFunction(Stakes(u)') <= Budget
  <2> HIDE DEF u
  <2> QED
    BY <1>0, <1>2, <1>7, <1>8, <1>9, <1>10
<1> QED
  BY <1>11 DEF Spent

(* A reservation is for an allowance that has its price left.               *)
LEMMA ReservationSpends ==
    ASSUME IInv, IInv', NEW i \in Image, Reserve(i), DrawnFor[i] \notin Unmetered
    PROVE  Spent(DrawnFor[i])'
<1> DEFINE u == DrawnFor[i]
<1>0. /\ hold \in [Answer -> Nat] /\ stake \in [Image -> {0, Price}]
      /\ Budget \in Nat /\ Price \in Nat /\ Price > 0
      /\ IsFiniteSet(Asked(u)) /\ IsFiniteSet(Drawn(u))
  BY Numbers, FiniteRequests DEF IInv, Types
<1>1. /\ hold' = FreshHolds /\ stake' = [FreshStakes EXCEPT ![i] = Price]
      /\ bill' = bill /\ paid' = paid
      /\ Used(u, FreshHolds, FreshStakes) + Price <= Budget
  BY DEF Reserve
<1>2. /\ \A b \in Answer : FreshHolds[b] \in Nat
      /\ \A j \in Image : FreshStakes[j] \in Nat /\ (j # i => stake'[j] = FreshStakes[j])
      /\ stake'[i] = Price
  BY <1>0, <1>1 DEF FreshHolds, FreshStakes
<1>3. /\ Shares(u)' \in [Asked(u) -> Nat] /\ Rows(u, FreshHolds) \in [Asked(u) -> Nat]
      /\ Stakes(u)' \in [Drawn(u) -> Nat] /\ Paids(u, FreshStakes) \in [Drawn(u) -> Nat]
  BY <1>2, SharesCounted, SharesCountedNext DEF Shares, Stakes, Rows, Paids, Asked, Drawn
<1>4. \A b \in Asked(u) : Shares(u)'[b] <= Rows(u, FreshHolds)[b]
  <2> SUFFICES ASSUME NEW b \in Asked(u)
               PROVE  Share(b)' <= Charge(b) + FreshHolds[b]
    BY DEF Shares, Rows
  <2>1. b \in Answer /\ Charge(b)' = Charge(b)
    BY <1>1 DEF Asked, Charge
  <2> QED
    BY <1>1, <2>1, SharesCountedNext
<1>5. \A j \in Drawn(u) : Stakes(u)'[j] <= IF j = i THEN Paids(u, FreshStakes)[j] + Price
                                                  ELSE Paids(u, FreshStakes)[j]
  <2> SUFFICES ASSUME NEW j \in Drawn(u)
               PROVE  Stake(j)' <= IF j = i THEN paid[j] + FreshStakes[j] + Price
                                            ELSE paid[j] + FreshStakes[j]
    BY DEF Stakes, Paids
  <2>1. j \in Image /\ paid[j] \in Nat /\ FreshStakes[j] \in Nat
    BY <1>2, SharesCounted DEF Drawn
  <2>2. CASE j = i
    <3>1. Stake(j)' = Price
      BY <1>0, <1>2, <2>2 DEF Stake
    <3> QED
      BY <1>0, <2>1, <2>2, <3>1
  <2>3. CASE j # i
    BY <1>1, <1>2, <2>1, <2>3, SharesCountedNext
  <2> QED
    BY <2>2, <2>3
<1>6. Used(u, FreshHolds, FreshStakes)
        = SumFunction(Rows(u, FreshHolds)) + SumFunction(Paids(u, FreshStakes))
  BY UsedCounts
<1> HIDE DEF u
<1>7. SumFunction(Shares(u)') <= SumFunction(Rows(u, FreshHolds))
  BY <1>0, <1>3, <1>4, SumMonotone
<1>8. SumFunction(Stakes(u)') <= SumFunction(Paids(u, FreshStakes)) + Price
  BY <1>0, <1>3, <1>5, SumBound
<1>9. /\ SumFunction(Shares(u)') \in Nat /\ SumFunction(Rows(u, FreshHolds)) \in Nat
      /\ SumFunction(Stakes(u)') \in Nat /\ SumFunction(Paids(u, FreshStakes)) \in Nat
  BY <1>0, <1>3, SumNat
<1>10. SumFunction(Shares(u)') + SumFunction(Stakes(u)') <= Budget
  BY <1>0, <1>1, <1>6, <1>7, <1>8, <1>9
<1> QED
  BY <1>10 DEF Spent, u

(* Where no request takes more, they do not together.                       *)
LEMMA FallSpends ==
    ASSUME IInv, IInv', NEW u, Spent(u),
           \A a \in Asked(u) : Share(a)' <= Share(a),
           \A i \in Drawn(u) : Stake(i)' <= Stake(i)
    PROVE  Spent(u)'
<1>0. Budget \in Nat /\ IsFiniteSet(Asked(u)) /\ IsFiniteSet(Drawn(u))
  BY Numbers, FiniteRequests
<1>1. /\ Shares(u)' \in [Asked(u) -> Nat] /\ Shares(u) \in [Asked(u) -> Nat]
      /\ Stakes(u)' \in [Drawn(u) -> Nat] /\ Stakes(u) \in [Drawn(u) -> Nat]
  BY SharesCounted, SharesCountedNext DEF Shares, Stakes, Asked, Drawn
<1>2. \A a \in Asked(u) : Shares(u)'[a] <= Shares(u)[a]
  BY DEF Shares
<1>3. \A i \in Drawn(u) : Stakes(u)'[i] <= Stakes(u)[i]
  BY DEF Stakes
<1>4. SumFunction(Shares(u)') <= SumFunction(Shares(u))
  BY <1>0, <1>1, <1>2, SumMonotone
<1>5. SumFunction(Stakes(u)') <= SumFunction(Stakes(u))
  BY <1>0, <1>1, <1>3, SumMonotone
<1>6. /\ SumFunction(Shares(u)') \in Nat /\ SumFunction(Shares(u)) \in Nat
      /\ SumFunction(Stakes(u)') \in Nat /\ SumFunction(Stakes(u)) \in Nat
  BY <1>0, <1>1, SumNat
<1>7. SumFunction(Shares(u)') + SumFunction(Stakes(u)') <= Budget
  BY <1>0, <1>4, <1>5, <1>6 DEF Spent
<1> QED
  BY <1>7 DEF Spent

(* Accounts whose requests timely processes serve.                          *)
ServedInTime(u) == Asked(u) \subseteq TimelyAnswers /\ Drawn(u) \subseteq TimelyImages

AllSpent == \A u \in Account \ Unmetered : ServedInTime(u) => Spent(u)

LEMMA SpentStep ==
    ASSUME IInv, IInv', AllHeld, AllSpent, [Next]_vars
    PROVE  AllSpent'
<1> SUFFICES ASSUME NEW u \in Account \ Unmetered, ServedInTime(u)
             PROVE  Spent(u)'
  BY DEF AllSpent, ServedInTime, Asked, Drawn, TimelyAnswers, TimelyImages
<1>0. Spent(u)
  BY DEF AllSpent
<1>1. ASSUME NEW a \in Answer, Authorize(a)
      PROVE  Spent(u)'
  <2>1. CASE UserOf[a] = u
    BY <1>1, <2>1, AdmissionSpends
  <2>2. CASE UserOf[a] # u
    <3>1. \A b \in Asked(u) : /\ hold'[b] = hold[b] /\ given'[b] = given[b]
                              /\ bill'[b] = bill[b]
      BY <1>1, <2>2 DEF Authorize, Asked, IInv, Types
    <3>2. \A b \in Asked(u) : Share(b)' = Share(b)
      BY <3>1 DEF Share, Smaller
    <3>3. \A j \in Drawn(u) : Stake(j)' = Stake(j)
      BY <1>1 DEF Authorize, images, Stake
    <3>4. /\ \A b \in Asked(u) : Share(b)' <= Share(b)
          /\ \A j \in Drawn(u) : Stake(j)' <= Stake(j)
      BY <3>2, <3>3, SharesCounted DEF Asked, Drawn
    <3> QED
      BY <1>0, <3>4, FallSpends
  <2> QED
    BY <2>1, <2>2
<1>2. CASE ~ \E a \in Answer : Authorize(a)
  <2>1. \A b \in Asked(u) : Share(b)' <= Share(b)
    BY <1>2, AllFall, ShareFalls DEF Asked, ServedInTime
  <2>2. ASSUME NEW i \in Image, Reserve(i)
        PROVE  Spent(u)'
    <3>1. CASE DrawnFor[i] = u
      BY <2>2, <3>1, ReservationSpends
    <3>2. CASE DrawnFor[i] # u
      <4>1. /\ stake \in [Image -> {0, Price}] /\ paid \in [Image -> {0, Price}]
            /\ Price \in Nat
        BY Numbers DEF IInv, Types
      <4>2. \A j \in Drawn(u) : stake'[j] = FreshStakes[j] /\ paid'[j] = paid[j]
        BY <2>2, <3>2 DEF Reserve, FreshStakes, Drawn
      <4>3. \A j \in Drawn(u) : stake'[j] \in {stake[j], 0} /\ j \in Image
        BY <4>2, PurgeSpares DEF Drawn
      <4>4. \A j \in Drawn(u) : Stake(j)' <= Stake(j)
        BY <4>1, <4>2, <4>3 DEF Stake
      <4> QED
        BY <1>0, <2>1, <4>4, FallSpends
    <3> QED
      BY <3>1, <3>2
  <2>3. CASE ~ \E i \in Image : Reserve(i)
    <3>1. \A j \in Drawn(u) : Stake(j)' <= Stake(j)
      BY <2>3, StakesFall DEF Drawn, ServedInTime
    <3> QED
      BY <1>0, <2>1, <3>1, FallSpends
  <2> QED
    BY <2>2, <2>3
<1> QED
  BY <1>1, <1>2

LEMMA SpentInit ==
    ASSUME Init
    PROVE  AllHeld /\ AllSpent
<1> USE CompletionAssumption
<1>1. AllHeld
  BY DEF Init, Zero, AllHeld, Granted, Covered, Reserved, Working, TimelyAnswers,
         TimelyImages
<1>2. ASSUME NEW u
      PROVE  Spent(u)
  <2>1. IsFiniteSet(Asked(u)) /\ IsFiniteSet(Drawn(u))
    BY FiniteRequests
  <2>2. /\ Shares(u) \in [Asked(u) -> Nat] /\ Stakes(u) \in [Drawn(u) -> Nat]
        /\ \A a \in Asked(u) : Shares(u)[a] = 0
        /\ \A i \in Drawn(u) : Stakes(u)[i] = 0
    BY DEF Init, Zero, Shares, Stakes, Asked, Drawn, Share, Stake
  <2>3. SumFunction(Shares(u)) = 0 /\ SumFunction(Stakes(u)) = 0
    BY <2>1, <2>2, SumZero
  <2> QED
    BY <2>3 DEF Spent
<1> QED
  BY <1>1, <1>2 DEF AllSpent

(* Requests of an account that run at the same time never spend the same    *)
(* tokens (completions._authorize, _settle, images._reserve, _Heartbeat),   *)
(* for any number of answers, images and processes, if timely processes     *)
(* serve them.  That is needed: the purge takes the hold of a process that  *)
(* does not renew, and what it held for can be granted again.               *)
THEOREM AccountsSpendOnce ==
    Spec => [](\A u \in Account \ Unmetered : ServedInTime(u) => Spent(u))
<1>1. Init => AllHeld /\ AllSpent
  BY SpentInit
<1>2. IInv /\ IInv' /\ AllHeld /\ AllSpent /\ [Next]_vars => AllHeld' /\ AllSpent'
  <2>1. ASSUME IInv, AllHeld, [Next]_vars PROVE AllHeld'
    BY <2>1, AnswersHeld, ImagesHeld DEF AllHeld, TimelyAnswers, TimelyImages
  <2> QED
    BY <2>1, SpentStep
<1>3. Spec => []AllSpent
  BY <1>1, <1>2, IInvAlways, PTL DEF Spec
<1> QED
  BY <1>3 DEF AllSpent

(* Where all processes are timely that is so for every account.             *)
THEOREM TokensAreSpentOnce ==
    ASSUME Proc \subseteq Timely
    PROVE  Spec => []TokensSpentOnce
<1>1. ASSUME NEW u
      PROVE  ServedInTime(u)
  BY CompletionAssumption DEF ServedInTime, Asked, Drawn, TimelyAnswers, TimelyImages
<1>2. (\A u \in Account \ Unmetered : ServedInTime(u) => Spent(u)) => TokensSpentOnce
  BY <1>1 DEF Spent, TokensSpentOnce, Shares, Stakes, Asked, Drawn
<1> QED
  BY <1>2, AccountsSpendOnce, PTL
=============================================================================
