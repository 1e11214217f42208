-------------------------- MODULE CompletionLeases --------------------------
(***************************************************************************)
(* API and playground answers (services/completions.py): the allowance an   *)
(* answer holds while it runs (image_credit_reservations), the lease that   *)
(* records from its first model on what it would be charged if it ended now *)
(* (completion_leases, db/runs.py), the watches with which the supervisor   *)
(* of the process renews both, the hand-over of an exiting process, and the *)
(* jobs that recover leases and purge holds of processes that died.  Image  *)
(* generations (services/images.py) reserve their price in the same table:  *)
(* a thread of the request keeps the reservation fresh until it is charged. *)
(*                                                                          *)
(* Usage and allowance are counted in the same units.  Time is counted in   *)
(* ticks, ages are capped one tick after they lapse.                        *)
(***************************************************************************)
EXTENDS Naturals, Sequences, FiniteSets, Functions

CONSTANTS
    Answer,     \* requests for text
    Image,      \* requests for an image
    Proc,       \* worker processes
    Account,
    ProcOf,     \* [Answer -> Proc]
    UserOf,     \* [Answer -> Account]
    DrawnOn,    \* [Image -> Proc]
    DrawnFor,   \* [Image -> Account]
    Loads,      \* the sets of requests that may come, answers and images
    Barrable,   \* accounts that administrators may act on
    Unmetered,  \* accounts whose requests hold no allowance
    Budget,     \* allowance of an account
    Want,       \* prompt and longest output of a request
    Price,      \* image_tokens_per_generation
    Lease,      \* LEASE_SECONDS
    RenewEvery, \* a live process renews its leases at least this often
    HoldTtl,    \* image_credit_reservation_ttl
    BeatEvery,  \* image_credit_reservation_heartbeat
    Timely      \* the processes that keep to RenewEvery and BeatEvery

ASSUME CompletionAssumption ==
    /\ IsFiniteSet(Answer) /\ IsFiniteSet(Image)
    /\ ProcOf \in [Answer -> Proc]
    /\ UserOf \in [Answer -> Account]
    /\ DrawnOn \in [Image -> Proc] /\ DrawnFor \in [Image -> Account]
    /\ Loads \subseteq SUBSET (Answer \cup Image)
    /\ Unmetered \subseteq Account /\ Barrable \subseteq Account
    /\ Budget \in Nat /\ Want \in Nat \ {0}
    /\ Price \in Nat \ {0}
    /\ Lease \in Nat /\ RenewEvery \in Nat /\ HoldTtl \in Nat
    /\ BeatEvery \in Nat /\ BeatEvery < HoldTtl   \* config.py: at most a third
    /\ RenewEvery <= Lease             \* supervisor.LEASE_INTERVAL, runs.LEASE_SECONDS
    /\ RenewEvery + Lease < HoldTtl    \* config.py: at least 360 s
    /\ Timely \subseteq Proc

VARIABLES
    pc,       \* [Answer -> control state of _generate]
    cancel,   \* [Answer -> CancelToken.reason, "none" when not cancelled]
    produced, \* [Answer -> 0..Want]
    settled,  \* answers with _settled
    mine,     \* answers whose process knows their hold (_hold)
    watched,  \* lease watches registered with the supervisors
    round,    \* watches a supervisor has listed and goes on to check
    since,    \* [Proc -> Nat]: time since the supervisor listed its watches
    live,     \* processes that run
    draining, \* processes in completions.shutdown after the grace period
    opened,   \* answers that opened a lease (_lease)
    lease,    \* rows of completion_leases
    age,      \* [Answer -> 0..Lease+1]: time since heartbeat_at
    saved,    \* [Answer -> 0..Want]: tokens_in, tokens_out
    hold,     \* [Answer -> 0..Want]: credits_reserved, 0 when there is no row
    held,     \* [Answer -> 0..HoldTtl+1]: time since updated_at
    given,    \* [Answer -> 0..Want]: what admission last granted
    barred,   \* accounts that are suspended or revoked the token
    told,     \* answers reported as completed
    bill,     \* [Answer -> Seq(Nat)]: outcomes committed, with what they charged
    draw,     \* [Image -> control state of ImageJob._run]
    stake,    \* [Image -> {0, Price}]: credits_reserved, 0 when there is no row
    worn,     \* [Image -> 0..HoldTtl+1]: time since updated_at
    woke,     \* [Image -> Nat]: time since its heartbeat thread woke
    paid      \* [Image -> {0, Price}]: what the ledger charged for it

thread == <<pc, cancel, produced, settled, mine, told>>
supers == <<watched, round, since>>
procs  == <<live, draining>>
leases == <<opened, lease, age, saved>>
holds  == <<hold, held, given>>
images == <<draw, stake, worn, woke, paid>>
answers == <<thread, supers, leases, hold, given, bill>>
vars   == <<thread, supers, procs, leases, holds, barred, bill, images>>

(* "queued" until admitted, "admitted" until the model starts; "failing"    *)
(* when a fallback was refused; "over" when the outcome was attempted.      *)
Active  == {"queued", "admitted", "running", "failing", "over"}

TypeOK ==
    /\ pc \in [Answer -> Active \cup {"ended"}]
    /\ cancel \in [Answer -> {"none", "barred", "lease_lost", "shutdown"}]
    /\ produced \in [Answer -> 0..Want]
    /\ settled \subseteq Answer /\ mine \subseteq Answer /\ told \subseteq Answer
    /\ watched \subseteq Answer /\ round \subseteq Answer
    /\ since \in [Proc -> 0..Lease+1]
    /\ live \subseteq Proc /\ draining \subseteq Proc
    /\ opened \subseteq Answer /\ lease \subseteq Answer
    /\ age \in [Answer -> 0..Lease+1]
    /\ saved \in [Answer -> 0..Want]
    /\ hold \in [Answer -> 0..Want]
    /\ held \in [Answer -> 0..HoldTtl+1]
    /\ given \in [Answer -> 0..Want]
    /\ barred \subseteq Account
    /\ bill \in [Answer -> Seq(Nat)]
    /\ draw \in [Image -> {"new", "waiting", "drawing", "ended"}]
    /\ stake \in [Image -> {0, Price}] /\ paid \in [Image -> {0, Price}]
    /\ worn \in [Image -> 0..HoldTtl+1] /\ woke \in [Image -> Nat]

Zero == [a \in Answer |-> 0]

Init ==
    /\ \E came \in Loads :
          /\ pc = [a \in Answer |-> IF a \in came THEN "queued" ELSE "ended"]
          /\ draw = [i \in Image |-> IF i \in came THEN "new" ELSE "ended"]
    /\ cancel = [a \in Answer |-> "none"]
    /\ produced = Zero /\ age = Zero /\ saved = Zero
    /\ hold = Zero /\ held = Zero /\ given = Zero
    /\ settled = {} /\ mine = {} /\ told = {}
    /\ watched = {} /\ round = {}
    /\ since = [p \in Proc |-> 0]
    /\ live = Proc /\ draining = {}
    /\ opened = {} /\ lease = {}
    /\ barred = {}
    /\ bill = [a \in Answer |-> <<>>]
    /\ stake = [i \in Image |-> 0] /\ paid = [i \in Image |-> 0]
    /\ worn = [i \in Image |-> 0] /\ woke = [i \in Image |-> 0]
-----------------------------------------------------------------------------
(* Helpers.                                                                 *)

Of(p) == {a \in Answer : ProcOf[a] = p}

At(a, states) == pc[a] \in states /\ ProcOf[a] \in live

Later(t, cap) == IF t <= cap THEN t + 1 ELSE t

Smaller(m, n) == IF m <= n THEN m ELSE n

(* CancelToken.cancel: the first reason stays.                              *)
Cancelled(A, why) == [a \in Answer |-> IF a \in A /\ cancel[a] = "none"
                                       THEN why ELSE cancel[a]]

(* Allowance that account u has used: what it was charged, and the rows of  *)
(* image_credit_reservations, which are those of rows and stakes.           *)
Used(u, rows, stakes) ==
    LET charge == [a \in Answer |-> IF bill[a] = <<>> THEN 0 ELSE Head(bill[a])]
        asked  == {a \in Answer : UserOf[a] = u}
    IN  SumFunction([a \in asked |-> charge[a] + rows[a]])
        + SumFunction([i \in {j \in Image : DrawnFor[j] = u} |-> paid[i] + stakes[i]])

Rest(used) == IF used \in 0..Budget THEN Budget - used ELSE 0

(* What is left for an answer; its own hold, when it is admitted again, is  *)
(* released first.                                                          *)
Left(a) == Rest(Used(UserOf[a], IF a \in mine THEN [hold EXCEPT ![a] = 0] ELSE hold,
                     stake))

ReleaseHold(a) == /\ hold' = IF a \in mine THEN [hold EXCEPT ![a] = 0] ELSE hold
                  /\ mine' = mine \ {a}

DropLeases(A) == /\ lease' = lease \ A
                 /\ age' = [a \in Answer |-> IF a \in A THEN 0 ELSE age[a]]
                 /\ saved' = [a \in Answer |-> IF a \in A THEN 0 ELSE saved[a]]

Charged(A, use) == [a \in Answer |-> IF a \in A \cap lease
                                     THEN Append(bill[a], use[a]) ELSE bill[a]]

Stale == {a \in lease : age[a] > Lease}
-----------------------------------------------------------------------------
(* Admission.                                                               *)

GrantWanted(a) == Want      \* mutant: not capped by what is left
GrantLeft(a)   == Left(a)   \* mutant: not capped by what the request can cost
Grant(a) == Smaller(Want, Left(a))

(* The first model, or the next one after a model that failed and showed    *)
(* nothing.                                                                 *)
AsksAdmission(a) ==
    \/ At(a, {"queued", "failing"})
    \/ At(a, {"running"}) /\ produced[a] = 0 /\ cancel[a] = "none"

(* _authorize and _take_hold, one transaction.                              *)
Authorize(a) ==
    LET metered == UserOf[a] \notin Unmetered IN
    /\ AsksAdmission(a)
    /\ UserOf[a] \notin barred /\ (metered => Left(a) > 0)
    /\ pc' = [pc EXCEPT ![a] = "admitted"]
    /\ IF metered
       THEN /\ hold' = [hold EXCEPT ![a] = Grant(a)]
            /\ held' = [held EXCEPT ![a] = 0]
            /\ given' = [given EXCEPT ![a] = Grant(a)]
            /\ mine' = mine \cup {a}
       ELSE UNCHANGED <<hold, held, given, mine>>
    /\ UNCHANGED <<cancel, produced, settled, told, supers, procs, leases, barred,
                   bill, images>>

(* A refused first model ends the request; a refused fallback leaves it     *)
(* without a model, and without its hold unless it was barred.              *)
Refuse(a) ==
    /\ AsksAdmission(a)
    /\ \/ UserOf[a] \in barred /\ UNCHANGED <<hold, mine>>
       \/ /\ UserOf[a] \notin barred /\ UserOf[a] \notin Unmetered /\ Left(a) = 0
          /\ ReleaseHold(a)
    /\ pc' = [pc EXCEPT ![a] = IF @ = "queued" THEN "over" ELSE "failing"]
    /\ settled' = IF pc[a] = "queued" THEN settled \cup {a} ELSE settled
    /\ UNCHANGED <<cancel, produced, told, supers, procs, leases, held, given,
                   barred, bill, images>>

(* inference.Started: the first one opens the lease and its watch.          *)
Open(a) ==
    /\ At(a, {"admitted"})
    /\ IF a \in opened
       THEN UNCHANGED <<leases, watched>>
       ELSE /\ opened' = opened \cup {a} /\ lease' = lease \cup {a}
            /\ watched' = watched \cup {a}
            /\ UNCHANGED <<age, saved>>
    /\ pc' = [pc EXCEPT ![a] = "running"]
    /\ UNCHANGED <<cancel, produced, settled, mine, told, round, since, procs,
                   holds,
                   barred, bill, images>>

(* The lease cannot be stored, or the request ends before a model starts:   *)
(* nothing is charged.                                                      *)
GiveUp(a) ==
    /\ At(a, {"queued", "admitted"}) /\ a \notin opened
    /\ pc' = [pc EXCEPT ![a] = "over"]
    /\ settled' = settled \cup {a}
    /\ UNCHANGED <<cancel, produced, mine, told, supers, procs, leases, holds,
                   barred, bill, images>>
-----------------------------------------------------------------------------
(* The answer.                                                              *)

Produce(a) ==
    /\ At(a, {"running"}) /\ produced[a] < Want
    /\ produced' = [produced EXCEPT ![a] = @ + 1]
    /\ UNCHANGED <<pc, cancel, settled, mine, told, supers, procs, leases, holds,
                   barred, bill, images>>

SettleTwice(a) ==   \* mutant: does not look at what close_completion returned
    /\ ReleaseHold(a)
    /\ DropLeases({a})
    /\ bill' = [bill EXCEPT ![a] = Append(@, produced[a])]

(* _settle: hold, lease and charge in one transaction.  Without its lease   *)
(* the answer was charged by recovery.                                      *)
Settle(a) ==
    /\ ReleaseHold(a)
    /\ DropLeases({a})
    /\ bill' = Charged({a}, produced)

(* Finished, or interrupted: cancelled, past its deadline, its client gone  *)
(* or too slow (event_pump).  That can be at any time.                      *)
Finish(a, completed) ==
    /\ At(a, {"running"}) \/ (At(a, {"admitted", "failing"}) /\ ~completed)
    /\ a \in opened
    /\ Settle(a)
    /\ pc' = [pc EXCEPT ![a] = "over"]
    /\ settled' = settled \cup {a}
    /\ told' = IF completed THEN told \cup {a} ELSE told
    /\ UNCHANGED <<cancel, produced, supers, procs, opened, held, given, barred,
                   images>>

FinishFailsTold(a) ==   \* mutant: the failure is only logged
    /\ At(a, {"running", "failing"}) /\ a \in opened
    /\ mine' = mine \ {a}
    /\ pc' = [pc EXCEPT ![a] = "over"]
    /\ told' = told \cup {a}
    /\ UNCHANGED <<cancel, produced, settled, supers, procs, leases, holds, barred,
                   bill, images>>

(* The transaction fails: the hold is forgotten, the lease left to recovery *)
(* and the client told of a failure.                                        *)
FinishFails(a) ==
    /\ At(a, {"admitted", "running", "failing"}) /\ a \in opened
    /\ mine' = mine \ {a}
    /\ pc' = [pc EXCEPT ![a] = "over"]
    /\ UNCHANGED <<cancel, produced, settled, told, supers, procs, leases, holds,
                   barred, bill, images>>

UnwatchNever(a) == UNCHANGED watched   \* mutant
Unwatch(a) == watched' = watched \ {a}

(* _release; the hold of an answer that never started may stay behind.      *)
Release(a) ==
    /\ At(a, {"over"})
    /\ Unwatch(a)
    /\ ReleaseHold(a) \/ (mine' = mine \ {a} /\ UNCHANGED hold)
    /\ pc' = [pc EXCEPT ![a] = "ended"]
    /\ UNCHANGED <<cancel, produced, settled, told, round, since, procs, leases,
                   held,
                   given, barred, bill, images>>
-----------------------------------------------------------------------------
(* The supervisor of a process lists its watches, touches the holds and     *)
(* checks the leases one by one.  A timely process completes its rounds and *)
(* has no failing checks.                                                   *)

TouchedEver(p) == Of(p)   \* mutant: the watch of a hold is never unregistered
Touched(p) == mine \cap Of(p)

Supervise(p) ==
    /\ p \in live
    /\ p \in Timely => since[p] > 0 /\ round \cap Of(p) = {}
    /\ round' = (round \ Of(p)) \cup (watched \cap Of(p))
    /\ since' = [since EXCEPT ![p] = 0]
    /\ held' = [a \in Answer |-> IF a \in Touched(p) THEN 0 ELSE held[a]]
    /\ UNCHANGED <<thread, watched, procs, leases, hold, given, barred, bill,
                   images>>

CheckLease(a) ==   \* mutant: does not look at the account and the token
    /\ a \in round
    /\ round' = round \ {a}
    /\ \/ a \in settled /\ UNCHANGED <<cancel, age, saved>>
       \/ /\ a \in lease \ settled
          /\ age' = [age EXCEPT ![a] = 0]
          /\ saved' = [saved EXCEPT ![a] = produced[a]]
          /\ UNCHANGED cancel
       \/ /\ a \notin lease \cup settled
          /\ cancel' = Cancelled({a}, "lease_lost")
          /\ UNCHANGED <<age, saved>>
    /\ UNCHANGED <<pc, produced, settled, mine, told, watched, since, procs, opened,
                   lease, holds, barred, bill, images>>

(* CompletionRun._checkpoint.                                               *)
Check(a) ==
    /\ a \in round
    /\ round' = round \ {a}
    /\ \/ a \in settled /\ UNCHANGED <<cancel, age, saved>>
       \/ /\ a \notin settled /\ UserOf[a] \in barred
          /\ cancel' = Cancelled({a}, "barred")
          /\ UNCHANGED <<age, saved>>
       \/ /\ a \notin settled /\ UserOf[a] \notin barred /\ a \in lease
          /\ age' = [age EXCEPT ![a] = 0]
          /\ saved' = [saved EXCEPT ![a] = produced[a]]
          /\ UNCHANGED cancel
       \/ /\ a \notin settled /\ UserOf[a] \notin barred /\ a \notin lease
          /\ cancel' = Cancelled({a}, "lease_lost")
          /\ UNCHANGED <<age, saved>>
    /\ UNCHANGED <<pc, produced, settled, mine, told, watched, since, procs, opened,
                   lease, holds, barred, bill, images>>
-----------------------------------------------------------------------------
(* The background jobs of the process that leads.                           *)

RecoverAll(A) ==   \* mutant: also leases that their process renews
    /\ A # {} /\ A \subseteq lease
    /\ bill' = Charged(A, saved)
    /\ DropLeases(A)
    /\ UNCHANGED <<thread, supers, procs, opened, holds, barred, images>>

(* recover_completions, LIMIT 200.                                          *)
Recover(A) ==
    /\ A # {} /\ A \subseteq Stale
    /\ bill' = Charged(A, saved)
    /\ DropLeases(A)
    /\ UNCHANGED <<thread, supers, procs, opened, holds, barred, images>>

(* What is left of the reservations without those that lapsed.              *)
FreshHolds  == [a \in Answer |-> IF held[a] > HoldTtl THEN 0 ELSE hold[a]]
FreshStakes == [i \in Image |-> IF worn[i] > HoldTtl THEN 0 ELSE stake[i]]

(* purge_expired_reservations.                                              *)
Purge ==
    /\ FreshHolds # hold \/ FreshStakes # stake
    /\ hold' = FreshHolds /\ stake' = FreshStakes
    /\ UNCHANGED <<thread, supers, procs, leases, held, given, barred, bill, draw, worn,
                   woke, paid>>
-----------------------------------------------------------------------------
(* Images.  Those that wait or are drawn keep their reservation fresh.      *)

DrawAt(i, states) == draw[i] \in states /\ DrawnOn[i] \in live

(* reserve_image: one transaction, which drops what lapsed first.           *)
Reserve(i) ==
    LET metered == DrawnFor[i] \notin Unmetered IN
    /\ DrawAt(i, {"new"})
    /\ metered => Used(DrawnFor[i], FreshHolds, FreshStakes) + Price <= Budget
    /\ draw' = [draw EXCEPT ![i] = "waiting"]
    /\ hold' = FreshHolds
    /\ stake' = IF metered THEN [FreshStakes EXCEPT ![i] = Price] ELSE FreshStakes
    /\ worn' = [worn EXCEPT ![i] = 0] /\ woke' = [woke EXCEPT ![i] = 0]
    /\ UNCHANGED <<thread, supers, procs, leases, held, given, barred, bill, paid>>

(* _authorize, once the request has left the queue.                         *)
Draw(i) ==
    /\ DrawAt(i, {"waiting"}) /\ DrawnFor[i] \notin barred
    /\ draw' = [draw EXCEPT ![i] = "drawing"]
    /\ UNCHANGED <<answers, procs, held, barred, stake, worn, woke, paid>>

BeatOnly(i) ==   \* mutant: the thread wakes, its row stays as it is
    /\ DrawAt(i, {"waiting", "drawing"}) /\ stake[i] > 0
    /\ woke' = [woke EXCEPT ![i] = 0]
    /\ UNCHANGED <<answers, procs, held, barred, draw, stake, worn, paid>>

(* _Heartbeat: the thread ends when the row is gone.                        *)
Beat(i) ==
    /\ DrawAt(i, {"waiting", "drawing"}) /\ stake[i] > 0 /\ woke[i] > 0
    /\ woke' = [woke EXCEPT ![i] = 0] /\ worn' = [worn EXCEPT ![i] = 0]
    /\ UNCHANGED <<answers, procs, held, barred, draw, stake, paid>>

(* charge_image: an image is charged also when its reservation is gone.     *)
Deliver(i) ==
    /\ DrawAt(i, {"drawing"})
    /\ draw' = [draw EXCEPT ![i] = "ended"]
    /\ stake' = [stake EXCEPT ![i] = 0]
    /\ paid' = [paid EXCEPT ![i] = Price]
    /\ UNCHANGED <<answers, procs, held, barred, worn, woke>>

(* Refused, cancelled, failed, or its charge was not stored, which can be   *)
(* at any time.  The refund can fail too.                                   *)
FailImage(i) ==
    /\ DrawAt(i, {"new", "waiting", "drawing"})
    /\ draw' = [draw EXCEPT ![i] = "ended"]
    /\ stake' \in {stake, [stake EXCEPT ![i] = 0]}
    /\ UNCHANGED <<answers, procs, held, barred, worn, woke, paid>>
-----------------------------------------------------------------------------
(* Administrators, users and processes.                                     *)

(* An account is suspended or its token revoked; a suspension can end.      *)
Bar(u) ==
    /\ barred' = IF u \in barred THEN barred \ {u} ELSE barred \cup {u}
    /\ UNCHANGED <<thread, supers, procs, leases, holds, bill, images>>

(* completions.shutdown after the grace period.  Of the requests that are   *)
(* queued here some have not arrived yet and are not seen.                  *)
Shutdown(p) ==
    /\ p \in live \ draining
    /\ draining' = draining \cup {p}
    /\ \E late \in SUBSET {a \in Answer : pc[a] = "queued"} :
          cancel' = Cancelled({a \in Of(p) \ late : pc[a] \in Active}, "shutdown")
    /\ UNCHANGED <<pc, produced, settled, mine, told, supers, live, leases, holds,
                   barred, bill, images>>

(* CompletionRun.abandon; expire_completion can fail.                       *)
Abandon(a) ==
    /\ At(a, Active) /\ ProcOf[a] \in draining /\ a \in opened
    /\ Unwatch(a)
    /\ age' \in {age, [age EXCEPT ![a] = IF a \in lease THEN Lease + 1 ELSE @]}
    /\ UNCHANGED <<thread, round, since, procs, opened, lease, saved, holds,
                   barred, bill, images>>

(* The process is gone, after its shutdown or by a crash.                   *)
Exit(p) ==
    /\ p \in live
    /\ live' = live \ {p} /\ draining' = draining \ {p}
    /\ pc' = [a \in Answer |-> IF a \in Of(p) THEN "ended" ELSE pc[a]]
    /\ cancel' = [a \in Answer |-> IF a \in Of(p) THEN "none" ELSE cancel[a]]
    /\ mine' = mine \ Of(p)
    /\ watched' = watched \ Of(p) /\ round' = round \ Of(p)
    /\ since' = [since EXCEPT ![p] = 0]
    /\ draw' = [i \in Image |-> IF DrawnOn[i] = p THEN "ended" ELSE draw[i]]
    /\ UNCHANGED <<produced, settled, told, leases, holds, barred, bill, stake, worn,
                   woke, paid>>

(* Time passes.  A timely process completes its rounds, begins the next one *)
(* within RenewEvery, keeps its images' reservations fresh and releases     *)
(* what is over; the leader recovers a lapsed lease within a tick.          *)
Tick ==
    /\ \A p \in live \cap Timely :
          /\ since[p] < RenewEvery /\ round \cap Of(p) = {}
          /\ \A a \in Of(p) : pc[a] # "over"
          /\ \A i \in Image : (DrawnOn[i] = p /\ draw[i] # "ended" /\ stake[i] > 0)
                              => woke[i] < BeatEvery
    /\ Stale = {}
    /\ age' = [a \in Answer |-> IF a \in lease THEN Later(age[a], Lease) ELSE age[a]]
    /\ held' = [a \in Answer |-> IF hold[a] > 0 THEN Later(held[a], HoldTtl) ELSE held[a]]
    /\ worn' = [i \in Image |-> IF stake[i] > 0 THEN Later(worn[i], HoldTtl) ELSE worn[i]]
    /\ woke' = [i \in Image |-> IF draw[i] # "ended" /\ stake[i] > 0
                                THEN Later(woke[i], BeatEvery) ELSE woke[i]]
    /\ since' = [p \in Proc |-> IF p \in live \cap Timely THEN Later(since[p], Lease)
                                                          ELSE since[p]]
    /\ UNCHANGED <<thread, watched, round, procs, opened, lease, saved, hold, given,
                   barred, bill, draw, stake, paid>>

Next ==
    \/ \E a \in Answer : Authorize(a)
    \/ \E a \in Answer : Refuse(a)
    \/ \E a \in Answer : Open(a)
    \/ \E a \in Answer : GiveUp(a)
    \/ \E a \in Answer : Produce(a)
    \/ \E a \in Answer, completed \in BOOLEAN : Finish(a, completed)
    \/ \E a \in Answer : FinishFails(a)
    \/ \E a \in Answer : Release(a)
    \/ \E p \in Proc : Supervise(p)
    \/ \E a \in Answer : Check(a)
    \/ \E A \in SUBSET Answer : Recover(A)
    \/ Purge
    \/ \E i \in Image : Reserve(i) \/ Draw(i) \/ Beat(i) \/ Deliver(i) \/ FailImage(i)
    \/ \E u \in Barrable : Bar(u)
    \/ \E p \in Proc : Shutdown(p)
    \/ \E a \in Answer : Abandon(a)
    \/ \E p \in Proc : Exit(p)
    \/ Tick

Spec == Init /\ [][Next]_vars

(* The supervisors, the heartbeats, the jobs and the clock go on, and what  *)
(* is over is released.  No answer or image has to end: a backend may hang  *)
(* for ever.                                                                *)
Fairness ==
    /\ \A a \in Answer : WF_vars(Release(a)) /\ WF_vars(Check(a)) /\ WF_vars(Recover({a}))
    /\ \A p \in Proc : WF_vars(Supervise(p))
    /\ \A i \in Image : WF_vars(Beat(i))
    /\ WF_vars(Purge) /\ WF_vars(Tick)

FairSpec == Spec /\ Fairness
-----------------------------------------------------------------------------
(* Properties.                                                              *)

(* What of the allowance an answer takes: its hold, then its charge as far  *)
(* as it was held.                                                          *)
Share(a) == IF hold[a] > 0 THEN hold[a]
            ELSE IF bill[a] # <<>> THEN Smaller(Head(bill[a]), given[a]) ELSE 0

(* ... and what an image takes: its reservation, then its charge.           *)
Stake(i) == IF stake[i] > 0 THEN stake[i] ELSE paid[i]

(* Answers and images of an account that run at the same time never spend   *)
(* the same tokens, whatever falls back, is drawn for long, fails to settle *)
(* or crashes: a charge takes over from its hold without a gap              *)
(* (completions._authorize, _settle, images._reserve, _Heartbeat).          *)
TokensSpentOnce ==
    \A u \in Account \ Unmetered :
        SumFunction([a \in {b \in Answer : UserOf[b] = u} |-> Share(a)])
        + SumFunction([i \in {j \in Image : DrawnFor[j] = u} |-> Stake(i)]) <= Budget

(* An answer is reported as completed only when its usage is stored, by     *)
(* itself or by recovery ("never an uncharged success").                    *)
SuccessIsCharged == \A a \in told : bill[a] # <<>>

(* Nobody recovers an answer that a timely process works on before it is    *)
(* cancelled, unless the process hands its answers over: also not when its  *)
(* account was barred and reinstated meanwhile.                             *)
LeaseKept ==
    \A a \in Answer :
        (/\ pc[a] = "running" /\ cancel[a] = "none"
         /\ ProcOf[a] \in Timely \ draining)
        => a \in lease /\ age[a] <= Lease

(* An answer is cancelled once its account is suspended or its token        *)
(* revoked, also when it runs for ever (unless its process is exiting).     *)
BarredIsStopped ==
    \A a \in Answer :
        (UserOf[a] \in barred /\ pc[a] = "running")
        ~> (\/ cancel[a] # "none" \/ pc[a] # "running"
            \/ UserOf[a] \notin barred \/ ProcOf[a] \in draining)

(* What crashes and failed transactions leave behind is recovered, and does *)
(* not take allowance for ever.                                             *)
LeftoversRecovered ==
    \A a \in Answer : (pc[a] = "ended" /\ a \in lease) ~> a \notin lease
HoldsEnd ==
    /\ \A a \in Answer : (pc[a] = "ended" /\ hold[a] > 0) ~> hold[a] = 0
    /\ \A i \in Image : (draw[i] = "ended" /\ stake[i] > 0) ~> stake[i] = 0
-----------------------------------------------------------------------------
AB == INSTANCE AnswerBilling
        WITH used   <- produced,
             open   <- lease,
             closed <- opened \ lease

(* API answers keep the promise of AnswerBilling.                           *)
ImplementsAnswerBilling == AB!Spec
=============================================================================
