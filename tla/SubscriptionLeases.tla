------------------------- MODULE SubscriptionLeases -------------------------
(***************************************************************************)
(* Requests that are answered through pooled subscription accounts          *)
(* (services/subscription_pool.py, db/subscription_pool.py): the exclusive  *)
(* lease on an account, its renewal by the supervisor of the process that   *)
(* serves the request, retries on other accounts, rests, quarantine and the *)
(* usage ledger; with the reporter of quotas and the administrator who      *)
(* disables, enables and removes accounts.                                  *)
(*                                                                          *)
(* A request tries an account at most once, so <<request, account>> stands  *)
(* for a lease id.  Time is counted in ticks; ages stop one past the lease. *)
(***************************************************************************)
EXTENDS Naturals, Sequences, FiniteSets

CONSTANTS
    Request, Account, Person,
    PersonOf,    \* [Request -> Person]
    Allowed,     \* [Request -> SUBSET Account]: a chosen account, or the pool's
    Pieces,      \* records of text in a whole answer
    Lease,       \* LEASE_SECONDS
    RenewEvery,  \* the supervisor of a timely process renews this often
    Cooldown,    \* COOLDOWN_ERROR, and the rest after an exhausted quota
    Timely,      \* requests whose process keeps to RenewEvery
    Governed,    \* accounts that administrators and reports may change
    NoRequest, NoAccount

ASSUME SubscriptionAssumption ==
    /\ PersonOf \in [Request -> Person]
    /\ Allowed \in [Request -> SUBSET Account]
    /\ Pieces \in Nat \ {0}
    /\ Lease \in Nat /\ RenewEvery \in Nat /\ RenewEvery <= Lease
    /\ Cooldown \in Nat \ {0}
    /\ Timely \subseteq Request /\ Governed \subseteq Account
    /\ NoRequest \notin Request /\ NoAccount \notin Account

VARIABLES
    status,   \* [Account -> subscription_accounts.status, "none" once removed]
    cool,     \* [Account -> ticks until cooldown_until]
    rester,   \* [Account -> the request whose failure rests it]
    lease,    \* [Account -> the request of its row in .._account_leases]
    age,      \* [Account -> time since that row was renewed]
    mark,     \* [Person -> ticks until another failure may rest an account]
    ledger,   \* subscription_usage: pairs of request and account
    stray,    \* attempts that ended and whose process may still run
    pc,       \* [Request -> control state of chat_stream]
    cur,      \* [Request -> the account of its attempt]
    tried,    \* [Request -> SUBSET Account]
    stage,    \* [Request -> how far the adapter's stream is]
    out,      \* [Request -> what the reader was shown]
    spent,    \* attempts that used allowance (produced or interrupted)
    settled,  \* requests whose attempt is settled
    rested,   \* requests with rested_for_failure
    told,     \* requests whose cancel token is set
    verdict,  \* [Request -> how the attempt ends]
    res,      \* [Request -> what the reader was told]
    since     \* [Request -> time since its supervisor came by]

pool == <<status, cool, rester, lease, age, mark, ledger>>
attempt == <<cur, tried, stage, spent, settled, rested, verdict>>
vars == <<status, cool, rester, lease, age, mark, ledger, stray, pc, cur, tried,
          stage, out, spent, settled, rested, told, verdict, res, since>>

(* The supervisor watches a request from Claim until Release.               *)
Holding == {"talk", "failing", "resting", "close", "release"}
Control == Holding \cup {"new", "over", "dead"}

TypeOK ==
    /\ status \in [Account -> {"active", "disabled", "error", "none"}]
    /\ cool \in [Account -> 0..Cooldown]
    /\ rester \in [Account -> Request \cup {NoRequest}]
    /\ lease \in [Account -> Request \cup {NoRequest}]
    /\ age \in [Account -> 0..(Lease + 1)]
    /\ mark \in [Person -> 0..Cooldown]
    /\ ledger \subseteq Request \X Account
    /\ stray \subseteq Request \X Account
    /\ pc \in [Request -> Control]
    /\ cur \in [Request -> Account \cup {NoAccount}]
    /\ \A r \in Request : pc[r] \in Holding => cur[r] \in Account
    /\ tried \in [Request -> SUBSET Account]
    /\ stage \in [Request -> {"open", "begun", "ended"}]
    /\ out \in [Request -> Seq([att : Request \X Account, seq : Nat])]
    /\ spent \subseteq Request \X Account /\ settled \subseteq Request
    /\ rested \subseteq Request /\ told \subseteq Request
    /\ verdict \in [Request -> {"none", "retry", "done", "error", "cancelled"}]
    /\ res \in [Request -> {"open", "done", "error", "cancelled"}]
    /\ since \in [Request -> Nat]

Init ==
    /\ status = [a \in Account |-> "active"]
    /\ cool = [a \in Account |-> 0]
    /\ rester = [a \in Account |-> NoRequest]
    /\ lease = [a \in Account |-> NoRequest]
    /\ age = [a \in Account |-> 0]
    /\ mark = [u \in Person |-> 0]
    /\ ledger = {} /\ stray = {}
    /\ pc = [r \in Request |-> "new"]
    /\ cur = [r \in Request |-> NoAccount]
    /\ tried = [r \in Request |-> {}]
    /\ stage = [r \in Request |-> "ended"]
    /\ out = [r \in Request |-> <<>>]
    /\ spent = {} /\ settled = {} /\ rested = {} /\ told = {}
    /\ verdict = [r \in Request |-> "none"]
    /\ res = [r \in Request |-> "open"]
    /\ since = [r \in Request |-> 0]
-----------------------------------------------------------------------------
(* db/subscription_pool.py                                                  *)

LeasedEver(a) == lease[a] # NoRequest   \* mutant: leases never lapse
LeasedShort(a) == lease[a] # NoRequest /\ age[a] < Lease   \* mutant: lapses early
Leased(a) == lease[a] # NoRequest /\ age[a] <= Lease

(* The row is this request's and has not lapsed.                            *)
Mine(r) == lease[cur[r]] = r /\ Leased(cur[r])

Owns(r) == Mine(r) /\ status[cur[r]] = "active"

(* usable, leased and the INSERT of claim, in one transaction.              *)
Claimable(r) ==
    {a \in Allowed[r] \ tried[r] : status[a] = "active" /\ cool[a] = 0 /\ ~Leased(a)}

(* A transport whose end is not certain takes its account out of service.   *)
Quarantine(r) ==
    /\ status' = [status EXCEPT ![cur[r]] = IF Mine(r) THEN "disabled" ELSE @]
    /\ UNCHANGED <<cool, rester>>

(* Put the account of r on cooldown, for the failure of request q or none.  *)
RestFor(r, q) ==
    /\ cool' = [cool EXCEPT ![cur[r]] = Cooldown]
    /\ rester' = [rester EXCEPT ![cur[r]] = q]
-----------------------------------------------------------------------------
(* _claim_waiting and the start of an attempt, up to the adapter's          *)
(* generator, which has not run yet.                                        *)

Claim(r) ==
    /\ pc[r] = "new" /\ r \notin told
    /\ \E a \in Claimable(r) :
         /\ lease' = [lease EXCEPT ![a] = r]
         /\ age' = [age EXCEPT ![a] = 0]
         /\ cur' = [cur EXCEPT ![r] = a]
         /\ tried' = [tried EXCEPT ![r] = @ \cup {a}]
    /\ pc' = [pc EXCEPT ![r] = "talk"]
    /\ stage' = [stage EXCEPT ![r] = "open"]
    /\ settled' = settled \ {r}
    /\ since' = [since EXCEPT ![r] = 0]
    /\ UNCHANGED <<status, cool, rester, mark, ledger, stray, spent, out, rested,
                   told, verdict, res>>

(* The thread is over and what it knew is gone.                             *)
Forget(r) ==
    /\ cur' = [cur EXCEPT ![r] = NoAccount]
    /\ tried' = [tried EXCEPT ![r] = {}]
    /\ settled' = settled \ {r} /\ rested' = rested \ {r}
    /\ verdict' = [verdict EXCEPT ![r] = "none"]
    /\ stage' = [stage EXCEPT ![r] = "ended"]
    /\ since' = [since EXCEPT ![r] = 0]

(* No account is left, or none became free in time; or cancelled meanwhile. *)
GiveUp(r) ==
    /\ pc[r] = "new"
    /\ r \in told \/ Claimable(r) = {}
    /\ pc' = [pc EXCEPT ![r] = "over"]
    /\ res' = [res EXCEPT ![r] = IF r \in told THEN "cancelled" ELSE "error"]
    /\ Forget(r)
    /\ UNCHANGED <<pool, spent, stray, out, told>>

(* The adapter starts the provider's process (cli_started).                 *)
Begin(r) ==
    /\ pc[r] = "talk" /\ r \notin told
    /\ stage[r] = "open" /\ stage' = [stage EXCEPT ![r] = "begun"]
    /\ UNCHANGED <<pool, cur, tried, spent, settled, rested, verdict, stray, pc,
                   out, told, res, since>>
-----------------------------------------------------------------------------
(* The records of the stream: require_active, observe, and yield.           *)

Try(r) == <<r, cur[r]>>

ShowsMore(r) ==
    /\ out' = [out EXCEPT ![r] = Append(@, [att |-> Try(r), seq |-> Len(@)])]
    /\ spent' = spent \cup {Try(r)}

Record(r) ==
    /\ pc[r] = "talk" /\ stage[r] = "begun" /\ r \notin told /\ Owns(r)
    /\ Len(out[r]) < Pieces - 1
    /\ ShowsMore(r)
    /\ UNCHANGED <<pool, cur, tried, stage, settled, rested, verdict, stray, pc,
                   told, res, since>>

(* The last record: usage is settled before the terminal record is yielded. *)
Final(r) ==
    /\ pc[r] = "talk" /\ stage[r] = "begun" /\ r \notin told /\ Owns(r)
    /\ Len(out[r]) = Pieces - 1
    /\ ShowsMore(r)
    /\ settled' = settled \cup {r}
    /\ ledger' = ledger \cup {Try(r)}
    /\ verdict' = [verdict EXCEPT ![r] = "done"]
    /\ res' = [res EXCEPT ![r] = "done"]
    /\ pc' = [pc EXCEPT ![r] = "close"]
    /\ UNCHANGED <<status, cool, rester, lease, age, mark, cur, tried, stage,
                   rested, stray, told, since>>

(* Its settlement fails: what was observed is not shown, and the failure is *)
(* handled like one of the adapter.                                         *)
FinalFails(r) ==
    /\ pc[r] = "talk" /\ stage[r] = "begun" /\ r \notin told /\ Owns(r)
    /\ Len(out[r]) = Pieces - 1
    /\ spent' = spent \cup {Try(r)}
    /\ pc' = [pc EXCEPT ![r] = "failing"]
    /\ UNCHANGED <<pool, cur, tried, stage, settled, rested, verdict, stray, out,
                   told, res, since>>
-----------------------------------------------------------------------------
(* The handlers of chat_stream.                                             *)

Ends(r, v) ==
    /\ verdict' = [verdict EXCEPT ![r] = v]
    /\ pc' = [pc EXCEPT ![r] = "close"]

(* Another account is tried only while nothing was shown.                   *)
RetryAnyway(r) == "retry"   \* mutant: also after output
Outcome(r) == IF Try(r) \in spent THEN "error" ELSE "retry"

(* The adapter raised while the request owns its account: its generator is  *)
(* over and closing it does nothing any more.                               *)
Raises(r) ==
    /\ pc[r] = "talk" /\ r \notin told /\ Owns(r)
    /\ stage' = [stage EXCEPT ![r] = "ended"]

(* RequestRejected: with usage when the provider had read the request.      *)
Reject(r) ==
    /\ Raises(r) /\ Ends(r, "error")
    /\ spent' \in {spent, IF stage[r] = "begun" THEN spent \cup {Try(r)} ELSE spent}
    /\ UNCHANGED <<pool, cur, tried, settled, rested, stray, out, told, res, since>>

AdmissionChanges(r) ==
    /\ Raises(r) /\ Ends(r, Outcome(r))
    /\ UNCHANGED <<pool, cur, tried, spent, settled, rested, stray, out, told, res,
                   since>>

(* QuotaExhausted: the account rests until the quota is back.               *)
Exhausted(r) ==
    /\ Raises(r) /\ Ends(r, Outcome(r))
    /\ RestFor(r, NoRequest)
    /\ UNCHANGED <<status, lease, age, mark, ledger, cur, tried, spent, settled,
                   rested, stray, out, told, res, since>>

(* Shutdown of the provider's process is not certain (requires_quarantine). *)
Uncertain(r) ==
    /\ stage[r] = "begun"
    /\ Raises(r)
    /\ \/ Ends(r, Outcome(r)) /\ UNCHANGED spent
       \/ Ends(r, "error") /\ spent' = spent \cup {Try(r)}          \* timed out
    /\ Quarantine(r)
    /\ stray' = stray \cup {Try(r)}
    /\ UNCHANGED <<lease, age, mark, ledger, cur, tried, settled, rested, out, told,
                   res, since>>

(* Any other failure: before the provider's process started it says nothing *)
(* about the account; after output, a timeout does not either.              *)
Blameless(r) ==
    /\ Raises(r)
    /\ \/ stage[r] = "open" /\ Ends(r, Outcome(r))
       \/ stage[r] = "open" /\ Ends(r, "error")                \* timed out
       \/ stage[r] = "begun" /\ Try(r) \in spent /\ Ends(r, "error")
    /\ UNCHANGED <<pool, cur, tried, spent, settled, rested, stray, out, told, res,
                   since>>

MayRestAlways(r) == r \notin rested   \* mutant: no mark across requests
MayRest(r) == r \notin rested /\ mark[PersonOf[r]] = 0

(* A failure with a started process, or of the settlement in FinalFails.    *)
Blamed(r) ==
    /\ \/ stage[r] = "begun" /\ Raises(r)
       \/ pc[r] = "failing" /\ r \notin told /\ Owns(r) /\ UNCHANGED stage

(* One rest per request and, by a mark that every process sees, per person. *)
FailBlamed(r) ==
    /\ Blamed(r) /\ MayRest(r)
    /\ mark' = [mark EXCEPT ![PersonOf[r]] = Cooldown]
    /\ \/ verdict' = [verdict EXCEPT ![r] = Outcome(r)] /\ UNCHANGED spent
       \/ /\ verdict' = [verdict EXCEPT ![r] = "error"]        \* timed out
          /\ pc[r] = "talk" /\ spent' = spent \cup {Try(r)}
    /\ pc' = [pc EXCEPT ![r] = "resting"]
    /\ UNCHANGED <<status, cool, rester, lease, age, ledger, cur, tried, settled,
                   rested, stray, out, told, res, since>>

FailUnblamed(r) ==
    /\ Blamed(r) /\ ~MayRest(r)
    /\ Ends(r, "error")
    /\ spent' \in {spent, spent \cup {Try(r)}}
    /\ UNCHANGED <<pool, cur, tried, settled, rested, stray, out, told, res, since>>

(* _AccountLease.rest: only the holder of a lease that counts may rest it.  *)
Rest(r) ==
    /\ pc[r] = "resting"
    /\ IF Mine(r)
       THEN RestFor(r, r) /\ rested' = rested \cup {r} /\ UNCHANGED <<told, verdict>>
       ELSE /\ told' = told \cup {r}
            /\ verdict' = [verdict EXCEPT ![r] = "cancelled"]
            /\ UNCHANGED <<cool, rester, rested>>
    /\ pc' = [pc EXCEPT ![r] = "close"]
    /\ UNCHANGED <<status, lease, age, mark, ledger, cur, tried, stage, spent,
                   settled, stray, out, res, since>>

(* The request is cancelled, or lost its account: seen by the adapter or by *)
(* require_active between two records, which counts the prompt as used; or  *)
(* by require_active in the handler of another failure, which skips the     *)
(* rest of that handler, quarantine included.                               *)
Interrupt(r) ==
    /\ pc[r] = "talk" /\ (r \in told \/ ~Owns(r))
    /\ told' = told \cup {r}
    /\ Ends(r, "cancelled")
    /\ \/ /\ spent' = spent \cup {Try(r)}
          /\ UNCHANGED <<stage, stray>>
       \/ /\ stage' = [stage EXCEPT ![r] = "ended"]
          /\ stray' \in {stray, IF stage[r] = "begun" THEN stray \cup {Try(r)}
                                ELSE stray}
          /\ UNCHANGED spent
    /\ UNCHANGED <<pool, cur, tried, settled, rested, out, res, since>>

LoseWhileFailing(r) ==
    /\ pc[r] = "failing" /\ (r \in told \/ ~Owns(r))
    /\ told' = told \cup {r}
    /\ Ends(r, "cancelled")
    /\ UNCHANGED <<pool, cur, tried, stage, spent, settled, rested, stray, out, res,
                   since>>

(* The reader closes the generator at a yield.                              *)
WalkAway(r) ==
    /\ pc[r] = "talk" /\ Len(out[r]) > 0
    /\ Ends(r, "cancelled")
    /\ UNCHANGED <<pool, cur, tried, stage, spent, settled, rested, stray, out, told,
                   res, since>>
-----------------------------------------------------------------------------
(* The end of an attempt, on every path: close, settle, release.            *)

(* stream.close() of a generator that has not ended stops the process, or   *)
(* cannot tell.                                                             *)
Stops(r) ==
    \/ UNCHANGED <<stray, status, cool, rester>>
    \/ /\ stage[r] = "begun"
       /\ stray' = stray \cup {Try(r)}
       /\ Quarantine(r)

(* record_usage, idempotent on the lease id; it fails with its transaction  *)
(* or when the account was removed.                                         *)
SettleForgets(r) == UNCHANGED <<ledger, verdict>>   \* mutant: only Final records
Settle(r) ==
    \/ /\ Try(r) \notin spent \/ r \in settled
       /\ UNCHANGED <<ledger, verdict>>
    \/ /\ Try(r) \in spent /\ r \notin settled /\ status[cur[r]] # "none"
       /\ ledger' = ledger \cup {Try(r)}
       /\ UNCHANGED verdict
    \/ /\ Try(r) \in spent /\ r \notin settled
       /\ verdict' = [verdict EXCEPT ![r] = "error"]
       /\ UNCHANGED ledger

Close(r) ==
    /\ pc[r] = "close"
    /\ Stops(r) /\ Settle(r)
    /\ stage' = [stage EXCEPT ![r] = "ended"]
    /\ pc' = [pc EXCEPT ![r] = "release"]
    /\ UNCHANGED <<lease, age, mark, cur, tried, spent, settled, rested, out, told,
                   res, since>>

(* _AccountLease.__exit__: only its own row goes; the DELETE may fail.      *)
Release(r) ==
    /\ pc[r] = "release"
    /\ \/ /\ lease' = [lease EXCEPT ![cur[r]] = IF @ = r THEN NoRequest ELSE @]
          /\ age' = [age EXCEPT ![cur[r]] = IF lease[cur[r]] = r THEN 0 ELSE @]
          /\ verdict[r] = "retry"
          /\ pc' = [pc EXCEPT ![r] = "new"]
          /\ verdict' = [verdict EXCEPT ![r] = "none"]
          /\ UNCHANGED <<cur, tried, stage, settled, rested, res, since>>
       \/ /\ lease' = [lease EXCEPT ![cur[r]] = IF @ = r THEN NoRequest ELSE @]
          /\ age' = [age EXCEPT ![cur[r]] = IF lease[cur[r]] = r THEN 0 ELSE @]
          /\ verdict[r] # "retry"
          /\ pc' = [pc EXCEPT ![r] = "over"]
          /\ res' = [res EXCEPT ![r] = IF @ = "open" THEN verdict[r] ELSE @]
          /\ Forget(r)
       \/ /\ UNCHANGED <<lease, age>>
          /\ pc' = [pc EXCEPT ![r] = "over"]
          /\ res' = [res EXCEPT ![r] = IF @ = "open" THEN "error" ELSE @]
          /\ Forget(r)
    /\ UNCHANGED <<status, cool, rester, mark, ledger, spent, stray, out, told>>
-----------------------------------------------------------------------------
(* The supervisor, users, processes, and the clock.  The two statements     *)
(* that mark a person and rest an account fall into one tick.               *)

(* _AccountLease.check: it renews, or tells the request why it cannot.      *)
Check(r) ==
    /\ pc[r] \in Holding
    /\ \/ Owns(r) /\ age' = [age EXCEPT ![cur[r]] = 0] /\ UNCHANGED told
       \/ ~Owns(r) /\ told' = told \cup {r} /\ UNCHANGED age
    /\ since' = [since EXCEPT ![r] = 0]
    /\ UNCHANGED <<status, cool, rester, lease, mark, ledger, attempt, stray, pc, out,
                   res>>

(* A user's Stop, a deadline, or storage that the supervisor cannot read.   *)
Cancel(r) ==
    /\ pc[r] \in Holding \cup {"new"} /\ r \notin told
    /\ told' = told \cup {r}
    /\ UNCHANGED <<pool, attempt, stray, pc, out, res, since>>

Crash(r) ==
    /\ pc[r] \in Holding
    /\ pc' = [pc EXCEPT ![r] = "dead"]
    /\ Forget(r)
    /\ told' = told \ {r}
    /\ UNCHANGED <<pool, spent, stray, out, res>>

Tick ==
    /\ \A r \in Timely : pc[r] \in Holding => since[r] < RenewEvery
    /\ \A r \in Request : pc[r] # "resting"
    /\ age' = [a \in Account |-> IF Leased(a) THEN age[a] + 1 ELSE age[a]]
    /\ cool' = [a \in Account |-> IF cool[a] > 0 THEN cool[a] - 1 ELSE 0]
    /\ rester' = [a \in Account |-> IF cool[a] > 1 THEN rester[a] ELSE NoRequest]
    /\ mark' = [u \in Person |-> IF mark[u] > 0 THEN mark[u] - 1 ELSE 0]
    /\ since' = [r \in Request |-> IF r \in Timely /\ pc[r] \in Holding
                                   THEN since[r] + 1 ELSE since[r]]
    /\ UNCHANGED <<status, lease, ledger, attempt, stray, pc, out, told, res>>

(* An administrator saves an account: who puts one back into service has    *)
(* seen that nothing of it still runs.                                      *)
SetStatus(a, s) ==
    /\ status[a] # "none"
    /\ status' = [status EXCEPT ![a] = s]
    /\ stray' = IF s = "disabled" THEN stray ELSE {x \in stray : x[2] # a}
    /\ cool' = IF s = "active" THEN [cool EXCEPT ![a] = 0] ELSE cool
    /\ rester' = IF s = "active" THEN [rester EXCEPT ![a] = NoRequest] ELSE rester
    /\ UNCHANGED <<lease, age, mark, ledger, attempt, pc, out, told, res, since>>

(* remove_account, refused while a lease counts; the row goes with it.      *)
Remove(a) ==
    /\ status[a] # "none" /\ ~Leased(a)
    /\ status' = [status EXCEPT ![a] = "none"]
    /\ lease' = [lease EXCEPT ![a] = NoRequest]
    /\ age' = [age EXCEPT ![a] = 0]
    /\ cool' = [cool EXCEPT ![a] = 0]
    /\ rester' = [rester EXCEPT ![a] = NoRequest]
    /\ UNCHANGED <<mark, ledger, attempt, stray, pc, out, told, res, since>>

ReportEnables(a) ==   \* mutant: a good report enables a disabled account
    /\ status[a] \in {"active", "error", "disabled"}
    /\ status' = [status EXCEPT ![a] = IF @ = "active" THEN "error" ELSE "active"]
    /\ UNCHANGED <<cool, rester, lease, age, mark, ledger, attempt, stray, pc, out,
                   told, res, since>>

(* report_quota: a failed report, or a good one after a failed one.         *)
Report(a) ==
    /\ status[a] \in {"active", "error"}
    /\ status' = [status EXCEPT ![a] = IF @ = "active" THEN "error" ELSE "active"]
    /\ UNCHANGED <<cool, rester, lease, age, mark, ledger, attempt, stray, pc, out,
                   told, res, since>>
-----------------------------------------------------------------------------
Next ==
    \/ \E r \in Request :
          \/ Claim(r) \/ GiveUp(r) \/ Begin(r) \/ Record(r) \/ Final(r) \/ FinalFails(r)
          \/ Reject(r) \/ AdmissionChanges(r) \/ Exhausted(r) \/ Uncertain(r)
          \/ Blameless(r) \/ FailBlamed(r) \/ FailUnblamed(r) \/ Rest(r)
          \/ Interrupt(r) \/ LoseWhileFailing(r) \/ WalkAway(r)
          \/ Close(r) \/ Release(r)
          \/ Check(r) \/ Cancel(r) \/ Crash(r)
    \/ \E a \in Governed :
          \/ \E s \in {"active", "disabled", "error"} : SetStatus(a, s)
          \/ Remove(a) \/ Report(a)
    \/ Tick

Spec == Init /\ [][Next]_vars
-----------------------------------------------------------------------------
(* Properties.                                                              *)

Talking(r) == pc[r] \in {"talk", "failing"} /\ r \notin told

(* Nobody else can claim the account that a request talks through, unless   *)
(* the request was told to stop or its process is late without bound.       *)
ExclusiveUse == \A r \in Timely : Talking(r) => Mine(r)

(* Whatever a request used of an account is in the ledger when the request  *)
(* is over, or it ended in an error; a complete answer is always there.     *)
UsageIsRecorded ==
    \A r \in Request :
        /\ res[r] = "done" => \E a \in Account : <<r, a>> \in ledger
        /\ pc[r] = "over" /\ res[r] # "error" =>
              \A a \in Account : <<r, a>> \in spent => <<r, a>> \in ledger

Released(r, a) == ~(pc[r] \in Holding /\ cur[r] = a)

(* An account whose process may still run is out of service from before its *)
(* lease is released until an administrator enables it, unless the request  *)
(* was told to stop.                                                        *)
StrayIsQuarantined ==
    \A x \in stray : (x[1] \in Timely \ told /\ pc[x[1]] # "dead" /\ Released(x[1], x[2]))
                       => status[x[2]] \in {"disabled", "none"}

(* docs/claude-code.md, line 290: "If shutdown cannot be confirmed, the     *)
(* pooled account is disabled for operator review before its lease is       *)
(* released."                                                               *)
UncertainIsDisabled ==
    \A x \in stray : (x[1] \in Timely /\ Released(x[1], x[2]) /\ lease[x[2]] # x[1])
                       => status[x[2]] \in {"disabled", "none"}

(* One person's failing requests rest one account at a time.                *)
OneRestPerPerson ==
    \A a, b \in Account :
        (a # b /\ rester[a] \in Request /\ rester[b] \in Request)
        => PersonOf[rester[a]] # PersonOf[rester[b]]

Stream == INSTANCE AnswerStream
            WITH Job <- Request, Attempt <- Request \X Account, shown <- out,
                 result <- res, Size <- [x \in Request \X Account |-> Pieces]

(* The reader sees the beginning of one account's answer, is told of        *)
(* completion only with the whole of it, and no second account continues    *)
(* what another began.                                                      *)
ImplementsAnswerStream == Stream!Spec
=============================================================================
