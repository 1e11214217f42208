----------------------------- MODULE WorkerJobs -----------------------------
(***************************************************************************)
(* Answers produced on volunteer computers (services/remote.py,             *)
(* db/workers.py): the relay that reads an answer for its request, the      *)
(* endpoints its worker calls (web/worker_api.py), the worker daemon        *)
(* (worker/daemon.py), the job that times out what is left over, and the    *)
(* administrator who disables workers.  The network between daemon and      *)
(* server delays, loses and repeats requests and loses replies.             *)
(*                                                                          *)
(* Every worker offers the one model of the requests.  A piece of text is   *)
(* known by the attempt that made it and by its number.  Timeouts strike at *)
(* any moment; what they have found to be late stays late.                  *)
(***************************************************************************)
EXTENDS Integers, Sequences, FiniteSets

CONSTANTS
    Job,         \* requests sent to the pool
    Worker,
    Account,
    UserOf,      \* [Job -> Account]
    Pieces,      \* [Worker -> Nat]: pieces of text of a worker's answer
    Cap,         \* pieces that fit into chat_max_response_bytes
    MaxRequeues, \* MAX_REQUEUES
    MaxPolls,    \* polls of a worker that the server may still be answering
    Governed,    \* workers that administrators may act on
    MaxNet,      \* requests on their way at a time
    NoWorker, NoJob

ASSUME WorkerAssumption ==
    /\ UserOf \in [Job -> Account]
    /\ Pieces \in [Worker -> Nat]
    /\ Cap \in Nat /\ MaxRequeues \in Nat /\ MaxPolls \in Nat /\ MaxNet \in Nat
    /\ Governed \subseteq Worker
    /\ NoWorker \notin Worker /\ NoJob \notin Job

VARIABLES
    status,   \* [Job -> worker_jobs.status, "none" before, "gone" once deleted]
    holder,   \* [Job -> worker_id]
    next,     \* [Job -> next_chunk_seq]
    requeues, \* [Job -> 0..MaxRequeues]
    deferred, \* [Job -> deferred_by]
    slow,     \* active jobs claimed longer ago than first_token_timeout
    silent,   \* active jobs whose worker was silent longer than the lease
    fault,    \* [Job -> worker_jobs.fault]
    chunk,    \* [Job -> [Seqs -> row of worker_job_chunks]]
    enabled,  \* workers that are registered and not disabled
    paused,   \* workers with a cooldown_until in the future
    polls,    \* [Worker -> polls the server goes on answering]
    net,      \* requests of daemons on their way
    phase,    \* [Worker -> what its daemon does]
    task,     \* [Worker -> the job its daemon runs]
    try,      \* [Worker -> requeues of that job when it was claimed]
    sent,     \* [Worker -> pieces of it that the server acknowledged]
    pc,       \* [Job -> control state of _relay]
    last,     \* [Job -> pieces it has read: last_seq + 1]
    terminal, \* jobs of which it has read the final piece
    rows,     \* jobs of which its last read brought pieces
    missing,  \* jobs of which it has read again without progress
    seen,     \* [Job -> the row it has read and acts on]
    due,      \* jobs past the deadline of their answer
    out,      \* [Job -> Seq(Piece)]: text handed to the reader
    res       \* [Job -> how the reader's answer ended]

row    == <<status, holder, next, requeues, deferred, slow, silent>>
judged == <<fault, paused>>
daemon == <<phase, task, try, sent>>
local  == <<last, terminal, rows, missing, seen>>
relay  == <<pc, local, out, res>>
vars   == <<row, judged, chunk, enabled, polls, net, daemon, relay, due>>

Seqs     == 0..Cap
Attempt  == Worker \X (0..MaxRequeues)
Piece    == [att : Attempt, seq : Seqs]
Active   == {"claimed", "streaming"}
Live     == Active \cup {"pending"}
Terminal == {"done", "failed", "timeout"}
Reading  == {"top", "status", "act", "stall"}
Running  == Reading \cup {"release"}
NoChunk  == [att |-> <<NoWorker, 0>>, done |-> FALSE]
Chunk    == [att : Attempt, done : BOOLEAN] \cup {NoChunk}
Message  == [kind : {"chunk", "complete", "fail", "defer"}, att : Attempt,
             job : Job, seq : Seqs]
Seen     == [status : Live \cup Terminal \cup {"none"}, next : 0..Cap+1,
             late : BOOLEAN]
Unseen   == [status |-> "none", next |-> 0, late |-> FALSE]

TypeOK ==
    /\ status \in [Job -> Live \cup Terminal \cup {"none", "gone"}]
    /\ holder \in [Job -> Worker \cup {NoWorker}]
    /\ next \in [Job -> 0..Cap+1]
    /\ requeues \in [Job -> 0..MaxRequeues]
    /\ deferred \in [Job -> Worker \cup {NoWorker}]
    /\ slow \subseteq Job /\ silent \subseteq Job
    /\ fault \in [Job -> {"none", "worker", "request"}]
    /\ chunk \in [Job -> [Seqs -> Chunk]]
    /\ enabled \subseteq Worker
    /\ paused \subseteq Worker
    /\ polls \in [Worker -> 0..MaxPolls]
    /\ net \subseteq Message
    /\ phase \in [Worker -> {"idle", "poll", "work", "send", "close"}]
    /\ task \in [Worker -> Job \cup {NoJob}]
    /\ try \in [Worker -> 0..MaxRequeues]
    /\ sent \in [Worker -> 0..Cap+1]
    /\ pc \in [Job -> Running \cup {"new", "over", "dead"}]
    /\ last \in [Job -> 0..Cap+1]
    /\ terminal \subseteq Job /\ rows \subseteq Job /\ missing \subseteq Job
    /\ seen \in [Job -> Seen]
    /\ due \subseteq Job
    /\ out \in [Job -> Seq(Piece)]
    /\ res \in [Job -> {"open", "done", "local", "error", "cancelled"}]

Init ==
    /\ status = [j \in Job |-> "none"]
    /\ holder = [j \in Job |-> NoWorker] /\ deferred = [j \in Job |-> NoWorker]
    /\ next = [j \in Job |-> 0] /\ requeues = [j \in Job |-> 0]
    /\ slow = {} /\ silent = {}
    /\ fault = [j \in Job |-> "none"]
    /\ chunk = [j \in Job |-> [k \in Seqs |-> NoChunk]]
    /\ enabled = Worker /\ paused = {}
    /\ polls = [w \in Worker |-> 0] /\ net = {}
    /\ phase = [w \in Worker |-> "idle"] /\ task = [w \in Worker |-> NoJob]
    /\ try = [w \in Worker |-> 0] /\ sent = [w \in Worker |-> 0]
    /\ pc = [j \in Job |-> "new"] /\ last = [j \in Job |-> 0]
    /\ terminal = {} /\ rows = {} /\ missing = {}
    /\ seen = [j \in Job |-> Unseen]
    /\ due = {}
    /\ out = [j \in Job |-> <<>>] /\ res = [j \in Job |-> "open"]
-----------------------------------------------------------------------------
(* The rows.                                                                *)

HeldBy(w) == {j \in Job : holder[j] = w /\ status[j] \in Active}

(* lease_expired: the worker was silent, or has not begun in time.          *)
Expired(j) == j \in silent \/ (j \in slow /\ next[j] = 0)

(* store.finish of jobs in one of the statuses From: a compare-and-set.     *)
Ends(J, s, From) ==
    LET E == {j \in J : status[j] \in From} IN
    /\ status' = [j \in Job |-> IF j \in E THEN s ELSE status[j]]
    /\ slow' = slow \ E /\ silent' = silent \ E
    /\ UNCHANGED <<holder, next, requeues, deferred>>

(* _misbehaved: the worker broke the protocol, or left what it had begun.   *)
Misbehaved(J) ==
    /\ fault' = [j \in Job |-> IF j \in J THEN "worker" ELSE fault[j]]
    /\ paused' = paused \cup {holder[j] : j \in J}

(* _blame, one job after the other: an account holds one worker             *)
(* responsible, its further failures are held against its requests.         *)
Blame(J) ==
    \E B \in SUBSET J :
        /\ \A j \in J : j \in B <=>
             \A k \in Job \ {j} : UserOf[k] = UserOf[j] =>
                                     fault[k] # "worker" /\ k \notin B
        /\ fault' = [j \in Job |-> IF j \in B THEN "worker"
                                   ELSE IF j \in J THEN "request" ELSE fault[j]]
        /\ paused' = paused \cup {holder[j] : j \in B}

(* _lease_ran_out: not for a worker that last spoke before the server was   *)
(* started.                                                                 *)
RanOut(J) == \E S \in SUBSET J : Blame(S)

(* _requeue: a job that produced nothing goes back to the pool, but not     *)
(* for ever.                                                                *)
BackBegun(J) == {j \in J : requeues[j] < MaxRequeues}   \* mutant: begun or not
Back(J) == {j \in J : next[j] = 0 /\ requeues[j] < MaxRequeues}

(* The rows when J goes back, F fails and worker w claims C.                *)
Moved(J, F, w, C) ==
    /\ status' = [j \in Job |-> IF j \in C THEN "claimed"
                                ELSE IF j \in J THEN "pending"
                                ELSE IF j \in F THEN "failed" ELSE status[j]]
    /\ holder' = [j \in Job |-> IF j \in C THEN w
                                ELSE IF j \in J THEN NoWorker ELSE holder[j]]
    /\ deferred' = [j \in Job |-> IF j \in J THEN holder[j] ELSE deferred[j]]
    /\ requeues' = [j \in Job |-> IF j \in J THEN requeues[j] + 1 ELSE requeues[j]]
    /\ slow' = slow \ (J \cup F \cup C)
    /\ UNCHANGED next
-----------------------------------------------------------------------------
(* The relay of a request.                                                  *)

(* stream: insert_job.                                                      *)
Insert(j) ==
    /\ pc[j] = "new"
    /\ pc' = [pc EXCEPT ![j] = "top"]
    /\ status' = [status EXCEPT ![j] = "pending"]
    /\ UNCHANGED <<holder, next, requeues, deferred, slow, silent, judged, chunk, enabled,
                   polls, net, daemon, local, out, res, due>>

(* Time passes.                                                             *)
TimeUp(j) ==
    /\ pc[j] \in Running \/ status[j] \in Live
    /\ due' = due \cup {j}
    /\ UNCHANGED <<row, judged, chunk, enabled, polls, net, daemon, relay>>

(* The loop ends, with what it knew; _release comes next.                   *)
Leaves(j, how) == /\ pc' = [pc EXCEPT ![j] = "release"]
                  /\ res' = [res EXCEPT ![j] = how]
                  /\ last' = [last EXCEPT ![j] = 0]
                  /\ seen' = [seen EXCEPT ![j] = Unseen]
                  /\ terminal' = terminal \ {j} /\ rows' = rows \ {j}
                  /\ missing' = missing \ {j}

(* Its next turn.                                                           *)
Turns(j) == /\ pc' = [pc EXCEPT ![j] = "top"]
            /\ seen' = [seen EXCEPT ![j] = Unseen]
            /\ rows' = rows \ {j}
            /\ UNCHANGED <<res, last, terminal>>

(* The reader stops: noticed at the top of the loop, or, when it went away, *)
(* while a piece is handed to it.                                           *)
Stop(j) ==
    /\ \/ pc[j] = "top" /\ Ends({j}, "failed", Live)
       \/ pc[j] = "status" /\ j \in rows /\ UNCHANGED row
    /\ Leaves(j, "cancelled")
    /\ UNCHANGED <<judged, chunk, enabled, polls, net, daemon, out, due>>

(* No text in time: whether the worker had the job for the whole            *)
(* first-token time is read before the job is ended.                        *)
PoolTimeout(j) ==
    /\ pc[j] = "top" /\ out[j] = <<>>
    /\ pc' = [pc EXCEPT ![j] = "stall"]
    /\ seen' = [seen EXCEPT ![j] = [Unseen EXCEPT !.late = status[j] \in Active /\ j \in slow]]
    /\ UNCHANGED <<row, judged, chunk, enabled, polls, net, daemon, last, terminal, rows,
                   missing, out, res, due>>

FailsAlways(j, s, why) ==    \* mutant: _fail_relay blames whatever finish did
    /\ Ends({j}, s, Live)
    /\ IF holder[j] # NoWorker /\ why # "none"
       THEN IF why = "stall" THEN Blame({j}) ELSE Misbehaved({j})
       ELSE UNCHANGED judged
    /\ Leaves(j, IF out'[j] = <<>> THEN "local" ELSE "error")

FailsContinuing(j, s, why) ==   \* mutant: goes on where the job ended meanwhile
    /\ Ends({j}, s, Live)
    /\ IF status[j] \in Live /\ holder[j] # NoWorker /\ why # "none"
       THEN IF why = "stall" THEN Blame({j}) ELSE Misbehaved({j})
       ELSE UNCHANGED judged
    /\ IF status[j] \in Live THEN Leaves(j, IF out'[j] = <<>> THEN "local" ELSE "error")
                              ELSE Turns(j) /\ UNCHANGED missing

(* _fail_relay, one transaction.                                            *)
Fails(j, s, why) ==
    /\ Ends({j}, s, Live)
    /\ IF status[j] \in Live /\ holder[j] # NoWorker /\ why # "none"
       THEN IF why = "stall" THEN Blame({j}) ELSE Misbehaved({j})
       ELSE UNCHANGED judged
    /\ Leaves(j, IF out'[j] = <<>> THEN "local" ELSE "error")

Stalled(j) ==
    /\ pc[j] = "stall"
    /\ UNCHANGED out
    /\ Fails(j, "timeout", IF seen[j].late THEN "stall" ELSE "none")
    /\ UNCHANGED <<chunk, enabled, polls, net, daemon, due>>

(* The deadline of the whole answer, once text was shown.                   *)
Deadline(j) ==
    /\ pc[j] = "top" /\ j \in due /\ out[j] # <<>>
    /\ Ends({j}, "timeout", Live)
    /\ Leaves(j, "error")
    /\ UNCHANGED <<judged, chunk, enabled, polls, net, daemon, out, due>>

Timely(j) == j \notin due

(* Pieces from the one after the last on, up to hi, that go on without a    *)
(* gap and of which only the last may be the final one.                     *)
Follow(j, hi) ==
    /\ hi = last[j] \/ j \notin terminal
    /\ \A k \in last[j]..hi-1 : /\ chunk[j][k] # NoChunk
                                /\ chunk[j][k].done => k = hi - 1

Texts(j, hi) ==
    [i \in 1..(IF hi > last[j] /\ chunk[j][hi - 1].done THEN hi - 1 - last[j]
                                                        ELSE hi - last[j])
        |-> [att |-> chunk[j][last[j] + i - 1].att, seq |-> last[j] + i - 1]]

DeliveredAll(j, hi) == {k \in Seqs : k < hi}     \* mutant: the last one too
Delivered(j, hi) == {k \in Seqs : k < hi - 1}

(* chunks_after, the pieces yielded, and delete_chunks_before: what was     *)
(* delivered is deleted, but for the last piece.                            *)
ReadChunks(j) ==
    \E hi \in last[j]..Cap+1 :
    /\ pc[j] = "top" /\ Timely(j)
    /\ Follow(j, hi) /\ \A h \in hi+1..Cap+1 : ~Follow(j, h)
    /\ out' = [out EXCEPT ![j] = @ \o Texts(j, hi)]
    /\ IF \E k \in Seqs : k >= hi /\ chunk[j][k] # NoChunk
       THEN Fails(j, "failed", "breach") /\ UNCHANGED chunk
       ELSE /\ pc' = [pc EXCEPT ![j] = "status"]
            /\ last' = [last EXCEPT ![j] = hi]
            /\ rows' = IF hi > last[j] THEN rows \cup {j} ELSE rows
            /\ terminal' = IF hi > last[j] /\ chunk[j][hi - 1].done
                           THEN terminal \cup {j} ELSE terminal
            /\ chunk' = [chunk EXCEPT ![j] = [k \in Seqs |->
                            IF hi > last[j] /\ k \in Delivered(j, hi) THEN NoChunk ELSE @[k]]]
            /\ UNCHANGED <<missing, seen, res, row, judged>>
    /\ UNCHANGED <<enabled, polls, net, daemon, due>>

(* get_job, in a transaction of its own.                                    *)
ReadStatus(j) ==
    /\ pc[j] = "status"
    /\ IF status[j] = "gone"
       THEN Leaves(j, IF out[j] = <<>> THEN "local" ELSE "error")
       ELSE /\ seen' = [seen EXCEPT ![j] = [status |-> status[j], next |-> next[j],
                                            late |-> status[j] \in Active /\ Expired(j)]]
            /\ pc' = [pc EXCEPT ![j] = "act"]
            /\ UNCHANGED <<last, terminal, rows, missing, res>>
    /\ UNCHANGED <<row, judged, chunk, enabled, polls, net, daemon, out, due>>

(* Pieces written after the relay read them: it reads again, once without   *)
(* progress.                                                                *)
NeverBehind(j) == FALSE                     \* mutant: acts on the status at once
Behind(j) == /\ seen[j].status \in Terminal
             /\ last[j] < seen[j].next
             /\ j \in rows \/ j \notin missing

ReadAgain(j) ==
    /\ pc[j] = "act" /\ Behind(j)
    /\ missing' = IF j \in rows THEN missing \ {j} ELSE missing \cup {j}
    /\ Turns(j)
    /\ UNCHANGED <<row, judged, chunk, enabled, polls, net, daemon, out, due>>

Saw(j, A) == seen[j].status \in A
(* The final piece arrived and only the report of the usage was lost.       *)
Whole(j) == j \in terminal /\ (Saw(j, {"failed", "timeout"})
                               \/ (Saw(j, Active) /\ seen[j].late))

(* What the relay does with the row it has read; the rows may have changed. *)
Act(j) ==
    /\ pc[j] = "act" /\ ~Behind(j)
    /\ UNCHANGED out
    /\ \/ /\ Saw(j, {"done"})
          /\ IF j \in terminal /\ last[j] = seen[j].next
             THEN Leaves(j, "done") /\ UNCHANGED <<row, judged>>
             ELSE Fails(j, "failed", "breach")
       \/ /\ ~Saw(j, {"done"}) /\ Whole(j)
          /\ Ends({j}, "timeout", Active)
          /\ Leaves(j, "done") /\ UNCHANGED judged
       \/ /\ Saw(j, {"failed", "timeout"}) /\ ~Whole(j)
          /\ Leaves(j, IF out[j] = <<>> THEN "local" ELSE "error")
          /\ UNCHANGED <<row, judged>>
       \/ /\ Saw(j, Active) /\ ~Whole(j)
          /\ IF seen[j].late
             THEN Fails(j, "timeout", "stall")
             ELSE Turns(j) /\ UNCHANGED <<row, judged, missing>>
       \/ /\ Saw(j, {"pending"})
          /\ Turns(j) /\ UNCHANGED <<row, judged, missing>>
    /\ UNCHANGED <<chunk, enabled, polls, net, daemon, due>>

(* No worker took the job in time: it is withdrawn, unless one just did.    *)
Withdraw(j) ==
    /\ pc[j] = "act" /\ Saw(j, {"pending"}) /\ status[j] = "pending"
    /\ Ends({j}, "failed", Live)
    /\ Leaves(j, "local")
    /\ UNCHANGED <<judged, chunk, enabled, polls, net, daemon, out, due>>

(* _release ends the job and deletes its pieces, or cannot (a database      *)
(* error).                                                                  *)
Release(j) ==
    /\ pc[j] = "release"
    /\ pc' = [pc EXCEPT ![j] = "over"]
    /\ \/ /\ Ends({j}, "failed", Live)
          /\ chunk' = [chunk EXCEPT ![j] = [k \in Seqs |-> NoChunk]]
       \/ UNCHANGED <<row, chunk>>
    /\ UNCHANGED <<judged, enabled, polls, net, daemon, local, out, res, due>>

(* The process of the request dies.                                         *)
Crash(j) ==
    /\ pc[j] \in Running
    /\ pc' = [pc EXCEPT ![j] = "dead"]
    /\ UNCHANGED <<row, judged, chunk, enabled, polls, net, daemon, local, out, res, due>>
-----------------------------------------------------------------------------
(* The worker's endpoints.                                                  *)

(* The next job w may run: none it handed back last (so none it hands back  *)
(* now), none of an account whose job failed on it.  Their order is open.   *)
Offered(w) ==
    {j \in Job : /\ status[j] = "pending" /\ deferred[j] # w
                 /\ \A k \in Job : UserOf[k] = UserOf[j] =>
                                     ~(holder[k] = w /\ fault'[k] # "none")}

MayClaimAlways(w) == TRUE          \* mutant: authenticated when the poll arrived
MayClaim(w) == w \in enabled

(* claim, one transaction of a poll the server goes on answering.  A worker *)
(* that asks for work has abandoned what it still holds.  The reply reaches *)
(* the daemon, or nobody waits for it any more.                             *)

ClaimFor(w, C) ==
    LET A == HeldBy(w) IN
    /\ polls[w] > 0 /\ MayClaim(w)
    /\ Misbehaved({j \in A : next[j] > 0})
    /\ C \subseteq Offered(w)
    /\ C # {} => w \notin paused'
    /\ Moved(Back(A), A \ Back(A), w, C)
    /\ silent' = silent \ (A \cup C)
    /\ UNCHANGED <<chunk, enabled, net, sent, relay, due>>

Claim(w) ==
    \E j \in Job :
        /\ ClaimFor(w, {j})
        /\ polls' = [polls EXCEPT ![w] = @ - 1]
        /\ \/ /\ phase[w] = "poll"
              /\ phase' = [phase EXCEPT ![w] = "work"]
              /\ task' = [task EXCEPT ![w] = j]
              /\ try' = [try EXCEPT ![w] = requeues[j]]
           \/ UNCHANGED <<phase, task, try>>

(* Nothing for w, or it has been disabled: the poll is answered, or waits.  *)
NoClaim(w) ==
    /\ polls[w] > 0
    /\ IF w \in enabled THEN ClaimFor(w, {})
       ELSE UNCHANGED <<row, judged, chunk, enabled, net, sent, relay, due>>
    /\ \/ /\ polls' = [polls EXCEPT ![w] = @ - 1]
          /\ phase' = [phase EXCEPT ![w] = IF @ = "poll" THEN "idle" ELSE @]
       \/ w \in enabled /\ UNCHANGED <<polls, phase>>
    /\ UNCHANGED <<task, try>>

Drop(w) == /\ phase' = [phase EXCEPT ![w] = "idle"]
           /\ task' = [task EXCEPT ![w] = NoJob]
           /\ try' = [try EXCEPT ![w] = 0]
           /\ sent' = [sent EXCEPT ![w] = 0]

Waits(m) == LET w == m.att[1] IN
            /\ phase[w] = "send" /\ m.kind = "chunk"
            /\ task[w] = m.job /\ <<w, try[w]>> = m.att /\ sent[w] = m.seq

(* The reply to m reaches the daemon that waits for it, or is lost.         *)
Reply(m, ok) ==
    \/ UNCHANGED daemon
    \/ /\ Waits(m)
       /\ LET w == m.att[1] IN
          IF ok THEN /\ sent' = [sent EXCEPT ![w] = @ + 1]
                     /\ phase' = [phase EXCEPT ![w] = "work"]
                     /\ UNCHANGED <<task, try>>
                ELSE Drop(w)

(* A request of a daemon arrives; a repeated piece may arrive again.        *)
Arrives(m, kind) ==
    /\ m \in net /\ m.kind = kind
    /\ net' = net \ {m} \/ (kind = "chunk" /\ net' = net)

(* _owned, but for the lease.                                               *)
Owns(m) == status[m.job] \in Active /\ holder[m.job] = m.att[1]

(* A call for a job that is not the worker's any more, or whose lease ran   *)
(* out, which ends the job.                                                 *)
Refused(m, kind) ==
    /\ Arrives(m, kind)
    /\ ~Owns(m) \/ Expired(m.job)
    /\ IF Owns(m)
       THEN Ends({m.job}, "timeout", Live) /\ RanOut({m.job})
       ELSE UNCHANGED <<row, judged>>
    /\ UNCHANGED <<chunk, enabled, polls, relay, due>>

ChunkRefused(m) == Refused(m, "chunk") /\ Reply(m, FALSE)

TakesChunk(m) == Arrives(m, "chunk") /\ Owns(m) /\ ~Expired(m.job)

Same(m) == chunk[m.job][m.seq] \in {NoChunk, [att |-> m.att, done |-> m.seq = Pieces[m.att[1]]]}

(* A retry of a piece that was accepted: the reply was lost.                *)
ChunkRepeated(m) ==
    /\ TakesChunk(m) /\ m.seq < next[m.job] /\ Same(m)
    /\ silent' = silent \ HeldBy(m.att[1])
    /\ Reply(m, TRUE)
    /\ UNCHANGED <<status, holder, next, requeues, deferred, slow, judged, chunk, enabled,
                   polls, relay, due>>

Ordered(m) == /\ m.seq = next[m.job]
              /\ m.seq > 0 => ~chunk[m.job][m.seq - 1].done

(* Another text for an accepted piece, a gap, or more after the final one.  *)
ChunkBroken(m) ==
    /\ TakesChunk(m)
    /\ ~(m.seq < next[m.job] /\ Same(m)) /\ ~Ordered(m)
    /\ Ends({m.job}, "failed", Live) /\ Misbehaved({m.job})
    /\ Reply(m, FALSE)
    /\ UNCHANGED <<chunk, enabled, polls, relay, due>>

(* The next piece is stored; where it exceeds the largest answer, what fits *)
(* is kept (nothing here) and the answer ends with it.                      *)
ChunkStored(m) ==
    LET j    == m.job
        over == m.seq = Cap /\ m.seq < Pieces[m.att[1]]
    IN
    /\ TakesChunk(m) /\ Ordered(m)
    /\ chunk' = [chunk EXCEPT ![j] = [@ EXCEPT ![m.seq] =
                   [att |-> m.att, done |-> over \/ m.seq = Pieces[m.att[1]]]]]
    /\ next' = [next EXCEPT ![j] = @ + 1]
    /\ status' = [status EXCEPT ![j] = IF over THEN "done" ELSE "streaming"]
    /\ silent' = silent \ {j}
    /\ Reply(m, ~over)
    /\ UNCHANGED <<holder, requeues, deferred, slow, judged, enabled, polls, relay, due>>

(* The reply to a complete, which is not sent again, or nothing.            *)
Answered(m) ==
    LET w == m.att[1] IN
    \/ UNCHANGED daemon
    \/ phase[w] = "close" /\ task[w] = m.job /\ try[w] = m.att[2] /\ Drop(w)

(* complete clears the worker's pause.                                      *)
Complete(m) ==
    /\ Arrives(m, "complete") /\ Owns(m) /\ ~Expired(m.job)
    /\ IF next[m.job] > 0 /\ chunk[m.job][next[m.job] - 1].done
       THEN /\ Ends({m.job}, "done", Active)
            /\ paused' = paused \ {m.att[1]} /\ UNCHANGED fault
       ELSE Ends({m.job}, "failed", Live) /\ Misbehaved({m.job})
    /\ Answered(m)
    /\ UNCHANGED <<chunk, enabled, polls, relay, due>>

CompleteRefused(m) == Refused(m, "complete") /\ Answered(m)

(* fail: the job goes back before its first piece, or the failure is held   *)
(* against its worker or, as far as the worker can tell, its request; the   *)
(* latter pause a worker once they add up.                                  *)
Fail(m) ==
    /\ m.kind \in {"fail", "defer"} /\ m \in net /\ net' = net \ {m}
    /\ IF ~Owns(m) THEN UNCHANGED <<row, judged>>
       ELSE IF m.kind = "defer" /\ next[m.job] = 0
       THEN /\ Moved(Back({m.job}), {m.job} \ Back({m.job}), NoWorker, {})
            /\ silent' = silent \ {m.job} /\ UNCHANGED judged
       ELSE /\ Ends({m.job}, "failed", Live)
            /\ \/ Blame({m.job})
               \/ /\ fault' = [fault EXCEPT ![m.job] = "request"]
                  /\ paused' = paused \/ paused' = paused \cup {m.att[1]}
    /\ UNCHANGED <<chunk, enabled, polls, daemon, relay, due>>

(* job_stop: the job a daemon reports is not its any more.                  *)
StopsForOther(w) == holder'[task[w]] # w      \* mutant: an ended job is not noticed
StopsFor(w) == holder'[task[w]] # w \/ status'[task[w]] \notin Active

(* heartbeat: jobs that have not begun go back when the owner plays or the  *)
(* worker goes away; the leases of the others are renewed.  The reply may   *)
(* be lost.                                                                 *)
Heartbeat(w, busy, heard) ==
    LET A == {j \in HeldBy(w) : busy /\ next[j] = 0} IN
    /\ w \in enabled
    /\ Moved(Back(A), A \ Back(A), NoWorker, {})
    /\ silent' = silent \ HeldBy(w)
    /\ IF heard /\ phase[w] \in {"work", "send"} /\ StopsFor(w)
       THEN Drop(w) ELSE UNCHANGED daemon
    /\ UNCHANGED <<judged, chunk, enabled, polls, net, relay, due>>
-----------------------------------------------------------------------------
(* The daemon (worker/daemon.py) and the network.                           *)

Sends(w, kind, k) ==
    /\ Cardinality(net) < MaxNet
    /\ net' = net \cup {[kind |-> kind, att |-> <<w, try[w]>>, job |-> task[w], seq |-> k]}

(* Without a job that goes on there is nothing to be found.                 *)
Poll(w) ==
    /\ phase[w] = "idle" /\ w \in enabled /\ polls[w] < MaxPolls
    /\ \E j \in Job : status[j] \in Live
    /\ phase' = [phase EXCEPT ![w] = "poll"]
    /\ polls' = [polls EXCEPT ![w] = @ + 1]
    /\ UNCHANGED <<row, judged, chunk, enabled, net, task, try, sent, relay, due>>

(* The next piece, the final one without text after the last; or the piece  *)
(* that was not acknowledged, again.                                        *)
SendChunk(w) ==
    /\ \/ phase[w] = "work" /\ sent[w] <= Pieces[w]
       \/ phase[w] = "send"
    /\ sent[w] <= Cap
    /\ Sends(w, "chunk", sent[w])
    /\ phase' = [phase EXCEPT ![w] = "send"]
    /\ UNCHANGED <<row, judged, chunk, enabled, polls, task, try, sent, relay, due>>

SendComplete(w) ==
    /\ phase[w] = "work" /\ sent[w] > Pieces[w]
    /\ Sends(w, "complete", 0)
    /\ phase' = [phase EXCEPT ![w] = "close"]
    /\ UNCHANGED <<row, judged, chunk, enabled, polls, task, try, sent, relay, due>>

(* The owner plays or stops the worker, its model fails, or the complete    *)
(* was not answered: the job is handed back before its first piece and      *)
(* reported as failed after it.                                             *)
SendFail(w) ==
    /\ \/ phase[w] = "work" /\ sent[w] = 0 /\ Sends(w, "defer", 0)
       \/ phase[w] = "work" /\ sent[w] <= Pieces[w] /\ Sends(w, "fail", 0)
       \/ phase[w] = "close" /\ Sends(w, "fail", 0)
    /\ Drop(w)
    /\ UNCHANGED <<row, judged, chunk, enabled, polls, relay, due>>

(* A piece was not acknowledged in three attempts, or the worker is turned  *)
(* off: nothing is reported.                                                *)
Quit(w) ==
    /\ phase[w] # "idle" /\ Drop(w)
    /\ UNCHANGED <<row, judged, chunk, enabled, polls, net, relay, due>>

Lose(m) ==
    /\ m \in net /\ net' = net \ {m}
    /\ UNCHANGED <<row, judged, chunk, enabled, polls, daemon, relay, due>>
-----------------------------------------------------------------------------
(* Time, housekeeping, administration.                                      *)

RunsLate(j) ==
    /\ status[j] \in Active
    /\ \/ /\ next[j] = 0 \/ out[j] = <<>>      \* it matters to no one later
          /\ slow' = slow \cup {j} /\ UNCHANGED silent
       \/ silent' = silent \cup {j} /\ UNCHANGED slow
    /\ UNCHANGED <<status, holder, next, requeues, deferred, judged, chunk, enabled, polls,
                   net, daemon, relay, due>>

(* cooldown_until passes.                                                   *)
PauseEnds(w) ==
    /\ w \in paused
    /\ paused' = paused \ {w}
    /\ UNCHANGED <<row, fault, chunk, enabled, polls, net, daemon, relay, due>>

(* maintain, its first transaction: jobs that waited too long, leases that  *)
(* ran out, jobs older than any answer may get (which is soon after their   *)
(* deadline).                                                               *)
TooOldPending == {j \in due : status[j] = "pending"}     \* mutant: not when claimed
TooOld == {j \in due : status[j] \in Live}

Maintain ==
    LET late == {j \in Job : status[j] \in Active /\ Expired(j)} IN
    /\ \E J \in SUBSET {j \in Job : status[j] = "pending"} :
          Ends(J \cup late \cup TooOld, "timeout", Live)
    /\ RanOut(late)
    /\ UNCHANGED <<chunk, enabled, polls, net, daemon, relay, due>>

(* Its second one: what finished jobs leave behind is deleted, first the    *)
(* pieces.                                                                  *)
Purge(j) ==
    /\ status[j] \in Terminal
    /\ chunk' = [chunk EXCEPT ![j] = [k \in Seqs |-> NoChunk]]
    /\ \/ UNCHANGED <<status, holder, next, requeues, deferred, fault>>
       \/ /\ status' = [status EXCEPT ![j] = "gone"]
          /\ holder' = [holder EXCEPT ![j] = NoWorker]
          /\ deferred' = [deferred EXCEPT ![j] = NoWorker]
          /\ next' = [next EXCEPT ![j] = 0] /\ requeues' = [requeues EXCEPT ![j] = 0]
          /\ fault' = [fault EXCEPT ![j] = "none"]
    /\ UNCHANGED <<slow, silent, paused, enabled, polls, net, daemon, relay, due>>

(* set_enabled, delete_worker.  A worker that is deleted is disabled for    *)
(* good.                                                                    *)
Enable(w) ==
    /\ w \notin enabled \/ w \in paused
    /\ enabled' = enabled \cup {w}
    /\ paused' = paused \ {w}
    /\ UNCHANGED <<row, fault, chunk, polls, net, daemon, relay, due>>

Disable(w) ==
    /\ w \in enabled \cap Governed
    /\ enabled' = enabled \ {w}
    /\ Ends(HeldBy(w), "failed", Active)
    /\ UNCHANGED <<judged, chunk, polls, net, daemon, relay, due>>
-----------------------------------------------------------------------------
RelayStep(j) == \/ PoolTimeout(j) \/ Stalled(j) \/ Deadline(j) \/ ReadChunks(j)
                \/ ReadStatus(j) \/ ReadAgain(j) \/ Act(j) \/ Release(j)

Handle(m) == \/ ChunkRefused(m) \/ ChunkRepeated(m) \/ ChunkBroken(m) \/ ChunkStored(m)
             \/ Complete(m) \/ CompleteRefused(m) \/ Fail(m) \/ Lose(m)

Next ==
    \/ \E j \in Job : \/ Insert(j) \/ TimeUp(j) \/ Stop(j) \/ RelayStep(j)
                      \/ Withdraw(j) \/ Crash(j) \/ RunsLate(j) \/ Purge(j)
    \/ \E m \in net : Handle(m)
    \/ \E w \in Worker :
          \/ Claim(w) \/ NoClaim(w) \/ Poll(w) \/ SendChunk(w) \/ SendComplete(w)
          \/ SendFail(w) \/ Quit(w) \/ PauseEnds(w) \/ Enable(w) \/ Disable(w)
          \/ \E busy, heard \in BOOLEAN : Heartbeat(w, busy, heard)
    \/ Maintain

Spec == Init /\ [][Next]_vars

(* Threads of the server run and its clock goes on; the background job      *)
(* comes round; the reply to a heartbeat is not lost for ever.              *)
Fairness ==
    /\ \A j \in Job : WF_vars(RelayStep(j)) /\ WF_vars(TimeUp(j))
    /\ WF_vars(Maintain)
    /\ \A w \in Worker : SF_vars(\E busy \in BOOLEAN : Heartbeat(w, busy, TRUE))

FairSpec == Spec /\ Fairness
-----------------------------------------------------------------------------
(* A worker that an administrator disabled or removed holds no job, also    *)
(* when it was claiming one at that moment.                                 *)
DisabledHoldsNothing ==
    \A j \in Job : status[j] \in Active => holder[j] \in enabled

(* No delay, loss or repetition of its requests makes the daemon look as if *)
(* it skipped a piece or ended without the final one.                       *)
KeepsOrder ==
    \A m \in net : Owns(m) =>
        /\ m.kind = "chunk" => m.seq <= next[m.job]
        /\ m.kind = "complete" => /\ next[m.job] > 0
                                  /\ chunk[m.job][next[m.job] - 1].done

(* An answer that its worker completed is delivered, however late its last  *)
(* pieces were written, unless they were purged meanwhile.                  *)
CompletedIsDelivered ==
    [][\A j \in Job :
         /\ pc[j] = "act" /\ seen[j].status = "done" /\ pc'[j] = "release"
         /\ chunk[j][seen[j].next - 1] # NoChunk
         => res'[j] = "done"]_vars

(* A worker is paused only in the step that ends a job it holds: never for  *)
(* a job that had ended, or that another worker holds.                      *)
PausedForItsJob ==
    [][\A w \in paused' \ paused :
         \E j \in Job : /\ holder[j] = w /\ status[j] \in Active
                        /\ status'[j] \in {"failed", "timeout"}]_vars

Stream == INSTANCE AnswerStream
            WITH Attempt <- Attempt, shown <- out, result <- res,
                 Size <- [a \in Attempt |-> IF Pieces[a[1]] <= Cap THEN Pieces[a[1]] ELSE Cap]

(* The reader sees the beginning of one attempt, without gap or repetition, *)
(* is told of completion only when it saw all of it, and the local server   *)
(* answers only in place of nothing.                                        *)
ImplementsAnswerStream == Stream!Spec

(* However the worker behaves, the reader's stream ends.                    *)
StreamEnds == \A j \in Job : pc[j] = "top" ~> pc[j] \in {"over", "dead"}

(* Also when the relay died or could not clean up.                          *)
JobEnds == \A j \in Job : status[j] \in Live ~> status[j] \notin Live

(* A daemon hears that its job was ended.                                   *)
HeartbeatStops ==
    \A w \in Worker :
        (phase[w] \in {"work", "send"} /\ task[w] \notin HeldBy(w) /\ w \in enabled)
        ~> (phase[w] \notin {"work", "send"} \/ task[w] \in HeldBy(w) \/ w \notin enabled)
=============================================================================
