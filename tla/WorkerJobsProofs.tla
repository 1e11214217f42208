-------------------------- MODULE WorkerJobsProofs --------------------------
(***************************************************************************)
(* Proofs about WorkerJobs, for any number of requests, workers, pieces,    *)
(* requeues and messages on their way.                                      *)
(***************************************************************************)
EXTENDS WorkerJobs, SequenceTheorems, TLAPS

-----------------------------------------------------------------------------
(* Types, by the groups of variables that change together.                  *)

(* Who holds a job, and that a job that waits has produced nothing.         *)
Rows ==
    /\ status \in [Job -> Live \cup Terminal \cup {"none", "gone"}]
    /\ holder \in [Job -> Worker \cup {NoWorker}]
    /\ next \in [Job -> 0..Cap+1]
    /\ requeues \in [Job -> 0..MaxRequeues]
    /\ deferred \in [Job -> Worker \cup {NoWorker}]
    /\ slow \subseteq Job /\ silent \subseteq Job
    /\ \A j \in Job :
        /\ status[j] \in Active => holder[j] \in Worker
        /\ status[j] \in {"none", "pending"} => holder[j] = NoWorker /\ next[j] = 0

Judgement == fault \in [Job -> {"none", "worker", "request"}] /\ paused \subseteq Worker

Daemons ==
    /\ phase \in [Worker -> {"idle", "poll", "work", "send", "close"}]
    /\ task \in [Worker -> Job \cup {NoJob}]
    /\ try \in [Worker -> 0..MaxRequeues]
    /\ sent \in [Worker -> 0..Cap+1]
    /\ \A w \in Worker : phase[w] \in {"work", "send", "close"} => task[w] \in Job

(* The relay knows the row it acts on, and its answer is open until it      *)
(* leaves.                                                                  *)
Relays ==
    /\ pc \in [Job -> Running \cup {"new", "over", "dead"}]
    /\ last \in [Job -> 0..Cap+1]
    /\ terminal \subseteq Job /\ rows \subseteq Job /\ missing \subseteq Job
    /\ seen \in [Job -> Seen]
    /\ res \in [Job -> {"open", "done", "local", "error", "cancelled"}]
    /\ \A j \in Job : /\ pc[j] \in Reading \cup {"new"} => res[j] = "open"
                      /\ pc[j] = "new" <=> status[j] = "none"

Others ==
    /\ chunk \in [Job -> [Seqs -> Chunk]]
    /\ enabled \subseteq Worker
    /\ polls \in [Worker -> 0..MaxPolls]
    /\ net \subseteq Message
    /\ due \subseteq Job

Typed == Rows /\ Judgement /\ Daemons /\ Relays /\ Others /\ out \in [Job -> Seq(Piece)]

LEMMA FunctionIsSeq ==
    ASSUME NEW S, NEW n \in Nat, NEW f \in [1..n -> S]
    PROVE  f \in Seq(S) /\ Len(f) = n
<1>1. f \in Seq(S)
  OBVIOUS
<1>2. Len(f) = n
  BY <1>1, LenProperties
<1> QED
  BY <1>1, <1>2

LEMMA Statuses ==
    /\ Active \subseteq Live /\ Live \cap Terminal = {}
    /\ Live \cap {"none", "gone"} = {} /\ Terminal \cap {"none", "gone"} = {}
    /\ "pending" \in Live /\ "pending" \notin Active
BY DEF Active, Live, Terminal

(* store.finish.                                                            *)
LEMMA EndsTyped ==
    ASSUME Rows, NEW J, NEW s \in Terminal, NEW From, Ends(J, s, From)
    PROVE  Rows'
BY Statuses DEF Rows, Ends, Active, Live, Terminal

(* A step that ends a job never makes it "none".                            *)
LEMMA EndsKeepsNone ==
    ASSUME Rows, NEW J, NEW s \in Terminal, NEW From \in SUBSET Live, Ends(J, s, From)
    PROVE  \A j \in Job : status'[j] = "none" <=> status[j] = "none"
BY DEF Rows, Ends, Active, Live, Terminal

LEMMA MovedTyped ==
    ASSUME Rows, NEW J \in SUBSET Job, NEW F, NEW C, NEW w \in Worker \cup {NoWorker},
           \A j \in J : next[j] = 0 /\ requeues[j] < MaxRequeues /\ holder[j] \in Worker,
           \A j \in C : status[j] = "pending",
           C # {} => w \in Worker,
           J \cap C = {}, silent' \subseteq silent, Moved(J, F, w, C)
    PROVE  Rows'
<1>1. status' \in [Job -> Live \cup Terminal \cup {"none", "gone"}]
  BY DEF Moved, Rows, Live, Active, Terminal
<1>2. holder' \in [Job -> Worker \cup {NoWorker}] /\ deferred' \in [Job -> Worker \cup {NoWorker}]
  BY DEF Moved, Rows
<1>3. requeues' \in [Job -> 0..MaxRequeues] /\ next' = next
  BY WorkerAssumption DEF Moved, Rows
<1>4. \A j \in Job : /\ status'[j] \in Active => holder'[j] \in Worker
                     /\ status'[j] \in {"none", "pending"} => holder'[j] = NoWorker /\ next'[j] = 0
  BY <1>3 DEF Moved, Rows, Live, Active, Terminal
<1> QED
  BY <1>1, <1>2, <1>3, <1>4 DEF Rows, Moved

LEMMA MisbehavedTyped ==
    ASSUME Judgement, NEW J, \A j \in J : holder[j] \in Worker, Misbehaved(J)
    PROVE  Judgement'
BY DEF Judgement, Misbehaved

LEMMA BlameTyped ==
    ASSUME Judgement, NEW J, \A j \in J : holder[j] \in Worker, Blame(J)
    PROVE  Judgement'
<1> PICK B \in SUBSET J :
        /\ fault' = [j \in Job |-> IF j \in B THEN "worker"
                                   ELSE IF j \in J THEN "request" ELSE fault[j]]
        /\ paused' = paused \cup {holder[j] : j \in B}
  BY DEF Blame
<1> QED
  BY DEF Judgement

LEMMA RanOutTyped ==
    ASSUME Judgement, NEW J, \A j \in J : holder[j] \in Worker, RanOut(J)
    PROVE  Judgement'
BY BlameTyped DEF RanOut

LEMMA DropTyped ==
    ASSUME Daemons, NEW w \in Worker, Drop(w)
    PROVE  Daemons'
BY WorkerAssumption DEF Daemons, Drop

LEMMA TypedInit == Init => Typed
<1> SUFFICES ASSUME Init PROVE Typed
  OBVIOUS
<1>1. 0 \in 0..Cap+1 /\ 0 \in 0..MaxRequeues /\ 0 \in 0..MaxPolls
  BY WorkerAssumption
<1>2. Rows
  BY <1>1 DEF Init, Rows, Active
<1>3. Judgement /\ Daemons
  BY <1>1 DEF Init, Judgement, Daemons
<1>4. Unseen \in Seen
  BY <1>1 DEF Unseen, Seen
<1>5. Relays
  BY <1>1, <1>4 DEF Init, Relays, Running
<1>6. Others
  BY <1>1 DEF Init, Others, Chunk
<1>7. out \in [Job -> Seq(Piece)]
  BY DEF Init
<1> QED
  BY <1>2, <1>3, <1>5, <1>6, <1>7 DEF Typed

(* The loop of the relay ends, or turns.                                    *)
LEMMA LeavesTyped ==
    ASSUME Relays, NEW j \in Job, pc[j] \in Reading,
           NEW how \in {"done", "local", "error", "cancelled"}, Leaves(j, how),
           \A i \in Job : status'[i] = "none" <=> status[i] = "none"
    PROVE  Relays'
<1>1. 0 \in 0..Cap+1 /\ Unseen \in Seen
  BY WorkerAssumption DEF Unseen, Seen
<1> QED
  BY <1>1 DEF Relays, Leaves, Running, Reading

LEMMA TurnsTyped ==
    ASSUME Relays, NEW j \in Job, pc[j] \in Reading, Turns(j), missing' \subseteq Job,
           \A i \in Job : status'[i] = "none" <=> status[i] = "none"
    PROVE  Relays'
<1>1. Unseen \in Seen
  BY WorkerAssumption DEF Unseen, Seen
<1> QED
  BY <1>1 DEF Relays, Turns, Running, Reading

LEMMA FailsTyped ==
    ASSUME Rows, Judgement, Relays, NEW j \in Job, pc[j] \in Reading,
           NEW s \in {"failed", "timeout"}, NEW why \in {"none", "stall", "breach"},
           Fails(j, s, why)
    PROVE  Rows' /\ Judgement' /\ Relays'
<1>1. Ends({j}, s, Live) /\ s \in Terminal
  BY DEF Fails, Terminal
<1>2. Rows'
  BY <1>1, EndsTyped
<1>3. \A i \in Job : status'[i] = "none" <=> status[i] = "none"
  BY <1>1, EndsKeepsNone
<1>4. PICK how \in {"local", "error"} : Leaves(j, how)
  BY DEF Fails
<1>5. Relays'
  BY <1>3, <1>4, LeavesTyped
<1>6. Judgement'
  <2>1. CASE UNCHANGED judged
    BY <2>1 DEF judged, Judgement
  <2>2. CASE status[j] \in Live /\ holder[j] # NoWorker /\ (Blame({j}) \/ Misbehaved({j}))
    <3>1. holder[j] \in Worker
      BY <2>2 DEF Rows
    <3> QED
      BY <2>2, <3>1, BlameTyped, MisbehavedTyped
  <2> QED
    BY <2>1, <2>2 DEF Fails
<1> QED
  BY <1>2, <1>5, <1>6

-----------------------------------------------------------------------------
(* Each action.                                                             *)

LEMMA TypedRelay ==
    ASSUME Typed, NEW j \in Job,
           \/ Insert(j) \/ TimeUp(j) \/ Stop(j) \/ RelayStep(j) \/ Withdraw(j) \/ Crash(j)
    PROVE  Typed'
<1> USE DEF Typed
<1>1. CASE Insert(j)
  <2>1. Rows' /\ Relays'
    BY <1>1 DEF Insert, Rows, Relays, Active, Live, Terminal, Running, Reading, local
  <2> QED
    BY <1>1, <2>1 DEF Insert, Judgement, Daemons, Others, judged, daemon
<1>2. CASE TimeUp(j)
  BY <1>2 DEF TimeUp, Rows, Judgement, Daemons, Relays, Others, row, judged, daemon, relay, local
<1>3. CASE Stop(j)
  <2>1. Rows' /\ \A i \in Job : status'[i] = "none" <=> status[i] = "none"
    <3>1. CASE Ends({j}, "failed", Live)
      BY <3>1, EndsTyped, EndsKeepsNone DEF Terminal
    <3>2. CASE UNCHANGED row
      BY <3>2 DEF row, Rows
    <3> QED
      BY <1>3, <3>1, <3>2 DEF Stop
  <2>2. Leaves(j, "cancelled") /\ pc[j] \in Reading
    BY <1>3 DEF Stop, Reading
  <2>3. Relays'
    BY <2>1, <2>2, LeavesTyped
  <2> QED
    BY <1>3, <2>1, <2>3 DEF Stop, Judgement, Daemons, Others, judged, daemon
<1>4. CASE PoolTimeout(j)
  <2>1. [Unseen EXCEPT !.late = status[j] \in Active /\ j \in slow] \in Seen
    <3>1. 0 \in 0..Cap+1 /\ (status[j] \in Active /\ j \in slow) \in BOOLEAN
      BY WorkerAssumption
    <3> QED
      BY <3>1 DEF Unseen, Seen
  <2>2. Relays'
    BY <1>4, <2>1 DEF PoolTimeout, Relays, Running, Reading, row
  <2> QED
    BY <1>4, <2>2 DEF PoolTimeout, Rows, Judgement, Daemons, Others, row, judged, daemon
<1>5. CASE Stalled(j)
  <2>1. PICK why \in {"none", "stall"} : Fails(j, "timeout", why)
    BY <1>5 DEF Stalled
  <2>2. Rows' /\ Judgement' /\ Relays'
    BY <1>5, <2>1, FailsTyped DEF Stalled, Reading
  <2> QED
    BY <1>5, <2>2 DEF Stalled, Daemons, Others, daemon
<1>6. CASE Deadline(j)
  <2>1. Ends({j}, "timeout", Live) /\ Leaves(j, "error") /\ pc[j] \in Reading
    BY <1>6 DEF Deadline, Reading
  <2>2. Rows' /\ Relays'
    BY <2>1, EndsTyped, EndsKeepsNone, LeavesTyped DEF Terminal
  <2> QED
    BY <1>6, <2>2 DEF Deadline, Judgement, Daemons, Others, judged, daemon
<1>7. CASE ReadChunks(j)
  <2>1. PICK hi \in last[j]..Cap+1 :
            /\ pc[j] = "top" /\ Follow(j, hi)
            /\ out' = [out EXCEPT ![j] = @ \o Texts(j, hi)]
            /\ \/ Fails(j, "failed", "breach") /\ UNCHANGED chunk
               \/ /\ pc' = [pc EXCEPT ![j] = "status"]
                  /\ last' = [last EXCEPT ![j] = hi]
                  /\ rows' \subseteq rows \cup {j} /\ terminal' \subseteq terminal \cup {j}
                  /\ chunk' = [chunk EXCEPT ![j] = [k \in Seqs |->
                                  IF hi > last[j] /\ k \in Delivered(j, hi) THEN NoChunk ELSE @[k]]]
                  /\ UNCHANGED <<missing, seen, res, row, judged>>
    BY <1>7 DEF ReadChunks
  <2>2. last[j] \in 0..Cap+1 /\ Cap \in Nat
    BY WorkerAssumption DEF Relays
  <2>3. Texts(j, hi) \in Seq(Piece)
    <3> DEFINE n == IF hi > last[j] /\ chunk[j][hi - 1].done THEN hi - 1 - last[j] ELSE hi - last[j]
    <3>1. n \in Nat /\ n <= hi - last[j]
      BY <2>1, <2>2
    <3>2. ASSUME NEW i \in 1..n
          PROVE  [att |-> chunk[j][last[j] + i - 1].att, seq |-> last[j] + i - 1] \in Piece
      <4>1. last[j] + i - 1 \in last[j]..hi-1 /\ last[j] + i - 1 \in Seqs
        BY <2>1, <2>2, <3>1 DEF Seqs
      <4>2. chunk[j][last[j] + i - 1] \in Chunk \ {NoChunk}
        BY <2>1, <4>1 DEF Follow, Others
      <4> QED
        BY <4>1, <4>2 DEF Chunk, Piece
    <3>3. Texts(j, hi) = [i \in 1..n |-> [att |-> chunk[j][last[j] + i - 1].att, seq |-> last[j] + i - 1]]
      BY DEF Texts
    <3> HIDE DEF n
    <3>4. Texts(j, hi) \in [1..n -> Piece]
      BY <3>2, <3>3
    <3> QED
      BY <3>1, <3>4, FunctionIsSeq
  <2>4. out' \in [Job -> Seq(Piece)]
    BY <2>1, <2>3
  <2>5. Rows' /\ Judgement' /\ Relays' /\ chunk' \in [Job -> [Seqs -> Chunk]]
    <3>1. CASE Fails(j, "failed", "breach") /\ UNCHANGED chunk
      BY <2>1, <3>1, FailsTyped DEF Others, Reading
    <3>2. CASE /\ pc' = [pc EXCEPT ![j] = "status"]
               /\ last' = [last EXCEPT ![j] = hi]
               /\ rows' \subseteq rows \cup {j} /\ terminal' \subseteq terminal \cup {j}
               /\ chunk' = [chunk EXCEPT ![j] = [k \in Seqs |->
                               IF hi > last[j] /\ k \in Delivered(j, hi) THEN NoChunk ELSE @[k]]]
               /\ UNCHANGED <<missing, seen, res, row, judged>>
      <4>1. [k \in Seqs |-> IF hi > last[j] /\ k \in Delivered(j, hi) THEN NoChunk ELSE chunk[j][k]]
                \in [Seqs -> Chunk]
        BY DEF Others, Chunk
      <4>2. chunk' \in [Job -> [Seqs -> Chunk]]
        BY <3>2, <4>1 DEF Others
      <4>3. hi \in 0..Cap+1
        BY <2>1, <2>2
      <4>4. Relays'
        BY <2>1, <3>2, <4>3 DEF Relays, Running, Reading, row
      <4> QED
        BY <3>2, <4>2, <4>4 DEF Rows, Judgement, row, judged
    <3> QED
      BY <2>1, <3>1, <3>2
  <2> QED
    BY <1>7, <2>4, <2>5 DEF ReadChunks, Daemons, Others, daemon
<1>8. CASE ReadStatus(j)
  <2>1. UNCHANGED row /\ pc[j] = "status"
    BY <1>8 DEF ReadStatus
  <2>2. CASE status[j] = "gone"
    <3>1. PICK how \in {"local", "error"} : Leaves(j, how)
      BY <1>8, <2>2 DEF ReadStatus
    <3>2. Relays'
      BY <2>1, <3>1, LeavesTyped DEF row, Reading
    <3> QED
      BY <1>8, <3>2 DEF ReadStatus, Rows, Judgement, Daemons, Others, row, judged, daemon
  <2>3. CASE status[j] # "gone"
    <3>1. [status |-> status[j], next |-> next[j], late |-> status[j] \in Active /\ Expired(j)] \in Seen
      <4>1. (status[j] \in Active /\ Expired(j)) \in BOOLEAN
        OBVIOUS
      <4> QED
        BY <2>3, <4>1 DEF Seen, Rows
    <3>2. Relays'
      BY <1>8, <2>1, <2>3, <3>1 DEF ReadStatus, Relays, Running, Reading, row
    <3> QED
      BY <1>8, <3>2 DEF ReadStatus, Rows, Judgement, Daemons, Others, row, judged, daemon
  <2> QED
    BY <2>2, <2>3
<1>9. CASE ReadAgain(j)
  <2>1. missing' \subseteq Job
    BY <1>9 DEF ReadAgain, Relays
  <2>2. Relays'
    BY <1>9, <2>1, TurnsTyped DEF ReadAgain, Reading, row
  <2> QED
    BY <1>9, <2>2 DEF ReadAgain, Rows, Judgement, Daemons, Others, row, judged, daemon
<1>10. CASE Act(j)
  <2>1. pc[j] \in Reading
    BY <1>10 DEF Act, Reading
  <2>2. Rows' /\ Judgement' /\ Relays'
    <3>1. ASSUME NEW how \in {"done", "local", "error"}, Leaves(j, how), UNCHANGED <<row, judged>>
          PROVE  Rows' /\ Judgement' /\ Relays'
      BY <2>1, <3>1, LeavesTyped DEF Rows, Judgement, row, judged
    <3>2. CASE Fails(j, "failed", "breach") \/ Fails(j, "timeout", "stall")
      BY <2>1, <3>2, FailsTyped
    <3>3. CASE Ends({j}, "timeout", Active) /\ Leaves(j, "done") /\ UNCHANGED judged
      BY <2>1, <3>3, LeavesTyped, EndsTyped, EndsKeepsNone, Statuses DEF Judgement, judged, Terminal
    <3>4. CASE Turns(j) /\ UNCHANGED <<row, judged, missing>>
      BY <2>1, <3>4, TurnsTyped DEF Rows, Judgement, Relays, row, judged
    <3> QED
      BY <1>10, <3>1, <3>2, <3>3, <3>4 DEF Act
  <2> QED
    BY <1>10, <2>2 DEF Act, Daemons, Others, daemon
<1>11. CASE Release(j)
  <2>1. Rows' /\ \A i \in Job : status'[i] = "none" <=> status[i] = "none"
    <3>1. CASE Ends({j}, "failed", Live)
      BY <3>1, EndsTyped, EndsKeepsNone DEF Terminal
    <3>2. CASE UNCHANGED row
      BY <3>2 DEF row, Rows
    <3> QED
      BY <1>11, <3>1, <3>2 DEF Release
  <2>2. [k \in Seqs |-> NoChunk] \in [Seqs -> Chunk]
    BY DEF Chunk
  <2>3. chunk' \in [Job -> [Seqs -> Chunk]]
    BY <1>11, <2>2 DEF Release, Others
  <2>4. Relays'
    BY <1>11, <2>1 DEF Release, Relays, Running, Reading, local
  <2> QED
    BY <1>11, <2>1, <2>3, <2>4 DEF Release, Judgement, Daemons, Others, judged, daemon
<1>12. CASE Withdraw(j)
  <2>1. Ends({j}, "failed", Live) /\ Leaves(j, "local") /\ pc[j] \in Reading
    BY <1>12 DEF Withdraw, Reading
  <2>2. Rows' /\ Relays'
    BY <2>1, EndsTyped, EndsKeepsNone, LeavesTyped DEF Terminal
  <2> QED
    BY <1>12, <2>2 DEF Withdraw, Judgement, Daemons, Others, judged, daemon
<1>13. CASE Crash(j)
  <2>1. Relays'
    BY <1>13 DEF Crash, Relays, Running, Reading, local, row
  <2> QED
    BY <1>13, <2>1 DEF Crash, Rows, Judgement, Daemons, Others, row, judged, daemon
<1> QED
  BY <1>1, <1>2, <1>3, <1>4, <1>5, <1>6, <1>7, <1>8, <1>9, <1>10, <1>11, <1>12, <1>13 DEF RelayStep

(* A step of the worker's side leaves the relays alone.                     *)
LEMMA RelaysKept ==
    ASSUME Relays, out \in [Job -> Seq(Piece)], UNCHANGED relay,
           \A i \in Job : status'[i] = "none" <=> status[i] = "none"
    PROVE  Relays' /\ out' \in [Job -> Seq(Piece)]
BY DEF Relays, relay, local

(* A worker's request and its job are what they say.                        *)
LEMMA OfMessage ==
    ASSUME Others, NEW m \in net
    PROVE  m.att \in Attempt /\ m.att[1] \in Worker /\ m.att[2] \in 0..MaxRequeues
           /\ m.job \in Job /\ m.seq \in Seqs
BY DEF Others, Message, Attempt

LEMMA ReplyTyped ==
    ASSUME Daemons, Others, NEW m \in net, NEW ok \in BOOLEAN, Reply(m, ok)
    PROVE  Daemons'
<1> DEFINE w == m.att[1]
<1>1. w \in Worker /\ m.seq \in 0..Cap /\ Cap \in Nat
  BY OfMessage, WorkerAssumption DEF Seqs
<1>2. CASE UNCHANGED daemon
  BY <1>2 DEF daemon, Daemons
<1>3. CASE Waits(m) /\ Drop(w)
  BY <1>1, <1>3, DropTyped
<1>4. CASE /\ Waits(m) /\ sent' = [sent EXCEPT ![w] = @ + 1]
           /\ phase' = [phase EXCEPT ![w] = "work"] /\ UNCHANGED <<task, try>>
  <2>1. sent[w] = m.seq /\ phase[w] = "send"
    BY <1>4 DEF Waits
  <2> QED
    BY <1>1, <1>4, <2>1 DEF Daemons
<1> QED
  BY <1>2, <1>3, <1>4 DEF Reply

LEMMA AnsweredTyped ==
    ASSUME Daemons, Others, NEW m \in net, Answered(m)
    PROVE  Daemons'
BY OfMessage, DropTyped DEF Answered, Daemons, daemon

LEMMA RefusedTyped ==
    ASSUME Rows, Judgement, Others, NEW m \in net, NEW kind, Refused(m, kind)
    PROVE  Rows' /\ Judgement' /\ net' \subseteq net
           /\ \A i \in Job : status'[i] = "none" <=> status[i] = "none"
<1>1. m.job \in Job /\ m.att[1] \in Worker
  BY OfMessage
<1>2. CASE Owns(m)
  <2>1. Ends({m.job}, "timeout", Live) /\ RanOut({m.job}) /\ holder[m.job] \in Worker
    BY <1>1, <1>2 DEF Refused, Owns
  <2> QED
    BY <2>1, EndsTyped, EndsKeepsNone, RanOutTyped DEF Refused, Arrives, Terminal
<1>3. CASE ~Owns(m)
  BY <1>3 DEF Refused, Arrives, Rows, Judgement, row, judged
<1> QED
  BY <1>2, <1>3

LEMMA TypedHandle ==
    ASSUME Typed, NEW m \in net, Handle(m)
    PROVE  Typed'
<1> USE DEF Typed
<1>0. m.job \in Job /\ m.att[1] \in Worker /\ m.att \in Attempt /\ m.seq \in Seqs
  BY OfMessage
<1>1. CASE ChunkRefused(m) \/ CompleteRefused(m)
  <2>1. Rows' /\ Judgement' /\ net' \subseteq net
        /\ \A i \in Job : status'[i] = "none" <=> status[i] = "none"
    BY <1>1, RefusedTyped DEF ChunkRefused, CompleteRefused
  <2>2. Daemons'
    BY <1>1, ReplyTyped, AnsweredTyped DEF ChunkRefused, CompleteRefused
  <2>3. Relays' /\ out' \in [Job -> Seq(Piece)]
    BY <1>1, <2>1, RelaysKept DEF ChunkRefused, CompleteRefused, Refused
  <2> QED
    BY <1>1, <2>1, <2>2, <2>3 DEF ChunkRefused, CompleteRefused, Refused, Others
<1>2. CASE ChunkRepeated(m)
  <2>1. Daemons'
    BY <1>2, ReplyTyped DEF ChunkRepeated
  <2>2. net' \subseteq net
    BY <1>2 DEF ChunkRepeated, TakesChunk, Arrives
  <2>3. Relays' /\ out' \in [Job -> Seq(Piece)]
    BY <1>2, RelaysKept DEF ChunkRepeated
  <2> QED
    BY <1>2, <2>1, <2>2, <2>3 DEF ChunkRepeated, Rows, Judgement, Others, judged
<1>3. CASE ChunkBroken(m)
  <2>1. Ends({m.job}, "failed", Live) /\ Misbehaved({m.job}) /\ holder[m.job] \in Worker
    BY <1>0, <1>3 DEF ChunkBroken, TakesChunk, Owns
  <2>2. Rows' /\ Judgement' /\ \A i \in Job : status'[i] = "none" <=> status[i] = "none"
    BY <2>1, EndsTyped, EndsKeepsNone, MisbehavedTyped DEF Terminal
  <2>3. Daemons' /\ net' \subseteq net
    BY <1>3, ReplyTyped DEF ChunkBroken, TakesChunk, Arrives
  <2>4. Relays' /\ out' \in [Job -> Seq(Piece)]
    BY <1>3, <2>2, RelaysKept DEF ChunkBroken
  <2> QED
    BY <1>3, <2>2, <2>3, <2>4 DEF ChunkBroken, Others
<1>4. CASE ChunkStored(m)
  <2>1. PICK over \in BOOLEAN, d \in BOOLEAN :
           /\ chunk' = [chunk EXCEPT ![m.job] = [@ EXCEPT ![m.seq] = [att |-> m.att, done |-> d]]]
           /\ status' = [status EXCEPT ![m.job] = IF over THEN "done" ELSE "streaming"]
           /\ Reply(m, ~over)
    BY <1>4 DEF ChunkStored
  <2>2. m.seq = next[m.job] /\ Owns(m) /\ next' = [next EXCEPT ![m.job] = @ + 1]
    BY <1>4 DEF ChunkStored, TakesChunk, Ordered
  <2>3. status[m.job] \in Active /\ m.seq + 1 \in 0..Cap+1
    BY <1>0, <2>2, WorkerAssumption DEF Owns, Seqs
  <2>4. Rows'
    BY <1>0, <1>4, <2>1, <2>2, <2>3 DEF ChunkStored, Rows, Active, Live, Terminal
  <2>5. \A i \in Job : status'[i] = "none" <=> status[i] = "none"
    BY <2>1, <2>3 DEF Rows, Active
  <2>6. Daemons' /\ net' \subseteq net
    BY <1>4, <2>1, ReplyTyped DEF ChunkStored, TakesChunk, Arrives
  <2>7. Relays' /\ out' \in [Job -> Seq(Piece)]
    BY <1>4, <2>5, RelaysKept DEF ChunkStored
  <2>8. chunk' \in [Job -> [Seqs -> Chunk]]
    <3>1. [att |-> m.att, done |-> d] \in Chunk
      BY <1>0, <2>1 DEF Chunk
    <3> QED
      BY <1>0, <2>1, <3>1 DEF Others
  <2> QED
    BY <1>4, <2>4, <2>6, <2>7, <2>8 DEF ChunkStored, Judgement, Others, judged
<1>5. CASE Complete(m)
  <2>1. Rows' /\ Judgement' /\ \A i \in Job : status'[i] = "none" <=> status[i] = "none"
    <3>1. CASE Ends({m.job}, "done", Active) /\ paused' = paused \ {m.att[1]} /\ UNCHANGED fault
      BY <3>1, EndsTyped, EndsKeepsNone, Statuses DEF Terminal, Judgement
    <3>2. CASE Ends({m.job}, "failed", Live) /\ Misbehaved({m.job})
      <4>1. holder[m.job] \in Worker
        BY <1>0, <1>5 DEF Complete, Owns
      <4> QED
        BY <3>2, <4>1, EndsTyped, EndsKeepsNone, MisbehavedTyped DEF Terminal
    <3> QED
      BY <1>5, <3>1, <3>2 DEF Complete
  <2>2. Daemons' /\ net' \subseteq net
    BY <1>5, AnsweredTyped DEF Complete, Arrives
  <2>3. Relays' /\ out' \in [Job -> Seq(Piece)]
    BY <1>5, <2>1, RelaysKept DEF Complete
  <2> QED
    BY <1>5, <2>1, <2>2, <2>3 DEF Complete, Others
<1>6. CASE Fail(m)
  <2>1. Rows' /\ Judgement' /\ \A i \in Job : status'[i] = "none" <=> status[i] = "none"
    <3>1. CASE UNCHANGED <<row, judged>>
      BY <3>1 DEF row, judged, Rows, Judgement
    <3>2. CASE /\ Owns(m) /\ next[m.job] = 0
               /\ Moved(Back({m.job}), {m.job} \ Back({m.job}), NoWorker, {})
               /\ silent' = silent \ {m.job} /\ UNCHANGED judged
      <4>1. holder[m.job] \in Worker /\ status[m.job] \in Active
        BY <1>0, <3>2 DEF Owns
      <4>2. Rows'
        BY <1>0, <3>2, <4>1, MovedTyped DEF Back
      <4>3. \A i \in Job : status'[i] = "none" <=> status[i] = "none"
        BY <3>2, <4>1 DEF Moved, Rows, Active, Back
      <4> QED
        BY <3>2, <4>2, <4>3 DEF judged, Judgement
    <3>3. CASE /\ Owns(m) /\ Ends({m.job}, "failed", Live)
               /\ \/ Blame({m.job})
                  \/ /\ fault' = [fault EXCEPT ![m.job] = "request"]
                     /\ paused' = paused \/ paused' = paused \cup {m.att[1]}
      <4>1. holder[m.job] \in Worker
        BY <1>0, <3>3 DEF Owns
      <4>2. Judgement'
        BY <1>0, <3>3, <4>1, BlameTyped DEF Judgement
      <4> QED
        BY <3>3, <4>2, EndsTyped, EndsKeepsNone DEF Terminal
    <3> QED
      BY <1>6, <3>1, <3>2, <3>3 DEF Fail
  <2>2. Relays' /\ out' \in [Job -> Seq(Piece)]
    BY <1>6, <2>1, RelaysKept DEF Fail
  <2> QED
    BY <1>6, <2>1, <2>2 DEF Fail, Daemons, Others, daemon
<1>7. CASE Lose(m)
  BY <1>7 DEF Lose, Rows, Judgement, Daemons, Relays, Others, row, judged, daemon, relay, local
<1> QED
  BY <1>1, <1>2, <1>3, <1>4, <1>5, <1>6, <1>7 DEF Handle

(* A worker that asks for work.                                             *)
LEMMA ClaimTyped ==
    ASSUME Typed, NEW w \in Worker, NEW C \in SUBSET Job, ClaimFor(w, C)
    PROVE  Rows' /\ Judgement' /\ Relays' /\ out' \in [Job -> Seq(Piece)]
<1> USE DEF Typed
<1> DEFINE A == HeldBy(w)
<1>1. A \subseteq Job /\ \A j \in A : holder[j] = w /\ status[j] \in Active
  BY DEF HeldBy
<1>2. \A j \in C : status[j] = "pending"
  BY DEF ClaimFor, Offered
<1>3. /\ Moved(Back(A), A \ Back(A), w, C) /\ silent' = silent \ (A \cup C)
      /\ Misbehaved({j \in A : next[j] > 0}) /\ UNCHANGED relay
  BY DEF ClaimFor
<1>4. Back(A) \cap C = {}
  BY <1>1, <1>2 DEF Back, Active
<1>5. Rows'
  <2>1. \A j \in Back(A) : next[j] = 0 /\ requeues[j] < MaxRequeues /\ holder[j] \in Worker
    BY <1>1 DEF Back
  <2>2. Back(A) \subseteq Job /\ silent' \subseteq silent
    BY <1>1, <1>3 DEF Back
  <2> HIDE DEF A
  <2> QED
    BY <1>2, <1>3, <1>4, <2>1, <2>2, MovedTyped
<1>6. Judgement'
  BY <1>1, <1>3, MisbehavedTyped
<1>7. \A i \in Job : status'[i] = "none" <=> status[i] = "none"
  BY <1>1, <1>2, <1>3 DEF Moved, Rows, Active, Back
<1> QED
  BY <1>3, <1>5, <1>6, <1>7, RelaysKept

LEMMA SendsTyped ==
    ASSUME Daemons, Others, NEW w \in Worker, task[w] \in Job,
           NEW kind \in {"chunk", "complete", "fail", "defer"}, NEW k \in Seqs, Sends(w, kind, k)
    PROVE  net' \subseteq Message
<1>1. [kind |-> kind, att |-> <<w, try[w]>>, job |-> task[w], seq |-> k] \in Message
  BY DEF Daemons, Message, Attempt
<1> QED
  BY <1>1 DEF Sends, Others

LEMMA TypedWorker ==
    ASSUME Typed, NEW w \in Worker,
           \/ Claim(w) \/ NoClaim(w) \/ Poll(w) \/ SendChunk(w) \/ SendComplete(w)
           \/ SendFail(w) \/ Quit(w) \/ PauseEnds(w) \/ Enable(w) \/ Disable(w)
           \/ \E busy, heard \in BOOLEAN : Heartbeat(w, busy, heard)
    PROVE  Typed'
<1> USE DEF Typed
<1>0. 0 \in Seqs /\ Cap \in Nat /\ MaxPolls \in Nat
  BY WorkerAssumption DEF Seqs
<1>1. CASE Claim(w)
  <2>1. PICK j \in Job :
           /\ ClaimFor(w, {j})
           /\ polls' = [polls EXCEPT ![w] = @ - 1]
           /\ \/ /\ phase[w] = "poll"
                 /\ phase' = [phase EXCEPT ![w] = "work"]
                 /\ task' = [task EXCEPT ![w] = j]
                 /\ try' = [try EXCEPT ![w] = requeues[j]]
              \/ UNCHANGED <<phase, task, try>>
    BY <1>1 DEF Claim
  <2>2. Rows' /\ Judgement' /\ Relays' /\ out' \in [Job -> Seq(Piece)]
    BY <2>1, ClaimTyped
  <2>3. polls[w] > 0 /\ UNCHANGED <<chunk, enabled, net, sent, due>>
    BY <2>1 DEF ClaimFor
  <2>4. Daemons'
    <3>1. CASE /\ phase' = [phase EXCEPT ![w] = "work"]
               /\ task' = [task EXCEPT ![w] = j]
               /\ try' = [try EXCEPT ![w] = requeues[j]]
      <4>1. requeues[j] \in 0..MaxRequeues
        BY DEF Rows
      <4>2. sent' = sent
        BY <2>3
      <4> QED
        BY <3>1, <4>1, <4>2 DEF Daemons
    <3>2. CASE UNCHANGED <<phase, task, try>>
      BY <2>3, <3>2 DEF Daemons
    <3> QED
      BY <2>1, <3>1, <3>2
  <2>5. polls' \in [Worker -> 0..MaxPolls]
    <3>1. polls[w] \in 1..MaxPolls
      BY <1>0, <2>3 DEF Others
    <3> QED
      BY <1>0, <2>1, <3>1 DEF Others
  <2> QED
    BY <2>2, <2>3, <2>4, <2>5 DEF Others
<1>2. CASE NoClaim(w)
  <2>1. /\ Rows' /\ Judgement' /\ Relays' /\ out' \in [Job -> Seq(Piece)]
        /\ UNCHANGED <<chunk, enabled, net, sent, due>> /\ polls[w] > 0
    <3>1. CASE ClaimFor(w, {})
      BY <1>2, <3>1, ClaimTyped DEF NoClaim, ClaimFor
    <3>2. CASE UNCHANGED <<row, judged, chunk, enabled, net, sent, relay, due>>
      BY <1>2, <3>2 DEF NoClaim, Rows, Judgement, Relays, row, judged, relay, local
    <3> QED
      BY <1>2, <3>1, <3>2 DEF NoClaim
  <2>2. Daemons'
    BY <1>2, <2>1 DEF NoClaim, Daemons
  <2>3. polls' \in [Worker -> 0..MaxPolls]
    <3>1. polls[w] \in 1..MaxPolls
      BY <1>0, <2>1 DEF Others
    <3> QED
      BY <1>0, <1>2, <3>1 DEF NoClaim, Others
  <2> QED
    BY <2>1, <2>2, <2>3 DEF Others
<1>3. CASE Poll(w)
  <2>1. polls' \in [Worker -> 0..MaxPolls]
    BY <1>0, <1>3 DEF Poll, Others
  <2>2. Daemons'
    BY <1>3 DEF Poll, Daemons
  <2> QED
    BY <1>3, <2>1, <2>2 DEF Poll, Rows, Judgement, Relays, Others, row, judged, relay, local
<1>4. CASE SendChunk(w)
  <2>1. task[w] \in Job /\ sent[w] \in Seqs
    BY <1>0, <1>4 DEF SendChunk, Daemons, Seqs
  <2>2. net' \subseteq Message
    BY <1>4, <2>1, SendsTyped DEF SendChunk
  <2>3. Daemons'
    BY <1>4, <2>1 DEF SendChunk, Daemons
  <2> QED
    BY <1>4, <2>2, <2>3 DEF SendChunk, Rows, Judgement, Relays, Others, row, judged, relay, local
<1>5. CASE SendComplete(w)
  <2>1. task[w] \in Job
    BY <1>5 DEF SendComplete, Daemons
  <2>2. net' \subseteq Message
    BY <1>0, <1>5, <2>1, SendsTyped DEF SendComplete
  <2>3. Daemons'
    BY <1>5, <2>1 DEF SendComplete, Daemons
  <2> QED
    BY <1>5, <2>2, <2>3 DEF SendComplete, Rows, Judgement, Relays, Others, row, judged, relay, local
<1>6. CASE SendFail(w)
  <2>1. task[w] \in Job
    BY <1>6 DEF SendFail, Daemons
  <2>2. net' \subseteq Message
    BY <1>0, <1>6, <2>1, SendsTyped DEF SendFail
  <2>3. Daemons'
    BY <1>6, DropTyped DEF SendFail
  <2> QED
    BY <1>6, <2>2, <2>3 DEF SendFail, Rows, Judgement, Relays, Others, row, judged, relay, local
<1>7. CASE Quit(w)
  <2>1. Daemons'
    BY <1>7, DropTyped DEF Quit
  <2> QED
    BY <1>7, <2>1 DEF Quit, Rows, Judgement, Relays, Others, row, judged, relay, local
<1>8. CASE PauseEnds(w) \/ Enable(w)
  BY <1>8 DEF PauseEnds, Enable, Rows, Judgement, Daemons, Relays, Others, row, daemon, relay, local
<1>9. CASE Disable(w)
  <2>1. Ends(HeldBy(w), "failed", Active)
    BY <1>9 DEF Disable
  <2>2. Rows' /\ \A i \in Job : status'[i] = "none" <=> status[i] = "none"
    BY <2>1, EndsTyped, EndsKeepsNone, Statuses DEF Terminal
  <2>3. Relays' /\ out' \in [Job -> Seq(Piece)]
    BY <1>9, <2>2, RelaysKept DEF Disable
  <2> QED
    BY <1>9, <2>2, <2>3 DEF Disable, Judgement, Daemons, Others, judged, daemon
<1>10. ASSUME NEW busy \in BOOLEAN, NEW heard \in BOOLEAN, Heartbeat(w, busy, heard)
       PROVE  Typed'
  <2> DEFINE A == {j \in HeldBy(w) : busy /\ next[j] = 0}
  <2>1. /\ Moved(Back(A), A \ Back(A), NoWorker, {}) /\ silent' = silent \ HeldBy(w)
        /\ UNCHANGED <<judged, chunk, enabled, polls, net, relay, due>>
        /\ Drop(w) \/ UNCHANGED daemon
    BY <1>10 DEF Heartbeat
  <2>2. /\ Back(A) \subseteq Job /\ \A j \in Job : j \in A => status[j] \in Active
        /\ \A j \in Back(A) : next[j] = 0 /\ requeues[j] < MaxRequeues /\ holder[j] \in Worker
    BY DEF Back, HeldBy
  <2> HIDE DEF A
  <2>3. Rows'
    BY <2>1, <2>2, MovedTyped
  <2>4. \A i \in Job : status'[i] = "none" <=> status[i] = "none"
    BY <2>1, <2>2 DEF Moved, Rows, Active, Back
  <2>5. Relays' /\ out' \in [Job -> Seq(Piece)]
    BY <2>1, <2>4, RelaysKept
  <2>6. Daemons'
    BY <2>1, DropTyped DEF Daemons, daemon
  <2> QED
    BY <2>1, <2>3, <2>5, <2>6 DEF Judgement, Others, judged
<1> QED
  BY <1>1, <1>2, <1>3, <1>4, <1>5, <1>6, <1>7, <1>8, <1>9, <1>10

LEMMA TypedTime ==
    ASSUME Typed, Maintain \/ \E j \in Job : RunsLate(j) \/ Purge(j)
    PROVE  Typed'
<1> USE DEF Typed
<1>1. ASSUME NEW j \in Job, RunsLate(j)
      PROVE  Typed'
  BY <1>1 DEF RunsLate, Rows, Judgement, Daemons, Relays, Others, judged, daemon, relay, local
<1>2. ASSUME NEW j \in Job, Purge(j)
      PROVE  Typed'
  <2>1. Rows' /\ Judgement' /\ \A i \in Job : status'[i] = "none" <=> status[i] = "none"
    <3>1. CASE UNCHANGED <<status, holder, next, requeues, deferred, fault>>
      BY <1>2, <3>1 DEF Purge, Rows, Judgement
    <3>2. CASE /\ status' = [status EXCEPT ![j] = "gone"]
               /\ holder' = [holder EXCEPT ![j] = NoWorker]
               /\ deferred' = [deferred EXCEPT ![j] = NoWorker]
               /\ next' = [next EXCEPT ![j] = 0] /\ requeues' = [requeues EXCEPT ![j] = 0]
               /\ fault' = [fault EXCEPT ![j] = "none"]
      <4>1. 0 \in 0..Cap+1 /\ 0 \in 0..MaxRequeues
        BY WorkerAssumption
      <4> QED
        BY <1>2, <3>2, <4>1 DEF Purge, Rows, Judgement, Active, Terminal
    <3> QED
      BY <1>2, <3>1, <3>2 DEF Purge
  <2>2. [k \in Seqs |-> NoChunk] \in [Seqs -> Chunk]
    BY DEF Chunk
  <2>3. chunk' \in [Job -> [Seqs -> Chunk]]
    BY <1>2, <2>2 DEF Purge, Others
  <2>4. Relays' /\ out' \in [Job -> Seq(Piece)]
    BY <1>2, <2>1, RelaysKept DEF Purge
  <2> QED
    BY <1>2, <2>1, <2>3, <2>4 DEF Purge, Daemons, Others, daemon
<1>3. ASSUME Maintain
      PROVE  Typed'
  <2> DEFINE late == {j \in Job : status[j] \in Active /\ Expired(j)}
  <2>1. PICK J : Ends(J, "timeout", Live)
    BY <1>3 DEF Maintain
  <2>2. RanOut(late) /\ \A j \in late : holder[j] \in Worker
    BY <1>3 DEF Maintain, Rows
  <2>3. Rows' /\ Judgement' /\ \A i \in Job : status'[i] = "none" <=> status[i] = "none"
    BY <2>1, <2>2, EndsTyped, EndsKeepsNone, RanOutTyped DEF Terminal
  <2>4. Relays' /\ out' \in [Job -> Seq(Piece)]
    BY <1>3, <2>3, RelaysKept DEF Maintain
  <2> QED
    BY <1>3, <2>3, <2>4 DEF Maintain, Daemons, Others, daemon
<1> QED
  BY <1>1, <1>2, <1>3

LEMMA TypedNext == Typed /\ [Next]_vars => Typed'
<1> SUFFICES ASSUME Typed, [Next]_vars PROVE Typed'
  OBVIOUS
<1>1. CASE UNCHANGED vars
  BY <1>1 DEF Typed, Rows, Judgement, Daemons, Relays, Others, vars, row, judged, daemon, relay, local
<1>2. CASE Next
  BY <1>2, TypedRelay, TypedHandle, TypedWorker, TypedTime DEF Next
<1> QED
  BY <1>1, <1>2

LEMMA TypedAlways == Spec => []Typed
BY TypedInit, TypedNext, PTL DEF Spec

LEMMA TypedIsTyped == Typed => TypeOK
BY DEF Typed, Rows, Judgement, Daemons, Relays, Others, TypeOK

(* Every request, worker and message of the relay is in a state the code    *)
(* knows.                                                                   *)
THEOREM TypeCorrect == Spec => []TypeOK
BY TypedAlways, TypedIsTyped, PTL
-----------------------------------------------------------------------------
(* What the pieces in the database say of the attempt that wrote them.      *)

(* The piece with which an attempt ends.                                    *)
Size == [a \in Attempt |-> IF Pieces[a[1]] <= Cap THEN Pieces[a[1]] ELSE Cap]

(* Pieces are stored in order, by one attempt of the worker that holds the  *)
(* job; only the last of an attempt is the final one, and the last one      *)
(* stored is there as long as the job goes on.                              *)
Stored ==
    \A j \in Job :
        /\ \A k \in Seqs : chunk[j][k] # NoChunk =>
              /\ k < next[j] /\ k <= Size[chunk[j][k].att]
              /\ chunk[j][k].done <=> k = Size[chunk[j][k].att]
              /\ status[j] \in Active => chunk[j][k].att[1] = holder[j]
        /\ \A k, l \in Seqs : chunk[j][k] # NoChunk /\ chunk[j][l] # NoChunk
                                => chunk[j][k].att = chunk[j][l].att
        /\ status[j] \in Live /\ next[j] > 0 => chunk[j][next[j] - 1] # NoChunk

(* The first n pieces of attempt a of job j were accepted, and no other's.  *)
Accepted(j, a, n) ==
    \/ status[j] = "gone"
    \/ next[j] >= n /\ \A k \in Seqs : chunk[j][k] # NoChunk => chunk[j][k].att = a

(* A daemon sends a piece once the earlier ones were accepted.              *)
InStep(w) ==
    /\ sent[w] > 0 => task[w] \in Job /\ Accepted(task[w], <<w, try[w]>>, sent[w])
    /\ sent[w] <= Pieces[w] + 1
    /\ phase[w] \in {"idle", "poll"} => sent[w] = 0
    /\ phase[w] = "send" => sent[w] <= Pieces[w]

(* A request on its way was sent so, and the daemon has not begun the same  *)
(* job again since.                                                         *)
Bears(m) ==
    /\ m.kind = "chunk" => m.seq <= Pieces[m.att[1]]
    /\ m.kind = "chunk" /\ m.seq > 0 => Accepted(m.job, m.att, m.seq)
    /\ m.kind = "complete" => Accepted(m.job, m.att, Pieces[m.att[1]] + 1)
                              /\ Pieces[m.att[1]] <= Cap
    /\ m.kind = "complete" \/ (m.kind = "chunk" /\ m.seq > 0) =>
          (task[m.att[1]] = m.job => try[m.att[1]] = m.att[2])

(* Once two pieces of a job were stored they are of the attempt that the    *)
(* daemon makes, if it still runs the job.                                  *)
OneTry(j) ==
    \A k \in Seqs : LET w == chunk[j][k].att[1] IN
        chunk[j][k] # NoChunk /\ next[j] >= 2 /\ task[w] = j => try[w] = chunk[j][k].att[2]

Acknowledged == /\ \A w \in Worker : InStep(w)
                /\ \A m \in net : Bears(m)
                /\ \A j \in Job : OneTry(j)

Inv == Typed /\ Stored /\ Acknowledged

-----------------------------------------------------------------------------
(* What a step does to a job.                                               *)

(* Its row, when no piece is stored: it stays, ends, is inserted, handed    *)
(* back, claimed or purged.                                                 *)
Goes(j) ==
    \/ status'[j] = status[j] /\ holder'[j] = holder[j] /\ next'[j] = next[j]
    \/ /\ status[j] \in Live /\ status'[j] \in Terminal
       /\ holder'[j] = holder[j] /\ next'[j] = next[j]
    \/ /\ status[j] \in Active \cup {"none"} /\ status'[j] = "pending"
       /\ next'[j] = next[j]
    \/ /\ status[j] = "pending" /\ status'[j] = "claimed"
       /\ holder'[j] \in enabled /\ next'[j] = next[j]
    \/ /\ status[j] \in Terminal /\ status'[j] = "gone"
       /\ next'[j] = 0 /\ \A k \in Seqs : chunk'[j][k] = NoChunk

(* Its pieces, too: none is added, and the last stays while the job goes on. *)
Quiet ==
    \A j \in Job :
        /\ Goes(j)
        /\ \A k \in Seqs : chunk'[j][k] \in {chunk[j][k], NoChunk}
        /\ status'[j] \in Live /\ next[j] > 0
              => chunk'[j][next[j] - 1] = chunk[j][next[j] - 1]

LEMMA EndsGoes ==
    ASSUME Rows, NEW J, NEW s \in Terminal, NEW From \in SUBSET Live, Ends(J, s, From)
    PROVE  \A j \in Job : Goes(j)
BY DEF Rows, Ends, Goes

LEMMA MovedGoes ==
    ASSUME Rows, NEW J, NEW F, NEW C, NEW w \in Worker \cup {NoWorker},
           \A j \in J \cup F : j \in Job => status[j] \in Active,
           \A j \in C : j \in Job => status[j] = "pending" /\ w \in enabled,
           Moved(J, F, w, C)
    PROVE  \A j \in Job : Goes(j)
<1> SUFFICES ASSUME NEW j \in Job PROVE Goes(j)
  OBVIOUS
<1>1. next'[j] = next[j]
  BY DEF Moved
<1>2. CASE j \in C
  BY <1>1, <1>2 DEF Moved, Goes
<1>3. CASE j \notin C /\ j \in J
  BY <1>1, <1>3 DEF Moved, Goes
<1>4. CASE j \notin C /\ j \notin J /\ j \in F
  BY <1>1, <1>4 DEF Moved, Goes, Live, Terminal
<1>5. CASE j \notin C /\ j \notin J /\ j \notin F
  BY <1>1, <1>5 DEF Moved, Goes
<1> QED
  BY <1>2, <1>3, <1>4, <1>5

LEMMA StaysGoes ==
    ASSUME UNCHANGED <<status, holder, next>>
    PROVE  \A j \in Job : Goes(j)
BY DEF Goes

LEMMA FailsGoes ==
    ASSUME Rows, NEW j \in Job, NEW s \in {"failed", "timeout"}, NEW why, Fails(j, s, why)
    PROVE  \A i \in Job : Goes(i)
BY EndsGoes DEF Fails, Terminal

(* Where the pieces stay, only the row matters.                             *)
LEMMA QuietRows ==
    ASSUME \A j \in Job : Goes(j), UNCHANGED chunk
    PROVE  Quiet
BY DEF Quiet

LEMMA RelayIsQuiet ==
    ASSUME Typed, Stored, NEW j \in Job,
           \/ Insert(j) \/ TimeUp(j) \/ Stop(j) \/ RelayStep(j) \/ Withdraw(j) \/ Crash(j)
    PROVE  Quiet
<1> USE DEF Typed
<1>1. CASE Insert(j)
  <2>1. status[j] = "none"
    BY <1>1 DEF Insert, Relays
  <2>2. \A i \in Job : Goes(i)
    BY <1>1, <2>1 DEF Insert, Goes, Rows
  <2> QED
    BY <1>1, <2>2, QuietRows DEF Insert
<1>2. CASE TimeUp(j) \/ PoolTimeout(j) \/ ReadStatus(j) \/ ReadAgain(j) \/ Crash(j)
  BY <1>2, StaysGoes, QuietRows DEF TimeUp, PoolTimeout, ReadStatus, ReadAgain, Crash, row
<1>3. CASE Stop(j)
  BY <1>3, StaysGoes, EndsGoes, QuietRows DEF Stop, row, Terminal
<1>4. CASE Stalled(j)
  BY <1>4, FailsGoes, QuietRows DEF Stalled
<1>5. CASE Deadline(j) \/ Withdraw(j)
  BY <1>5, EndsGoes, QuietRows DEF Deadline, Withdraw, Terminal
<1>6. CASE ReadChunks(j)
  <2>1. PICK hi \in last[j]..Cap+1 :
          /\ Follow(j, hi)
          /\ \/ Fails(j, "failed", "breach") /\ UNCHANGED chunk
             \/ /\ chunk' = [chunk EXCEPT ![j] = [k \in Seqs |->
                               IF hi > last[j] /\ k \in Delivered(j, hi) THEN NoChunk ELSE @[k]]]
                /\ UNCHANGED row
    BY <1>6 DEF ReadChunks
  <2>2. CASE Fails(j, "failed", "breach") /\ UNCHANGED chunk
    BY <2>2, FailsGoes, QuietRows
  <2>3. CASE /\ chunk' = [chunk EXCEPT ![j] = [k \in Seqs |->
                            IF hi > last[j] /\ k \in Delivered(j, hi) THEN NoChunk ELSE @[k]]]
             /\ UNCHANGED row
    <3>1. \A i \in Job : Goes(i)
      BY <2>3, StaysGoes DEF row
    <3>2. \A i \in Job : \A k \in Seqs : chunk'[i][k] \in {chunk[i][k], NoChunk}
      BY <2>3 DEF Others
    <3>3. ASSUME NEW i \in Job, next[i] > 0
          PROVE  chunk'[i][next[i] - 1] = chunk[i][next[i] - 1]
      <4>1. next[i] \in 0..Cap+1 /\ last[j] \in 0..Cap+1 /\ Cap \in Nat
        BY WorkerAssumption DEF Rows, Relays
      <4>2. next[i] - 1 \in Seqs
        BY <3>3, <4>1 DEF Seqs
      <4>3. CASE i # j \/ hi = last[j]
        BY <2>1, <2>3, <4>1, <4>2, <4>3 DEF Others
      <4>4. CASE i = j /\ hi > last[j]
        <5>1. hi - 1 \in Seqs /\ chunk[j][hi - 1] # NoChunk
          BY <2>1, <4>1, <4>4 DEF Follow, Seqs
        <5>2. hi - 1 < next[j]
          BY <5>1 DEF Stored
        <5>3. next[j] - 1 \notin Delivered(j, hi)
          BY <2>1, <4>1, <4>4, <5>2 DEF Delivered
        <5> QED
          BY <2>3, <4>2, <4>4, <5>3 DEF Others
      <4> QED
        BY <2>1, <4>1, <4>3, <4>4
    <3> QED
      BY <3>1, <3>2, <3>3 DEF Quiet
  <2> QED
    BY <2>1, <2>2, <2>3
<1>7. CASE Act(j)
  <2>1. \A i \in Job : Goes(i)
    BY <1>7, FailsGoes, StaysGoes, EndsGoes, Statuses DEF Act, row, Terminal
  <2> QED
    BY <1>7, <2>1, QuietRows DEF Act
<1>8. CASE Release(j)
  <2>1. CASE UNCHANGED <<row, chunk>>
    BY <2>1, StaysGoes, QuietRows DEF row
  <2>2. CASE /\ Ends({j}, "failed", Live)
             /\ chunk' = [chunk EXCEPT ![j] = [k \in Seqs |-> NoChunk]]
    <3>1. \A i \in Job : Goes(i)
      BY <2>2, EndsGoes DEF Terminal
    <3>2. status'[j] \notin Live
      BY <2>2 DEF Ends, Live, Active
    <3> QED
      BY <2>2, <3>1, <3>2 DEF Quiet, Others
  <2> QED
    BY <1>8, <2>1, <2>2 DEF Release
<1> QED
  BY <1>1, <1>2, <1>3, <1>4, <1>5, <1>6, <1>7, <1>8 DEF RelayStep

LEMMA HandleIsQuiet ==
    ASSUME Typed, NEW m \in net, Handle(m)
    PROVE  Quiet \/ ChunkStored(m)
<1> USE DEF Typed
<1>0. m.job \in Job
  BY OfMessage
<1>1. CASE ChunkRefused(m) \/ CompleteRefused(m)
  BY <1>1, EndsGoes, StaysGoes, QuietRows DEF ChunkRefused, CompleteRefused, Refused, row, Terminal
<1>2. CASE ChunkRepeated(m) \/ Lose(m)
  BY <1>2, StaysGoes, QuietRows DEF ChunkRepeated, Lose, row
<1>3. CASE ChunkBroken(m)
  BY <1>3, EndsGoes, QuietRows DEF ChunkBroken, Terminal
<1>4. CASE Complete(m)
  BY <1>4, EndsGoes, QuietRows, Statuses DEF Complete, Terminal
<1>5. CASE Fail(m)
  <2>1. CASE UNCHANGED row
    BY <1>5, <2>1, StaysGoes, QuietRows DEF Fail, row
  <2>2. CASE Ends({m.job}, "failed", Live)
    BY <1>5, <2>2, EndsGoes, QuietRows DEF Fail, Terminal
  <2>3. CASE Owns(m) /\ Moved(Back({m.job}), {m.job} \ Back({m.job}), NoWorker, {})
    <3> DEFINE A == {m.job}
    <3>1. \A j \in Back(A) \cup (A \ Back(A)) : status[j] \in Active
      BY <2>3 DEF Owns, Back
    <3>2. Moved(Back(A), A \ Back(A), NoWorker, {})
      BY <2>3
    <3> HIDE DEF A
    <3>3. \A j \in Job : Goes(j)
      BY <3>1, <3>2, MovedGoes
    <3> QED
      BY <1>5, <3>3, QuietRows DEF Fail
  <2> QED
    BY <1>5, <2>1, <2>2, <2>3 DEF Fail
<1> QED
  BY <1>1, <1>2, <1>3, <1>4, <1>5 DEF Handle

LEMMA ClaimIsQuiet ==
    ASSUME Typed, NEW w \in Worker, NEW C \in SUBSET Job, ClaimFor(w, C)
    PROVE  Quiet
<1> USE DEF Typed
<1>1. \A j \in C : status[j] = "pending" /\ w \in enabled
  BY DEF ClaimFor, Offered, MayClaim
<1>2. Moved(Back(HeldBy(w)), HeldBy(w) \ Back(HeldBy(w)), w, C) /\ UNCHANGED chunk
  BY DEF ClaimFor
<1>3. \A j \in Back(HeldBy(w)) \cup (HeldBy(w) \ Back(HeldBy(w))) : status[j] \in Active
  BY DEF Back, HeldBy
<1>4. \A j \in Job : Goes(j)
  BY <1>1, <1>2, <1>3, MovedGoes
<1> QED
  BY <1>2, <1>4, QuietRows

LEMMA WorkerIsQuiet ==
    ASSUME Typed, NEW w \in Worker,
           \/ Claim(w) \/ NoClaim(w) \/ Poll(w) \/ SendChunk(w) \/ SendComplete(w)
           \/ SendFail(w) \/ Quit(w) \/ PauseEnds(w) \/ Enable(w) \/ Disable(w)
           \/ \E busy, heard \in BOOLEAN : Heartbeat(w, busy, heard)
    PROVE  Quiet
<1> USE DEF Typed
<1>1. CASE Claim(w) \/ NoClaim(w)
  BY <1>1, ClaimIsQuiet, StaysGoes, QuietRows DEF Claim, NoClaim, row
<1>2. CASE Poll(w) \/ SendChunk(w) \/ SendComplete(w) \/ SendFail(w)
  BY <1>2, StaysGoes, QuietRows DEF Poll, SendChunk, SendComplete, SendFail, row
<1>3. CASE Quit(w) \/ PauseEnds(w) \/ Enable(w)
  BY <1>3, StaysGoes, QuietRows DEF Quit, PauseEnds, Enable, row
<1>4. CASE Disable(w)
  BY <1>4, EndsGoes, QuietRows, Statuses DEF Disable, Terminal
<1>5. ASSUME NEW busy \in BOOLEAN, NEW heard \in BOOLEAN, Heartbeat(w, busy, heard)
      PROVE  Quiet
  <2> DEFINE A == {j \in HeldBy(w) : busy /\ next[j] = 0}
  <2>1. Moved(Back(A), A \ Back(A), NoWorker, {}) /\ UNCHANGED chunk
    BY <1>5 DEF Heartbeat
  <2>2. \A j \in Back(A) \cup (A \ Back(A)) : status[j] \in Active
    BY DEF Back, HeldBy
  <2> HIDE DEF A
  <2>3. \A j \in Job : Goes(j)
    BY <2>1, <2>2, MovedGoes
  <2> QED
    BY <2>1, <2>3, QuietRows
<1> QED
  BY <1>1, <1>2, <1>3, <1>4, <1>5

LEMMA TimeIsQuiet ==
    ASSUME Typed, Maintain \/ \E j \in Job : RunsLate(j) \/ Purge(j)
    PROVE  Quiet
<1> USE DEF Typed
<1>1. ASSUME NEW j \in Job, RunsLate(j)
      PROVE  Quiet
  BY <1>1, StaysGoes, QuietRows DEF RunsLate
<1>2. ASSUME NEW j \in Job, Purge(j)
      PROVE  Quiet
  <2>1. /\ status[j] \in Terminal /\ status[j] \notin Live
        /\ chunk' = [chunk EXCEPT ![j] = [k \in Seqs |-> NoChunk]]
    BY <1>2, Statuses DEF Purge
  <2>2. CASE UNCHANGED <<status, holder, next, requeues, deferred, fault>>
    BY <2>1, <2>2, StaysGoes DEF Quiet, Others
  <2>3. CASE /\ status' = [status EXCEPT ![j] = "gone"]
             /\ holder' = [holder EXCEPT ![j] = NoWorker]
             /\ next' = [next EXCEPT ![j] = 0]
    <3>1. \A i \in Job : Goes(i)
      <4>1. \A k \in Seqs : chunk'[j][k] = NoChunk
        BY <2>1 DEF Others
      <4>2. status'[j] = "gone" /\ next'[j] = 0
        BY <2>3 DEF Rows
      <4>3. Goes(j)
        BY <2>1, <4>1, <4>2 DEF Goes
      <4>4. ASSUME NEW i \in Job, i # j
            PROVE  Goes(i)
        BY <2>3, <4>4 DEF Goes, Rows
      <4> QED
        BY <4>3, <4>4
    <3>2. status'[j] \notin Live
      BY <2>3, Statuses DEF Rows
    <3> QED
      BY <2>1, <3>1, <3>2 DEF Quiet, Others
  <2> QED
    BY <1>2, <2>2, <2>3 DEF Purge
<1>3. ASSUME Maintain
      PROVE  Quiet
  BY <1>3, EndsGoes, QuietRows DEF Maintain, Terminal
<1> QED
  BY <1>1, <1>2, <1>3

(* A step stores a piece, or is quiet.                                      *)
LEMMA QuietOrStored ==
    ASSUME Typed, Stored, [Next]_vars
    PROVE  Quiet \/ \E m \in net : ChunkStored(m)
<1>1. CASE UNCHANGED vars
  BY <1>1, StaysGoes, QuietRows DEF vars, row
<1>2. CASE Next
  BY <1>2, RelayIsQuiet, HandleIsQuiet, WorkerIsQuiet, TimeIsQuiet DEF Next
<1> QED
  BY <1>1, <1>2

LEMMA SizeNat ==
    ASSUME NEW a \in Attempt
    PROVE  /\ Size[a] \in Nat /\ Size[a] <= Cap /\ Size[a] <= Pieces[a[1]]
           /\ Pieces[a[1]] \in Nat /\ Cap \in Nat
           /\ Size[a] = IF Pieces[a[1]] <= Cap THEN Pieces[a[1]] ELSE Cap
BY WorkerAssumption DEF Size, Attempt

(* A piece that is stored goes on with the attempt whose pieces are there.  *)
LEMMA OneAttempt ==
    ASSUME Inv, NEW m \in net, m.kind = "chunk", Owns(m), m.seq = next[m.job]
    PROVE  \A k \in Seqs : chunk[m.job][k] # NoChunk => chunk[m.job][k].att = m.att
<1>1. m.job \in Job /\ m.seq \in 0..Cap /\ Cap \in Nat
  BY OfMessage, WorkerAssumption DEF Inv, Typed, Seqs
<1>2. CASE m.seq = 0
  <2>1. ASSUME NEW k \in Seqs, chunk[m.job][k] # NoChunk
        PROVE  FALSE
    <3>1. k < next[m.job]
      BY <1>1, <2>1 DEF Inv, Stored
    <3> QED
      BY <1>1, <1>2, <3>1 DEF Seqs
  <2> QED
    BY <2>1
<1>3. CASE m.seq > 0
  <2>1. Accepted(m.job, m.att, m.seq)
    BY <1>3 DEF Inv, Acknowledged, Bears
  <2> QED
    BY <2>1 DEF Accepted, Owns, Active
<1> QED
  BY <1>1, <1>2, <1>3

(* What ChunkStored writes.                                                 *)
LEMMA Writes ==
    ASSUME Inv, NEW m \in net, ChunkStored(m)
    PROVE  /\ m.job \in Job /\ m.att \in Attempt /\ m.seq \in Seqs
           /\ m.kind = "chunk" /\ Owns(m) /\ m.seq = next[m.job]
           /\ m.seq <= Size[m.att]
           /\ chunk' = [chunk EXCEPT ![m.job] = [@ EXCEPT ![m.seq] =
                          [att |-> m.att, done |-> m.seq = Size[m.att]]]]
           /\ next' = [next EXCEPT ![m.job] = @ + 1] /\ holder' = holder
           /\ status'[m.job] \in {"streaming", "done"}
           /\ \A j \in Job : j # m.job => status'[j] = status[j]
<1>1. m.job \in Job /\ m.att \in Attempt /\ m.seq \in 0..Cap /\ Cap \in Nat
  BY OfMessage, WorkerAssumption DEF Inv, Typed, Seqs
<1>2. m.kind = "chunk" /\ Owns(m) /\ m.seq = next[m.job]
  BY DEF ChunkStored, TakesChunk, Arrives, Ordered
<1>3. m.seq <= Pieces[m.att[1]]
  BY <1>2 DEF Inv, Acknowledged, Bears
<1>4. m.seq <= Size[m.att]
  BY <1>1, <1>3, SizeNat
<1>5. ((m.seq = Cap /\ m.seq < Pieces[m.att[1]]) \/ m.seq = Pieces[m.att[1]]) <=> m.seq = Size[m.att]
  BY <1>1, <1>3, SizeNat
<1>6. chunk' = [chunk EXCEPT ![m.job] = [@ EXCEPT ![m.seq] =
                  [att |-> m.att, done |-> m.seq = Size[m.att]]]]
  BY <1>5 DEF ChunkStored
<1>7. /\ status'[m.job] \in {"streaming", "done"}
      /\ \A j \in Job : j # m.job => status'[j] = status[j]
  BY <1>1 DEF ChunkStored, Inv, Typed, Rows
<1> QED
  BY <1>1, <1>2, <1>4, <1>6, <1>7 DEF ChunkStored, Seqs

LEMMA QuietKeepsStored ==
    ASSUME Typed, Typed', Stored, Quiet
    PROVE  Stored'
<1> SUFFICES ASSUME NEW j \in Job
             PROVE  /\ \A k \in Seqs : chunk'[j][k] # NoChunk =>
                          /\ k < next'[j] /\ k <= Size[chunk'[j][k].att]
                          /\ chunk'[j][k].done <=> k = Size[chunk'[j][k].att]
                          /\ status'[j] \in Active => chunk'[j][k].att[1] = holder'[j]
                    /\ \A k, l \in Seqs : chunk'[j][k] # NoChunk /\ chunk'[j][l] # NoChunk
                                            => chunk'[j][k].att = chunk'[j][l].att
                    /\ status'[j] \in Live /\ next'[j] > 0 => chunk'[j][next'[j] - 1] # NoChunk
  BY DEF Stored
<1>1. Goes(j) /\ \A k \in Seqs : chunk'[j][k] # NoChunk => chunk'[j][k] = chunk[j][k]
  BY DEF Quiet
<1>2. ASSUME NEW k \in Seqs, chunk'[j][k] # NoChunk
      PROVE  /\ k < next'[j] /\ k <= Size[chunk'[j][k].att]
             /\ chunk'[j][k].done <=> k = Size[chunk'[j][k].att]
             /\ status'[j] \in Active => chunk'[j][k].att[1] = holder'[j]
  <2>1. chunk'[j][k] = chunk[j][k] /\ chunk[j][k] # NoChunk /\ k < next[j]
    BY <1>1, <1>2 DEF Stored
  <2>2. next'[j] = next[j] /\ k \in Nat /\ next[j] \in Nat
    BY <1>1, <1>2, WorkerAssumption DEF Goes, Seqs, Typed, Rows
  <2>3. status[j] \notin {"none", "pending"}
    BY <2>1, <2>2 DEF Typed, Rows
  <2>4. status'[j] \in Active => status[j] \in Active /\ holder'[j] = holder[j]
    BY <1>1, <2>3, Statuses DEF Goes, Active, Terminal
  <2> QED
    BY <2>1, <2>2, <2>4 DEF Stored
<1>3. ASSUME status'[j] \in Live, next'[j] > 0
      PROVE  chunk'[j][next'[j] - 1] # NoChunk
  <2>1. next'[j] = next[j]
    BY <1>1, <1>3, Statuses DEF Goes
  <2>2. status[j] \in Live
    BY <1>1, <1>3, <2>1, Statuses DEF Goes, Typed, Rows, Live, Active
  <2> QED
    BY <1>3, <2>1, <2>2 DEF Quiet, Stored
<1> QED
  BY <1>1, <1>2, <1>3 DEF Stored

LEMMA WritesKeepStored ==
    ASSUME Inv, NEW m \in net, ChunkStored(m)
    PROVE  Stored'
<1>1. /\ m.job \in Job /\ m.att \in Attempt /\ m.seq \in Seqs
      /\ m.kind = "chunk" /\ Owns(m) /\ m.seq = next[m.job]
      /\ m.seq <= Size[m.att]
      /\ chunk' = [chunk EXCEPT ![m.job] = [@ EXCEPT ![m.seq] =
                     [att |-> m.att, done |-> m.seq = Size[m.att]]]]
      /\ next' = [next EXCEPT ![m.job] = @ + 1] /\ holder' = holder
      /\ status'[m.job] \in {"streaming", "done"}
      /\ \A j \in Job : j # m.job => status'[j] = status[j]
  BY Writes
<1>2. \A k \in Seqs : chunk[m.job][k] # NoChunk => chunk[m.job][k].att = m.att
  BY <1>1, OneAttempt
<1> DEFINE c == [att |-> m.att, done |-> m.seq = Size[m.att]]
<1>3. m.seq \in Nat /\ c # NoChunk /\ c.att = m.att /\ (c.done <=> m.seq = Size[m.att])
  <2>1. m.att[1] # NoWorker
    BY <1>1, WorkerAssumption DEF Attempt
  <2>2. c.att # NoChunk.att
    BY <1>1, <2>1 DEF NoChunk, Attempt
  <2>3. c # NoChunk
    BY <2>2
  <2>4. c.done = (m.seq = Size[m.att]) /\ c.att = m.att
    OBVIOUS
  <2>5. m.seq \in Nat
    BY <1>1, WorkerAssumption DEF Seqs
  <2> QED
    BY <2>3, <2>4, <2>5
<1>4. \A j \in Job : j # m.job => chunk'[j] = chunk[j] /\ next'[j] = next[j]
  BY <1>1 DEF Inv, Typed, Others, Rows
<1>5. /\ next'[m.job] = m.seq + 1 /\ holder[m.job] = m.att[1]
      /\ \A k \in Seqs : chunk'[m.job][k] = IF k = m.seq THEN c ELSE chunk[m.job][k]
  BY <1>1 DEF Inv, Typed, Others, Rows, Owns
<1> HIDE DEF c
<1> SUFFICES ASSUME NEW j \in Job
             PROVE  /\ \A k \in Seqs : chunk'[j][k] # NoChunk =>
                          /\ k < next'[j] /\ k <= Size[chunk'[j][k].att]
                          /\ chunk'[j][k].done <=> k = Size[chunk'[j][k].att]
                          /\ status'[j] \in Active => chunk'[j][k].att[1] = holder'[j]
                    /\ \A k, l \in Seqs : chunk'[j][k] # NoChunk /\ chunk'[j][l] # NoChunk
                                            => chunk'[j][k].att = chunk'[j][l].att
                    /\ status'[j] \in Live /\ next'[j] > 0 => chunk'[j][next'[j] - 1] # NoChunk
  BY DEF Stored
<1>6. CASE j # m.job
  BY <1>1, <1>4, <1>6 DEF Inv, Stored
<1>7. CASE j = m.job
  <2>1. ASSUME NEW k \in Seqs, chunk'[j][k] # NoChunk
        PROVE  /\ k < next'[j] /\ k <= Size[chunk'[j][k].att]
               /\ chunk'[j][k].done <=> k = Size[chunk'[j][k].att]
               /\ chunk'[j][k].att = m.att
    <3>1. CASE k = m.seq
      BY <1>1, <1>3, <1>5, <1>7, <3>1
    <3>2. CASE k # m.seq
      <4>1. chunk'[j][k] = chunk[j][k] /\ chunk[j][k] # NoChunk
        BY <1>5, <1>7, <2>1, <3>2
      <4>2. k < next[j] /\ k \in Nat /\ m.seq \in Nat
        BY <1>3, <4>1, WorkerAssumption DEF Inv, Stored, Seqs
      <4>3. k < next'[j]
        BY <1>1, <1>5, <1>7, <4>2
      <4> QED
        BY <1>2, <1>7, <4>1, <4>3 DEF Inv, Stored
    <3> QED
      BY <3>1, <3>2
  <2>2. next'[j] - 1 = m.seq
    BY <1>3, <1>5, <1>7
  <2>3. chunk'[j][next'[j] - 1] # NoChunk
    BY <1>1, <1>3, <1>5, <1>7, <2>2
  <2> QED
    BY <1>1, <1>5, <1>7, <2>1, <2>3
<1> QED
  BY <1>6, <1>7

LEMMA StoredNext ==
    ASSUME Inv, Typed', [Next]_vars
    PROVE  Stored'
BY QuietOrStored, QuietKeepsStored, WritesKeepStored DEF Inv

(* The same after a step, of what it was before it.                         *)
StillAccepted(j, a, n) ==
    \/ status'[j] = "gone"
    \/ next'[j] >= n /\ \A k \in Seqs : chunk'[j][k] # NoChunk => chunk'[j][k].att = a

(* What was accepted stays accepted.                                        *)
LEMMA AcceptedStays ==
    ASSUME Inv, [Next]_vars, NEW j \in Job, NEW a \in Attempt, NEW n \in Nat \ {0},
           Accepted(j, a, n)
    PROVE  StillAccepted(j, a, n)
<1>1. CASE Quiet
  <2>1. Goes(j) /\ \A k \in Seqs : chunk'[j][k] # NoChunk => chunk'[j][k] = chunk[j][k]
    BY <1>1 DEF Quiet
  <2>2. status[j] = "gone" => status'[j] = "gone"
    BY <2>1, Statuses DEF Goes, Live, Active, Terminal
  <2>3. status'[j] = "gone" \/ next'[j] = next[j]
    BY <2>1 DEF Goes
  <2> QED
    BY <2>1, <2>2, <2>3 DEF Accepted, StillAccepted
<1>2. ASSUME NEW m \in net, ChunkStored(m)
      PROVE  StillAccepted(j, a, n)
  <2>1. /\ m.job \in Job /\ m.seq \in Seqs /\ Owns(m) /\ m.seq = next[m.job]
        /\ m.kind = "chunk"
        /\ chunk' = [chunk EXCEPT ![m.job] = [@ EXCEPT ![m.seq] =
                       [att |-> m.att, done |-> m.seq = Size[m.att]]]]
        /\ next' = [next EXCEPT ![m.job] = @ + 1]
        /\ \A i \in Job : i # m.job => status'[i] = status[i]
    BY <1>2, Writes
  <2>2. CASE j # m.job
    BY <2>1, <2>2 DEF Inv, Typed, Others, Rows, Accepted, StillAccepted
  <2>3. CASE j = m.job
    <3>1. status[j] \in Active /\ status[j] # "gone"
      BY <2>1, <2>3 DEF Owns, Active
    <3>2. /\ next[j] \in Nat /\ next[j] > 0 /\ next[j] - 1 \in Seqs
          /\ \A k \in Seqs : chunk[j][k] # NoChunk => chunk[j][k].att = a
      BY <3>1, WorkerAssumption DEF Accepted, Inv, Typed, Rows, Seqs
    <3>3. chunk[j][next[j] - 1] # NoChunk
      BY <3>1, <3>2, Statuses DEF Inv, Stored
    <3>4. m.att = a
      BY <2>1, <2>3, <3>2, <3>3, OneAttempt
    <3>5. \A k \in Seqs : chunk'[j][k] # NoChunk => chunk'[j][k].att = a
      BY <2>1, <2>3, <3>2, <3>4 DEF Inv, Typed, Others
    <3>6. next'[j] = next[j] + 1
      BY <2>1, <2>3 DEF Inv, Typed, Rows
    <3> QED
      BY <3>1, <3>2, <3>5, <3>6 DEF Accepted, StillAccepted
  <2> QED
    BY <2>2, <2>3
<1> QED
  BY <1>1, <1>2, QuietOrStored DEF Inv
-----------------------------------------------------------------------------
(* What a step does to a daemon and to the requests on their way.           *)

DaemonGoes(w) ==
    \/ UNCHANGED <<phase[w], task[w], try[w], sent[w]>>
    \/ /\ UNCHANGED <<task[w], try[w], sent[w]>>
       /\ \/ phase[w] = "idle" /\ phase'[w] = "poll"
          \/ phase[w] = "poll" /\ phase'[w] = "idle"
          \/ phase[w] \in {"work", "send"} /\ phase'[w] \in {"send", "close"}
             /\ (phase'[w] = "send" /\ phase[w] = "work" => sent[w] <= Pieces[w])
    \/ phase'[w] = "idle" /\ task'[w] = NoJob /\ sent'[w] = 0
    \/ /\ phase[w] = "poll" /\ phase'[w] = "work" /\ sent'[w] = sent[w]
       /\ task'[w] \in Job /\ status[task'[w]] = "pending"
    \/ /\ UNCHANGED <<task[w], try[w]>>
       /\ phase'[w] = "work" /\ sent'[w] = sent[w] + 1
       /\ \E m \in net : /\ ChunkStored(m) \/ ChunkRepeated(m)
                         /\ m.att = <<w, try[w]>> /\ Waits(m)

(* What the daemon of worker w adds.                                        *)
Fresh(m, w) ==
    /\ m.att = <<w, try[w]>> /\ m.job = task[w]
    /\ (task'[w] = task[w] /\ try'[w] = try[w]) \/ task'[w] = NoJob
    /\ m.kind = "chunk" => m.seq = sent[w] /\ sent[w] <= Pieces[w]
    /\ m.kind = "complete" => sent[w] > Pieces[w]

NetGoes == \A m \in net' : m \in net \/ \E w \in Worker : Fresh(m, w)

LEMMA DroppedGoes ==
    ASSUME Daemons, NEW w \in Worker, Drop(w)
    PROVE  \A v \in Worker : DaemonGoes(v)
BY DEF Daemons, Drop, DaemonGoes

LEMMA RestGoes ==
    ASSUME UNCHANGED daemon, net' \subseteq net
    PROVE  NetGoes /\ \A w \in Worker : DaemonGoes(w)
BY DEF daemon, NetGoes, DaemonGoes

LEMMA ReplyGoes ==
    ASSUME Daemons, Others, NEW m \in net, NEW ok \in BOOLEAN, Reply(m, ok),
           ok => ChunkStored(m) \/ ChunkRepeated(m)
    PROVE  \A v \in Worker : DaemonGoes(v)
<1> DEFINE w == m.att[1]
<1>1. w \in Worker
  BY OfMessage
<1>2. CASE UNCHANGED daemon
  BY <1>2 DEF daemon, DaemonGoes
<1>3. CASE Drop(w)
  BY <1>1, <1>3, DroppedGoes
<1>4. CASE /\ ok /\ Waits(m) /\ sent' = [sent EXCEPT ![w] = @ + 1]
           /\ phase' = [phase EXCEPT ![w] = "work"] /\ UNCHANGED <<task, try>>
  <2>1. DaemonGoes(w)
    <3>1. m.att = <<w, try[w]>>
      BY <1>4 DEF Waits
    <3> QED
      BY <1>1, <1>4, <3>1 DEF Daemons, DaemonGoes
  <2>2. ASSUME NEW v \in Worker, v # w
        PROVE  DaemonGoes(v)
    BY <1>1, <1>4, <2>2 DEF Daemons, DaemonGoes
  <2> QED
    BY <2>1, <2>2
<1> QED
  BY <1>2, <1>3, <1>4 DEF Reply

LEMMA HandleGoes ==
    ASSUME Typed, NEW m \in net, Handle(m)
    PROVE  net' \subseteq net /\ \A v \in Worker : DaemonGoes(v)
<1> USE DEF Typed
<1>0. m.att[1] \in Worker
  BY OfMessage
<1>1. CASE ChunkRefused(m) \/ ChunkBroken(m)
  <2>1. Reply(m, FALSE) /\ net' \subseteq net
    BY <1>1 DEF ChunkRefused, ChunkBroken, Refused, TakesChunk, Arrives
  <2> QED
    BY <2>1, ReplyGoes
<1>2. CASE ChunkRepeated(m)
  <2>1. Reply(m, TRUE) /\ net' \subseteq net
    BY <1>2 DEF ChunkRepeated, TakesChunk, Arrives
  <2> QED
    BY <1>2, <2>1, ReplyGoes
<1>3. CASE ChunkStored(m)
  <2>1. net' \subseteq net /\ \E ok \in BOOLEAN : Reply(m, ok)
    BY <1>3 DEF ChunkStored, TakesChunk, Arrives
  <2> QED
    BY <1>3, <2>1, ReplyGoes
<1>4. CASE Complete(m) \/ CompleteRefused(m)
  <2>1. Answered(m) /\ net' \subseteq net
    BY <1>4 DEF Complete, CompleteRefused, Refused, Arrives
  <2> QED
    BY <1>0, <2>1, DroppedGoes, RestGoes DEF Answered
<1>5. CASE Fail(m) \/ Lose(m)
  BY <1>5, RestGoes DEF Fail, Lose
<1> QED
  BY <1>1, <1>2, <1>3, <1>4, <1>5 DEF Handle

LEMMA SendsFresh ==
    ASSUME NEW w \in Worker, NEW kind, NEW k, Sends(w, kind, k),
           (task' = task /\ try' = try) \/ task'[w] = NoJob,
           kind = "chunk" => k = sent[w] /\ sent[w] <= Pieces[w],
           kind = "complete" => sent[w] > Pieces[w]
    PROVE  NetGoes
BY DEF Sends, NetGoes, Fresh

LEMMA WorkerGoes ==
    ASSUME Typed, Acknowledged, NEW w \in Worker,
           \/ Claim(w) \/ NoClaim(w) \/ Poll(w) \/ SendChunk(w) \/ SendComplete(w)
           \/ SendFail(w) \/ Quit(w) \/ PauseEnds(w) \/ Enable(w) \/ Disable(w)
           \/ \E busy, heard \in BOOLEAN : Heartbeat(w, busy, heard)
    PROVE  NetGoes /\ \A v \in Worker : DaemonGoes(v)
<1> USE DEF Typed
<1>1. CASE Claim(w)
  <2>1. PICK j \in Job :
           /\ ClaimFor(w, {j})
           /\ \/ /\ phase[w] = "poll"
                 /\ phase' = [phase EXCEPT ![w] = "work"]
                 /\ task' = [task EXCEPT ![w] = j]
                 /\ try' = [try EXCEPT ![w] = requeues[j]]
              \/ UNCHANGED <<phase, task, try>>
    BY <1>1 DEF Claim
  <2>2. status[j] = "pending" /\ sent' = sent /\ net' = net
    BY <2>1 DEF ClaimFor, Offered
  <2>3. ASSUME NEW v \in Worker
        PROVE  DaemonGoes(v)
    <3>1. CASE UNCHANGED <<phase, task, try>>
      BY <2>2, <3>1 DEF DaemonGoes
    <3>2. CASE /\ phase[w] = "poll"
               /\ phase' = [phase EXCEPT ![w] = "work"]
               /\ task' = [task EXCEPT ![w] = j]
               /\ try' = [try EXCEPT ![w] = requeues[j]]
      BY <2>2, <3>2 DEF DaemonGoes, Daemons
    <3> QED
      BY <2>1, <3>1, <3>2
  <2> QED
    BY <2>2, <2>3 DEF NetGoes
<1>2. CASE NoClaim(w)
  <2>1. /\ UNCHANGED <<net, sent, task, try>>
        /\ phase' = [phase EXCEPT ![w] = IF @ = "poll" THEN "idle" ELSE @] \/ UNCHANGED phase
    BY <1>2 DEF NoClaim, ClaimFor
  <2> QED
    BY <2>1 DEF DaemonGoes, NetGoes, Daemons
<1>3. CASE Poll(w)
  BY <1>3 DEF Poll, DaemonGoes, NetGoes, Daemons
<1>4. CASE SendChunk(w)
  <2>1. /\ Sends(w, "chunk", sent[w]) /\ UNCHANGED <<task, try, sent>>
        /\ phase[w] \in {"work", "send"} /\ phase' = [phase EXCEPT ![w] = "send"]
        /\ sent[w] <= Pieces[w]
    BY <1>4 DEF SendChunk, Acknowledged, InStep
  <2>2. NetGoes
    BY <2>1, SendsFresh
  <2> QED
    BY <2>1, <2>2 DEF DaemonGoes, Daemons
<1>5. CASE SendComplete(w)
  <2>1. /\ Sends(w, "complete", 0) /\ UNCHANGED <<task, try, sent>>
        /\ phase[w] = "work" /\ phase' = [phase EXCEPT ![w] = "close"]
        /\ sent[w] > Pieces[w]
    BY <1>5 DEF SendComplete
  <2>2. NetGoes
    BY <2>1, SendsFresh
  <2> QED
    BY <2>1, <2>2 DEF DaemonGoes, Daemons
<1>6. CASE SendFail(w)
  <2>1. Drop(w) /\ (Sends(w, "defer", 0) \/ Sends(w, "fail", 0))
    BY <1>6 DEF SendFail
  <2>2. task'[w] = NoJob
    BY <2>1 DEF Drop, Daemons
  <2> QED
    BY <2>1, <2>2, SendsFresh, DroppedGoes
<1>7. CASE Quit(w)
  BY <1>7, DroppedGoes DEF Quit, NetGoes
<1>8. CASE PauseEnds(w) \/ Enable(w) \/ Disable(w)
  BY <1>8, RestGoes DEF PauseEnds, Enable, Disable
<1>9. ASSUME NEW busy \in BOOLEAN, NEW heard \in BOOLEAN, Heartbeat(w, busy, heard)
      PROVE  NetGoes /\ \A v \in Worker : DaemonGoes(v)
  BY <1>9, RestGoes, DroppedGoes DEF Heartbeat, NetGoes
<1> QED
  BY <1>1, <1>2, <1>3, <1>4, <1>5, <1>6, <1>7, <1>8, <1>9

LEMMA NextGoes ==
    ASSUME Typed, Acknowledged, [Next]_vars
    PROVE  NetGoes /\ \A w \in Worker : DaemonGoes(w)
<1>1. ASSUME NEW j \in Job,
             \/ Insert(j) \/ TimeUp(j) \/ Stop(j) \/ RelayStep(j)
             \/ Withdraw(j) \/ Crash(j) \/ RunsLate(j) \/ Purge(j)
      PROVE  UNCHANGED daemon /\ net' = net
  BY <1>1 DEF Insert, TimeUp, Stop, RelayStep, Withdraw, Crash, RunsLate, Purge, PoolTimeout,
              Stalled, Deadline, ReadChunks, ReadStatus, ReadAgain, Act, Release
<1>2. CASE Maintain
  BY <1>2, RestGoes DEF Maintain
<1>3. CASE UNCHANGED vars
  BY <1>3, RestGoes DEF vars
<1>4. ASSUME NEW m \in net, Handle(m)
      PROVE  NetGoes /\ \A w \in Worker : DaemonGoes(w)
  BY <1>4, HandleGoes DEF NetGoes
<1> QED
  BY <1>1, <1>2, <1>3, <1>4, RestGoes, WorkerGoes DEF Next

(* A piece that the server acknowledges was accepted, and nothing of        *)
(* another attempt: also when the piece is a repeated one that the relay    *)
(* has deleted.                                                             *)
LEMMA AckIsAccepted ==
    ASSUME Inv, NEW m \in net, ChunkStored(m) \/ ChunkRepeated(m), Waits(m)
    PROVE  StillAccepted(m.job, m.att, m.seq + 1)
<1> DEFINE j == m.job
           w == m.att[1]
<1>1. j \in Job /\ w \in Worker /\ m.att \in Attempt /\ m.seq \in Seqs /\ m.seq \in Nat
  BY OfMessage, WorkerAssumption DEF Inv, Typed, Seqs
<1>2. CASE ChunkStored(m)
  <2>1. /\ m.kind = "chunk" /\ Owns(m) /\ m.seq = next[j]
        /\ chunk' = [chunk EXCEPT ![j] = [@ EXCEPT ![m.seq] =
                       [att |-> m.att, done |-> m.seq = Size[m.att]]]]
        /\ next' = [next EXCEPT ![j] = @ + 1]
    BY <1>2, Writes
  <2>2. \A k \in Seqs : chunk[j][k] # NoChunk => chunk[j][k].att = m.att
    BY <2>1, OneAttempt
  <2>3. \A k \in Seqs : chunk'[j][k] # NoChunk => chunk'[j][k].att = m.att
    BY <1>1, <2>1, <2>2 DEF Inv, Typed, Others
  <2>4. next'[j] = m.seq + 1
    BY <1>1, <2>1 DEF Inv, Typed, Rows
  <2> QED
    BY <1>1, <2>3, <2>4 DEF Accepted, StillAccepted
<1>3. CASE ChunkRepeated(m)
  <2>1. /\ m.kind = "chunk" /\ Owns(m) /\ m.seq < next[j] /\ Same(m)
        /\ UNCHANGED <<status, next, chunk>>
    BY <1>3 DEF ChunkRepeated, TakesChunk, Arrives
  <2>2. status[j] \in Active /\ holder[j] = w /\ status[j] # "gone" /\ status[j] \in Live
    BY <2>1 DEF Owns, Active, Live
  <2>3. next[j] \in Nat /\ next[j] >= m.seq + 1 /\ next[j] - 1 \in Seqs
    BY <1>1, <2>1, WorkerAssumption DEF Inv, Typed, Rows, Seqs
  <2>4. ASSUME NEW k \in Seqs, chunk[j][k] # NoChunk
        PROVE  chunk[j][k].att = m.att
    <3>1. CASE m.seq > 0
      <4>1. Accepted(j, m.att, m.seq)
        BY <2>1, <3>1 DEF Inv, Acknowledged, Bears
      <4> QED
        BY <2>2, <2>4, <4>1 DEF Accepted, StillAccepted
    <3>2. CASE chunk[j][m.seq] # NoChunk
      <4>1. chunk[j][m.seq] = [att |-> m.att, done |-> m.seq = Pieces[m.att[1]]]
        BY <2>1, <3>2 DEF Same
      <4>2. chunk[j][m.seq].att = m.att
        BY <4>1
      <4>3. chunk[j][k].att = chunk[j][m.seq].att
        BY <1>1, <2>4, <3>2 DEF Inv, Stored
      <4> QED
        BY <4>2, <4>3
    <3>3. CASE m.seq = 0 /\ chunk[j][m.seq] = NoChunk
      <4>1. chunk[j][next[j] - 1] # NoChunk
        BY <1>1, <2>2, <2>3 DEF Inv, Stored
      <4>2. next[j] >= 2
        BY <2>3, <3>3, <4>1
      <4>3. chunk[j][k].att[1] = w
        BY <1>1, <2>2, <2>4 DEF Inv, Stored
      <4>4. task[w] = j /\ m.att = <<w, try[w]>>
        BY DEF Waits
      <4>5. try[w] = chunk[j][k].att[2]
        BY <1>1, <2>4, <4>2, <4>3, <4>4 DEF Inv, Acknowledged, OneTry
      <4>6. chunk[j][k].att \in Attempt
        BY <1>1, <2>4 DEF Inv, Typed, Others, Chunk
      <4> QED
        BY <4>3, <4>4, <4>5, <4>6 DEF Attempt
    <3> QED
      BY <1>1, <3>1, <3>2, <3>3
  <2> QED
    BY <2>1, <2>3, <2>4 DEF Accepted, StillAccepted
<1> QED
  BY <1>2, <1>3

LEMMA InStepNext ==
    ASSUME Inv, [Next]_vars, NEW w \in Worker
    PROVE  InStep(w)'
<1>1. /\ InStep(w) /\ DaemonGoes(w)
      /\ sent[w] \in Nat /\ Pieces[w] \in Nat /\ <<w, try[w]>> \in Attempt
  BY NextGoes, WorkerAssumption DEF Inv, Acknowledged, Typed, Daemons, Attempt
<1>2. CASE UNCHANGED <<task[w], try[w], sent[w]>>
  <2>1. sent[w] > 0 => StillAccepted(task[w], <<w, try[w]>>, sent[w])
    BY <1>1, AcceptedStays DEF InStep
  <2>2. sent'[w] > 0 => task'[w] \in Job /\ StillAccepted(task[w], <<w, try[w]>>, sent[w])
    BY <1>1, <1>2, <2>1 DEF InStep
  <2>3. /\ phase'[w] \in {"idle", "poll"} => sent'[w] = 0
        /\ phase'[w] = "send" => sent'[w] <= Pieces[w]
    BY <1>1, <1>2 DEF InStep, DaemonGoes
  <2> QED
    BY <1>1, <1>2, <2>2, <2>3 DEF InStep, Accepted, StillAccepted
<1>3. CASE sent'[w] = 0 /\ phase'[w] # "send"
  BY <1>1, <1>3 DEF InStep
<1>4. CASE phase[w] = "poll" /\ phase'[w] = "work" /\ sent'[w] = sent[w]
  BY <1>1, <1>3, <1>4 DEF InStep
<1>5. CASE /\ UNCHANGED <<task[w], try[w]>>
           /\ phase'[w] = "work" /\ sent'[w] = sent[w] + 1
           /\ \E m \in net : /\ ChunkStored(m) \/ ChunkRepeated(m)
                             /\ m.att = <<w, try[w]>> /\ Waits(m)
  <2>1. PICK m \in net : /\ ChunkStored(m) \/ ChunkRepeated(m)
                         /\ m.att = <<w, try[w]>> /\ Waits(m)
    BY <1>5
  <2>2. StillAccepted(m.job, m.att, m.seq + 1)
    BY <2>1, AckIsAccepted
  <2>3. /\ m.att[1] = w /\ m.job = task[w] /\ m.seq = sent[w] /\ m.job \in Job
        /\ phase[w] = "send"
    BY <2>1, OfMessage DEF Waits, Inv, Typed
  <2>4. sent'[w] <= Pieces[w] + 1
    BY <1>1, <1>5, <2>3 DEF InStep
  <2>5. /\ m.job = task'[w] /\ m.att = <<w, try'[w]>> /\ m.seq + 1 = sent'[w]
    BY <1>5, <2>1, <2>3
  <2> QED
    BY <1>5, <2>2, <2>3, <2>4, <2>5 DEF InStep, Accepted, StillAccepted
<1> QED
  BY <1>1, <1>2, <1>3, <1>4, <1>5 DEF DaemonGoes

(* A daemon that takes up a job whose pieces were accepted: there is none.  *)
LEMMA RunsOn ==
    ASSUME Inv, [Next]_vars, NEW w \in Worker, NEW j \in Job, task'[w] = j,
           status[j] # "pending"
    PROVE  task[w] = j /\ try'[w] = try[w]
<1>1. DaemonGoes(w)
  BY NextGoes DEF Inv
<1>2. task'[w] # NoJob
  BY WorkerAssumption
<1> QED
  BY <1>1, <1>2 DEF DaemonGoes

LEMMA BearsNext ==
    ASSUME Inv, Typed', [Next]_vars, NEW m \in net'
    PROVE  Bears(m)'
<1> DEFINE w == m.att[1]
<1>1. w \in Worker /\ m.job \in Job /\ m.seq \in Nat /\ m.att \in Attempt
  BY WorkerAssumption DEF Typed, Others, Message, Attempt, Seqs
<1>2. Pieces[w] \in Nat /\ Cap \in Nat /\ sent[w] \in Nat
  BY <1>1, WorkerAssumption DEF Inv, Typed, Daemons
<1>3. CASE m \in net
  <2>1. Bears(m)
    BY <1>3 DEF Inv, Acknowledged
  <2>2. m.kind = "chunk" /\ m.seq > 0 => StillAccepted(m.job, m.att, m.seq)
    BY <1>1, <2>1, AcceptedStays DEF Bears
  <2>3. m.kind = "complete" => StillAccepted(m.job, m.att, Pieces[w] + 1)
    BY <1>1, <1>2, <2>1, AcceptedStays DEF Bears
  <2>4. ASSUME m.kind = "complete" \/ (m.kind = "chunk" /\ m.seq > 0), task'[w] = m.job
        PROVE  try'[w] = m.att[2]
    <3>1. \E n \in Nat \ {0} : Accepted(m.job, m.att, n)
      BY <1>1, <1>2, <2>1, <2>4 DEF Bears
    <3>2. status[m.job] # "pending"
      BY <1>1, <3>1 DEF Accepted, Inv, Typed, Rows
    <3>3. task[w] = m.job /\ try'[w] = try[w]
      BY <1>1, <2>4, <3>2, RunsOn
    <3> QED
      BY <2>1, <2>4, <3>3 DEF Bears
  <2> QED
    BY <2>1, <2>2, <2>3, <2>4 DEF Bears, Accepted, StillAccepted
<1>4. ASSUME NEW v \in Worker, Fresh(m, v)
      PROVE  Bears(m)'
  <2>1. v = w /\ InStep(w) /\ m.att = <<w, try[w]>> /\ m.job = task[w]
    BY <1>4 DEF Fresh, Inv, Acknowledged
  <2>2. m.kind = "chunk" => m.seq = sent[w] /\ sent[w] <= Pieces[w]
    BY <1>4, <2>1 DEF Fresh
  <2>3. m.kind = "complete" => sent[w] = Pieces[w] + 1
    BY <1>2, <1>4, <2>1 DEF Fresh, InStep
  <2>4. sent[w] > 0 => Accepted(m.job, m.att, sent[w])
    BY <2>1 DEF InStep
  <2>5. sent[w] > 0 => StillAccepted(m.job, m.att, sent[w])
    BY <1>1, <1>2, <2>4, AcceptedStays
  <2>6. sent[w] <= Cap + 1
    BY <1>1 DEF Inv, Typed, Daemons
  <2>7. task'[w] = m.job => try'[w] = m.att[2]
    BY <1>1, <1>4, <2>1, WorkerAssumption DEF Fresh
  <2>8. m.kind = "chunk" /\ m.seq > 0 => StillAccepted(m.job, m.att, m.seq)
    BY <2>2, <2>5
  <2>9. m.kind = "complete" => StillAccepted(m.job, m.att, Pieces[w] + 1) /\ Pieces[w] <= Cap
    BY <1>2, <2>3, <2>5, <2>6
  <2> QED
    BY <2>2, <2>7, <2>8, <2>9 DEF Bears, Accepted, StillAccepted
<1> QED
  BY <1>3, <1>4, NextGoes DEF NetGoes, Inv

LEMMA OneTryNext ==
    ASSUME Inv, Typed', [Next]_vars, NEW j \in Job
    PROVE  OneTry(j)'
<1> SUFFICES ASSUME NEW k \in Seqs, chunk'[j][k] # NoChunk, next'[j] >= 2,
                    task'[chunk'[j][k].att[1]] = j
             PROVE  try'[chunk'[j][k].att[1]] = chunk'[j][k].att[2]
  BY DEF OneTry
<1> DEFINE w == chunk'[j][k].att[1]
<1>1. w \in Worker
  BY DEF Typed, Others, Chunk, Attempt
<1>2. CASE Quiet
  <2>1. chunk'[j][k] = chunk[j][k] /\ next'[j] = next[j] /\ next[j] \in Nat
    BY <1>2 DEF Quiet, Goes, Inv, Typed, Rows
  <2>2. status[j] # "pending"
    BY <2>1 DEF Inv, Typed, Rows
  <2> QED
    BY <1>1, <2>1, <2>2, RunsOn DEF Inv, Acknowledged, OneTry
<1>3. ASSUME NEW m \in net, ChunkStored(m)
      PROVE  try'[w] = chunk'[j][k].att[2]
  <2>1. /\ m.job \in Job /\ m.att \in Attempt /\ m.seq \in Seqs /\ m.seq \in Nat
        /\ m.kind = "chunk" /\ Owns(m) /\ m.seq = next[m.job]
        /\ chunk' = [chunk EXCEPT ![m.job] = [@ EXCEPT ![m.seq] =
                       [att |-> m.att, done |-> m.seq = Size[m.att]]]]
        /\ next' = [next EXCEPT ![m.job] = @ + 1]
    BY <1>3, Writes, WorkerAssumption DEF Seqs
  <2>2. CASE j # m.job
    <3>1. chunk'[j] = chunk[j] /\ next'[j] = next[j] /\ next[j] \in Nat
      BY <2>1, <2>2 DEF Inv, Typed, Others, Rows
    <3>2. status[j] # "pending"
      BY <3>1 DEF Inv, Typed, Rows
    <3> QED
      BY <1>1, <3>1, <3>2, RunsOn DEF Inv, Acknowledged, OneTry
  <2>3. CASE j = m.job
    <3>1. chunk'[j][k].att = m.att
      <4>1. \A i \in Seqs : chunk[j][i] # NoChunk => chunk[j][i].att = m.att
        BY <2>1, <2>3, OneAttempt
      <4> QED
        BY <2>1, <2>3, <4>1 DEF Inv, Typed, Others
    <3>2. m.seq > 0
      BY <2>1, <2>3 DEF Inv, Typed, Rows
    <3>3. task[w] = j => try[w] = m.att[2]
      BY <2>1, <2>3, <3>1, <3>2 DEF Inv, Acknowledged, Bears
    <3>4. status[j] # "pending"
      BY <2>1, <2>3 DEF Owns, Active
    <3> QED
      BY <1>1, <3>1, <3>3, <3>4, RunsOn
  <2> QED
    BY <2>2, <2>3
<1> QED
  BY <1>2, <1>3, QuietOrStored DEF Inv

LEMMA InvInit == Init => Inv
<1> SUFFICES ASSUME Init PROVE Inv
  OBVIOUS
<1>1. Typed
  BY TypedInit
<1>2. Stored
  BY DEF Init, Stored, Live, Active
<1>3. Acknowledged
  BY WorkerAssumption DEF Init, Acknowledged, InStep, Bears, OneTry
<1> QED
  BY <1>1, <1>2, <1>3 DEF Inv

LEMMA InvNext == Inv /\ [Next]_vars => Inv'
<1> SUFFICES ASSUME Inv, [Next]_vars PROVE Inv'
  OBVIOUS
<1>1. Typed'
  BY TypedNext DEF Inv
<1>2. Stored'
  BY <1>1, StoredNext
<1>3. Acknowledged'
  BY <1>1, InStepNext, BearsNext, OneTryNext DEF Acknowledged
<1> QED
  BY <1>1, <1>2, <1>3 DEF Inv

LEMMA InvAlways == Spec => []Inv
BY InvInit, InvNext, PTL DEF Spec

LEMMA InvKeepsOrder == Inv => KeepsOrder
<1> SUFFICES ASSUME Inv, NEW m \in net, Owns(m)
             PROVE  /\ m.kind = "chunk" => m.seq <= next[m.job]
                    /\ m.kind = "complete" => /\ next[m.job] > 0
                                              /\ chunk[m.job][next[m.job] - 1].done
  BY DEF KeepsOrder
<1> DEFINE j == m.job
<1>1. /\ j \in Job /\ m.seq \in Nat /\ m.att \in Attempt /\ m.att[1] \in Worker
      /\ next[j] \in 0..Cap+1 /\ Cap \in Nat /\ Bears(m)
      /\ status[j] # "gone" /\ status[j] \in Live
  BY OfMessage, WorkerAssumption
     DEF Inv, Typed, Seqs, Rows, Acknowledged, Owns, Active, Live
<1>2. m.kind = "chunk" => m.seq <= next[j]
  BY <1>1 DEF Bears, Accepted
<1>3. ASSUME m.kind = "complete"
      PROVE  next[j] > 0 /\ chunk[j][next[j] - 1].done
  <2>1. /\ next[j] >= Pieces[m.att[1]] + 1 /\ Pieces[m.att[1]] <= Cap
        /\ \A k \in Seqs : chunk[j][k] # NoChunk => chunk[j][k].att = m.att
    BY <1>1, <1>3 DEF Bears, Accepted
  <2>2. /\ Size[m.att] = Pieces[m.att[1]] /\ Pieces[m.att[1]] \in Nat
        /\ next[j] > 0 /\ next[j] - 1 \in Seqs /\ next[j] - 1 >= Size[m.att]
    BY <1>1, <2>1, SizeNat DEF Seqs
  <2>3. chunk[j][next[j] - 1] # NoChunk
    BY <1>1, <2>2 DEF Inv, Stored
  <2>4. next[j] - 1 <= Size[m.att]
    BY <1>1, <2>1, <2>2, <2>3 DEF Inv, Stored
  <2>5. next[j] - 1 = Size[m.att]
    BY <1>1, <2>2, <2>4
  <2> QED
    BY <1>1, <2>1, <2>2, <2>3, <2>5 DEF Inv, Stored
<1> QED
  BY <1>2, <1>3

(* No delay, loss or repetition of a worker's requests makes it look to the *)
(* server (web/worker_api.py) as if it skipped a piece or ended without the *)
(* final one: an honest worker is never paused for it.                      *)
THEOREM OrderIsKept == Spec => []KeepsOrder
BY InvAlways, InvKeepsOrder, PTL
-----------------------------------------------------------------------------
(* DisabledHoldsNothing and PausedForItsJob.                                *)

LEMMA DisabledInit == Init => DisabledHoldsNothing
BY DEF Init, DisabledHoldsNothing, Active

LEMMA DisabledNext == Inv /\ DisabledHoldsNothing /\ [Next]_vars => DisabledHoldsNothing'
<1> SUFFICES ASSUME Inv, DisabledHoldsNothing, [Next]_vars,
                    NEW j \in Job, status'[j] \in Active
             PROVE  holder'[j] \in enabled'
  BY DEF DisabledHoldsNothing
<1>1. ASSUME NEW w \in Worker, Disable(w)
      PROVE  holder'[j] \in enabled'
  <2>1. Ends(HeldBy(w), "failed", Active) /\ enabled' = enabled \ {w}
    BY <1>1 DEF Disable
  <2>2. status[j] \in Active /\ j \notin HeldBy(w) /\ holder'[j] = holder[j]
    BY <2>1 DEF Ends, Active, HeldBy
  <2> QED
    BY <2>1, <2>2 DEF DisabledHoldsNothing, HeldBy
<1>2. CASE enabled \subseteq enabled'
  <2>1. CASE Quiet
    BY <1>2, <2>1, Statuses DEF Quiet, Goes, DisabledHoldsNothing, Active, Terminal
  <2>2. ASSUME NEW m \in net, ChunkStored(m)
        PROVE  holder'[j] \in enabled'
    <3>1. holder' = holder /\ status[j] \in Active
      BY <2>2, Writes DEF Owns
    <3> QED
      BY <1>2, <3>1 DEF DisabledHoldsNothing
  <2> QED
    BY <2>1, <2>2, QuietOrStored DEF Inv
<1>3. enabled \subseteq enabled' \/ \E w \in Worker : Disable(w)
  <2>1. ASSUME NEW i \in Job,
               \/ Insert(i) \/ TimeUp(i) \/ Stop(i) \/ RelayStep(i)
               \/ Withdraw(i) \/ Crash(i) \/ RunsLate(i) \/ Purge(i)
        PROVE  enabled' = enabled
    BY <2>1 DEF Insert, TimeUp, Stop, RelayStep, Withdraw, Crash, RunsLate, Purge, PoolTimeout,
                Stalled, Deadline, ReadChunks, ReadStatus, ReadAgain, Act, Release
  <2>2. ASSUME NEW m \in net, Handle(m)
        PROVE  enabled' = enabled
    BY <2>2 DEF Handle, ChunkRefused, ChunkRepeated, ChunkBroken, ChunkStored, Complete,
                CompleteRefused, Refused, Fail, Lose
  <2>3. ASSUME NEW w \in Worker,
               \/ Claim(w) \/ NoClaim(w) \/ Poll(w) \/ SendChunk(w) \/ SendComplete(w)
               \/ SendFail(w) \/ Quit(w) \/ PauseEnds(w) \/ Enable(w)
               \/ \E busy, heard \in BOOLEAN : Heartbeat(w, busy, heard)
        PROVE  enabled \subseteq enabled'
    BY <2>3 DEF Claim, NoClaim, ClaimFor, Poll, SendChunk, SendComplete, SendFail, Quit,
                PauseEnds, Enable, Heartbeat
  <2> QED
    BY <2>1, <2>2, <2>3 DEF Next, Maintain, vars
<1> QED
  BY <1>1, <1>2, <1>3

(* set_enabled and delete_worker of db/workers.py against the claim of a    *)
(* poll that the server was answering.                                      *)
THEOREM DisabledWorkersHoldNothing == Spec => []DisabledHoldsNothing
BY InvAlways, DisabledInit, DisabledNext, PTL DEF Spec

(* Worker w is paused in the step that ends a job it holds.                 *)
PausedFor(w) ==
    \E j \in Job : /\ holder[j] = w /\ status[j] \in Active
                   /\ status'[j] \in {"failed", "timeout"}

(* Jobs J, all held and going on, end in this step.                         *)
EndHeld(J) ==
    \A j \in J : j \in Job /\ status[j] \in Active /\ status'[j] \in {"failed", "timeout"}

LEMMA PausedByEnd ==
    ASSUME NEW J, EndHeld(J), Misbehaved(J) \/ RanOut(J) \/ Blame(J)
    PROVE  \A w \in paused' \ paused : PausedFor(w)
<1> SUFFICES ASSUME NEW w \in paused' \ paused PROVE PausedFor(w)
  OBVIOUS
<1>1. \E j \in J : w = holder[j]
  BY DEF Misbehaved, RanOut, Blame
<1> QED
  BY <1>1 DEF EndHeld, PausedFor

LEMMA PausedByFails ==
    ASSUME Rows, NEW j \in Job, NEW s \in {"failed", "timeout"}, NEW why, Fails(j, s, why)
    PROVE  \A w \in paused' \ paused : PausedFor(w)
<1>1. CASE UNCHANGED judged
  BY <1>1 DEF judged
<1>2. CASE status[j] \in Live /\ holder[j] # NoWorker /\ (Blame({j}) \/ Misbehaved({j}))
  <2>1. status[j] \in Active
    BY <1>2 DEF Rows, Live
  <2>2. status'[j] = s
    BY <1>2 DEF Fails, Ends
  <2> QED
    BY <1>2, <2>1, <2>2, PausedByEnd DEF EndHeld
<1> QED
  BY <1>1, <1>2 DEF Fails

LEMMA PausedStep ==
    ASSUME Typed, [Next]_vars
    PROVE  \A w \in paused' \ paused : PausedFor(w)
<1> USE DEF Typed
<1>1. ASSUME NEW j \in Job, Stalled(j) \/ ReadChunks(j) \/ Act(j)
      PROVE  \A w \in paused' \ paused : PausedFor(w)
  BY <1>1, PausedByFails DEF Stalled, ReadChunks, Act, judged
<1>2. ASSUME NEW j \in Job,
             \/ Insert(j) \/ TimeUp(j) \/ Stop(j) \/ PoolTimeout(j) \/ Deadline(j)
             \/ ReadStatus(j) \/ ReadAgain(j) \/ Release(j)
             \/ Withdraw(j) \/ Crash(j) \/ RunsLate(j) \/ Purge(j)
      PROVE  paused' = paused
  BY <1>2 DEF Insert, TimeUp, Stop, PoolTimeout, Deadline, ReadStatus, ReadAgain, Release,
              Withdraw, Crash, RunsLate, Purge, judged
<1>3. ASSUME NEW m \in net, Handle(m)
      PROVE  \A w \in paused' \ paused : PausedFor(w)
  <2>0. m.job \in Job
    BY OfMessage
  <2>1. CASE ChunkRefused(m) \/ CompleteRefused(m)
    <3>1. CASE UNCHANGED judged
      BY <3>1 DEF judged
    <3>2. CASE Owns(m) /\ Ends({m.job}, "timeout", Live) /\ RanOut({m.job})
      <4>1. EndHeld({m.job})
        BY <2>0, <3>2 DEF EndHeld, Owns, Ends, Live
      <4> QED
        BY <3>2, <4>1, PausedByEnd
    <3> QED
      BY <2>1, <3>1, <3>2 DEF ChunkRefused, CompleteRefused, Refused
  <2>2. CASE ChunkBroken(m)
    <3>1. EndHeld({m.job}) /\ Misbehaved({m.job})
      BY <2>0, <2>2 DEF ChunkBroken, TakesChunk, EndHeld, Owns, Ends, Live
    <3> QED
      BY <3>1, PausedByEnd
  <2>3. CASE Complete(m)
    <3>1. CASE Ends({m.job}, "failed", Live) /\ Misbehaved({m.job})
      <4>1. EndHeld({m.job})
        BY <2>0, <2>3, <3>1 DEF Complete, EndHeld, Owns, Ends, Live
      <4> QED
        BY <3>1, <4>1, PausedByEnd
    <3> QED
      BY <2>3, <3>1 DEF Complete
  <2>4. CASE Fail(m)
    <3>1. CASE UNCHANGED judged
      BY <3>1 DEF judged
    <3>2. CASE Owns(m) /\ Ends({m.job}, "failed", Live)
      <4>1. EndHeld({m.job}) /\ holder[m.job] = m.att[1]
        BY <2>0, <3>2 DEF EndHeld, Owns, Ends, Live
      <4>2. CASE Blame({m.job})
        BY <4>1, <4>2, PausedByEnd
      <4>3. CASE paused' \subseteq paused \cup {m.att[1]}
        BY <2>0, <4>1, <4>3 DEF EndHeld, PausedFor
      <4> QED
        BY <2>4, <3>2, <4>2, <4>3 DEF Fail, judged
    <3> QED
      BY <2>4, <3>1, <3>2 DEF Fail, judged
  <2>5. CASE ChunkRepeated(m) \/ ChunkStored(m) \/ Lose(m)
    BY <2>5 DEF ChunkRepeated, ChunkStored, Lose, judged
  <2> QED
    BY <1>3, <2>1, <2>2, <2>3, <2>4, <2>5 DEF Handle
<1>4. ASSUME NEW v \in Worker, NEW C, ClaimFor(v, C)
      PROVE  \A w \in paused' \ paused : PausedFor(w)
  <2> DEFINE A == HeldBy(v)
             J == {j \in A : next[j] > 0}
  <2>1. Misbehaved(J) /\ Moved(Back(A), A \ Back(A), v, C) /\ C \subseteq Offered(v)
    BY <1>4 DEF ClaimFor
  <2>2. \A j \in J : j \in Job /\ status[j] \in Active /\ j \in A \ Back(A) /\ j \notin C
    BY <2>1 DEF HeldBy, Back, Offered, Active
  <2>3. EndHeld(J)
    BY <2>1, <2>2 DEF EndHeld, Moved
  <2> QED
    BY <2>1, <2>3, PausedByEnd
<1>5. ASSUME NEW v \in Worker,
             \/ Claim(v) \/ NoClaim(v) \/ Poll(v) \/ SendChunk(v) \/ SendComplete(v)
             \/ SendFail(v) \/ Quit(v) \/ PauseEnds(v) \/ Enable(v) \/ Disable(v)
             \/ \E busy, heard \in BOOLEAN : Heartbeat(v, busy, heard)
      PROVE  \A w \in paused' \ paused : PausedFor(w)
  BY <1>4, <1>5 DEF Claim, NoClaim, Poll, SendChunk, SendComplete, SendFail, Quit, PauseEnds,
                    Enable, Disable, Heartbeat, judged
<1>6. CASE Maintain
  <2> DEFINE late == {j \in Job : status[j] \in Active /\ Expired(j)}
  <2>1. RanOut(late) /\ \E J : Ends(J \cup late \cup TooOld, "timeout", Live)
    BY <1>6 DEF Maintain
  <2>2. EndHeld(late)
    BY <2>1 DEF EndHeld, Ends, Live
  <2> QED
    BY <2>1, <2>2, PausedByEnd
<1>7. CASE UNCHANGED vars
  BY <1>7 DEF vars, judged
<1> QED
  BY <1>1, <1>2, <1>3, <1>5, <1>6, <1>7 DEF Next, RelayStep

(* A worker is paused (cooldown_until) only for a job that it holds and     *)
(* that this step ends, however late the failure was noticed.               *)
THEOREM PausesAreEarned == Spec => PausedForItsJob
<1>1. Typed /\ [Next]_vars => [\A w \in paused' \ paused :
         \E j \in Job : /\ holder[j] = w /\ status[j] \in Active
                        /\ status'[j] \in {"failed", "timeout"}]_vars
  BY PausedStep DEF PausedFor
<1> QED
  BY <1>1, TypedAlways, PTL DEF Spec, PausedForItsJob
-----------------------------------------------------------------------------
(* The relay implements AnswerStream.                                       *)

LEMMA TextOf ==
    ASSUME NEW a \in Attempt
    PROVE  Stream!Text(a) = [k \in 1..Size[a] |-> [att |-> a, seq |-> k - 1]]
BY DEF Stream!Text, Size

LEMMA TextTyped ==
    ASSUME NEW a \in Attempt
    PROVE  /\ Stream!Text(a) \in Seq([att : {a}, seq : Int]) /\ Len(Stream!Text(a)) = Size[a]
           /\ Size[a] \in Nat /\ \A k \in 1..Size[a] : Stream!Text(a)[k] = [att |-> a, seq |-> k - 1]
<1> DEFINE t == Stream!Text(a)
<1>1. Size[a] \in Nat
  BY SizeNat
<1>2. t \in [1..Size[a] -> [att : {a}, seq : Int]] /\ \A k \in 1..Size[a] : t[k] = [att |-> a, seq |-> k - 1]
  BY <1>1, TextOf
<1> HIDE DEF t
<1>3. t \in Seq([att : {a}, seq : Int])
  BY <1>1, <1>2, FunctionIsSeq
<1>4. Len(t) = Size[a]
  BY <1>1, <1>2, <1>3
<1> QED
  BY <1>1, <1>2, <1>3, <1>4 DEF t

LEMMA Prefix ==
    ASSUME NEW S, NEW t \in Seq(S), NEW n \in Nat, n <= Len(t)
    PROVE  /\ SubSeq(t, 1, n) \in Seq(S) /\ Len(SubSeq(t, 1, n)) = n
           /\ \A k \in 1..n : SubSeq(t, 1, n)[k] = t[k]
<1>1. \A k \in 1..n : t[k] \in S
  BY ElementOfSeq
<1> QED
  BY <1>1, SubSeqProperties

(* The text goes on with its next pieces.                                   *)
LEMMA GoesOn ==
    ASSUME NEW a \in Attempt, NEW p \in Nat, NEW q \in Nat, p <= q, q <= Size[a],
           NEW more \in [1..(q - p) -> [att : {a}, seq : Int]],
           \A i \in 1..(q - p) : more[i] = [att |-> a, seq |-> p + i - 1]
    PROVE  SubSeq(Stream!Text(a), 1, p) \o more = SubSeq(Stream!Text(a), 1, q)
<1> DEFINE t == Stream!Text(a)
           s == SubSeq(t, 1, p)
           S == [att : {a}, seq : Int]
<1>1. t \in Seq(S) /\ Len(t) = Size[a] /\ Size[a] \in Nat
      /\ \A k \in 1..Size[a] : t[k] = [att |-> a, seq |-> k - 1]
  BY TextTyped
<1>2. more \in Seq(S) /\ Len(more) = q - p
      /\ \A i \in 1..(q - p) : more[i] = [att |-> a, seq |-> p + i - 1]
  <2>1. more \in [1..(q - p) -> S] /\ q - p \in Nat
    OBVIOUS
  <2>2. more \in Seq(S) /\ Len(more) = q - p
    BY <2>1, FunctionIsSeq
  <2> QED
    BY <2>1, <2>2
<1> HIDE DEF t, S
<1>3. s \in Seq(S) /\ Len(s) = p /\ \A k \in 1..p : s[k] = t[k]
  BY <1>1, Prefix
<1> HIDE DEF s
<1>4. /\ SubSeq(t, 1, q) \in Seq(S) /\ Len(SubSeq(t, 1, q)) = q
      /\ \A k \in 1..q : SubSeq(t, 1, q)[k] = t[k]
  BY <1>1, Prefix
<1>5. s \o more \in Seq(S) /\ Len(s \o more) = q
  <2>1. s \o more \in Seq(S) /\ Len(s \o more) = Len(s) + Len(more)
    BY <1>2, <1>3, ConcatProperties
  <2> QED
    BY <1>2, <1>3, <2>1
<1>6. ASSUME NEW k \in 1..q
      PROVE  (s \o more)[k] = t[k]
  <2>1. CASE k <= p
    BY <1>2, <1>3, <2>1
  <2>2. CASE k > p
    <3>1. k - p \in 1..(q - p) /\ (s \o more)[k] = more[k - p]
      BY <1>2, <1>3, <2>2
    <3>2. more[k - p] = [att |-> a, seq |-> p + (k - p) - 1] /\ p + (k - p) - 1 = k - 1
      BY <1>2, <3>1
    <3>3. t[k] = [att |-> a, seq |-> k - 1]
      BY <1>1
    <3> QED
      BY <3>1, <3>2, <3>3
  <2>3. k <= p \/ k > p
    OBVIOUS
  <2> QED
    BY <2>1, <2>2, <2>3
<1>7. s \o more = SubSeq(t, 1, q)
  BY <1>4, <1>5, <1>6, SeqEqual
<1> QED
  BY <1>7 DEF s, t

(* What the reader was shown after n pieces of attempt a, the final one     *)
(* without text included.                                                   *)
Shows(s, a, n) ==
    /\ n <= Size[a] + 1
    /\ s = SubSeq(Stream!Text(a), 1, IF n <= Size[a] THEN n ELSE Size[a])

(* What the relay has shown is what it has read, of one attempt whose       *)
(* pieces are the only ones.                                                *)
Relayed(j) ==
    /\ pc[j] = "new" => out[j] = <<>> /\ last[j] = 0 /\ j \notin terminal
    /\ pc[j] \in Reading =>
         /\ last[j] = 0 => out[j] = <<>> /\ j \notin terminal
         /\ last[j] > 0 => \E a \in Attempt :
               /\ Shows(out[j], a, last[j])
               /\ j \in terminal <=> last[j] = Size[a] + 1
               /\ \A k \in Seqs : chunk[j][k] # NoChunk => chunk[j][k].att = a
         /\ status[j] # "gone" => last[j] <= next[j]

(* The pieces that one turn of the loop finds.                              *)
LEMMA ReadsOn ==
    ASSUME Inv, NEW j \in Job, Relayed(j), pc[j] \in Reading,
           NEW hi \in last[j]..Cap+1, hi > last[j], Follow(j, hi)
    PROVE  \E a \in Attempt :
             /\ Shows(out[j] \o Texts(j, hi), a, hi)
             /\ Shows(out[j], a, last[j])
             /\ chunk[j][hi - 1].done <=> hi = Size[a] + 1
             /\ j \notin terminal
             /\ \A k \in Seqs : chunk[j][k] # NoChunk => chunk[j][k].att = a
             /\ hi <= next[j]
<1> DEFINE a == chunk[j][last[j]].att
           p == last[j]
<1>1. p \in Nat /\ hi \in Nat /\ Cap \in Nat /\ hi <= Cap + 1 /\ next[j] \in Nat
  BY WorkerAssumption DEF Inv, Typed, Relays, Rows
<1>2. /\ \A k \in p..hi-1 : /\ k \in Seqs /\ chunk[j][k] # NoChunk
                            /\ chunk[j][k].done => k = hi - 1
      /\ j \notin terminal
  BY <1>1 DEF Follow, Seqs
<1>3. a \in Attempt
  BY <1>1, <1>2 DEF Inv, Typed, Others, Chunk
<1>4. \A k \in Seqs : chunk[j][k] # NoChunk => chunk[j][k].att = a
  BY <1>1, <1>2 DEF Inv, Stored
<1>5. Size[a] \in Nat /\ Size[a] <= Cap
  BY <1>3, SizeNat
<1>6. /\ hi - 1 \in p..hi-1 /\ hi - 1 \in Seqs
      /\ hi - 1 < next[j] /\ hi - 1 <= Size[a] /\ (chunk[j][hi - 1].done <=> hi - 1 = Size[a])
  <2>1. hi - 1 \in p..hi-1
    BY <1>1
  <2>2. hi - 1 \in Seqs /\ chunk[j][hi - 1] # NoChunk /\ chunk[j][hi - 1].att = a
    BY <1>2, <1>4, <2>1
  <2> QED
    BY <2>1, <2>2 DEF Inv, Stored
<1> HIDE DEF a
<1> DEFINE q == IF hi <= Size[a] THEN hi ELSE Size[a]
<1>7. q \in Nat /\ p <= q /\ q <= Size[a] /\ p <= Size[a]
      /\ q - p = IF chunk[j][hi - 1].done THEN hi - 1 - p ELSE hi - p
  BY <1>1, <1>5, <1>6
<1>8. /\ Texts(j, hi) \in [1..(q - p) -> [att : {a}, seq : Int]]
      /\ \A i \in 1..(q - p) : Texts(j, hi)[i] = [att |-> a, seq |-> p + i - 1]
  <2>1. ASSUME NEW i \in 1..(q - p)
        PROVE  chunk[j][p + i - 1].att = a
    <3>1. p + i - 1 \in p..hi-1
      BY <1>1, <1>5, <1>6, <1>7
    <3> QED
      BY <1>2, <1>4, <3>1
  <2>2. Texts(j, hi) = [i \in 1..(q - p) |-> [att |-> chunk[j][p + i - 1].att, seq |-> p + i - 1]]
    BY <1>7 DEF Texts
  <2>3. p \in Int
    BY <1>1
  <2> HIDE DEF q, p
  <2> QED
    BY <2>1, <2>2, <2>3
<1>9. out[j] = SubSeq(Stream!Text(a), 1, p)
  <2>1. CASE p = 0
    <3>1. SubSeq(Stream!Text(a), 1, 0) = <<>>
      BY <1>3, TextTyped
    <3> QED
      BY <2>1, <3>1 DEF Relayed
  <2>2. CASE p > 0
    <3>1. PICK b \in Attempt :
             /\ Shows(out[j], b, p)
             /\ \A k \in Seqs : chunk[j][k] # NoChunk => chunk[j][k].att = b
      BY <2>2 DEF Relayed
    <3>2. a = b
      BY <1>1, <1>2, <3>1 DEF a
    <3> QED
      BY <1>7, <3>1, <3>2 DEF Shows
  <2> QED
    BY <1>1, <2>1, <2>2
<1>10. out[j] \o Texts(j, hi) = SubSeq(Stream!Text(a), 1, q)
  <2>1. p \in Nat /\ q \in Nat /\ p <= q /\ q <= Size[a]
    BY <1>1, <1>7
  <2> HIDE DEF q, p
  <2>2. SubSeq(Stream!Text(a), 1, p) \o Texts(j, hi) = SubSeq(Stream!Text(a), 1, q)
    BY <1>3, <1>8, <2>1, GoesOn
  <2> QED
    BY <1>9, <2>2
<1>11. Shows(out[j], a, p)
  BY <1>1, <1>5, <1>7, <1>9 DEF Shows
<1>12. Shows(out[j] \o Texts(j, hi), a, hi)
  <2>1. hi <= Size[a] + 1
    BY <1>1, <1>5, <1>6
  <2> QED
    BY <1>10, <2>1 DEF Shows
<1>13. hi <= next[j] /\ (chunk[j][hi - 1].done <=> hi = Size[a] + 1)
  BY <1>1, <1>5, <1>6
<1> QED
  BY <1>2, <1>3, <1>4, <1>11, <1>12, <1>13

LEMMA ReadsNothing ==
    ASSUME Typed, NEW j \in Job
    PROVE  out[j] \o Texts(j, last[j]) = out[j]
<1>1. last[j] \in Nat /\ out[j] \in Seq(Piece)
  BY WorkerAssumption DEF Typed, Relays
<1>2. last[j] - last[j] = 0 /\ ~(last[j] > last[j])
  BY <1>1
<1>3. Texts(j, last[j]) = << >>
  BY <1>2 DEF Texts
<1> QED
  BY <1>1, <1>3, ConcatEmptySeq

(* The turn that reads pieces, whatever comes of it.                        *)
LEMMA ReadTurn ==
    ASSUME Inv, NEW j \in Job, Relayed(j), ReadChunks(j)
    PROVE  \E hi \in last[j]..Cap+1 :
             /\ pc[j] = "top" /\ Follow(j, hi)
             /\ out' = [out EXCEPT ![j] = @ \o Texts(j, hi)]
             /\ \/ Fails(j, "failed", "breach")
                \/ /\ pc' = [pc EXCEPT ![j] = "status"]
                   /\ last' = [last EXCEPT ![j] = hi]
                   /\ terminal' = IF hi > last[j] /\ chunk[j][hi - 1].done
                                  THEN terminal \cup {j} ELSE terminal
                   /\ UNCHANGED <<res, status, next>>
BY DEF ReadChunks, row

LEMMA RelayElsewhere ==
    ASSUME Typed, NEW j \in Job, NEW i \in Job, i # j,
           \/ Insert(j) \/ TimeUp(j) \/ Stop(j) \/ RelayStep(j) \/ Withdraw(j) \/ Crash(j)
    PROVE  /\ pc'[i] = pc[i] /\ last'[i] = last[i] /\ out'[i] = out[i]
           /\ i \in terminal' <=> i \in terminal
           /\ seen'[i] = seen[i]
           /\ i \in rows' <=> i \in rows
           /\ i \in missing' <=> i \in missing
<1> USE DEF Typed, Relays
<1>1. ASSUME NEW how, Leaves(j, how)
      PROVE  /\ pc'[i] = pc[i] /\ last'[i] = last[i] /\ seen'[i] = seen[i]
             /\ i \in terminal' <=> i \in terminal
             /\ i \in rows' <=> i \in rows
             /\ i \in missing' <=> i \in missing
  BY <1>1 DEF Leaves
<1>2. ASSUME NEW s, NEW why, Fails(j, s, why)
      PROVE  /\ pc'[i] = pc[i] /\ last'[i] = last[i] /\ seen'[i] = seen[i]
             /\ i \in terminal' <=> i \in terminal
             /\ i \in rows' <=> i \in rows
             /\ i \in missing' <=> i \in missing
  BY <1>1, <1>2 DEF Fails
<1>3. CASE Insert(j) \/ TimeUp(j) \/ Crash(j) \/ PoolTimeout(j) \/ Release(j)
  BY <1>3 DEF Insert, TimeUp, Crash, PoolTimeout, Release, local, relay
<1>4. CASE Stop(j) \/ Deadline(j) \/ Withdraw(j)
  BY <1>1, <1>4 DEF Stop, Deadline, Withdraw
<1>5. CASE Stalled(j)
  BY <1>2, <1>5 DEF Stalled
<1>6. CASE ReadChunks(j)
  <2>1. PICK hi \in last[j]..Cap+1 :
          /\ out' = [out EXCEPT ![j] = @ \o Texts(j, hi)]
          /\ \/ Fails(j, "failed", "breach")
             \/ /\ pc' = [pc EXCEPT ![j] = "status"]
                /\ last' = [last EXCEPT ![j] = hi]
                /\ terminal' = IF hi > last[j] /\ chunk[j][hi - 1].done
                               THEN terminal \cup {j} ELSE terminal
                /\ rows' = IF hi > last[j] THEN rows \cup {j} ELSE rows
                /\ UNCHANGED <<missing, seen>>
    BY <1>6 DEF ReadChunks
  <2> QED
    BY <1>2, <2>1
<1>7. CASE ReadStatus(j) \/ ReadAgain(j)
  BY <1>1, <1>7 DEF ReadStatus, ReadAgain, Turns
<1>8. CASE Act(j)
  BY <1>1, <1>2, <1>8 DEF Act, Turns
<1> QED
  BY <1>3, <1>4, <1>5, <1>6, <1>7, <1>8 DEF RelayStep

(* Every step is one of a request's relay, or leaves all of them alone.      *)
LEMMA RelayOrRest ==
    ASSUME [Next]_vars
    PROVE  UNCHANGED relay \/ \E j \in Job : \/ Insert(j) \/ TimeUp(j) \/ Stop(j) \/ RelayStep(j)
                                             \/ Withdraw(j) \/ Crash(j)
<1>1. ASSUME NEW m \in net, Handle(m)
      PROVE  UNCHANGED relay
  BY <1>1 DEF Handle, ChunkRefused, ChunkRepeated, ChunkBroken, ChunkStored, Complete,
              CompleteRefused, Refused, Fail, Lose
<1>2. ASSUME NEW w \in Worker,
             \/ Claim(w) \/ NoClaim(w) \/ Poll(w) \/ SendChunk(w) \/ SendComplete(w)
             \/ SendFail(w) \/ Quit(w) \/ PauseEnds(w) \/ Enable(w) \/ Disable(w)
             \/ \E busy, heard \in BOOLEAN : Heartbeat(w, busy, heard)
      PROVE  UNCHANGED relay
  BY <1>2 DEF Claim, NoClaim, ClaimFor, Poll, SendChunk, SendComplete, SendFail, Quit,
              PauseEnds, Enable, Disable, Heartbeat
<1>3. ASSUME NEW j \in Job, RunsLate(j) \/ Purge(j)
      PROVE  UNCHANGED relay
  BY <1>3 DEF RunsLate, Purge
<1> QED
  BY <1>1, <1>2, <1>3 DEF Next, Maintain, vars

(* Nothing but the loop's own turn changes what the relay has read.         *)
LEMMA RelayedStays ==
    ASSUME Inv, [Next]_vars, NEW i \in Job, Relayed(i),
           pc'[i] \in Reading => pc[i] \in Reading, pc'[i] = "new" => pc[i] = "new",
           last'[i] = last[i], out'[i] = out[i], i \in terminal' <=> i \in terminal
    PROVE  Relayed(i)'
<1>0. Reading' = Reading
  OBVIOUS
<1>1. CASE pc'[i] \in Reading
  <2>1. /\ pc[i] \in Reading /\ pc'[i] # "new"
        /\ last[i] \in Nat /\ next[i] \in Nat /\ next[i] <= Cap + 1 /\ Cap \in Nat
    BY <1>1, WorkerAssumption DEF Reading, Inv, Typed, Relays, Rows
  <2>2. CASE Quiet
    <3>1. /\ Goes(i) /\ \A k \in Seqs : chunk'[i][k] # NoChunk => chunk'[i][k] = chunk[i][k]
      BY <2>2 DEF Quiet
    <3>2. status'[i] # "gone" => status[i] # "gone" /\ next'[i] = next[i]
      BY <3>1, Statuses DEF Goes, Live, Active, Terminal
    <3> QED
      BY <2>1, <3>1, <3>2 DEF Relayed, Shows
  <2>3. ASSUME NEW m \in net, ChunkStored(m)
        PROVE  Relayed(i)'
    <3>1. /\ m.job \in Job /\ m.seq \in Seqs /\ m.kind = "chunk" /\ Owns(m) /\ m.seq = next[m.job]
          /\ chunk' = [chunk EXCEPT ![m.job] = [@ EXCEPT ![m.seq] =
                         [att |-> m.att, done |-> m.seq = Size[m.att]]]]
          /\ next' = [next EXCEPT ![m.job] = @ + 1]
          /\ \A j \in Job : j # m.job => status'[j] = status[j]
      BY <2>3, Writes
    <3>2. CASE i # m.job
      <4>1. chunk'[i] = chunk[i] /\ next'[i] = next[i] /\ status'[i] = status[i]
        BY <3>1, <3>2 DEF Inv, Typed, Others, Rows
      <4> QED
        BY <2>1, <4>1 DEF Relayed, Shows
    <3>3. CASE i = m.job
      <4>1. status[i] \in Live /\ status[i] # "gone" /\ next'[i] = next[i] + 1
        BY <3>1, <3>3 DEF Owns, Active, Live, Inv, Typed, Rows
      <4>2. last'[i] <= next'[i]
        BY <2>1, <4>1 DEF Relayed
      <4>3. ASSUME last[i] > 0, NEW a \in Attempt,
                   \A k \in Seqs : chunk[i][k] # NoChunk => chunk[i][k].att = a
            PROVE  \A k \in Seqs : chunk'[i][k] # NoChunk => chunk'[i][k].att = a
        <5>1. next[i] > 0 /\ next[i] - 1 \in Seqs
          BY <2>1, <4>1, <4>3 DEF Relayed, Seqs
        <5>2. chunk[i][next[i] - 1] # NoChunk
          BY <4>1, <5>1 DEF Inv, Stored
        <5>3. m.att = a
          BY <3>1, <3>3, <4>3, <5>1, <5>2, OneAttempt
        <5> QED
          BY <3>1, <3>3, <4>3, <5>3 DEF Inv, Typed, Others
      <4> QED
        BY <2>1, <4>2, <4>3 DEF Relayed, Shows
    <3> QED
      BY <3>2, <3>3
  <2> QED
    BY <2>2, <2>3, QuietOrStored DEF Inv
<1>2. CASE pc'[i] \notin Reading
  BY <1>2 DEF Relayed
<1> QED
  BY <1>1, <1>2

LEMMA RelayedNext ==
    ASSUME Inv, [Next]_vars, NEW i \in Job, Relayed(i)
    PROVE  Relayed(i)'
<1>1. ASSUME NEW j \in Job, i # j,
             \/ Insert(j) \/ TimeUp(j) \/ Stop(j) \/ RelayStep(j) \/ Withdraw(j) \/ Crash(j)
      PROVE  Relayed(i)'
  BY <1>1, RelayElsewhere, RelayedStays DEF Inv
<1>2. CASE UNCHANGED relay
  BY <1>2, RelayedStays DEF relay, local
<1>3. CASE Insert(i)
  <2>1. /\ pc[i] = "new" /\ pc'[i] # "new" /\ last'[i] = 0 /\ out'[i] = <<>> /\ i \notin terminal'
        /\ next'[i] = next[i] /\ next[i] \in Nat
    BY <1>3, WorkerAssumption DEF Insert, Relayed, local, Inv, Typed, Relays, Rows
  <2> QED
    BY <2>1 DEF Relayed
<1>4. ASSUME NEW how, Leaves(i, how)
      PROVE  Relayed(i)'
  <2>1. pc'[i] = "release"
    BY <1>4 DEF Leaves, Inv, Typed, Relays
  <2> QED
    BY <2>1 DEF Relayed, Reading
<1>5. ASSUME NEW s, NEW why, Fails(i, s, why)
      PROVE  Relayed(i)'
  BY <1>4, <1>5 DEF Fails
<1>6. CASE Stop(i) \/ Deadline(i) \/ Withdraw(i) \/ Stalled(i)
  BY <1>4, <1>5, <1>6 DEF Stop, Deadline, Withdraw, Stalled
<1>7. CASE PoolTimeout(i)
  BY <1>7, RelayedStays DEF PoolTimeout, Reading, Inv, Typed, Relays
<1>8. ASSUME Turns(i), UNCHANGED out, pc[i] \in Reading
      PROVE  Relayed(i)'
  <2>1. pc'[i] = "top" /\ last' = last /\ terminal' = terminal
    BY <1>8 DEF Turns, Inv, Typed, Relays
  <2> QED
    BY <1>8, <2>1, RelayedStays
<1>9. CASE ReadStatus(i)
  <2>1. CASE /\ pc' = [pc EXCEPT ![i] = "act"] /\ UNCHANGED <<last, terminal, out>>
    BY <1>9, <2>1, RelayedStays DEF ReadStatus, Reading, Inv, Typed, Relays
  <2> QED
    BY <1>4, <1>9, <2>1 DEF ReadStatus
<1>10. CASE ReadAgain(i)
  BY <1>8, <1>10 DEF ReadAgain, Reading
<1>11. CASE Act(i)
  BY <1>4, <1>5, <1>8, <1>11 DEF Act, Reading
<1>12. CASE Release(i) \/ Crash(i)
  <2>1. pc'[i] \in {"over", "dead"}
    BY <1>12 DEF Release, Crash, Inv, Typed, Relays
  <2> QED
    BY <2>1 DEF Relayed, Reading
<1>13. CASE ReadChunks(i)
  <2>1. PICK hi \in last[i]..Cap+1 :
             /\ pc[i] = "top" /\ Follow(i, hi)
             /\ out' = [out EXCEPT ![i] = @ \o Texts(i, hi)]
             /\ \/ Fails(i, "failed", "breach")
                \/ /\ pc' = [pc EXCEPT ![i] = "status"]
                   /\ last' = [last EXCEPT ![i] = hi]
                   /\ terminal' = IF hi > last[i] /\ chunk[i][hi - 1].done
                                  THEN terminal \cup {i} ELSE terminal
                   /\ UNCHANGED <<res, status, next>>
    BY <1>13, ReadTurn
  <2>2. CASE Fails(i, "failed", "breach")
    BY <1>5, <2>2
  <2>3. CASE /\ pc' = [pc EXCEPT ![i] = "status"]
             /\ last' = [last EXCEPT ![i] = hi]
             /\ terminal' = IF hi > last[i] /\ chunk[i][hi - 1].done
                            THEN terminal \cup {i} ELSE terminal
             /\ UNCHANGED <<res, status, next>>
    <3>1. /\ pc'[i] = "status" /\ last'[i] = hi /\ out'[i] = out[i] \o Texts(i, hi)
          /\ last[i] \in Nat /\ hi \in Nat /\ pc[i] \in Reading /\ pc'[i] \in Reading
      BY <2>1, <2>3, WorkerAssumption DEF Inv, Typed, Relays, Reading
    <3>2. CASE hi = last[i]
      <4>1. out'[i] = out[i] /\ last'[i] = last[i] /\ terminal' = terminal
        <5>1. out[i] \o Texts(i, hi) = out[i]
          BY <3>2, ReadsNothing DEF Inv
        <5>2. ~(hi > last[i])
          BY <3>1, <3>2
        <5> QED
          BY <2>3, <3>1, <3>2, <5>1, <5>2
      <4> QED
        BY <3>1, <4>1, RelayedStays
    <3>3. CASE hi > last[i]
      <4>1. PICK a \in Attempt :
               /\ Shows(out[i] \o Texts(i, hi), a, hi)
               /\ chunk[i][hi - 1].done <=> hi = Size[a] + 1
               /\ i \notin terminal
               /\ \A k \in Seqs : chunk[i][k] # NoChunk => chunk[i][k].att = a
               /\ hi <= next[i]
        BY <2>1, <3>1, <3>3, ReadsOn
      <4>2. i \in terminal' <=> hi = Size[a] + 1
        BY <2>3, <3>3, <4>1
      <4>3. \A k \in Seqs : chunk'[i][k] # NoChunk => chunk'[i][k] = chunk[i][k]
        BY <1>13, RelayIsQuiet DEF Inv, RelayStep, Quiet
      <4>4. Shows(out'[i], a, last'[i])
        BY <3>1, <4>1
      <4>5. last'[i] > 0 /\ last'[i] <= next'[i] /\ pc'[i] # "new"
        BY <2>3, <3>1, <3>3, <4>1
      <4>6. \E b \in Attempt :
               /\ Shows(out'[i], b, last'[i])
               /\ i \in terminal' <=> last'[i] = Size[b] + 1
               /\ \A k \in Seqs : chunk'[i][k] # NoChunk => chunk'[i][k].att = b
        <5>1. \A k \in Seqs : chunk'[i][k] # NoChunk => chunk'[i][k].att = a
          BY <4>1, <4>3
        <5> QED
          BY <3>1, <4>2, <4>4, <5>1
      <4>7. last'[i] # 0
        BY <3>1, <3>3
      <4> QED
        BY <4>5, <4>6, <4>7 DEF Relayed, Shows
    <3> QED
      BY <3>1, <3>2, <3>3
  <2> QED
    BY <2>1, <2>2, <2>3
<1>14. CASE UNCHANGED relay \/ \E j \in Job : \/ Insert(j) \/ TimeUp(j) \/ Stop(j) \/ RelayStep(j)
                                              \/ Withdraw(j) \/ Crash(j)
  <2>1. ASSUME NEW j \in Job,
               \/ Insert(j) \/ TimeUp(j) \/ Stop(j) \/ RelayStep(j) \/ Withdraw(j) \/ Crash(j)
        PROVE  Relayed(i)'
    <3>1. CASE i = j /\ ~TimeUp(j)
      BY <1>3, <1>6, <1>7, <1>9, <1>10, <1>11, <1>12, <1>13, <2>1, <3>1 DEF RelayStep
    <3>2. CASE TimeUp(j)
      BY <1>2, <3>2 DEF TimeUp
    <3> QED
      BY <1>1, <2>1, <3>1, <3>2
  <2> QED
    BY <1>2, <1>14, <2>1
<1> QED
  BY <1>14, RelayOrRest

(* All of an attempt was read.                                              *)
LEMMA WholeShown ==
    ASSUME Relays, NEW j \in Job, Relayed(j), pc[j] \in Reading, j \in terminal
    PROVE  \E a \in Attempt : out[j] = Stream!Text(a)
<1>1. last[j] # 0 /\ last[j] \in Nat
  BY WorkerAssumption DEF Relayed, Relays
<1>2. PICK a \in Attempt : Shows(out[j], a, last[j]) /\ last[j] = Size[a] + 1
  BY <1>1 DEF Relayed
<1>3. /\ Stream!Text(a) \in Seq([att : {a}, seq : Int]) /\ Len(Stream!Text(a)) = Size[a]
      /\ Size[a] \in Nat
  BY TextTyped
<1>4. out[j] = SubSeq(Stream!Text(a), 1, Size[a])
  BY <1>2, <1>3 DEF Shows
<1>5. SubSeq(Stream!Text(a), 1, Size[a]) = Stream!Text(a)
  BY <1>3, SubSeqFull
<1> QED
  BY <1>4, <1>5

(* What the reader is shown stays or grows by the next text of one attempt. *)
Grows(j) ==
    \/ out' = out
    \/ \E a \in Attempt : \E n \in 1..Size[a] :
          /\ n > Len(out[j])
          /\ out' = [out EXCEPT ![j] = SubSeq(Stream!Text(a), 1, n)]
          /\ out[j] = SubSeq(Stream!Text(a), 1, Len(out[j]))

LEMMA ReadGrows ==
    ASSUME Inv, NEW j \in Job, Relayed(j), ReadChunks(j)
    PROVE  Grows(j)
<1>1. PICK hi \in last[j]..Cap+1 :
         /\ pc[j] = "top" /\ Follow(j, hi)
         /\ out' = [out EXCEPT ![j] = @ \o Texts(j, hi)]
  BY ReadTurn
<1>2. last[j] \in Nat /\ hi \in Nat /\ pc[j] \in Reading /\ out \in [Job -> Seq(Piece)]
  BY <1>1, WorkerAssumption DEF Inv, Typed, Relays, Reading
<1>3. CASE hi = last[j]
  <2>1. out[j] \o Texts(j, hi) = out[j]
    BY <1>3, ReadsNothing DEF Inv
  <2>2. out' = out
    BY <1>1, <1>2, <2>1
  <2> QED
    BY <2>2 DEF Grows
<1>4. CASE hi > last[j]
  <2>1. PICK a \in Attempt :
           Shows(out[j] \o Texts(j, hi), a, hi) /\ Shows(out[j], a, last[j])
    BY <1>1, <1>2, <1>4, ReadsOn
  <2>2. Size[a] \in Nat /\ hi <= Size[a] + 1 /\ last[j] <= Size[a]
    BY <1>2, <1>4, <2>1, SizeNat DEF Shows
  <2> DEFINE n == IF hi <= Size[a] THEN hi ELSE Size[a]
  <2>3. /\ out[j] \o Texts(j, hi) = SubSeq(Stream!Text(a), 1, n)
        /\ out[j] = SubSeq(Stream!Text(a), 1, last[j])
    BY <2>1, <2>2 DEF Shows
  <2>4. Len(out[j]) = last[j]
    BY <1>2, <2>2, <2>3, TextTyped, Prefix
  <2>5. CASE hi <= Size[a]
    <3>1. n \in 1..Size[a] /\ n > Len(out[j])
      BY <1>2, <1>4, <2>2, <2>4, <2>5
    <3> HIDE DEF n
    <3> QED
      BY <1>1, <2>3, <2>4, <3>1 DEF Grows
  <2>6. CASE hi > Size[a]
    <3>1. n = last[j] \/ (n \in 1..Size[a] /\ n > Len(out[j]))
      BY <1>2, <1>4, <2>2, <2>4, <2>6
    <3> HIDE DEF n
    <3>2. CASE n = last[j]
      <4>1. out' = out
        BY <1>1, <1>2, <2>3, <3>2
      <4> QED
        BY <4>1 DEF Grows
    <3>3. CASE n \in 1..Size[a] /\ n > Len(out[j])
      BY <1>1, <2>3, <2>4, <3>3 DEF Grows
    <3> QED
      BY <3>1, <3>2, <3>3
  <2> QED
    BY <1>2, <2>2, <2>5, <2>6
<1> QED
  BY <1>2, <1>3, <1>4

LEMMA TurnOf ==
    ASSUME NEW j \in Job, res[j] = "open", Grows(j),
           NEW r \in {"open", "done", "local", "error", "cancelled"},
           res' = [res EXCEPT ![j] = r],
           r = "done" => \E a \in Attempt : out'[j] = Stream!Text(a),
           r = "local" => out'[j] = <<>>
    PROVE  Stream!Next
BY DEF Stream!Next, Stream!Turn, Grows, Size

LEMMA StreamStep ==
    ASSUME Inv, \A j \in Job : Relayed(j), [Next]_vars
    PROVE  [Stream!Next]_(Stream!vars)
<1>1. ASSUME UNCHANGED <<out, res>>
      PROVE  [Stream!Next]_(Stream!vars)
  BY <1>1 DEF Stream!vars
<1>2. ASSUME NEW j \in Job,
             \/ Insert(j) \/ TimeUp(j) \/ Stop(j) \/ RelayStep(j) \/ Withdraw(j) \/ Crash(j)
      PROVE  [Stream!Next]_(Stream!vars)
  <2>0. res \in [Job -> {"open", "done", "local", "error", "cancelled"}]
        /\ (pc[j] \in Reading => res[j] = "open")
    BY DEF Inv, Typed, Relays
  <2>1. CASE Insert(j) \/ TimeUp(j) \/ Crash(j) \/ PoolTimeout(j) \/ Release(j) \/ ReadAgain(j)
    BY <1>1, <2>1 DEF Insert, TimeUp, Crash, PoolTimeout, Release, ReadAgain, Turns, relay
  <2>2. ASSUME NEW how \in {"done", "local", "error", "cancelled"}, Leaves(j, how), Grows(j),
               pc[j] \in Reading,
               how = "done" => \E a \in Attempt : out'[j] = Stream!Text(a),
               how = "local" => out'[j] = <<>>
        PROVE  [Stream!Next]_(Stream!vars)
    BY <2>0, <2>2, TurnOf DEF Leaves
  <2>3. ASSUME NEW s, NEW why, Fails(j, s, why), Grows(j), pc[j] \in Reading
        PROVE  [Stream!Next]_(Stream!vars)
    BY <2>2, <2>3 DEF Fails
  <2>4. UNCHANGED out => Grows(j)
    BY DEF Grows
  <2>5. CASE Stop(j) \/ Deadline(j)
    <3>1. \E how \in {"error", "cancelled"} : Leaves(j, how)
      BY <2>5 DEF Stop, Deadline
    <3>2. UNCHANGED out /\ pc[j] \in Reading
      BY <2>5 DEF Stop, Deadline, Reading
    <3> QED
      BY <2>2, <2>4, <3>1, <3>2
  <2>6. CASE Stalled(j)
    BY <2>3, <2>4, <2>6 DEF Stalled, Reading
  <2>7. CASE ReadChunks(j)
    <3>1. Grows(j) /\ pc[j] = "top"
      BY <2>7, ReadGrows, ReadTurn
    <3>2. Fails(j, "failed", "breach") \/ res' = res
      BY <2>7, ReadTurn
    <3>3. CASE res' = res
      <4>1. res[j] = "open" /\ res' = [res EXCEPT ![j] = "open"]
        BY <2>0, <3>1, <3>3 DEF Reading
      <4>2. Stream!Next
        BY <3>1, <4>1, TurnOf
      <4> QED
        BY <4>2
    <3> QED
      BY <2>3, <3>1, <3>2, <3>3 DEF Reading
  <2>8. CASE ReadStatus(j)
    <3>1. UNCHANGED out /\ pc[j] \in Reading
      BY <2>8 DEF ReadStatus, Reading
    <3>2. CASE UNCHANGED res
      BY <1>1, <3>1, <3>2
    <3>3. CASE Leaves(j, IF out[j] = <<>> THEN "local" ELSE "error")
      BY <2>2, <2>4, <3>1, <3>3
    <3> QED
      BY <2>8, <3>2, <3>3 DEF ReadStatus
  <2>9. CASE Act(j)
    <3>1. UNCHANGED out /\ pc[j] \in Reading
      BY <2>9 DEF Act, Reading
    <3>2. CASE Leaves(j, "done") /\ j \in terminal
      <4>1. \E a \in Attempt : out'[j] = Stream!Text(a)
        BY <3>1, <3>2, WholeShown DEF Inv, Typed
      <4> QED
        BY <2>2, <2>4, <3>1, <3>2, <4>1
    <3>3. CASE Leaves(j, IF out[j] = <<>> THEN "local" ELSE "error")
      BY <2>2, <2>4, <3>1, <3>3
    <3>4. CASE Turns(j)
      BY <1>1, <3>1, <3>4 DEF Turns
    <3>5. CASE Fails(j, "failed", "breach") \/ Fails(j, "timeout", "stall")
      BY <2>3, <2>4, <3>1, <3>5
    <3> QED
      BY <2>9, <3>2, <3>3, <3>4, <3>5 DEF Act, Whole
  <2>10. CASE Withdraw(j)
    <3>1. /\ status[j] = "pending" /\ UNCHANGED out /\ pc[j] \in Reading
          /\ Leaves(j, "local")
      BY <2>10 DEF Withdraw, Reading
    <3>2. last[j] = 0
      <4>1. last[j] \in Nat
        BY WorkerAssumption DEF Inv, Typed, Relays
      <4>2. next[j] = 0
        BY <3>1 DEF Inv, Typed, Rows
      <4>3. last[j] <= next[j]
        BY <3>1 DEF Relayed
      <4> QED
        BY <4>1, <4>2, <4>3
    <3>3. out'[j] = <<>>
      BY <3>1, <3>2 DEF Relayed
    <3> QED
      BY <2>2, <2>4, <3>1, <3>3
  <2> QED
    BY <1>2, <2>1, <2>5, <2>6, <2>7, <2>8, <2>9, <2>10 DEF RelayStep
<1> QED
  BY <1>1, <1>2, RelayOrRest DEF relay

(* ImplementsAnswerStream: _relay of services/remote.py, through every      *)
(* late, lost and repeated request of its worker, hand-over to another      *)
(* worker, timeout, purge and crash, is an AnswerStream.                    *)
THEOREM RelayImplementsAnswerStream == Spec => ImplementsAnswerStream
<1> DEFINE AllRelayed == \A j \in Job : Relayed(j)
<1>1. Init => AllRelayed
  BY DEF Init, Relayed, Reading
<1>2. Inv /\ AllRelayed /\ [Next]_vars => AllRelayed'
  BY RelayedNext
<1>3. Inv /\ AllRelayed /\ [Next]_vars => [Stream!Next]_(Stream!vars)
  BY StreamStep
<1>4. Init => Stream!Init
  BY DEF Init, Stream!Init
<1> QED
  BY <1>1, <1>2, <1>3, <1>4, InvAlways, PTL DEF Spec, ImplementsAnswerStream, Stream!Spec

-----------------------------------------------------------------------------
(* CompletedIsDelivered.                                                    *)

(* A job is done with its final piece, and gone with all its pieces.        *)
Settled(j) ==
    /\ status[j] = "done" => /\ next[j] > 0
                             /\ chunk[j][next[j] - 1] # NoChunk => chunk[j][next[j] - 1].done
    /\ status[j] = "gone" => \A k \in Seqs : chunk[j][k] = NoChunk

(* What the relay has seen of a job that ended stays so until the job is    *)
(* purged; when it has read again without progress there was no more.       *)
Looked(j) ==
    /\ j \in missing => status[j] \in Terminal \cup {"gone"}
    /\ pc[j] \in {"status", "act"} /\ j \in missing /\ j \notin rows =>
          \A k \in Seqs : k >= last[j] => chunk[j][k] = NoChunk
    /\ pc[j] = "act" /\ seen[j].status \in Terminal =>
          \/ status[j] = "gone"
          \/ status[j] = seen[j].status /\ next[j] = seen[j].next
    /\ pc[j] = "act" /\ seen[j].status = "done" => seen[j].next > 0

(* A job that has ended is not written to again.                            *)
LEMMA EndStays ==
    ASSUME Inv, [Next]_vars, NEW j \in Job, status[j] \in Terminal \cup {"gone"}
    PROVE  /\ status'[j] = "gone" \/ (status'[j] = status[j] /\ next'[j] = next[j])
           /\ \A k \in Seqs : chunk'[j][k] \in {chunk[j][k], NoChunk}
<1>1. CASE Quiet
  BY <1>1, Statuses DEF Quiet, Goes, Active
<1>2. ASSUME NEW m \in net, ChunkStored(m)
      PROVE  status'[j] = status[j] /\ next'[j] = next[j] /\ chunk'[j] = chunk[j]
  <2>1. m.job # j
    BY <1>2, Writes, Statuses DEF Owns
  <2> QED
    BY <1>2, <2>1, Writes DEF Inv, Typed, Rows, Others
<1> QED
  BY <1>1, <1>2, QuietOrStored DEF Inv

(* Only a complete and the piece that fills the answer make a job done.     *)
LEMMA EndsOther ==
    ASSUME Rows, NEW J, NEW s \in {"failed", "timeout"}, NEW From, Ends(J, s, From)
    PROVE  \A j \in Job : status'[j] = "done" => status[j] = "done"
BY DEF Rows, Ends

LEMMA MovedOther ==
    ASSUME Rows, NEW J, NEW F, NEW w, NEW C, Moved(J, F, w, C)
    PROVE  \A j \in Job : status'[j] = "done" => status[j] = "done"
BY DEF Rows, Moved

LEMMA DoneBy ==
    ASSUME Inv, [Next]_vars, NEW j \in Job, status'[j] = "done", status[j] # "done"
    PROVE  \E m \in net : (Complete(m) \/ ChunkStored(m)) /\ m.job = j
<1> USE DEF Inv, Typed
<1>1. ~UNCHANGED status
  OBVIOUS
<1>2. ASSUME NEW i \in Job, NEW s \in {"failed", "timeout"}, NEW why, Fails(i, s, why)
      PROVE  FALSE
  BY <1>2, EndsOther DEF Fails
<1>3. ASSUME NEW i \in Job,
             \/ Insert(i) \/ TimeUp(i) \/ Stop(i) \/ RelayStep(i) \/ Withdraw(i) \/ Crash(i)
      PROVE  FALSE
  <2>1. CASE Insert(i)
    BY <2>1 DEF Insert, Rows
  <2>2. CASE TimeUp(i) \/ Crash(i) \/ PoolTimeout(i) \/ ReadStatus(i) \/ ReadAgain(i)
    BY <1>1, <2>2 DEF TimeUp, Crash, PoolTimeout, ReadStatus, ReadAgain, row
  <2>3. CASE Stop(i) \/ Deadline(i) \/ Withdraw(i) \/ Release(i)
    BY <1>1, <2>3, EndsOther DEF Stop, Deadline, Withdraw, Release, row
  <2>4. CASE Stalled(i)
    BY <1>2, <2>4 DEF Stalled
  <2>5. CASE ReadChunks(i)
    BY <1>1, <1>2, <2>5 DEF ReadChunks, row
  <2>6. CASE Act(i)
    BY <1>1, <1>2, <2>6, EndsOther DEF Act, row
  <2> QED
    BY <1>3, <2>1, <2>2, <2>3, <2>4, <2>5, <2>6 DEF RelayStep
<1>4. ASSUME NEW i \in Job, RunsLate(i) \/ Purge(i)
      PROVE  FALSE
  BY <1>1, <1>4 DEF RunsLate, Purge, Rows
<1>5. ASSUME NEW m \in net, Handle(m)
      PROVE  (Complete(m) \/ ChunkStored(m)) /\ m.job = j
  <2>0. m.job \in Job
    BY OfMessage
  <2>1. CASE ChunkRefused(m) \/ CompleteRefused(m)
    BY <1>1, <2>1, EndsOther DEF ChunkRefused, CompleteRefused, Refused, row
  <2>2. CASE ChunkRepeated(m) \/ Lose(m)
    BY <1>1, <2>2 DEF ChunkRepeated, Lose, row
  <2>3. CASE ChunkBroken(m)
    BY <2>3, EndsOther DEF ChunkBroken
  <2>4. CASE ChunkStored(m)
    BY <2>4, Writes
  <2>5. CASE Complete(m)
    BY <2>5, EndsOther DEF Complete, Ends
  <2>6. CASE Fail(m)
    BY <1>1, <2>6, EndsOther, MovedOther DEF Fail, row
  <2> QED
    BY <1>5, <2>1, <2>2, <2>3, <2>4, <2>5, <2>6 DEF Handle
<1>6. ASSUME NEW w \in Worker,
             \/ Claim(w) \/ NoClaim(w) \/ Poll(w) \/ SendChunk(w) \/ SendComplete(w)
             \/ SendFail(w) \/ Quit(w) \/ PauseEnds(w) \/ Enable(w) \/ Disable(w)
             \/ \E busy, heard \in BOOLEAN : Heartbeat(w, busy, heard)
      PROVE  FALSE
  <2>1. CASE Claim(w) \/ NoClaim(w)
    BY <1>1, <2>1, MovedOther DEF Claim, NoClaim, ClaimFor, row
  <2>2. CASE Poll(w) \/ SendChunk(w) \/ SendComplete(w) \/ SendFail(w)
    BY <1>1, <2>2 DEF Poll, SendChunk, SendComplete, SendFail, row
  <2>3. CASE Quit(w) \/ PauseEnds(w) \/ Enable(w)
    BY <1>1, <2>3 DEF Quit, PauseEnds, Enable, row
  <2>4. CASE Disable(w)
    BY <2>4, EndsOther DEF Disable
  <2>5. ASSUME NEW busy \in BOOLEAN, NEW heard \in BOOLEAN, Heartbeat(w, busy, heard)
        PROVE  FALSE
    BY <2>5, MovedOther DEF Heartbeat
  <2> QED
    BY <1>6, <2>1, <2>2, <2>3, <2>4, <2>5
<1>7. CASE Maintain
  BY <1>7, EndsOther DEF Maintain
<1>8. CASE UNCHANGED vars
  BY <1>1, <1>8 DEF vars, row
<1> QED
  BY <1>3, <1>4, <1>5, <1>6, <1>7, <1>8 DEF Next

LEMMA SettledNext ==
    ASSUME Inv, [Next]_vars, NEW j \in Job, Settled(j)
    PROVE  Settled(j)'
<1>0. /\ next[j] \in Nat /\ next[j] <= Cap + 1 /\ Cap \in Nat /\ Seqs' = Seqs /\ NoChunk' = NoChunk
      /\ NoChunk.done = FALSE
  BY WorkerAssumption DEF Inv, Typed, Rows, NoChunk
<1>1. CASE status'[j] = "done"
  <2>1. CASE status[j] = "done"
    <3>1. /\ next'[j] = next[j]
          /\ \A k \in Seqs : chunk'[j][k] \in {chunk[j][k], NoChunk}
      BY <1>1, <2>1, EndStays DEF Terminal
    <3>2. next[j] > 0 /\ next[j] - 1 \in Seqs
      BY <1>0, <2>1 DEF Settled, Seqs
    <3> QED
      BY <1>1, <2>1, <3>1, <3>2 DEF Settled
  <2>2. CASE status[j] # "done"
    <3>1. PICK m \in net : (Complete(m) \/ ChunkStored(m)) /\ m.job = j
      BY <1>1, <2>2, DoneBy
    <3>2. CASE Complete(m)
      <4>1. chunk' = chunk /\ next' = next
        BY <3>2 DEF Complete, Ends
      <4>2. next[j] > 0 /\ chunk[j][next[j] - 1].done
        BY <1>1, <2>2, <3>1, <3>2, EndsOther DEF Complete, Inv, Typed
      <4> QED
        BY <1>1, <4>1, <4>2 DEF Settled
    <3>3. CASE ChunkStored(m)
      <4>0. /\ m.att \in Attempt /\ m.seq \in Seqs /\ m.seq = next[j] /\ m.seq <= Size[m.att]
            /\ chunk' = [chunk EXCEPT ![j] = [@ EXCEPT ![m.seq] =
                            [att |-> m.att, done |-> m.seq = Size[m.att]]]]
            /\ next' = [next EXCEPT ![j] = @ + 1]
        BY <3>1, <3>3, Writes
      <4>1. next'[j] = next[j] + 1
        BY <4>0 DEF Inv, Typed, Rows
      <4>2. m.seq = Cap
        BY <1>1, <3>1, <3>3 DEF ChunkStored, Inv, Typed, Rows
      <4>3. Size[m.att] = m.seq
        <5>1. Size[m.att] \in Nat /\ Size[m.att] <= Cap
          BY <4>0, SizeNat
        <5> QED
          BY <1>0, <4>0, <4>2, <5>1
      <4>4. chunk'[j][m.seq] = [att |-> m.att, done |-> TRUE]
        BY <4>0, <4>3 DEF Inv, Typed, Others
      <4>5. next'[j] > 0 /\ next'[j] - 1 = m.seq
        BY <1>0, <4>0, <4>1
      <4>6. chunk'[j][next'[j] - 1].done
        BY <4>4, <4>5
      <4> QED
        BY <1>1, <4>5, <4>6 DEF Settled
    <3> QED
      BY <3>1, <3>2, <3>3
  <2> QED
    BY <2>1, <2>2
<1>2. CASE status'[j] = "gone"
  <2>1. CASE status[j] = "gone"
    BY <1>0, <1>2, <2>1, EndStays DEF Settled
  <2>2. CASE status[j] # "gone"
    <3>1. CASE Quiet
      <4>1. \A k \in Seqs : chunk'[j][k] = NoChunk
        BY <1>2, <2>2, <3>1 DEF Quiet, Goes, Terminal
      <4> QED
        BY <1>0, <1>2, <4>1 DEF Settled
    <3>2. ASSUME NEW m \in net, ChunkStored(m)
          PROVE  FALSE
      BY <1>2, <2>2, <3>2, Writes
    <3> QED
      BY <3>1, <3>2, QuietOrStored DEF Inv
  <2> QED
    BY <2>1, <2>2
<1>3. CASE status'[j] \notin {"done", "gone"}
  BY <1>3 DEF Settled
<1> QED
  BY <1>1, <1>2, <1>3

(* Where the relay of the job stands still, or acts no more on what it saw. *)
LEMMA LookedStays ==
    ASSUME Inv, [Next]_vars, NEW j \in Job, Looked(j),
           j \in missing' => j \in missing,
           pc'[j] \in {"status", "act"} =>
               /\ pc'[j] = pc[j] /\ last'[j] = last[j] /\ seen'[j] = seen[j]
               /\ j \in rows => j \in rows'
    PROVE  Looked(j)'
<1>0. Seqs' = Seqs /\ NoChunk' = NoChunk /\ Terminal' = Terminal
  OBVIOUS
<1>1. j \in missing' => status'[j] \in Terminal \cup {"gone"}
  BY EndStays DEF Looked
<1>2. ASSUME pc'[j] \in {"status", "act"}, j \in missing', j \notin rows',
             NEW k \in Seqs, k >= last'[j]
      PROVE  chunk'[j][k] = NoChunk
  <2>1. chunk[j][k] = NoChunk /\ status[j] \in Terminal \cup {"gone"}
    BY <1>2 DEF Looked
  <2> QED
    BY <2>1, EndStays
<1>3. ASSUME pc'[j] = "act", seen'[j].status \in Terminal
      PROVE  \/ status'[j] = "gone"
             \/ status'[j] = seen'[j].status /\ next'[j] = seen'[j].next
  <2>1. /\ seen'[j] = seen[j] /\ seen[j].status \in Terminal
        /\ \/ status[j] = "gone"
           \/ status[j] = seen[j].status /\ next[j] = seen[j].next
    BY <1>3 DEF Looked
  <2> QED
    BY <2>1, EndStays
<1>4. pc'[j] = "act" /\ seen'[j].status = "done" => seen'[j].next > 0
  BY DEF Looked
<1> QED
  BY <1>0, <1>1, <1>2, <1>3, <1>4 DEF Looked

LEMMA LookedNext ==
    ASSUME Inv, [Next]_vars, NEW i \in Job, Relayed(i), Settled(i), Looked(i)
    PROVE  Looked(i)'
<1> USE DEF Inv, Typed
<1>1. ASSUME NEW how, Leaves(i, how)
      PROVE  Looked(i)'
  BY <1>1, LookedStays DEF Leaves, Relays
<1>2. ASSUME NEW s, NEW why, Fails(i, s, why)
      PROVE  Looked(i)'
  BY <1>1, <1>2 DEF Fails
<1>3. CASE Insert(i)
  BY <1>3, LookedStays DEF Insert, Relays, local
<1>4. CASE Stop(i) \/ Deadline(i) \/ Withdraw(i) \/ Stalled(i)
  BY <1>1, <1>2, <1>4 DEF Stop, Deadline, Withdraw, Stalled
<1>5. CASE PoolTimeout(i)
  BY <1>5, LookedStays DEF PoolTimeout, Relays
<1>6. CASE Release(i) \/ Crash(i)
  BY <1>6, LookedStays DEF Release, Crash, Relays, local
<1>7. CASE ReadChunks(i)
  <2>1. PICK hi \in last[i]..Cap+1 :
          /\ pc[i] = "top"
          /\ \/ Fails(i, "failed", "breach")
             \/ /\ ~\E k \in Seqs : k >= hi /\ chunk[i][k] # NoChunk
                /\ pc' = [pc EXCEPT ![i] = "status"]
                /\ last' = [last EXCEPT ![i] = hi]
                /\ rows' = IF hi > last[i] THEN rows \cup {i} ELSE rows
                /\ chunk' = [chunk EXCEPT ![i] = [k \in Seqs |->
                               IF hi > last[i] /\ k \in Delivered(i, hi) THEN NoChunk ELSE @[k]]]
                /\ UNCHANGED <<missing, seen, res, row, judged>>
    BY <1>7 DEF ReadChunks
  <2>2. CASE /\ ~\E k \in Seqs : k >= hi /\ chunk[i][k] # NoChunk
             /\ pc' = [pc EXCEPT ![i] = "status"]
             /\ last' = [last EXCEPT ![i] = hi]
             /\ rows' = IF hi > last[i] THEN rows \cup {i} ELSE rows
             /\ chunk' = [chunk EXCEPT ![i] = [k \in Seqs |->
                            IF hi > last[i] /\ k \in Delivered(i, hi) THEN NoChunk ELSE @[k]]]
             /\ UNCHANGED <<missing, seen, res, row, judged>>
    <3>1. /\ pc'[i] = "status" /\ last'[i] = hi /\ status' = status /\ missing' = missing
          /\ \A k \in Seqs : chunk'[i][k] \in {chunk[i][k], NoChunk}
      BY <2>2 DEF Relays, Others, row
    <3>2. \A k \in Seqs : k >= hi => chunk'[i][k] = NoChunk
      BY <2>2, <3>1
    <3> QED
      BY <3>1, <3>2 DEF Looked
  <2> QED
    BY <1>2, <2>1, <2>2
<1>8. CASE ReadStatus(i)
  <2>1. CASE /\ status[i] # "gone" /\ pc[i] = "status"
             /\ seen' = [seen EXCEPT ![i] = [status |-> status[i], next |-> next[i],
                                             late |-> status[i] \in Active /\ Expired(i)]]
             /\ pc' = [pc EXCEPT ![i] = "act"]
             /\ UNCHANGED <<last, rows, missing, row, chunk>>
    <3>1. /\ pc'[i] = "act" /\ seen'[i].status = status[i] /\ seen'[i].next = next[i]
          /\ status' = status /\ next' = next
      BY <2>1 DEF Relays, row
    <3> QED
      BY <2>1, <3>1 DEF Looked, Settled
  <2> QED
    BY <1>1, <1>8, <2>1 DEF ReadStatus
<1>9. ASSUME Turns(i), missing' = missing
      PROVE  Looked(i)'
  BY <1>9, LookedStays DEF Turns, Relays
<1>10. CASE ReadAgain(i)
  <2>1. /\ pc'[i] = "top" /\ status' = status
        /\ status[i] \in Terminal \cup {"gone"}
    <3>1. pc[i] = "act" /\ seen[i].status \in Terminal
      BY <1>10 DEF ReadAgain, Behind
    <3> QED
      BY <1>10, <3>1 DEF ReadAgain, Turns, row, Relays, Looked
  <2> QED
    BY <2>1 DEF Looked
<1>11. CASE Act(i)
  BY <1>1, <1>2, <1>9, <1>11 DEF Act
<1>12. ASSUME NEW j \in Job, i # j,
             \/ Insert(j) \/ TimeUp(j) \/ Stop(j) \/ RelayStep(j) \/ Withdraw(j) \/ Crash(j)
      PROVE  Looked(i)'
  BY <1>12, RelayElsewhere, LookedStays
<1>13. CASE UNCHANGED relay
  BY <1>13, LookedStays DEF relay, local
<1>14. ASSUME NEW j \in Job,
              \/ Insert(j) \/ TimeUp(j) \/ Stop(j) \/ RelayStep(j) \/ Withdraw(j) \/ Crash(j)
       PROVE  Looked(i)'
  <2>1. CASE TimeUp(j)
    BY <1>13, <2>1 DEF TimeUp
  <2>2. CASE i = j /\ ~TimeUp(j)
    BY <1>3, <1>4, <1>5, <1>6, <1>7, <1>8, <1>10, <1>11, <1>14, <2>2 DEF RelayStep
  <2> QED
    BY <1>12, <1>14, <2>1, <2>2
<1> QED
  BY <1>13, <1>14, RelayOrRest

LEMMA DeliveredStep ==
    ASSUME Inv, [Next]_vars, NEW j \in Job, Relayed(j), Settled(j), Looked(j),
           pc[j] = "act", seen[j].status = "done", pc'[j] = "release",
           chunk[j][seen[j].next - 1] # NoChunk
    PROVE  res'[j] = "done"
<1> USE DEF Inv, Typed
<1>0. /\ next[j] \in Nat /\ last[j] \in Nat /\ next[j] <= Cap + 1 /\ Cap \in Nat
      /\ seen[j] \in Seen /\ seen[j].next \in Nat /\ seen[j].next <= Cap + 1
  BY WorkerAssumption DEF Rows, Relays, Seen
<1>1. seen[j].next > 0 /\ seen[j].next - 1 \in Seqs
  BY <1>0 DEF Looked, Seqs
<1>2. status[j] = "done" /\ next[j] = seen[j].next
  BY <1>1 DEF Looked, Settled, Terminal
<1>3. chunk[j][next[j] - 1] # NoChunk /\ chunk[j][next[j] - 1].done /\ next[j] - 1 \in Seqs
  BY <1>1, <1>2 DEF Settled
<1>4. Act(j)
  <2>1. pc[j] # pc'[j]
    OBVIOUS
  <2>2. ASSUME NEW i \in Job, i # j,
               \/ Insert(i) \/ TimeUp(i) \/ Stop(i) \/ RelayStep(i) \/ Withdraw(i) \/ Crash(i)
        PROVE  FALSE
    BY <2>1, <2>2, RelayElsewhere
  <2>3. ~UNCHANGED relay
    BY <2>1 DEF relay
  <2>4. \/ Insert(j) \/ TimeUp(j) \/ Stop(j) \/ RelayStep(j) \/ Withdraw(j) \/ Crash(j)
    BY <2>2, <2>3, RelayOrRest
  <2>5. pc[j] = "act" /\ pc'[j] = "release" /\ ~Saw(j, {"pending"})
    BY DEF Saw
  <2>6. ~Crash(j) /\ ~ReadAgain(j)
    BY <2>5 DEF Crash, ReadAgain, Turns, Relays
  <2>7. ~Insert(j) /\ ~TimeUp(j) /\ ~Stop(j) /\ ~Withdraw(j)
    BY <2>3, <2>5 DEF Insert, TimeUp, Stop, Withdraw
  <2>8. ~PoolTimeout(j) /\ ~Stalled(j) /\ ~Deadline(j) /\ ~ReadChunks(j) /\ ~ReadStatus(j) /\ ~Release(j)
    BY <2>5 DEF PoolTimeout, Stalled, Deadline, ReadChunks, ReadStatus, Release
  <2> QED
    BY <2>4, <2>6, <2>7, <2>8 DEF RelayStep
<1>5. last[j] >= next[j]
  <2>1. ~(last[j] < seen[j].next) \/ (j \notin rows /\ j \in missing)
    BY <1>4 DEF Act, Behind, Terminal
  <2>2. CASE last[j] < seen[j].next
    <3>1. \A k \in Seqs : k >= last[j] => chunk[j][k] = NoChunk
      BY <2>1, <2>2 DEF Looked
    <3>2. next[j] - 1 >= last[j]
      BY <1>0, <1>2, <2>2
    <3> QED
      BY <1>3, <3>1, <3>2
  <2> QED
    BY <1>0, <1>2, <2>2
<1>6. last[j] = next[j] /\ last[j] > 0
  BY <1>0, <1>1, <1>2, <1>5 DEF Relayed, Reading
<1>7. j \in terminal
  <2>1. PICK a \in Attempt :
           /\ j \in terminal <=> last[j] = Size[a] + 1
           /\ \A k \in Seqs : chunk[j][k] # NoChunk => chunk[j][k].att = a
    BY <1>6 DEF Relayed, Reading
  <2>2. next[j] - 1 = Size[a]
    <3>1. chunk[j][next[j] - 1].att = a
      BY <1>3, <2>1
    <3>2. chunk[j][next[j] - 1].done <=> next[j] - 1 = Size[chunk[j][next[j] - 1].att]
      BY <1>3 DEF Stored
    <3> QED
      BY <1>3, <3>1, <3>2
  <2>3. last[j] = Size[a] + 1
    BY <1>0, <1>6, <2>1, <2>2, SizeNat
  <2> QED
    BY <2>1, <2>3
<1>8. Leaves(j, "done")
  BY <1>2, <1>4, <1>6, <1>7 DEF Act, Saw, Whole, Active
<1> QED
  BY <1>8 DEF Leaves, Relays

(* CompletedIsDelivered: an answer that its worker completed is delivered,  *)
(* however late its last pieces were written, unless they were purged: the  *)
(* loop of _relay reads again before it takes the job for broken.           *)
THEOREM CompletedAnswersAreDelivered == Spec => CompletedIsDelivered
<1> DEFINE AllRead == \A j \in Job : Relayed(j) /\ Settled(j) /\ Looked(j)
           Delivers == \A j \in Job :
                          /\ pc[j] = "act" /\ seen[j].status = "done" /\ pc'[j] = "release"
                          /\ chunk[j][seen[j].next - 1] # NoChunk
                          => res'[j] = "done"
<1>1. Init => AllRead
  BY DEF Init, Relayed, Settled, Looked, Reading, Terminal
<1>2. Inv /\ AllRead /\ [Next]_vars => AllRead'
  BY RelayedNext, SettledNext, LookedNext
<1>3. Inv /\ AllRead /\ [Next]_vars => [Delivers]_vars
  BY DeliveredStep
<1> QED
  BY <1>1, <1>2, <1>3, InvAlways, PTL DEF Spec, CompletedIsDelivered
=============================================================================
