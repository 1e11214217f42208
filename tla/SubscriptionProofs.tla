------------------------- MODULE SubscriptionProofs -------------------------
(***************************************************************************)
(* Proofs about SubscriptionLeases for every set of requests and accounts,  *)
(* every lease, and every choice of the processes that are late.            *)
(***************************************************************************)
EXTENDS SubscriptionLeases, SequenceTheorems, TLAPS

(* What an attempt will end with is decided before it closes, and "done" is *)
(* what the reader was told already.                                        *)
Decided(r) ==
    /\ pc[r] \in {"new", "talk", "failing"} => res[r] = "open" /\ verdict[r] = "none"
    /\ pc[r] = "resting" => res[r] = "open" /\ verdict[r] \in {"retry", "error"}
    /\ pc[r] \in {"close", "release"} =>
          /\ verdict[r] # "none" /\ (verdict[r] = "done" => r \in settled)
          /\ res[r] = IF verdict[r] = "done" THEN "done" ELSE "open"

Sound == TypeOK /\ \A r \in Request : Decided(r)

LEMMA SoundInit == Init => Sound
  BY SubscriptionAssumption
  DEF Init, Sound, TypeOK, Decided, Holding, Control

(* The parts of the type invariant.                                         *)
AccountTypes ==
    /\ status \in [Account -> {"active", "disabled", "error", "none"}]
    /\ cool \in [Account -> 0..Cooldown]
    /\ rester \in [Account -> Request \cup {NoRequest}]
    /\ lease \in [Account -> Request \cup {NoRequest}]
    /\ age \in [Account -> 0..(Lease + 1)]
    /\ mark \in [Person -> 0..Cooldown]

SetTypes ==
    /\ ledger \subseteq Request \X Account /\ stray \subseteq Request \X Account
    /\ spent \subseteq Request \X Account /\ settled \subseteq Request
    /\ rested \subseteq Request /\ told \subseteq Request

RequestTypes ==
    /\ pc \in [Request -> Control]
    /\ cur \in [Request -> Account \cup {NoAccount}]
    /\ \A r \in Request : pc[r] \in Holding => cur[r] \in Account
    /\ tried \in [Request -> SUBSET Account]
    /\ stage \in [Request -> {"open", "begun", "ended"}]
    /\ verdict \in [Request -> {"none", "retry", "done", "error", "cancelled"}]
    /\ res \in [Request -> {"open", "done", "error", "cancelled"}]
    /\ since \in [Request -> Nat]

OutTypes == out \in [Request -> Seq([att : Request \X Account, seq : Nat])]

LEMMA AccountTypesStep == Sound /\ [Next]_vars => AccountTypes'
<1> SUFFICES ASSUME Sound, [Next]_vars PROVE AccountTypes'
  OBVIOUS
<1> USE SubscriptionAssumption
    DEF Sound, TypeOK, Decided, Holding, Control, AccountTypes, pool, attempt
<1>a. 0 \in 0..(Lease + 1) /\ 0 \in 0..Cooldown /\ Cooldown \in 0..Cooldown
  BY SubscriptionAssumption
<1>b. \A r \in Request : pc[r] \in Holding => Try(r) \in Request \X Account
  BY DEF Try
<1>1. ASSUME NEW r \in Request, Claim(r) PROVE AccountTypes'
  BY <1>1, <1>a DEF Claim, Claimable
<1>2. ASSUME NEW r \in Request, GiveUp(r) PROVE AccountTypes'
  BY <1>2, <1>a DEF GiveUp, Forget
<1>3. ASSUME NEW r \in Request, Begin(r) PROVE AccountTypes'
  BY <1>3, <1>a DEF Begin
<1>4. ASSUME NEW r \in Request, Record(r) PROVE AccountTypes'
  BY <1>4, <1>a DEF Record, ShowsMore, Try
<1>5. ASSUME NEW r \in Request, Final(r) PROVE AccountTypes'
  BY <1>5, <1>a DEF Final, ShowsMore, Try
<1>6. ASSUME NEW r \in Request, FinalFails(r) PROVE AccountTypes'
  BY <1>6, <1>a DEF FinalFails, Try
<1>7. ASSUME NEW r \in Request, Reject(r) PROVE AccountTypes'
  BY <1>7, <1>a DEF Reject, Raises, Ends, Try
<1>8. ASSUME NEW r \in Request, AdmissionChanges(r) PROVE AccountTypes'
  BY <1>8, <1>a DEF AdmissionChanges, Raises, Ends, Outcome
<1>9. ASSUME NEW r \in Request, Exhausted(r) PROVE AccountTypes'
  BY <1>9, <1>a DEF Exhausted, Raises, Ends, Outcome, RestFor
<1>10. ASSUME NEW r \in Request, Uncertain(r) PROVE AccountTypes'
  BY <1>10, <1>a DEF Uncertain, Raises, Ends, Outcome, Quarantine, Try
<1>11. ASSUME NEW r \in Request, Blameless(r) PROVE AccountTypes'
  BY <1>11, <1>a DEF Blameless, Raises, Ends, Outcome
<1>12. ASSUME NEW r \in Request, FailBlamed(r) PROVE AccountTypes'
  BY <1>12, <1>a DEF FailBlamed, Blamed, Raises, Outcome, Try
<1>13. ASSUME NEW r \in Request, FailUnblamed(r) PROVE AccountTypes'
  BY <1>13, <1>a DEF FailUnblamed, Blamed, Raises, Ends, Try
<1>14. ASSUME NEW r \in Request, Rest(r) PROVE AccountTypes'
  BY <1>14, <1>a DEF Rest, RestFor
<1>15. ASSUME NEW r \in Request, Interrupt(r) PROVE AccountTypes'
  BY <1>15, <1>a DEF Interrupt, Ends, Try
<1>16. ASSUME NEW r \in Request, LoseWhileFailing(r) PROVE AccountTypes'
  BY <1>16, <1>a DEF LoseWhileFailing, Ends
<1>17. ASSUME NEW r \in Request, WalkAway(r) PROVE AccountTypes'
  BY <1>17, <1>a DEF WalkAway, Ends
<1>18. ASSUME NEW r \in Request, Close(r) PROVE AccountTypes'
  <2>1. CASE UNCHANGED <<stray, status, cool, rester>>
    BY <1>18, <2>1 DEF Close
  <2>2. CASE Quarantine(r)
    BY <1>18, <2>2 DEF Close, Quarantine
  <2> QED
    BY <1>18, <2>1, <2>2 DEF Close, Stops
<1>19. ASSUME NEW r \in Request, Release(r) PROVE AccountTypes'
  <2>1. cur[r] \in Account
    BY <1>19 DEF Release
  <2>2. CASE UNCHANGED <<lease, age>>
    BY <1>19, <2>2 DEF Release
  <2>3. CASE /\ lease' = [lease EXCEPT ![cur[r]] = IF @ = r THEN NoRequest ELSE @]
             /\ age' = [age EXCEPT ![cur[r]] = IF lease[cur[r]] = r THEN 0 ELSE @]
    BY <1>19, <1>a, <2>1, <2>3 DEF Release
  <2> QED
    BY <1>19, <2>2, <2>3 DEF Release
<1>20. ASSUME NEW r \in Request, Check(r) PROVE AccountTypes'
  <2>1. CASE UNCHANGED age
    BY <1>20, <2>1 DEF Check
  <2>2. CASE age' = [age EXCEPT ![cur[r]] = 0]
    BY <1>20, <1>a, <2>2 DEF Check
  <2> QED
    BY <1>20, <2>1, <2>2 DEF Check
<1>21. ASSUME NEW r \in Request, Cancel(r) PROVE AccountTypes'
  BY <1>21, <1>a DEF Cancel
<1>22. ASSUME NEW r \in Request, Crash(r) PROVE AccountTypes'
  BY <1>22, <1>a DEF Crash, Forget
<1>23. ASSUME NEW a \in Account, Remove(a) PROVE AccountTypes'
  BY <1>23, <1>a DEF Remove
<1>24. ASSUME NEW a \in Account, Report(a) PROVE AccountTypes'
  BY <1>24, <1>a DEF Report
<1>25. ASSUME NEW a \in Account, NEW s \in {"active", "disabled", "error"}, SetStatus(a, s)
      PROVE  AccountTypes'
  BY <1>25, <1>a DEF SetStatus
<1>26. ASSUME Tick PROVE AccountTypes'
  BY <1>26, <1>a DEF Tick, Leased
<1>27. ASSUME UNCHANGED vars PROVE AccountTypes'
  BY <1>27, <1>a DEF vars
<1> QED
  BY SubscriptionAssumption, <1>1, <1>2, <1>3, <1>4, <1>5, <1>6, <1>7,
     <1>8, <1>9, <1>10, <1>11, <1>12, <1>13, <1>14, <1>15, <1>16, <1>17,
     <1>18, <1>19, <1>20, <1>21, <1>22, <1>23, <1>24, <1>25, <1>26,
     <1>27 DEF Next

LEMMA SetTypesStep == Sound /\ [Next]_vars => SetTypes'
<1> SUFFICES ASSUME Sound, [Next]_vars PROVE SetTypes'
  OBVIOUS
<1> USE SubscriptionAssumption
    DEF Sound, TypeOK, Decided, Holding, Control, SetTypes, pool, attempt
<1>a. 0 \in 0..(Lease + 1) /\ 0 \in 0..Cooldown /\ Cooldown \in 0..Cooldown
  BY SubscriptionAssumption
<1>b. \A r \in Request : pc[r] \in Holding => Try(r) \in Request \X Account
  BY DEF Try
<1>1. ASSUME NEW r \in Request, Claim(r) PROVE SetTypes'
  BY <1>1, <1>b DEF Claim, Claimable
<1>2. ASSUME NEW r \in Request, GiveUp(r) PROVE SetTypes'
  BY <1>2, <1>b DEF GiveUp, Forget
<1>3. ASSUME NEW r \in Request, Begin(r) PROVE SetTypes'
  BY <1>3, <1>b DEF Begin
<1>4. ASSUME NEW r \in Request, Record(r) PROVE SetTypes'
  BY <1>4, <1>b DEF Record, ShowsMore, Try
<1>5. ASSUME NEW r \in Request, Final(r) PROVE SetTypes'
  BY <1>5, <1>b DEF Final, ShowsMore, Try
<1>6. ASSUME NEW r \in Request, FinalFails(r) PROVE SetTypes'
  BY <1>6, <1>b DEF FinalFails, Try
<1>7. ASSUME NEW r \in Request, Reject(r) PROVE SetTypes'
  BY <1>7, <1>b DEF Reject, Raises, Ends, Try
<1>8. ASSUME NEW r \in Request, AdmissionChanges(r) PROVE SetTypes'
  BY <1>8, <1>b DEF AdmissionChanges, Raises, Ends, Outcome
<1>9. ASSUME NEW r \in Request, Exhausted(r) PROVE SetTypes'
  BY <1>9, <1>b DEF Exhausted, Raises, Ends, Outcome, RestFor
<1>10. ASSUME NEW r \in Request, Uncertain(r) PROVE SetTypes'
  BY <1>10, <1>b DEF Uncertain, Raises, Ends, Outcome, Quarantine, Try
<1>11. ASSUME NEW r \in Request, Blameless(r) PROVE SetTypes'
  BY <1>11, <1>b DEF Blameless, Raises, Ends, Outcome
<1>12. ASSUME NEW r \in Request, FailBlamed(r) PROVE SetTypes'
  BY <1>12, <1>b DEF FailBlamed, Blamed, Raises, Outcome, Try
<1>13. ASSUME NEW r \in Request, FailUnblamed(r) PROVE SetTypes'
  BY <1>13, <1>b DEF FailUnblamed, Blamed, Raises, Ends, Try
<1>14. ASSUME NEW r \in Request, Rest(r) PROVE SetTypes'
  <2>1. rested' \subseteq rested \cup {r} /\ told' \subseteq told \cup {r}
    BY <1>14 DEF Rest
  <2> QED
    BY <1>14, <2>1 DEF Rest
<1>15. ASSUME NEW r \in Request, Interrupt(r) PROVE SetTypes'
  BY <1>15, <1>b DEF Interrupt, Ends, Try
<1>16. ASSUME NEW r \in Request, LoseWhileFailing(r) PROVE SetTypes'
  BY <1>16, <1>b DEF LoseWhileFailing, Ends
<1>17. ASSUME NEW r \in Request, WalkAway(r) PROVE SetTypes'
  BY <1>17, <1>b DEF WalkAway, Ends
<1>18. ASSUME NEW r \in Request, Close(r) PROVE SetTypes'
  BY <1>18, <1>b DEF Close, Stops, Settle, Quarantine, Try
<1>19. ASSUME NEW r \in Request, Release(r) PROVE SetTypes'
  BY <1>19, <1>b DEF Release, Forget
<1>20. ASSUME NEW r \in Request, Check(r) PROVE SetTypes'
  BY <1>20, <1>b DEF Check
<1>21. ASSUME NEW r \in Request, Cancel(r) PROVE SetTypes'
  BY <1>21, <1>b DEF Cancel
<1>22. ASSUME NEW r \in Request, Crash(r) PROVE SetTypes'
  BY <1>22, <1>b DEF Crash, Forget
<1>23. ASSUME NEW a \in Account, Remove(a) PROVE SetTypes'
  BY <1>23, <1>b DEF Remove
<1>24. ASSUME NEW a \in Account, Report(a) PROVE SetTypes'
  BY <1>24, <1>b DEF Report
<1>25. ASSUME NEW a \in Account, NEW s \in {"active", "disabled", "error"}, SetStatus(a, s)
      PROVE  SetTypes'
  BY <1>25, <1>b DEF SetStatus
<1>26. ASSUME Tick PROVE SetTypes'
  BY <1>26, <1>b DEF Tick, Leased
<1>27. ASSUME UNCHANGED vars PROVE SetTypes'
  BY <1>27, <1>b DEF vars
<1> QED
  BY SubscriptionAssumption, <1>1, <1>2, <1>3, <1>4, <1>5, <1>6, <1>7,
     <1>8, <1>9, <1>10, <1>11, <1>12, <1>13, <1>14, <1>15, <1>16, <1>17,
     <1>18, <1>19, <1>20, <1>21, <1>22, <1>23, <1>24, <1>25, <1>26,
     <1>27 DEF Next

LEMMA RequestTypesStep == Sound /\ [Next]_vars => RequestTypes'
<1> SUFFICES ASSUME Sound, [Next]_vars PROVE RequestTypes'
  OBVIOUS
<1> USE SubscriptionAssumption
    DEF Sound, TypeOK, Decided, Holding, Control, RequestTypes, pool, attempt
<1>a. 0 \in 0..(Lease + 1) /\ 0 \in 0..Cooldown /\ Cooldown \in 0..Cooldown
  BY SubscriptionAssumption
<1>b. \A r \in Request : pc[r] \in Holding => Try(r) \in Request \X Account
  BY DEF Try
<1>1. ASSUME NEW r \in Request, Claim(r) PROVE RequestTypes'
  BY <1>1 DEF Claim, Claimable
<1>2. ASSUME NEW r \in Request, GiveUp(r) PROVE RequestTypes'
  BY <1>2 DEF GiveUp, Forget
<1>3. ASSUME NEW r \in Request, Begin(r) PROVE RequestTypes'
  BY <1>3 DEF Begin
<1>4. ASSUME NEW r \in Request, Record(r) PROVE RequestTypes'
  BY <1>4 DEF Record, ShowsMore, Try
<1>5. ASSUME NEW r \in Request, Final(r) PROVE RequestTypes'
  BY <1>5 DEF Final, ShowsMore, Try
<1>6. ASSUME NEW r \in Request, FinalFails(r) PROVE RequestTypes'
  BY <1>6 DEF FinalFails, Try
<1>7. ASSUME NEW r \in Request, Reject(r) PROVE RequestTypes'
  BY <1>7 DEF Reject, Raises, Ends, Try
<1>8. ASSUME NEW r \in Request, AdmissionChanges(r) PROVE RequestTypes'
  BY <1>8 DEF AdmissionChanges, Raises, Ends, Outcome
<1>9. ASSUME NEW r \in Request, Exhausted(r) PROVE RequestTypes'
  BY <1>9 DEF Exhausted, Raises, Ends, Outcome, RestFor
<1>10. ASSUME NEW r \in Request, Uncertain(r) PROVE RequestTypes'
  BY <1>10 DEF Uncertain, Raises, Ends, Outcome, Quarantine, Try
<1>11. ASSUME NEW r \in Request, Blameless(r) PROVE RequestTypes'
  BY <1>11 DEF Blameless, Raises, Ends, Outcome
<1>12. ASSUME NEW r \in Request, FailBlamed(r) PROVE RequestTypes'
  BY <1>12 DEF FailBlamed, Blamed, Raises, Outcome, Try
<1>13. ASSUME NEW r \in Request, FailUnblamed(r) PROVE RequestTypes'
  BY <1>13 DEF FailUnblamed, Blamed, Raises, Ends, Try
<1>14. ASSUME NEW r \in Request, Rest(r) PROVE RequestTypes'
  BY <1>14 DEF Rest, RestFor
<1>15. ASSUME NEW r \in Request, Interrupt(r) PROVE RequestTypes'
  BY <1>15 DEF Interrupt, Ends, Try
<1>16. ASSUME NEW r \in Request, LoseWhileFailing(r) PROVE RequestTypes'
  BY <1>16 DEF LoseWhileFailing, Ends
<1>17. ASSUME NEW r \in Request, WalkAway(r) PROVE RequestTypes'
  BY <1>17 DEF WalkAway, Ends
<1>18. ASSUME NEW r \in Request, Close(r) PROVE RequestTypes'
  BY <1>18 DEF Close, Stops, Settle, Quarantine, Try
<1>19. ASSUME NEW r \in Request, Release(r) PROVE RequestTypes'
  <2>1. CASE verdict[r] = "retry" /\ pc' = [pc EXCEPT ![r] = "new"]
             /\ verdict' = [verdict EXCEPT ![r] = "none"]
             /\ UNCHANGED <<cur, tried, stage, settled, rested, res, since>>
    BY <1>19, <2>1 DEF Release
  <2>2. CASE /\ pc' = [pc EXCEPT ![r] = "over"] /\ Forget(r)
             /\ res' = [res EXCEPT ![r] = IF @ = "open" THEN verdict[r] ELSE @]
    <3>1. res[r] = "open" => verdict[r] \in {"retry", "error", "cancelled"}
      BY <1>19 DEF Release
    <3>2. CASE verdict[r] # "retry"
      BY <1>19, <2>2, <3>1, <3>2 DEF Release, Forget
    <3> QED
      BY <1>19, <2>2, <3>2 DEF Release
  <2>3. CASE /\ pc' = [pc EXCEPT ![r] = "over"] /\ Forget(r)
             /\ res' = [res EXCEPT ![r] = IF @ = "open" THEN "error" ELSE @]
    BY <1>19, <2>3 DEF Release, Forget
  <2> QED
    BY <1>19, <2>1, <2>2, <2>3 DEF Release
<1>20. ASSUME NEW r \in Request, Check(r) PROVE RequestTypes'
  BY <1>20 DEF Check
<1>21. ASSUME NEW r \in Request, Cancel(r) PROVE RequestTypes'
  BY <1>21 DEF Cancel
<1>22. ASSUME NEW r \in Request, Crash(r) PROVE RequestTypes'
  BY <1>22 DEF Crash, Forget
<1>23. ASSUME NEW a \in Account, Remove(a) PROVE RequestTypes'
  BY <1>23 DEF Remove
<1>24. ASSUME NEW a \in Account, Report(a) PROVE RequestTypes'
  BY <1>24 DEF Report
<1>25. ASSUME NEW a \in Account, NEW s \in {"active", "disabled", "error"}, SetStatus(a, s)
      PROVE  RequestTypes'
  BY <1>25 DEF SetStatus
<1>26. ASSUME Tick PROVE RequestTypes'
  BY <1>26 DEF Tick, Leased
<1>27. ASSUME UNCHANGED vars PROVE RequestTypes'
  BY <1>27 DEF vars
<1> QED
  BY SubscriptionAssumption, <1>1, <1>2, <1>3, <1>4, <1>5, <1>6, <1>7,
     <1>8, <1>9, <1>10, <1>11, <1>12, <1>13, <1>14, <1>15, <1>16, <1>17,
     <1>18, <1>19, <1>20, <1>21, <1>22, <1>23, <1>24, <1>25, <1>26,
     <1>27 DEF Next

LEMMA OutTypesStep == Sound /\ [Next]_vars => OutTypes'
<1> SUFFICES ASSUME Sound, [Next]_vars PROVE OutTypes'
  OBVIOUS
<1> USE SubscriptionAssumption
    DEF Sound, TypeOK, Decided, Holding, Control, OutTypes, pool, attempt
<1>a. 0 \in 0..(Lease + 1) /\ 0 \in 0..Cooldown /\ Cooldown \in 0..Cooldown
  BY SubscriptionAssumption
<1>b. \A r \in Request : pc[r] \in Holding => Try(r) \in Request \X Account
  BY DEF Try
<1>1. ASSUME NEW r \in Request, Claim(r) PROVE OutTypes'
  BY <1>1, <1>b DEF Claim, Claimable
<1>2. ASSUME NEW r \in Request, GiveUp(r) PROVE OutTypes'
  BY <1>2, <1>b DEF GiveUp, Forget
<1>3. ASSUME NEW r \in Request, Begin(r) PROVE OutTypes'
  BY <1>3, <1>b DEF Begin
<1>4. ASSUME NEW r \in Request, Record(r) PROVE OutTypes'
  <2> DEFINE x == [att |-> Try(r), seq |-> Len(out[r])]
  <2>1. Try(r) \in Request \X Account /\ out[r] \in Seq([att : Request \X Account, seq : Nat])
    BY <1>4, <1>b DEF Record
  <2>2. x \in [att : Request \X Account, seq : Nat]
    BY <2>1
  <2>3. Append(out[r], x) \in Seq([att : Request \X Account, seq : Nat])
    BY <2>1, <2>2
  <2>4. out' = [out EXCEPT ![r] = Append(out[r], x)]
    BY <1>4 DEF Record, ShowsMore
  <2> QED
    BY <2>3, <2>4
<1>5. ASSUME NEW r \in Request, Final(r) PROVE OutTypes'
  <2> DEFINE x == [att |-> Try(r), seq |-> Len(out[r])]
  <2>1. Try(r) \in Request \X Account /\ out[r] \in Seq([att : Request \X Account, seq : Nat])
    BY <1>5, <1>b DEF Final
  <2>2. x \in [att : Request \X Account, seq : Nat]
    BY <2>1
  <2>3. Append(out[r], x) \in Seq([att : Request \X Account, seq : Nat])
    BY <2>1, <2>2
  <2>4. out' = [out EXCEPT ![r] = Append(out[r], x)]
    BY <1>5 DEF Final, ShowsMore
  <2> QED
    BY <2>3, <2>4
<1>6. ASSUME NEW r \in Request, FinalFails(r) PROVE OutTypes'
  BY <1>6, <1>b DEF FinalFails, Try
<1>7. ASSUME NEW r \in Request, Reject(r) PROVE OutTypes'
  BY <1>7, <1>b DEF Reject, Raises, Ends, Try
<1>8. ASSUME NEW r \in Request, AdmissionChanges(r) PROVE OutTypes'
  BY <1>8, <1>b DEF AdmissionChanges, Raises, Ends, Outcome
<1>9. ASSUME NEW r \in Request, Exhausted(r) PROVE OutTypes'
  BY <1>9, <1>b DEF Exhausted, Raises, Ends, Outcome, RestFor
<1>10. ASSUME NEW r \in Request, Uncertain(r) PROVE OutTypes'
  BY <1>10, <1>b DEF Uncertain, Raises, Ends, Outcome, Quarantine, Try
<1>11. ASSUME NEW r \in Request, Blameless(r) PROVE OutTypes'
  BY <1>11, <1>b DEF Blameless, Raises, Ends, Outcome
<1>12. ASSUME NEW r \in Request, FailBlamed(r) PROVE OutTypes'
  BY <1>12, <1>b DEF FailBlamed, Blamed, Raises, Outcome, Try
<1>13. ASSUME NEW r \in Request, FailUnblamed(r) PROVE OutTypes'
  BY <1>13, <1>b DEF FailUnblamed, Blamed, Raises, Ends, Try
<1>14. ASSUME NEW r \in Request, Rest(r) PROVE OutTypes'
  BY <1>14, <1>b DEF Rest, RestFor
<1>15. ASSUME NEW r \in Request, Interrupt(r) PROVE OutTypes'
  BY <1>15, <1>b DEF Interrupt, Ends, Try
<1>16. ASSUME NEW r \in Request, LoseWhileFailing(r) PROVE OutTypes'
  BY <1>16, <1>b DEF LoseWhileFailing, Ends
<1>17. ASSUME NEW r \in Request, WalkAway(r) PROVE OutTypes'
  BY <1>17, <1>b DEF WalkAway, Ends
<1>18. ASSUME NEW r \in Request, Close(r) PROVE OutTypes'
  BY <1>18, <1>b DEF Close, Stops, Settle, Quarantine, Try
<1>19. ASSUME NEW r \in Request, Release(r) PROVE OutTypes'
  BY <1>19, <1>b DEF Release, Forget
<1>20. ASSUME NEW r \in Request, Check(r) PROVE OutTypes'
  BY <1>20, <1>b DEF Check
<1>21. ASSUME NEW r \in Request, Cancel(r) PROVE OutTypes'
  BY <1>21, <1>b DEF Cancel
<1>22. ASSUME NEW r \in Request, Crash(r) PROVE OutTypes'
  BY <1>22, <1>b DEF Crash, Forget
<1>23. ASSUME NEW a \in Account, Remove(a) PROVE OutTypes'
  BY <1>23, <1>b DEF Remove
<1>24. ASSUME NEW a \in Account, Report(a) PROVE OutTypes'
  BY <1>24, <1>b DEF Report
<1>25. ASSUME NEW a \in Account, NEW s \in {"active", "disabled", "error"}, SetStatus(a, s)
      PROVE  OutTypes'
  BY <1>25, <1>b DEF SetStatus
<1>26. ASSUME Tick PROVE OutTypes'
  BY <1>26, <1>b DEF Tick, Leased
<1>27. ASSUME UNCHANGED vars PROVE OutTypes'
  BY <1>27, <1>b DEF vars
<1> QED
  BY SubscriptionAssumption, <1>1, <1>2, <1>3, <1>4, <1>5, <1>6, <1>7,
     <1>8, <1>9, <1>10, <1>11, <1>12, <1>13, <1>14, <1>15, <1>16, <1>17,
     <1>18, <1>19, <1>20, <1>21, <1>22, <1>23, <1>24, <1>25, <1>26,
     <1>27 DEF Next

(* Every step keeps the types.                                              *)
LEMMA TypeStep == Sound /\ [Next]_vars => TypeOK'
  BY AccountTypesStep, SetTypesStep, RequestTypesStep, OutTypesStep
  DEF TypeOK, AccountTypes, SetTypes, RequestTypes, OutTypes

LEMMA DecidedStep ==
    ASSUME Sound, [Next]_vars, NEW q \in Request
    PROVE  Decided(q)'
<1> USE DEF Sound, TypeOK, Decided, Holding, pool, attempt
<1>1. ASSUME NEW r \in Request, Claim(r) PROVE Decided(q)'
  BY <1>1 DEF Claim, Claimable
<1>2. ASSUME NEW r \in Request, GiveUp(r) PROVE Decided(q)'
  BY <1>2 DEF GiveUp, Forget
<1>3. ASSUME NEW r \in Request, Begin(r) PROVE Decided(q)'
  BY <1>3 DEF Begin
<1>4. ASSUME NEW r \in Request, Record(r) PROVE Decided(q)'
  BY <1>4 DEF Record, ShowsMore, Try
<1>5. ASSUME NEW r \in Request, Final(r) PROVE Decided(q)'
  BY <1>5 DEF Final, ShowsMore, Try
<1>6. ASSUME NEW r \in Request, FinalFails(r) PROVE Decided(q)'
  BY <1>6 DEF FinalFails, Try
<1>7. ASSUME NEW r \in Request, Reject(r) PROVE Decided(q)'
  BY <1>7 DEF Reject, Raises, Ends, Try
<1>8. ASSUME NEW r \in Request, AdmissionChanges(r) PROVE Decided(q)'
  BY <1>8 DEF AdmissionChanges, Raises, Ends, Outcome
<1>9. ASSUME NEW r \in Request, Exhausted(r) PROVE Decided(q)'
  BY <1>9 DEF Exhausted, Raises, Ends, Outcome, RestFor
<1>10. ASSUME NEW r \in Request, Uncertain(r) PROVE Decided(q)'
  BY <1>10 DEF Uncertain, Raises, Ends, Outcome, Quarantine, Try
<1>11. ASSUME NEW r \in Request, Blameless(r) PROVE Decided(q)'
  BY <1>11 DEF Blameless, Raises, Ends, Outcome
<1>12. ASSUME NEW r \in Request, FailBlamed(r) PROVE Decided(q)'
  BY <1>12 DEF FailBlamed, Blamed, Raises, Outcome, Try
<1>13. ASSUME NEW r \in Request, FailUnblamed(r) PROVE Decided(q)'
  BY <1>13 DEF FailUnblamed, Blamed, Raises, Ends, Try
<1>14. ASSUME NEW r \in Request, Rest(r) PROVE Decided(q)'
  BY <1>14 DEF Rest, RestFor
<1>15. ASSUME NEW r \in Request, Interrupt(r) PROVE Decided(q)'
  BY <1>15 DEF Interrupt, Ends, Try
<1>16. ASSUME NEW r \in Request, LoseWhileFailing(r) PROVE Decided(q)'
  BY <1>16 DEF LoseWhileFailing, Ends
<1>17. ASSUME NEW r \in Request, WalkAway(r) PROVE Decided(q)'
  BY <1>17 DEF WalkAway, Ends
<1>18. ASSUME NEW r \in Request, Close(r) PROVE Decided(q)'
  BY <1>18 DEF Close, Stops, Settle, Quarantine, Try
<1>19. ASSUME NEW r \in Request, Release(r) PROVE Decided(q)'
  <2>1. CASE verdict[r] = "retry" /\ pc' = [pc EXCEPT ![r] = "new"]
             /\ verdict' = [verdict EXCEPT ![r] = "none"] /\ UNCHANGED <<settled, res>>
    BY <1>19, <2>1 DEF Release
  <2>2. CASE pc' = [pc EXCEPT ![r] = "over"] /\ Forget(r)
    <3>1. q # r => res'[q] = res[q] /\ verdict'[q] = verdict[q] /\ (q \in settled' <=> q \in settled)
                   /\ pc'[q] = pc[q]
      BY <1>19, <2>2 DEF Release, Forget
    <3>2. q = r => pc'[q] = "over"
      BY <1>19, <2>2 DEF Release
    <3> QED
      BY <3>1, <3>2
  <2> QED
    BY <1>19, <2>1, <2>2 DEF Release
<1>20. ASSUME NEW r \in Request, Check(r) PROVE Decided(q)'
  BY <1>20 DEF Check
<1>21. ASSUME NEW r \in Request, Cancel(r) PROVE Decided(q)'
  BY <1>21 DEF Cancel
<1>22. ASSUME NEW r \in Request, Crash(r) PROVE Decided(q)'
  BY <1>22 DEF Crash, Forget
<1>23. ASSUME NEW a \in Account, Remove(a) PROVE Decided(q)'
  BY <1>23 DEF Remove
<1>24. ASSUME NEW a \in Account, Report(a) PROVE Decided(q)'
  BY <1>24 DEF Report
<1>25. ASSUME NEW a \in Account, NEW s \in {"active", "disabled", "error"}, SetStatus(a, s)
      PROVE  Decided(q)'
  BY <1>25 DEF SetStatus
<1>26. ASSUME Tick PROVE Decided(q)'
  BY <1>26 DEF Tick, Leased
<1>27. ASSUME UNCHANGED vars PROVE Decided(q)'
  BY <1>27 DEF vars
<1> QED
  BY SubscriptionAssumption, <1>1, <1>2, <1>3, <1>4, <1>5, <1>6, <1>7,
     <1>8, <1>9, <1>10, <1>11, <1>12, <1>13, <1>14, <1>15, <1>16, <1>17,
     <1>18, <1>19, <1>20, <1>21, <1>22, <1>23, <1>24, <1>25, <1>26,
     <1>27 DEF Next

LEMMA SoundAlways == Spec => []Sound
<1>1. Sound /\ [Next]_vars => Sound'
  BY TypeStep, DecidedStep DEF Sound
<1> QED
  BY <1>1, SoundInit, PTL DEF Spec

(* The state variables keep their types.                                    *)
THEOREM TypeCorrect == Spec => []TypeOK
<1>1. Sound => TypeOK
  BY DEF Sound
<1> QED
  BY <1>1, SoundAlways, PTL
-----------------------------------------------------------------------------
(* A timely request that was not told to stop holds the row of its account, *)
(* renewed no longer ago than its supervisor came by.                       *)
InTime(r) ==
    /\ pc[r] \in Holding => since[r] <= RenewEvery
    /\ pc[r] \in Holding /\ r \notin told
          => lease[cur[r]] = r /\ age[cur[r]] <= since[r]

LEMMA InTimeIsLeased ==
    ASSUME TypeOK, NEW r \in Timely, InTime(r), pc[r] \in Holding, r \notin told
    PROVE  Mine(r)
  BY SubscriptionAssumption DEF TypeOK, InTime, Mine, Leased

LEMMA InTimeStep ==
    ASSUME Sound, [Next]_vars, NEW q \in Timely, InTime(q)
    PROVE  InTime(q)'
<1> USE SubscriptionAssumption DEF Sound, TypeOK, InTime, Holding, pool, attempt
<1>a. q \in Request
  OBVIOUS
<1>b. pc[q] \in Holding /\ q \notin told => Leased(cur[q]) /\ cur[q] \in Account
  BY InTimeIsLeased DEF Mine
<1>1. ASSUME NEW r \in Request, Claim(r) PROVE InTime(q)'
  BY <1>1, <1>a, <1>b DEF Claim, Claimable
<1>2. ASSUME NEW r \in Request, GiveUp(r) PROVE InTime(q)'
  BY <1>2, <1>a, <1>b DEF GiveUp, Forget
<1>3. ASSUME NEW r \in Request, Begin(r) PROVE InTime(q)'
  BY <1>3, <1>a, <1>b DEF Begin
<1>4. ASSUME NEW r \in Request, Record(r) PROVE InTime(q)'
  BY <1>4, <1>a, <1>b DEF Record, ShowsMore, Try
<1>5. ASSUME NEW r \in Request, Final(r) PROVE InTime(q)'
  BY <1>5, <1>a, <1>b DEF Final, ShowsMore, Try
<1>6. ASSUME NEW r \in Request, FinalFails(r) PROVE InTime(q)'
  BY <1>6, <1>a, <1>b DEF FinalFails, Try
<1>7. ASSUME NEW r \in Request, Reject(r) PROVE InTime(q)'
  BY <1>7, <1>a, <1>b DEF Reject, Raises, Ends, Try
<1>8. ASSUME NEW r \in Request, AdmissionChanges(r) PROVE InTime(q)'
  BY <1>8, <1>a, <1>b DEF AdmissionChanges, Raises, Ends, Outcome
<1>9. ASSUME NEW r \in Request, Exhausted(r) PROVE InTime(q)'
  BY <1>9, <1>a, <1>b DEF Exhausted, Raises, Ends, Outcome, RestFor
<1>10. ASSUME NEW r \in Request, Uncertain(r) PROVE InTime(q)'
  BY <1>10, <1>a, <1>b DEF Uncertain, Raises, Ends, Outcome, Quarantine, Try
<1>11. ASSUME NEW r \in Request, Blameless(r) PROVE InTime(q)'
  BY <1>11, <1>a, <1>b DEF Blameless, Raises, Ends, Outcome
<1>12. ASSUME NEW r \in Request, FailBlamed(r) PROVE InTime(q)'
  BY <1>12, <1>a, <1>b DEF FailBlamed, Blamed, Raises, Outcome, Try
<1>13. ASSUME NEW r \in Request, FailUnblamed(r) PROVE InTime(q)'
  BY <1>13, <1>a, <1>b DEF FailUnblamed, Blamed, Raises, Ends, Try
<1>14. ASSUME NEW r \in Request, Rest(r) PROVE InTime(q)'
  BY <1>14, <1>a, <1>b DEF Rest, RestFor
<1>15. ASSUME NEW r \in Request, Interrupt(r) PROVE InTime(q)'
  BY <1>15, <1>a, <1>b DEF Interrupt, Ends, Try
<1>16. ASSUME NEW r \in Request, LoseWhileFailing(r) PROVE InTime(q)'
  BY <1>16, <1>a, <1>b DEF LoseWhileFailing, Ends
<1>17. ASSUME NEW r \in Request, WalkAway(r) PROVE InTime(q)'
  BY <1>17, <1>a, <1>b DEF WalkAway, Ends
<1>18. ASSUME NEW r \in Request, Close(r) PROVE InTime(q)'
  BY <1>18, <1>a, <1>b DEF Close, Stops, Settle, Quarantine, Try
<1>19. ASSUME NEW r \in Request, Release(r) PROVE InTime(q)'
  <2>1. CASE q = r
    <3>1. pc'[q] \notin Holding
      BY <1>19, <2>1 DEF Release
    <3> QED
      BY <3>1
  <2>2. CASE q # r /\ pc[q] \in Holding
    <3>1. pc'[q] = pc[q] /\ told' = told /\ cur'[q] = cur[q] /\ since'[q] = since[q]
      BY <1>19, <2>2, <1>a DEF Release, Forget
    <3>2. lease[cur[q]] = q => lease'[cur[q]] = q /\ age'[cur[q]] = age[cur[q]]
      BY <1>19, <2>2, <1>a DEF Release
    <3> QED
      BY <3>1, <3>2
  <2>3. CASE q # r /\ pc[q] \notin Holding
    BY <1>19, <2>3, <1>a DEF Release
  <2> QED
    BY <2>1, <2>2, <2>3
<1>20. ASSUME NEW r \in Request, Check(r) PROVE InTime(q)'
  <2>1. CASE Owns(r) /\ age' = [age EXCEPT ![cur[r]] = 0] /\ UNCHANGED told
    <3>1. lease[cur[r]] = r
      BY <2>1 DEF Owns, Mine
    <3>2. CASE q = r
      BY <1>20, <2>1, <3>1, <3>2, <1>b DEF Check
    <3>3. CASE q # r
      BY <1>20, <2>1, <3>1, <3>3, <1>a, <1>b DEF Check
    <3> QED
      BY <3>2, <3>3
  <2>2. CASE told' = told \cup {r} /\ UNCHANGED age
    BY <1>20, <2>2, <1>a, <1>b DEF Check
  <2> QED
    BY <1>20, <2>1, <2>2 DEF Check
<1>21. ASSUME NEW r \in Request, Cancel(r) PROVE InTime(q)'
  BY <1>21, <1>a, <1>b DEF Cancel
<1>22. ASSUME NEW r \in Request, Crash(r) PROVE InTime(q)'
  BY <1>22, <1>a, <1>b DEF Crash, Forget
<1>23. ASSUME NEW a \in Account, Remove(a) PROVE InTime(q)'
  BY <1>23, <1>a, <1>b DEF Remove
<1>24. ASSUME NEW a \in Account, Report(a) PROVE InTime(q)'
  BY <1>24, <1>a, <1>b DEF Report
<1>25. ASSUME NEW a \in Account, NEW s \in {"active", "disabled", "error"}, SetStatus(a, s)
      PROVE  InTime(q)'
  BY <1>25, <1>a, <1>b DEF SetStatus
<1>26. ASSUME Tick PROVE InTime(q)'
  BY <1>26, <1>a, <1>b DEF Tick, Leased
<1>27. ASSUME UNCHANGED vars PROVE InTime(q)'
  BY <1>27, <1>a, <1>b DEF vars
<1> QED
  BY SubscriptionAssumption, <1>1, <1>2, <1>3, <1>4, <1>5, <1>6, <1>7,
     <1>8, <1>9, <1>10, <1>11, <1>12, <1>13, <1>14, <1>15, <1>16, <1>17,
     <1>18, <1>19, <1>20, <1>21, <1>22, <1>23, <1>24, <1>25, <1>26,
     <1>27 DEF Next

(* ExclusiveUse: db/subscription_pool.py's leases, renewed by the           *)
(* supervisor, keep every other request off the account that a request in   *)
(* time talks through, whatever the other processes, the administrators and *)
(* the reports do.                                                          *)
THEOREM AccountsAreExclusive == Spec => []ExclusiveUse
<1> DEFINE AllInTime == \A r \in Timely : InTime(r)
<1>1. Init => AllInTime
  BY SubscriptionAssumption DEF Init, InTime, Holding
<1>2. Sound /\ AllInTime /\ [Next]_vars => AllInTime'
  BY InTimeStep
<1>3. Sound /\ AllInTime => ExclusiveUse
  BY SubscriptionAssumption, InTimeIsLeased
  DEF ExclusiveUse, Talking, Holding, Sound
<1> QED
  BY <1>1, <1>2, <1>3, SoundAlways, PTL DEF Spec
-----------------------------------------------------------------------------
(* What the reader was shown before it was told of an end is the beginning  *)
(* of the text of the attempt that runs, which has used allowance if it     *)
(* showed anything; no attempt follows one that did.                        *)
Beginning(r) ==
    /\ pc[r] = "new" => out[r] = <<>>
    /\ pc[r] \in Holding /\ res[r] = "open" =>
          /\ Len(out[r]) < Pieces
          /\ \A k \in 1..Len(out[r]) : out[r][k] = [att |-> Try(r), seq |-> k - 1]
          /\ out[r] # <<>> => Try(r) \in spent
    /\ pc[r] \in Holding /\ verdict[r] = "retry" => out[r] = <<>>

(* A step that leaves what was shown, and the attempt, as they were.        *)
Keeps(r) ==
    /\ out'[r] = out[r] /\ spent \subseteq spent'
    /\ pc'[r] = "new" => out[r] = <<>>
    /\ pc'[r] \in Holding => cur'[r] = cur[r]
    /\ pc'[r] \in Holding /\ res'[r] = "open" => pc[r] \in Holding /\ res[r] = "open"
    /\ pc'[r] \in Holding /\ verdict'[r] = "retry" => out[r] = <<>>

LEMMA BeginningKept ==
    ASSUME NEW r \in Request, Beginning(r), Keeps(r)
    PROVE  Beginning(r)'
  BY DEF Beginning, Keeps, Try

LEMMA BeginningStep ==
    ASSUME Sound, [Next]_vars, NEW q \in Request, Beginning(q)
    PROVE  Beginning(q)'
<1> USE SubscriptionAssumption DEF Sound, TypeOK, Decided, Holding, pool, attempt
<1>a. /\ pc[q] = "new" => out[q] = <<>>
      /\ pc[q] \in Holding /\ verdict[q] = "retry" => out[q] = <<>>
      /\ pc[q] \in {"talk", "failing", "resting"} /\ Try(q) \notin spent => out[q] = <<>>
  BY DEF Beginning
<1>1. ASSUME NEW r \in Request, Claim(r) PROVE Beginning(q)'
  <2>1. CASE q # r
    <3>1. Keeps(q)
      BY <1>1, <2>1, <1>a DEF Claim, Keeps
    <3> QED
      BY <3>1, BeginningKept
  <2>2. CASE q = r
    <3>1. out'[r] = <<>>
      BY <1>1, <2>2, <1>a DEF Claim
    <3>2. Len(out'[r]) = 0 /\ pc'[r] = "talk"
      BY <1>1, <3>1 DEF Claim
    <3> QED
      BY <2>2, <3>1, <3>2 DEF Beginning
  <2> QED
    BY <2>1, <2>2
<1>2. ASSUME NEW r \in Request, GiveUp(r) PROVE Beginning(q)'
  <2>1. Keeps(q)
    BY <1>2, <1>a DEF GiveUp, Forget, Keeps, Try
  <2> QED
    BY <2>1, BeginningKept
<1>3. ASSUME NEW r \in Request, Begin(r) PROVE Beginning(q)'
  <2>1. Keeps(q)
    BY <1>3, <1>a DEF Begin, Keeps, Try
  <2> QED
    BY <2>1, BeginningKept
<1>4. ASSUME NEW r \in Request, Record(r) PROVE Beginning(q)'
  <2>1. CASE q # r
    <3>1. Keeps(q)
      BY <1>4, <2>1, <1>a DEF Record, ShowsMore, Try, Keeps
    <3> QED
      BY <3>1, BeginningKept
  <2>2. CASE q = r
    <3> DEFINE x == [att |-> Try(r), seq |-> Len(out[r])]
    <3>1. out[r] \in Seq([att : Request \X Account, seq : Nat])
      OBVIOUS
    <3>2. out'[r] = Append(out[r], x) /\ Try(r)' = Try(r) /\ Try(r) \in spent'
      BY <1>4 DEF Record, ShowsMore, Try
    <3>3. /\ Len(out'[r]) = Len(out[r]) + 1 /\ Len(out[r]) \in Nat
          /\ out'[r][Len(out[r]) + 1] = x
          /\ \A k \in 1..Len(out[r]) : out'[r][k] = out[r][k]
      BY <3>1, <3>2
    <3>4. Len(out[r]) < Pieces - 1 /\ pc[r] = "talk" /\ UNCHANGED <<pc, res, verdict>>
      BY <1>4 DEF Record
    <3>5. /\ res[r] = "open" /\ verdict[r] = "none"
          /\ \A k \in 1..Len(out[r]) : out[r][k] = [att |-> Try(r), seq |-> k - 1]
      BY <2>2, <3>4 DEF Beginning
    <3>6. ASSUME NEW k \in 1..Len(out'[r])
          PROVE  out'[r][k] = [att |-> Try(r), seq |-> k - 1]
      <4>1. CASE k \in 1..Len(out[r])
        BY <3>3, <3>5, <4>1
      <4>2. CASE k = Len(out[r]) + 1
        BY <3>3, <4>2
      <4> QED
        BY <3>3, <4>1, <4>2
    <3>7. Len(out'[r]) < Pieces /\ Try(r)' = Try(r)
      BY <3>2, <3>3, <3>4
    <3>8. pc'[r] = "talk" /\ verdict'[r] = "none"
      BY <3>4, <3>5
    <3> QED
      BY <2>2, <3>2, <3>6, <3>7, <3>8 DEF Beginning
  <2> QED
    BY <2>1, <2>2
<1>5. ASSUME NEW r \in Request, Final(r) PROVE Beginning(q)'
  <2>1. CASE q # r
    <3>1. Keeps(q)
      BY <1>5, <2>1, <1>a DEF Final, ShowsMore, Try, Keeps
    <3> QED
      BY <3>1, BeginningKept
  <2>2. CASE q = r
    <3>1. pc'[r] = "close" /\ res'[r] = "done" /\ verdict'[r] = "done"
      BY <1>5 DEF Final
    <3> QED
      BY <2>2, <3>1 DEF Beginning
  <2> QED
    BY <2>1, <2>2
<1>6. ASSUME NEW r \in Request, FinalFails(r) PROVE Beginning(q)'
  <2>1. Keeps(q)
    BY <1>6, <1>a DEF FinalFails, Try, Keeps
  <2> QED
    BY <2>1, BeginningKept
<1>7. ASSUME NEW r \in Request, Reject(r) PROVE Beginning(q)'
  <2>1. Keeps(q)
    BY <1>7, <1>a DEF Reject, Raises, Ends, Try, Keeps
  <2> QED
    BY <2>1, BeginningKept
<1>8. ASSUME NEW r \in Request, AdmissionChanges(r) PROVE Beginning(q)'
  <2>1. Keeps(q)
    BY <1>8, <1>a DEF AdmissionChanges, Raises, Ends, Outcome, Keeps, Try
  <2> QED
    BY <2>1, BeginningKept
<1>9. ASSUME NEW r \in Request, Exhausted(r) PROVE Beginning(q)'
  <2>1. Keeps(q)
    BY <1>9, <1>a DEF Exhausted, Raises, Ends, Outcome, RestFor, Keeps, Try
  <2> QED
    BY <2>1, BeginningKept
<1>10. ASSUME NEW r \in Request, Uncertain(r) PROVE Beginning(q)'
  <2>1. q = r => pc[q] = "talk" /\ res[q] = "open"
    BY <1>10 DEF Uncertain, Raises, Ends
  <2>2. q = r => verdict'[q] \in {"error", Outcome(q)} /\ pc'[q] = "close"
    BY <1>10 DEF Uncertain, Raises, Ends
  <2>3. Outcome(q) = "retry" => Try(q) \notin spent
    BY DEF Outcome
  <2>4. /\ out' = out /\ spent \subseteq spent' /\ cur' = cur /\ res' = res
        /\ q # r => pc'[q] = pc[q] /\ verdict'[q] = verdict[q]
    BY <1>10 DEF Uncertain, Raises, Ends, Try
  <2>5. Keeps(q)
    BY <1>a, <2>1, <2>2, <2>3, <2>4 DEF Keeps
  <2> QED
    BY <2>5, BeginningKept
<1>11. ASSUME NEW r \in Request, Blameless(r) PROVE Beginning(q)'
  <2>1. q = r => pc[q] = "talk" /\ res[q] = "open"
    BY <1>11 DEF Blameless, Raises, Ends
  <2>2. q = r => verdict'[q] \in {"error", Outcome(q)} /\ pc'[q] = "close"
    BY <1>11 DEF Blameless, Raises, Ends
  <2>3. Outcome(q) = "retry" => Try(q) \notin spent
    BY DEF Outcome
  <2>4. /\ out' = out /\ spent \subseteq spent' /\ cur' = cur /\ res' = res
        /\ q # r => pc'[q] = pc[q] /\ verdict'[q] = verdict[q]
    BY <1>11 DEF Blameless, Raises, Ends, Try
  <2>5. Keeps(q)
    BY <1>a, <2>1, <2>2, <2>3, <2>4 DEF Keeps
  <2> QED
    BY <2>5, BeginningKept
<1>12. ASSUME NEW r \in Request, FailBlamed(r) PROVE Beginning(q)'
  <2>1. Keeps(q)
    BY <1>12, <1>a DEF FailBlamed, Blamed, Raises, Outcome, Try, Keeps
  <2> QED
    BY <2>1, BeginningKept
<1>13. ASSUME NEW r \in Request, FailUnblamed(r) PROVE Beginning(q)'
  <2>1. Keeps(q)
    BY <1>13, <1>a DEF FailUnblamed, Blamed, Raises, Ends, Try, Keeps
  <2> QED
    BY <2>1, BeginningKept
<1>14. ASSUME NEW r \in Request, Rest(r) PROVE Beginning(q)'
  <2>1. Keeps(q)
    BY <1>14, <1>a DEF Rest, RestFor, Keeps, Try
  <2> QED
    BY <2>1, BeginningKept
<1>15. ASSUME NEW r \in Request, Interrupt(r) PROVE Beginning(q)'
  <2>1. Keeps(q)
    BY <1>15, <1>a DEF Interrupt, Ends, Try, Keeps
  <2> QED
    BY <2>1, BeginningKept
<1>16. ASSUME NEW r \in Request, LoseWhileFailing(r) PROVE Beginning(q)'
  <2>1. Keeps(q)
    BY <1>16, <1>a DEF LoseWhileFailing, Ends, Keeps, Try
  <2> QED
    BY <2>1, BeginningKept
<1>17. ASSUME NEW r \in Request, WalkAway(r) PROVE Beginning(q)'
  <2>1. Keeps(q)
    BY <1>17, <1>a DEF WalkAway, Ends, Keeps, Try
  <2> QED
    BY <2>1, BeginningKept
<1>18. ASSUME NEW r \in Request, Close(r) PROVE Beginning(q)'
  <2>1. Keeps(q)
    BY <1>18, <1>a DEF Close, Stops, Settle, Quarantine, Try, Keeps
  <2> QED
    BY <2>1, BeginningKept
<1>19. ASSUME NEW r \in Request, Release(r) PROVE Beginning(q)'
  <2>1. out' = out /\ spent' = spent /\ pc'[r] \notin Holding
    BY <1>19 DEF Release
  <2>2. pc'[r] = "new" => verdict[r] = "retry" /\ pc[r] \in Holding
    BY <1>19 DEF Release
  <2>3. q # r => /\ pc'[q] = pc[q] /\ cur'[q] = cur[q] /\ res'[q] = res[q]
                 /\ verdict'[q] = verdict[q]
    BY <1>19 DEF Release, Forget
  <2>4. Keeps(q)
    BY <1>a, <2>1, <2>2, <2>3 DEF Keeps
  <2> QED
    BY <2>4, BeginningKept
<1>20. ASSUME NEW r \in Request, Check(r) PROVE Beginning(q)'
  <2>1. Keeps(q)
    BY <1>20, <1>a DEF Check, Keeps, Try
  <2> QED
    BY <2>1, BeginningKept
<1>21. ASSUME NEW r \in Request, Cancel(r) PROVE Beginning(q)'
  <2>1. Keeps(q)
    BY <1>21, <1>a DEF Cancel, Keeps, Try
  <2> QED
    BY <2>1, BeginningKept
<1>22. ASSUME NEW r \in Request, Crash(r) PROVE Beginning(q)'
  <2>1. Keeps(q)
    BY <1>22, <1>a DEF Crash, Forget, Keeps, Try
  <2> QED
    BY <2>1, BeginningKept
<1>23. ASSUME NEW a \in Account, Remove(a) PROVE Beginning(q)'
  <2>1. Keeps(q)
    BY <1>23, <1>a DEF Remove, Keeps
  <2> QED
    BY <2>1, BeginningKept
<1>24. ASSUME NEW a \in Account, Report(a) PROVE Beginning(q)'
  <2>1. Keeps(q)
    BY <1>24, <1>a DEF Report, Keeps
  <2> QED
    BY <2>1, BeginningKept
<1>25. ASSUME NEW a \in Account, NEW s \in {"active", "disabled", "error"}, SetStatus(a, s)
      PROVE  Beginning(q)'
  <2>1. Keeps(q)
    BY <1>25, <1>a DEF SetStatus, Keeps
  <2> QED
    BY <2>1, BeginningKept
<1>26. ASSUME Tick PROVE Beginning(q)'
  <2>1. Keeps(q)
    BY <1>26, <1>a DEF Tick, Leased, Keeps
  <2> QED
    BY <2>1, BeginningKept
<1>27. ASSUME UNCHANGED vars PROVE Beginning(q)'
  <2>1. Keeps(q)
    BY <1>27, <1>a DEF vars, Keeps
  <2> QED
    BY <2>1, BeginningKept
<1> QED
  BY SubscriptionAssumption, <1>1, <1>2, <1>3, <1>4, <1>5, <1>6, <1>7,
     <1>8, <1>9, <1>10, <1>11, <1>12, <1>13, <1>14, <1>15, <1>16, <1>17,
     <1>18, <1>19, <1>20, <1>21, <1>22, <1>23, <1>24, <1>25, <1>26,
     <1>27 DEF Next

(* A sequence of the pieces of an attempt, in order, begins its text.       *)
LEMMA PiecesBegin ==
    ASSUME NEW S, NEW s \in Seq(S), NEW a \in Request \X Account,
           Len(s) <= Pieces,
           \A k \in 1..Len(s) : s[k] = [att |-> a, seq |-> k - 1]
    PROVE  /\ s = SubSeq(Stream!Text(a), 1, Len(s))
           /\ Len(s) = Pieces => s = Stream!Text(a)
<1> DEFINE t == Stream!Text(a)
           P == [att : Request \X Account, seq : Nat]
<1>1. t = [k \in 1..Pieces |-> [att |-> a, seq |-> k - 1]]
  BY DEF Stream!Text
<1>2. \A k \in 1..Pieces : [att |-> a, seq |-> k - 1] \in P
  BY SubscriptionAssumption
<1>3. t \in [1..Pieces -> P] /\ Pieces \in Nat /\ Len(s) \in Nat
  BY <1>1, <1>2, SubscriptionAssumption, LenProperties
<1>4. \A k \in 1..Len(s) : s[k] = t[k] /\ t[k] \in P
  BY <1>1, <1>2, <1>3
<1> HIDE DEF t, P
<1>5. t \in Seq(P) /\ Len(t) = Pieces
  BY <1>3, SeqDef
<1>6. \A i \in 1..Len(s) : t[i] \in P
  BY <1>4
<1>7. /\ SubSeq(t, 1, Len(s)) \in Seq(P) /\ Len(SubSeq(t, 1, Len(s))) = Len(s)
      /\ \A k \in 1..Len(s) : SubSeq(t, 1, Len(s))[k] = t[k]
  BY <1>3, <1>6, SubSeqProperties
<1>8. s \in [1..Len(s) -> P]
  BY <1>4, LenProperties
<1>9. s \in Seq(P)
  BY <1>3, <1>8, SeqDef
<1>10. s = SubSeq(t, 1, Len(s))
  BY <1>4, <1>7, <1>9, SeqEqual
<1>11. Len(s) = Pieces => s = t
  BY <1>4, <1>5, <1>9, SeqEqual
<1> QED
  BY <1>10, <1>11 DEF t

(* A step that shows nothing, and may tell the reader of an end that        *)
(* promises nothing.                                                        *)
Hushes(r) ==
    /\ out' = out
    /\ \/ res' = res
       \/ /\ res[r] = "open"
          /\ \E v \in {"error", "cancelled"} : res' = [res EXCEPT ![r] = v]

LEMMA HushIsStep ==
    ASSUME NEW r \in Request, Hushes(r)
    PROVE  [Stream!Next]_(Stream!vars)
<1>1. CASE res' = res
  BY <1>1 DEF Hushes, Stream!vars
<1>2. CASE res[r] = "open" /\ \E v \in {"error", "cancelled"} : res' = [res EXCEPT ![r] = v]
  <2>1. Stream!Turn(r)
    BY <1>2 DEF Hushes, Stream!Turn
  <2> QED
    BY <2>1 DEF Stream!Next
<1> QED
  BY <1>1, <1>2 DEF Hushes

(* One more piece is shown, and with the last one the reader is told that   *)
(* the answer is complete.                                                  *)
LEMMA ShowIsStep ==
    ASSUME Sound, NEW r \in Request, Beginning(r), pc[r] = "talk", ShowsMore(r),
           \/ res' = res
           \/ Len(out[r]) = Pieces - 1 /\ res' = [res EXCEPT ![r] = "done"]
    PROVE  Stream!Turn(r)
<1> DEFINE a == Try(r)
           x == [att |-> a, seq |-> Len(out[r])]
           P == [att : Request \X Account, seq : Nat]
<1>1. /\ res[r] = "open" /\ a \in Request \X Account /\ out[r] \in Seq(P)
      /\ Len(out[r]) < Pieces
      /\ \A k \in 1..Len(out[r]) : out[r][k] = [att |-> a, seq |-> k - 1]
  BY DEF Sound, TypeOK, Decided, Holding, Beginning, Try
<1> HIDE DEF a
<1>2. x \in P /\ Len(out[r]) \in Nat
  BY <1>1
<1>3. /\ Append(out[r], x) \in Seq(P) /\ Len(Append(out[r], x)) = Len(out[r]) + 1
      /\ \A k \in 1..Len(out[r]) : Append(out[r], x)[k] = out[r][k]
      /\ Append(out[r], x)[Len(out[r]) + 1] = x
  BY <1>1, <1>2
<1>4. ASSUME NEW k \in 1..(Len(out[r]) + 1)
      PROVE  Append(out[r], x)[k] = [att |-> a, seq |-> k - 1]
  <2>1. CASE k \in 1..Len(out[r])
    BY <1>1, <1>3, <2>1
  <2>2. CASE k = Len(out[r]) + 1
    BY <1>2, <1>3, <2>2
  <2> QED
    BY <1>2, <2>1, <2>2
<1>5. out' = [out EXCEPT ![r] = Append(out[r], x)]
  BY DEF ShowsMore, a
<1> DEFINE s == Append(out[r], x)
           n == Len(out[r]) + 1
<1>6. s \in Seq(P) /\ Len(s) = n /\ n \in 1..Pieces /\ n > Len(out[r])
  BY <1>1, <1>2, <1>3, SubscriptionAssumption
<1>7. \A k \in 1..n : s[k] = [att |-> a, seq |-> k - 1]
  BY <1>4
<1> HIDE DEF s, P
<1>8. s = SubSeq(Stream!Text(a), 1, n) /\ (n = Pieces => s = Stream!Text(a))
  BY <1>1, <1>6, <1>7, PiecesBegin
<1>9. out[r] = SubSeq(Stream!Text(a), 1, Len(out[r]))
  <2>1. Len(out[r]) <= Pieces
    BY <1>1, <1>2, SubscriptionAssumption
  <2>2. \A k \in 1..Len(out[r]) : out[r][k] = [att |-> a, seq |-> k - 1]
    BY <1>1
  <2> QED
    BY <1>1, <2>1, <2>2, PiecesBegin
<1>10. out' = [out EXCEPT ![r] = SubSeq(Stream!Text(a), 1, n)]
  BY <1>5, <1>8 DEF s
<1>11. \E b \in Request \X Account : \E m \in 1..Pieces :
          /\ m > Len(out[r])
          /\ out' = [out EXCEPT ![r] = SubSeq(Stream!Text(b), 1, m)]
          /\ out[r] = SubSeq(Stream!Text(b), 1, Len(out[r]))
  BY <1>1, <1>6, <1>9, <1>10
<1>12. res' = [res EXCEPT ![r] = "done"] =>
          (Len(out[r]) = Pieces - 1 => \E b \in Request \X Account : out'[r] = Stream!Text(b))
  <2>1. out'[r] = s
    BY <1>5 DEF Sound, TypeOK, s
  <2> QED
    BY <1>1, <1>6, <1>8, <2>1, SubscriptionAssumption
<1>13. \/ res' = [res EXCEPT ![r] = "open"]
       \/ /\ res' = [res EXCEPT ![r] = "done"]
          /\ \E b \in Request \X Account : out'[r] = Stream!Text(b)
  BY <1>1, <1>12 DEF Sound, TypeOK
<1>14. \E v \in {"open", "done", "local", "error", "cancelled"} :
          /\ res' = [res EXCEPT ![r] = v]
          /\ v = "done" => \E b \in Request \X Account : out'[r] = Stream!Text(b)
          /\ v = "local" => out'[r] = <<>>
  BY <1>13
<1>15. \E b \in Request \X Account : \E m \in 1..[y \in Request \X Account |-> Pieces][b] :
          /\ m > Len(out[r])
          /\ out' = [out EXCEPT ![r] = SubSeq(Stream!Text(b), 1, m)]
          /\ out[r] = SubSeq(Stream!Text(b), 1, Len(out[r]))
  BY <1>11
<1> QED
  BY <1>1, <1>14, <1>15 DEF Stream!Turn


LEMMA StreamStep ==
    ASSUME Sound, \A r \in Request : Beginning(r), [Next]_vars
    PROVE  [Stream!Next]_(Stream!vars)
<1> USE DEF pool, attempt
<1>1. ASSUME NEW r \in Request, Claim(r) PROVE [Stream!Next]_(Stream!vars)
  BY <1>1 DEF Claim, Stream!vars
<1>2. ASSUME NEW r \in Request, GiveUp(r) PROVE [Stream!Next]_(Stream!vars)
  <2>1. res[r] = "open" /\ out' = out
    BY <1>2 DEF GiveUp, Sound, Decided
  <2>2. \E v \in {"error", "cancelled"} : res' = [res EXCEPT ![r] = v]
    BY <1>2 DEF GiveUp
  <2> QED
    BY <2>1, <2>2, HushIsStep DEF Hushes
<1>3. ASSUME NEW r \in Request, Begin(r) PROVE [Stream!Next]_(Stream!vars)
  BY <1>3 DEF Begin, Stream!vars
<1>4. ASSUME NEW r \in Request, Record(r) PROVE [Stream!Next]_(Stream!vars)
  <2>1. Stream!Turn(r)
    BY <1>4, ShowIsStep DEF Record
  <2> QED
    BY <2>1 DEF Stream!Next
<1>5. ASSUME NEW r \in Request, Final(r) PROVE [Stream!Next]_(Stream!vars)
  <2>1. Stream!Turn(r)
    BY <1>5, ShowIsStep DEF Final
  <2> QED
    BY <2>1 DEF Stream!Next
<1>6. ASSUME NEW r \in Request, FinalFails(r)
      PROVE  [Stream!Next]_(Stream!vars)
  BY <1>6 DEF FinalFails, Stream!vars
<1>7. ASSUME NEW r \in Request, Reject(r) PROVE [Stream!Next]_(Stream!vars)
  BY <1>7 DEF Reject, Stream!vars
<1>8. ASSUME NEW r \in Request, AdmissionChanges(r)
      PROVE  [Stream!Next]_(Stream!vars)
  BY <1>8 DEF AdmissionChanges, Stream!vars
<1>9. ASSUME NEW r \in Request, Exhausted(r) PROVE [Stream!Next]_(Stream!vars)
  BY <1>9 DEF Exhausted, Stream!vars
<1>10. ASSUME NEW r \in Request, Uncertain(r)
      PROVE  [Stream!Next]_(Stream!vars)
  BY <1>10 DEF Uncertain, Stream!vars
<1>11. ASSUME NEW r \in Request, Blameless(r)
      PROVE  [Stream!Next]_(Stream!vars)
  BY <1>11 DEF Blameless, Stream!vars
<1>12. ASSUME NEW r \in Request, FailBlamed(r)
      PROVE  [Stream!Next]_(Stream!vars)
  BY <1>12 DEF FailBlamed, Stream!vars
<1>13. ASSUME NEW r \in Request, FailUnblamed(r)
      PROVE  [Stream!Next]_(Stream!vars)
  BY <1>13 DEF FailUnblamed, Stream!vars
<1>14. ASSUME NEW r \in Request, Rest(r) PROVE [Stream!Next]_(Stream!vars)
  BY <1>14 DEF Rest, Stream!vars
<1>15. ASSUME NEW r \in Request, Interrupt(r)
      PROVE  [Stream!Next]_(Stream!vars)
  BY <1>15 DEF Interrupt, Stream!vars
<1>16. ASSUME NEW r \in Request, LoseWhileFailing(r)
      PROVE  [Stream!Next]_(Stream!vars)
  BY <1>16 DEF LoseWhileFailing, Stream!vars
<1>17. ASSUME NEW r \in Request, WalkAway(r) PROVE [Stream!Next]_(Stream!vars)
  BY <1>17 DEF WalkAway, Stream!vars
<1>18. ASSUME NEW r \in Request, Close(r) PROVE [Stream!Next]_(Stream!vars)
  BY <1>18 DEF Close, Stream!vars
<1>19. ASSUME NEW r \in Request, Release(r) PROVE [Stream!Next]_(Stream!vars)
  <2>1. out' = out /\ verdict[r] # "none" /\ res \in [Request -> {"open", "done", "error", "cancelled"}]
    BY <1>19 DEF Release, Sound, TypeOK, Decided
  <2>2. CASE res' = res
    BY <2>1, <2>2, HushIsStep DEF Hushes
  <2>3. CASE res[r] # "open" /\ res' = [res EXCEPT ![r] = IF @ = "open" THEN verdict[r] ELSE @]
    BY <2>1, <2>3, HushIsStep DEF Hushes
  <2>4. CASE res[r] # "open" /\ res' = [res EXCEPT ![r] = IF @ = "open" THEN "error" ELSE @]
    BY <2>1, <2>4, HushIsStep DEF Hushes
  <2>5. CASE res[r] = "open" /\ verdict[r] # "retry"
             /\ res' = [res EXCEPT ![r] = IF @ = "open" THEN verdict[r] ELSE @]
    <3>1. verdict[r] \in {"error", "cancelled"}
      BY <1>19, <2>1, <2>5 DEF Release, Sound, TypeOK, Decided
    <3> QED
      BY <2>1, <2>5, <3>1, HushIsStep DEF Hushes
  <2>6. CASE res[r] = "open" /\ res' = [res EXCEPT ![r] = IF @ = "open" THEN "error" ELSE @]
    BY <2>1, <2>6, HushIsStep DEF Hushes
  <2> QED
    BY <1>19, <2>2, <2>3, <2>4, <2>5, <2>6 DEF Release
<1>20. ASSUME NEW r \in Request, Check(r) PROVE [Stream!Next]_(Stream!vars)
  BY <1>20 DEF Check, Stream!vars
<1>21. ASSUME NEW r \in Request, Cancel(r) PROVE [Stream!Next]_(Stream!vars)
  BY <1>21 DEF Cancel, Stream!vars
<1>22. ASSUME NEW r \in Request, Crash(r) PROVE [Stream!Next]_(Stream!vars)
  BY <1>22 DEF Crash, Stream!vars
<1>23. ASSUME NEW a \in Account, Remove(a) PROVE [Stream!Next]_(Stream!vars)
  BY <1>23 DEF Remove, Stream!vars
<1>24. ASSUME NEW a \in Account, Report(a) PROVE [Stream!Next]_(Stream!vars)
  BY <1>24 DEF Report, Stream!vars
<1>25. ASSUME NEW a \in Account, NEW s \in {"active", "disabled", "error"}, SetStatus(a, s)
      PROVE  [Stream!Next]_(Stream!vars)
  BY <1>25 DEF SetStatus, Stream!vars
<1>26. ASSUME Tick PROVE [Stream!Next]_(Stream!vars)
  BY <1>26 DEF Tick, Stream!vars
<1>27. ASSUME UNCHANGED vars PROVE [Stream!Next]_(Stream!vars)
  BY <1>27 DEF vars, Stream!vars
<1> QED
  BY SubscriptionAssumption, <1>1, <1>2, <1>3, <1>4, <1>5, <1>6, <1>7,
     <1>8, <1>9, <1>10, <1>11, <1>12, <1>13, <1>14, <1>15, <1>16, <1>17,
     <1>18, <1>19, <1>20, <1>21, <1>22, <1>23, <1>24, <1>25, <1>26,
     <1>27 DEF Next

(* ImplementsAnswerStream: chat_stream of services/subscription_pool.py,    *)
(* through every retry, lapse, crash and cancellation, is an AnswerStream.  *)
THEOREM PoolImplementsAnswerStream == Spec => ImplementsAnswerStream
<1> DEFINE AllBegin == \A r \in Request : Beginning(r)
<1>1. Init => AllBegin
  BY DEF Init, Beginning, Holding
<1>2. Sound /\ AllBegin /\ [Next]_vars => AllBegin'
  BY BeginningStep
<1>3. Sound /\ AllBegin /\ [Next]_vars => [Stream!Next]_(Stream!vars)
  BY StreamStep
<1>4. Init => Stream!Init
  BY DEF Init, Stream!Init
<1> QED
  BY <1>1, <1>2, <1>3, <1>4, SoundAlways, PTL DEF Spec, ImplementsAnswerStream, Stream!Spec
-----------------------------------------------------------------------------
(* Allowance that was used and is not in the ledger belongs to the attempt  *)
(* that runs, or to a request that ended in an error or died.               *)
Booked(r) ==
    /\ \A a \in Account : <<r, a>> \in spent =>
          \/ <<r, a>> \in ledger
          \/ pc[r] \in Holding /\ a = cur[r] /\ (pc[r] = "release" => verdict[r] = "error")
          \/ pc[r] = "over" /\ res[r] = "error"
          \/ pc[r] = "dead"
    /\ pc[r] \in Holding /\ r \in settled => Try(r) \in ledger
    /\ res[r] = "done" => \E a \in Account : <<r, a>> \in ledger

LEMMA BookedStep ==
    ASSUME Sound, [Next]_vars, NEW q \in Request, Booked(q)
    PROVE  Booked(q)'
<1> USE DEF Sound, TypeOK, Decided, Booked, Holding, pool, attempt
<1>1. ASSUME NEW r \in Request, Claim(r) PROVE Booked(q)'
  BY <1>1 DEF Claim, Claimable, Try
<1>2. ASSUME NEW r \in Request, GiveUp(r) PROVE Booked(q)'
  BY <1>2 DEF GiveUp, Forget, Try
<1>3. ASSUME NEW r \in Request, Begin(r) PROVE Booked(q)'
  BY <1>3 DEF Begin, Try
<1>4. ASSUME NEW r \in Request, Record(r) PROVE Booked(q)'
  BY <1>4 DEF Record, ShowsMore, Try
<1>5. ASSUME NEW r \in Request, Final(r) PROVE Booked(q)'
  BY <1>5 DEF Final, ShowsMore, Try
<1>6. ASSUME NEW r \in Request, FinalFails(r) PROVE Booked(q)'
  BY <1>6 DEF FinalFails, Try
<1>7. ASSUME NEW r \in Request, Reject(r) PROVE Booked(q)'
  BY <1>7 DEF Reject, Raises, Ends, Try
<1>8. ASSUME NEW r \in Request, AdmissionChanges(r) PROVE Booked(q)'
  BY <1>8 DEF AdmissionChanges, Raises, Ends, Outcome, Try
<1>9. ASSUME NEW r \in Request, Exhausted(r) PROVE Booked(q)'
  BY <1>9 DEF Exhausted, Raises, Ends, Outcome, RestFor, Try
<1>10. ASSUME NEW r \in Request, Uncertain(r) PROVE Booked(q)'
  BY <1>10 DEF Uncertain, Raises, Ends, Outcome, Quarantine, Try
<1>11. ASSUME NEW r \in Request, Blameless(r) PROVE Booked(q)'
  BY <1>11 DEF Blameless, Raises, Ends, Outcome, Try
<1>12. ASSUME NEW r \in Request, FailBlamed(r) PROVE Booked(q)'
  BY <1>12 DEF FailBlamed, Blamed, Raises, Outcome, Try
<1>13. ASSUME NEW r \in Request, FailUnblamed(r) PROVE Booked(q)'
  BY <1>13 DEF FailUnblamed, Blamed, Raises, Ends, Try
<1>14. ASSUME NEW r \in Request, Rest(r) PROVE Booked(q)'
  BY <1>14 DEF Rest, RestFor, Try
<1>15. ASSUME NEW r \in Request, Interrupt(r) PROVE Booked(q)'
  BY <1>15 DEF Interrupt, Ends, Try
<1>16. ASSUME NEW r \in Request, LoseWhileFailing(r) PROVE Booked(q)'
  BY <1>16 DEF LoseWhileFailing, Ends, Try
<1>17. ASSUME NEW r \in Request, WalkAway(r) PROVE Booked(q)'
  BY <1>17 DEF WalkAway, Ends, Try
<1>18. ASSUME NEW r \in Request, Close(r) PROVE Booked(q)'
  BY <1>18 DEF Close, Stops, Settle, Quarantine, Try
<1>19. ASSUME NEW r \in Request, Release(r) PROVE Booked(q)'
  <2>1. spent' = spent /\ ledger' = ledger
    BY <1>19 DEF Release
  <2>2. CASE q # r
    <3>1. /\ pc'[q] = pc[q] /\ cur'[q] = cur[q] /\ res'[q] = res[q] /\ verdict'[q] = verdict[q]
          /\ q \in settled' <=> q \in settled
      BY <1>19, <2>2 DEF Release, Forget
    <3> QED
      BY <2>1, <3>1 DEF Try
  <2>3. CASE q = r
    <3>1. /\ pc[r] = "release" /\ pc'[r] \notin Holding
          /\ verdict[r] = "done" <=> res[r] = "done"
          /\ res[r] \in {"open", "done"} /\ verdict[r] # "none"
          /\ verdict[r] = "done" => r \in settled
      BY <1>19 DEF Release
    <3>2. res[r] = "done" => \A a \in Account : <<r, a>> \in spent => <<r, a>> \in ledger
      BY <2>3, <3>1 DEF Try
    <3>3. \/ pc'[r] = "new" /\ verdict[r] = "retry" /\ res' = res
          \/ pc'[r] = "over" /\ res'[r] \in {IF res[r] = "open" THEN verdict[r] ELSE res[r],
                                             IF res[r] = "open" THEN "error" ELSE res[r]}
      BY <1>19 DEF Release
    <3>4. verdict[r] = "error" => res[r] = "open"
      BY <3>1
    <3>5. res'[r] = "done" => res[r] = "done"
      BY <3>1, <3>3
    <3>6. \A a \in Account : <<r, a>> \in spent =>
            <<r, a>> \in ledger \/ (pc'[r] = "over" /\ res'[r] = "error")
      BY <2>3, <3>1, <3>2, <3>3, <3>4
    <3> QED
      BY <2>1, <2>3, <3>1, <3>5, <3>6
  <2> QED
    BY <2>2, <2>3
<1>20. ASSUME NEW r \in Request, Check(r) PROVE Booked(q)'
  BY <1>20 DEF Check, Try
<1>21. ASSUME NEW r \in Request, Cancel(r) PROVE Booked(q)'
  BY <1>21 DEF Cancel, Try
<1>22. ASSUME NEW r \in Request, Crash(r) PROVE Booked(q)'
  BY <1>22 DEF Crash, Forget, Try
<1>23. ASSUME NEW a \in Account, Remove(a) PROVE Booked(q)'
  BY <1>23 DEF Remove, Try
<1>24. ASSUME NEW a \in Account, Report(a) PROVE Booked(q)'
  BY <1>24 DEF Report, Try
<1>25. ASSUME NEW a \in Account, NEW s \in {"active", "disabled", "error"}, SetStatus(a, s)
      PROVE  Booked(q)'
  BY <1>25 DEF SetStatus, Try
<1>26. ASSUME Tick PROVE Booked(q)'
  BY <1>26 DEF Tick, Leased, Try
<1>27. ASSUME UNCHANGED vars PROVE Booked(q)'
  BY <1>27 DEF vars, Try
<1> HIDE DEF Booked
<1> QED
  BY SubscriptionAssumption, <1>1, <1>2, <1>3, <1>4, <1>5, <1>6, <1>7,
     <1>8, <1>9, <1>10, <1>11, <1>12, <1>13, <1>14, <1>15, <1>16, <1>17,
     <1>18, <1>19, <1>20, <1>21, <1>22, <1>23, <1>24, <1>25, <1>26,
     <1>27 DEF Next

(* UsageIsRecorded: settlement in services/subscription_pool.py happens     *)
(* before completion is told and on every way out of an attempt.            *)
THEOREM UsageReachesTheLedger == Spec => []UsageIsRecorded
<1> DEFINE AllBooked == \A r \in Request : Booked(r)
<1>1. Init => AllBooked
  BY DEF Init, Booked, Holding
<1>2. Sound /\ AllBooked /\ [Next]_vars => AllBooked'
  BY BookedStep
<1>3. AllBooked => UsageIsRecorded
  BY DEF Booked, UsageIsRecorded, Holding
<1> QED
  BY <1>1, <1>2, <1>3, SoundAlways, PTL DEF Spec
-----------------------------------------------------------------------------
(* The account of a process that may still run is out of service, unless    *)
(* its request was told to stop or its process died.                        *)
StrayOut ==
    \A x \in stray : x[1] \in Timely \ told /\ pc[x[1]] # "dead"
                     => status[x[2]] \in {"disabled", "none"}

LEMMA StrayStep ==
    ASSUME Sound, \A r \in Timely : InTime(r), [Next]_vars, StrayOut
    PROVE  StrayOut'
<1> USE SubscriptionAssumption DEF Sound, TypeOK, StrayOut, Holding, pool, attempt
<1>a. \A r \in Timely \ told : pc[r] \in Holding => Mine(r)
  BY InTimeIsLeased
<1>1. ASSUME NEW r \in Request, Claim(r) PROVE StrayOut'
  BY <1>1, <1>a DEF Claim, Claimable, Owns
<1>2. ASSUME NEW r \in Request, GiveUp(r) PROVE StrayOut'
  BY <1>2, <1>a DEF GiveUp, Forget, Owns
<1>3. ASSUME NEW r \in Request, Begin(r) PROVE StrayOut'
  BY <1>3, <1>a DEF Begin, Owns
<1>4. ASSUME NEW r \in Request, Record(r) PROVE StrayOut'
  BY <1>4, <1>a DEF Record, ShowsMore, Try, Owns
<1>5. ASSUME NEW r \in Request, Final(r) PROVE StrayOut'
  BY <1>5, <1>a DEF Final, ShowsMore, Try, Owns
<1>6. ASSUME NEW r \in Request, FinalFails(r) PROVE StrayOut'
  BY <1>6, <1>a DEF FinalFails, Try, Owns
<1>7. ASSUME NEW r \in Request, Reject(r) PROVE StrayOut'
  BY <1>7, <1>a DEF Reject, Raises, Ends, Try, Owns
<1>8. ASSUME NEW r \in Request, AdmissionChanges(r) PROVE StrayOut'
  BY <1>8, <1>a DEF AdmissionChanges, Raises, Ends, Outcome, Owns
<1>9. ASSUME NEW r \in Request, Exhausted(r) PROVE StrayOut'
  BY <1>9, <1>a DEF Exhausted, Raises, Ends, Outcome, RestFor, Owns
<1>10. ASSUME NEW r \in Request, Uncertain(r) PROVE StrayOut'
  BY <1>10, <1>a DEF Uncertain, Raises, Ends, Outcome, Quarantine, Try, Owns
<1>11. ASSUME NEW r \in Request, Blameless(r) PROVE StrayOut'
  BY <1>11, <1>a DEF Blameless, Raises, Ends, Outcome, Owns
<1>12. ASSUME NEW r \in Request, FailBlamed(r) PROVE StrayOut'
  BY <1>12, <1>a DEF FailBlamed, Blamed, Raises, Outcome, Try, Owns
<1>13. ASSUME NEW r \in Request, FailUnblamed(r) PROVE StrayOut'
  BY <1>13, <1>a DEF FailUnblamed, Blamed, Raises, Ends, Try, Owns
<1>14. ASSUME NEW r \in Request, Rest(r) PROVE StrayOut'
  BY <1>14, <1>a DEF Rest, RestFor, Owns
<1>15. ASSUME NEW r \in Request, Interrupt(r) PROVE StrayOut'
  BY <1>15, <1>a DEF Interrupt, Ends, Try, Owns
<1>16. ASSUME NEW r \in Request, LoseWhileFailing(r) PROVE StrayOut'
  BY <1>16, <1>a DEF LoseWhileFailing, Ends, Owns
<1>17. ASSUME NEW r \in Request, WalkAway(r) PROVE StrayOut'
  BY <1>17, <1>a DEF WalkAway, Ends, Owns
<1>18. ASSUME NEW r \in Request, Close(r) PROVE StrayOut'
  BY <1>18, <1>a DEF Close, Stops, Settle, Quarantine, Try, Owns
<1>19. ASSUME NEW r \in Request, Release(r) PROVE StrayOut'
  BY <1>19, <1>a DEF Release, Forget, Owns
<1>20. ASSUME NEW r \in Request, Check(r) PROVE StrayOut'
  BY <1>20, <1>a DEF Check, Owns
<1>21. ASSUME NEW r \in Request, Cancel(r) PROVE StrayOut'
  BY <1>21, <1>a DEF Cancel, Owns
<1>22. ASSUME NEW r \in Request, Crash(r) PROVE StrayOut'
  BY <1>22, <1>a DEF Crash, Forget, Owns
<1>23. ASSUME NEW a \in Account, Remove(a) PROVE StrayOut'
  BY <1>23, <1>a DEF Remove, Owns
<1>24. ASSUME NEW a \in Account, Report(a) PROVE StrayOut'
  BY <1>24, <1>a DEF Report, Owns
<1>25. ASSUME NEW a \in Account, NEW s \in {"active", "disabled", "error"}, SetStatus(a, s)
      PROVE  StrayOut'
  BY <1>25, <1>a DEF SetStatus, Owns
<1>26. ASSUME Tick PROVE StrayOut'
  BY <1>26, <1>a DEF Tick, Leased, Owns
<1>27. ASSUME UNCHANGED vars PROVE StrayOut'
  BY <1>27, <1>a DEF vars, Owns
<1> QED
  BY SubscriptionAssumption, <1>1, <1>2, <1>3, <1>4, <1>5, <1>6, <1>7,
     <1>8, <1>9, <1>10, <1>11, <1>12, <1>13, <1>14, <1>15, <1>16, <1>17,
     <1>18, <1>19, <1>20, <1>21, <1>22, <1>23, <1>24, <1>25, <1>26,
     <1>27 DEF Next

(* StrayIsQuarantined: chat_stream and the close of its adapter take the    *)
(* account out of service before the lease goes, and neither reports nor    *)
(* other requests put it back.                                              *)
THEOREM StraysAreQuarantined == Spec => []StrayIsQuarantined
<1> DEFINE AllInTime == \A r \in Timely : InTime(r)
<1>1. Init => AllInTime /\ StrayOut
  BY SubscriptionAssumption DEF Init, InTime, Holding, StrayOut
<1>2. Sound /\ AllInTime /\ StrayOut /\ [Next]_vars => AllInTime' /\ StrayOut'
  BY InTimeStep, StrayStep
<1>3. StrayOut => StrayIsQuarantined
  BY DEF StrayOut, StrayIsQuarantined
<1> QED
  BY <1>1, <1>2, <1>3, SoundAlways, PTL DEF Spec
-----------------------------------------------------------------------------
(* The mark of a person outlasts the rests of the person's failures, and a  *)
(* request about to rest an account is the only one of its person.          *)
Marked ==
    /\ \A a \in Account : rester[a] \in Request =>
          cool[a] > 0 /\ cool[a] <= mark[PersonOf[rester[a]]]
    /\ \A r \in Request : pc[r] = "resting" =>
          /\ mark[PersonOf[r]] = Cooldown
          /\ \A a \in Account : rester[a] \in Request => PersonOf[rester[a]] # PersonOf[r]
          /\ \A q \in Request : q # r /\ pc[q] = "resting" => PersonOf[q] # PersonOf[r]
    /\ OneRestPerPerson

LEMMA MarkedStep ==
    ASSUME Sound, Marked, [Next]_vars
    PROVE  Marked'
<1> USE SubscriptionAssumption DEF Sound, TypeOK, Marked, OneRestPerPerson, Holding, pool, attempt
<1>1. ASSUME NEW r \in Request, Claim(r) PROVE Marked'
  BY <1>1 DEF Claim, Claimable
<1>2. ASSUME NEW r \in Request, GiveUp(r) PROVE Marked'
  BY <1>2 DEF GiveUp, Forget
<1>3. ASSUME NEW r \in Request, Begin(r) PROVE Marked'
  BY <1>3 DEF Begin
<1>4. ASSUME NEW r \in Request, Record(r) PROVE Marked'
  BY <1>4 DEF Record, ShowsMore, Try
<1>5. ASSUME NEW r \in Request, Final(r) PROVE Marked'
  BY <1>5 DEF Final, ShowsMore, Try
<1>6. ASSUME NEW r \in Request, FinalFails(r) PROVE Marked'
  BY <1>6 DEF FinalFails, Try
<1>7. ASSUME NEW r \in Request, Reject(r) PROVE Marked'
  BY <1>7 DEF Reject, Raises, Ends, Try
<1>8. ASSUME NEW r \in Request, AdmissionChanges(r) PROVE Marked'
  BY <1>8 DEF AdmissionChanges, Raises, Ends, Outcome
<1>9. ASSUME NEW r \in Request, Exhausted(r) PROVE Marked'
  BY <1>9 DEF Exhausted, Raises, Ends, Outcome, RestFor
<1>10. ASSUME NEW r \in Request, Uncertain(r) PROVE Marked'
  BY <1>10 DEF Uncertain, Raises, Ends, Outcome, Quarantine, Try
<1>11. ASSUME NEW r \in Request, Blameless(r) PROVE Marked'
  BY <1>11 DEF Blameless, Raises, Ends, Outcome
<1>12. ASSUME NEW r \in Request, FailBlamed(r) PROVE Marked'
  BY <1>12 DEF FailBlamed, Blamed, Raises, Outcome, Try, MayRest
<1>13. ASSUME NEW r \in Request, FailUnblamed(r) PROVE Marked'
  BY <1>13 DEF FailUnblamed, Blamed, Raises, Ends, Try
<1>14. ASSUME NEW r \in Request, Rest(r) PROVE Marked'
  <2>1. CASE Mine(r)
    <3>1. /\ cool' = [cool EXCEPT ![cur[r]] = Cooldown] /\ rester' = [rester EXCEPT ![cur[r]] = r]
          /\ mark' = mark /\ pc' = [pc EXCEPT ![r] = "close"] /\ pc[r] = "resting"
      BY <1>14, <2>1 DEF Rest, RestFor
    <3>2. cur[r] \in Account /\ mark[PersonOf[r]] = Cooldown
      BY <3>1
    <3>3. \A a \in Account : a # cur[r] => rester'[a] = rester[a] /\ cool'[a] = cool[a]
      BY <3>1
    <3>4. rester'[cur[r]] = r /\ cool'[cur[r]] = Cooldown
      BY <3>1, <3>2
    <3>5. \A q \in Request : pc'[q] = "resting" => pc[q] = "resting" /\ q # r
      BY <3>1
    <3>6. \A a \in Account : rester[a] \in Request => PersonOf[rester[a]] # PersonOf[r]
      BY <3>1
    <3>7. (\A a \in Account : rester[a] \in Request =>
              cool[a] > 0 /\ cool[a] <= mark[PersonOf[rester[a]]])'
      BY <3>1, <3>2, <3>3, <3>4
    <3>8. (\A p \in Request : pc[p] = "resting" =>
              /\ mark[PersonOf[p]] = Cooldown
              /\ \A a \in Account : rester[a] \in Request => PersonOf[rester[a]] # PersonOf[p]
              /\ \A q \in Request : q # p /\ pc[q] = "resting" => PersonOf[q] # PersonOf[p])'
      BY <3>1, <3>3, <3>4, <3>5
    <3>9. ASSUME NEW a \in Account, NEW b \in Account, a # b,
                 rester'[a] \in Request, rester'[b] \in Request
          PROVE  PersonOf[rester'[a]] # PersonOf[rester'[b]]
      <4>1. CASE a = cur[r]
        BY <3>3, <3>4, <3>6, <3>9, <4>1
      <4>2. CASE b = cur[r]
        BY <3>3, <3>4, <3>6, <3>9, <4>2
      <4>3. CASE a # cur[r] /\ b # cur[r]
        BY <3>3, <3>9, <4>3
      <4> QED
        BY <4>1, <4>2, <4>3
    <3> QED
      BY <3>7, <3>8, <3>9
  <2>2. CASE UNCHANGED <<cool, rester>>
    BY <1>14, <2>2 DEF Rest
  <2> QED
    BY <1>14, <2>1, <2>2 DEF Rest
<1>15. ASSUME NEW r \in Request, Interrupt(r) PROVE Marked'
  BY <1>15 DEF Interrupt, Ends, Try
<1>16. ASSUME NEW r \in Request, LoseWhileFailing(r) PROVE Marked'
  BY <1>16 DEF LoseWhileFailing, Ends
<1>17. ASSUME NEW r \in Request, WalkAway(r) PROVE Marked'
  BY <1>17 DEF WalkAway, Ends
<1>18. ASSUME NEW r \in Request, Close(r) PROVE Marked'
  BY <1>18 DEF Close, Stops, Settle, Quarantine, Try
<1>19. ASSUME NEW r \in Request, Release(r) PROVE Marked'
  BY <1>19 DEF Release, Forget
<1>20. ASSUME NEW r \in Request, Check(r) PROVE Marked'
  BY <1>20 DEF Check
<1>21. ASSUME NEW r \in Request, Cancel(r) PROVE Marked'
  BY <1>21 DEF Cancel
<1>22. ASSUME NEW r \in Request, Crash(r) PROVE Marked'
  BY <1>22 DEF Crash, Forget
<1>23. ASSUME NEW a \in Account, Remove(a) PROVE Marked'
  BY <1>23 DEF Remove
<1>24. ASSUME NEW a \in Account, Report(a) PROVE Marked'
  BY <1>24 DEF Report
<1>25. ASSUME NEW a \in Account, NEW s \in {"active", "disabled", "error"}, SetStatus(a, s)
      PROVE  Marked'
  BY <1>25 DEF SetStatus
<1>26. ASSUME Tick PROVE Marked'
  BY <1>26 DEF Tick, Leased
<1>27. ASSUME UNCHANGED vars PROVE Marked'
  BY <1>27 DEF vars
<1> QED
  BY SubscriptionAssumption, <1>1, <1>2, <1>3, <1>4, <1>5, <1>6, <1>7,
     <1>8, <1>9, <1>10, <1>11, <1>12, <1>13, <1>14, <1>15, <1>16, <1>17,
     <1>18, <1>19, <1>20, <1>21, <1>22, <1>23, <1>24, <1>25, <1>26,
     <1>27 DEF Next

(* OneRestPerPerson: the mark that _may_rest_for leaves for every process   *)
(* lasts as long as the rest it allows.                                     *)
THEOREM RestsAreRationed == Spec => []OneRestPerPerson
<1>1. Init => Marked
  BY SubscriptionAssumption DEF Init, Marked, OneRestPerPerson
<1>2. Sound /\ Marked /\ [Next]_vars => Marked'
  BY MarkedStep
<1>3. Marked => OneRestPerPerson
  BY DEF Marked
<1> QED
  BY <1>1, <1>2, <1>3, SoundAlways, PTL DEF Spec
=============================================================================
