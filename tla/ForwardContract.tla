-------------------------- MODULE ForwardContract --------------------------
(***************************************************************************)
(* forward() implements Gateway.  Admission needs the conservation of the  *)
(* platform permits; the bound on the calls needs an invariant that ties   *)
(* the retry counter to the budget read on entry.                          *)
(***************************************************************************)
EXTENDS ForwardSafety

\* Inside the loop the retries made are within the budget; outside it there are none.
RetriesOf(r) ==
  IF pc[r] \in {"selecting", "diagnosing"} \cup Attempt
  THEN retries[r] <= budget[r]
  ELSE retries[r] = 0 /\ budget[r] = 0

RetriesOK == \A r \in Requests : RetriesOf(r)

Phase == [r \in Requests |-> IF pc[r] \in Admitted THEN "admitted" ELSE pc[r]]
Calls == [r \in Requests |->
            retries[r] + IF pc[r] \in {"calling", "settled", "handled"} THEN 1 ELSE 0]

LEMMA MoverRetries ==
  ASSUME TypeOK, NEW r \in Requests, RetriesOf(r), Step(r) \/ Drop(r)
  PROVE  RetriesOf(r)'
<1> USE DEF RetriesOf, Attempt, TypeOK
<1>1. ASSUME NEW how \in Ended, Leave(r, how) PROVE RetriesOf(r)'
  BY <1>1 DEF Leave, Ended
<1>2. CASE Drop(r) \/ Reply(r) \/ GiveUp(r) \/ Refuse(r)
  BY <1>1, <1>2 DEF Drop, Reply, GiveUp, Refuse, Ended
<1>3. CASE AcquirePlatform(r) \/ ReadSettings(r) \/ Select(r) \/ NoneSelectable(r)
  BY <1>3 DEF AcquirePlatform, ReadSettings, Select, NoneSelectable, locals
<1>4. CASE Occupy(r) \/ AcquireAccount(r) \/ CallUnguarded(r)
  BY <1>4 DEF Occupy, AcquireAccount, CallUnguarded, locals
<1>5. CASE Respond(r) \/ FailToSend(r) \/ Retry(r)
  BY <1>5 DEF Respond, FailToSend, Retry
<1>6. CASE \/ HandleSuccess(r) \/ HandleRevoked(r) \/ HandleRateLimited(r)
           \/ HandleOther(r) \/ HandleTransport(r)
  BY <1>6 DEF HandleSuccess, HandleRevoked, HandleRateLimited, HandleOther,
     HandleTransport, locals
<1> QED BY <1>2, <1>3, <1>4, <1>5, <1>6 DEF Step

\* A step of request r leaves the retries of the others alone.
LEMMA RetriesMoveOne ==
  ASSUME TypeOK, NEW r \in Requests, Step(r) \/ Drop(r), NEW q \in Requests, q # r
  PROVE  retries'[q] = retries[q] /\ budget'[q] = budget[q]
<1> USE DEF TypeOK, locals
<1>1. ASSUME NEW how, Leave(r, how)
      PROVE  retries'[q] = retries[q] /\ budget'[q] = budget[q]
  BY <1>1 DEF Leave
<1>2. CASE Drop(r) \/ Reply(r) \/ GiveUp(r) \/ Refuse(r)
  BY <1>1, <1>2 DEF Drop, Reply, GiveUp, Refuse
<1>3. CASE AcquirePlatform(r) \/ ReadSettings(r) \/ Select(r) \/ NoneSelectable(r)
  BY <1>3 DEF AcquirePlatform, ReadSettings, Select, NoneSelectable
<1>4. CASE Occupy(r) \/ AcquireAccount(r) \/ CallUnguarded(r)
  BY <1>4 DEF Occupy, AcquireAccount, CallUnguarded
<1>5. CASE Respond(r) \/ FailToSend(r) \/ Retry(r)
  BY <1>5 DEF Respond, FailToSend, Retry
<1>6. CASE \/ HandleSuccess(r) \/ HandleRevoked(r) \/ HandleRateLimited(r)
           \/ HandleOther(r) \/ HandleTransport(r)
  BY <1>6 DEF HandleSuccess, HandleRevoked, HandleRateLimited, HandleOther, HandleTransport
<1> QED BY <1>2, <1>3, <1>4, <1>5, <1>6 DEF Step

LEMMA EnvironmentKeepsRequests ==
  ASSUME Environment \/ UNCHANGED vars
  PROVE  UNCHANGED <<pc, retries, budget>>
BY DEF vars, Environment, SetStatus, ResetQuota, Rebind, RemoveAccount,
   UploadAccount, ReloadProxy, ChangeSettings, BackoffExpires, engine, locals

LEMMA NextRetries ==
  ASSUME TypeOK, RetriesOK, [Next]_vars
  PROVE  RetriesOK'
<1> SUFFICES ASSUME NEW q \in Requests PROVE RetriesOf(q)'
  BY DEF RetriesOK, RetriesOf
<1>1. ASSUME NEW r \in Requests, Step(r) \/ Drop(r) PROVE RetriesOf(q)'
  <2>1. CASE q = r
    BY <1>1, <2>1, MoverRetries DEF RetriesOK
  <2>2. CASE q # r
    <3>1. pc'[q] = pc[q] /\ retries'[q] = retries[q] /\ budget'[q] = budget[q]
      BY <1>1, <2>2, StepMovesOne, RetriesMoveOne DEF OnlyMoves
    <3> QED BY <3>1 DEF RetriesOK, RetriesOf
  <2> QED BY <2>1, <2>2
<1>2. CASE Environment \/ UNCHANGED vars
  BY <1>2, EnvironmentKeepsRequests DEF RetriesOK, RetriesOf
<1> QED BY <1>1, <1>2 DEF Next, AllEnded

THEOREM RetriesBounded == Spec => []RetriesOK
<1>1. Init => RetriesOK
  BY DEF Init, RetriesOK, RetriesOf, Attempt
<1>2. TypeOK /\ RetriesOK /\ [Next]_vars => RetriesOK'
  BY NextRetries
<1> QED BY <1>1, <1>2, TypeCorrect, PTL DEF Spec

-----------------------------------------------------------------------------
(* Every step maps to a step of Gateway or to a stutter.                    *)

\* What is seen of a request that does not move.
LEMMA SeenOfOthers ==
  ASSUME TypeOK, NEW r \in Requests, Step(r) \/ Drop(r)
  PROVE  /\ Phase' = [Phase EXCEPT ![r] = Phase'[r]]
         /\ Calls' = [Calls EXCEPT ![r] = Calls'[r]]
         /\ budget' = [budget EXCEPT ![r] = budget'[r]]
<1>1. \A q \in Requests \ {r} :
        pc'[q] = pc[q] /\ retries'[q] = retries[q] /\ budget'[q] = budget[q]
  BY StepMovesOne, RetriesMoveOne DEF OnlyMoves
<1>2. budget \in [Requests -> Nat] /\ budget' \in [Requests -> Nat]
  BY EngineType, DropType DEF TypeOK
<1> QED BY <1>1, <1>2 DEF Phase, Calls

LEMMA AdmitRefines ==
  ASSUME TypeOK, PlatformPermits, NEW r \in Requests, AcquirePlatform(r)
  PROVE  Contract!Admit(r)
<1>1. /\ pc[r] = "queued" /\ pc'[r] = "settings" /\ pc' = [pc EXCEPT ![r] = "settings"]
      /\ platFree[plat(r)] > 0 /\ UNCHANGED <<retries, budget>>
  BY DEF AcquirePlatform, TypeOK, locals
<1>2. /\ Phase[r] = "queued" /\ Phase' = [Phase EXCEPT ![r] = "admitted"]
      /\ UNCHANGED <<Calls, budget>>
  BY <1>1 DEF Phase, Calls, Admitted, Attempt, TypeOK
<1>3. {q \in Requests : Phase[q] = "admitted" /\ ReqPlatform[q] = ReqPlatform[r]}
        = Admissions(plat(r))
  BY DEF Phase, Admissions, plat, Admitted, Attempt, TypeOK, PC, Ended
<1>4. /\ plat(r) = ReqPlatform[r] /\ plat(r) \in Platforms
      /\ MaxConcurrency[plat(r)] \in Nat /\ platFree[plat(r)] \in Nat
      /\ Cardinality(Admissions(plat(r))) \in Nat
  BY ForwardAssumption, RequestSetsFinite DEF TypeOK, plat, Admissions
<1>5. Cardinality(Admissions(plat(r))) < MaxConcurrency[ReqPlatform[r]]
  BY <1>1, <1>4 DEF PlatformPermits
<1>6. Contract!Cardinality(Admissions(plat(r))) = Cardinality(Admissions(plat(r)))
  BY DEF Contract!Cardinality, Cardinality
<1> QED BY <1>2, <1>3, <1>5, <1>6 DEF Contract!Admit, Contract!Inside, Phase, Calls

LEMMA StepRefines ==
  ASSUME TypeOK, PlatformPermits, RetriesOK, NEW r \in Requests, Step(r) \/ Drop(r)
  PROVE  Contract!Progress \/ UNCHANGED <<Phase, Calls, budget>>
<1> USE DEF TypeOK
<1>0. /\ RetriesOf(r) /\ retries[r] \in Nat /\ budget[r] \in Nat
      /\ Phase[r] = IF pc[r] \in Admitted THEN "admitted" ELSE pc[r]
      /\ Phase'[r] = IF pc'[r] \in Admitted THEN "admitted" ELSE pc'[r]
      /\ Calls[r] = retries[r] + IF pc[r] \in {"calling", "settled", "handled"} THEN 1 ELSE 0
      /\ Calls'[r] =
           retries'[r] + IF pc'[r] \in {"calling", "settled", "handled"} THEN 1 ELSE 0
      /\ Phase' = [Phase EXCEPT ![r] = Phase'[r]]
      /\ Calls' = [Calls EXCEPT ![r] = Calls'[r]]
      /\ budget' = [budget EXCEPT ![r] = budget'[r]]
      /\ Phase = [Phase EXCEPT ![r] = Phase[r]] /\ Calls = [Calls EXCEPT ![r] = Calls[r]]
  BY SeenOfOthers DEF RetriesOK, Phase, Calls
<1>1. ASSUME UNCHANGED <<retries, budget>>, pc[r] \in Admitted, pc'[r] \in Admitted,
             pc[r] \in {"calling", "settled", "handled"}
               <=> pc'[r] \in {"calling", "settled", "handled"}
      PROVE  UNCHANGED <<Phase, Calls, budget>>
  BY <1>0, <1>1
<1>2. ASSUME NEW how \in Ended, Leave(r, how)
      PROVE  /\ Phase' = [Phase EXCEPT ![r] = how]
             /\ Calls' = [Calls EXCEPT ![r] = 0]
             /\ budget' = [budget EXCEPT ![r] = 0]
  <2>1. pc'[r] = how /\ retries'[r] = 0 /\ budget'[r] = 0
    BY <1>2 DEF Leave
  <2>2. how \notin Admitted /\ how \notin {"calling", "settled", "handled"}
    BY DEF Ended, Admitted, Attempt
  <2> QED BY <1>0, <2>1, <2>2
<1>3. CASE AcquirePlatform(r)
  BY <1>3, AdmitRefines DEF Contract!Progress
<1>4. CASE ReadSettings(r)
  <2>1. /\ pc[r] = "settings" /\ pc'[r] = "selecting" /\ UNCHANGED retries
        /\ budget'[r] \in Nat
    BY <1>4 DEF ReadSettings
  <2>2. Phase[r] = "admitted" /\ Calls[r] = 0 /\ budget[r] = 0 /\ UNCHANGED <<Phase, Calls>>
    BY <1>0, <2>1 DEF RetriesOf, Admitted, Attempt
  <2>3. Contract!ReadLimit(r)
    BY <1>0, <2>1, <2>2 DEF Contract!ReadLimit, Phase, Calls
  <2> QED BY <2>3 DEF Contract!Progress
<1>5. CASE AcquireAccount(r) \/ CallUnguarded(r)
  <2>1. pc[r] = "waiting" /\ pc'[r] = "calling" /\ UNCHANGED <<retries, budget>>
    BY <1>5 DEF AcquireAccount, CallUnguarded, locals
  <2>2. /\ Phase[r] = "admitted" /\ UNCHANGED <<Phase, budget>> /\ Calls[r] <= budget[r]
        /\ Calls' = [Calls EXCEPT ![r] = Calls[r] + 1]
    BY <1>0, <2>1 DEF RetriesOf, Admitted, Attempt
  <2>3. Contract!Call(r)
    BY <2>2 DEF Contract!Call, Phase, Calls
  <2> QED BY <2>3 DEF Contract!Progress
<1>6. CASE Reply(r)
  <2>1. Phase[r] = "admitted" /\ Calls[r] > 0
    BY <1>0, <1>6 DEF Reply, Admitted, Attempt
  <2>2. Contract!Answer(r)
    BY <1>2, <1>6, <2>1 DEF Reply, Ended, Contract!Answer, Contract!End, Phase, Calls
  <2> QED BY <2>2 DEF Contract!Progress
<1>7. CASE GiveUp(r) \/ Refuse(r)
  <2>1. Phase[r] = "admitted" /\ Leave(r, "refused")
    BY <1>0, <1>7 DEF GiveUp, Refuse, Admitted, Attempt
  <2>2. Contract!TurnDown(r)
    BY <1>2, <2>1 DEF Ended, Contract!TurnDown, Contract!End, Phase, Calls
  <2> QED BY <2>2 DEF Contract!Progress
<1>8. CASE Drop(r)
  <2>1. Phase[r] \in {"queued", "admitted"} /\ Leave(r, "dropped")
    BY <1>0, <1>8 DEF Drop, Suspended, Admitted, Attempt
  <2>2. Contract!HangUp(r)
    BY <1>2, <2>1 DEF Ended, Contract!HangUp, Contract!End, Phase, Calls
  <2> QED BY <2>2 DEF Contract!Progress
<1>9. CASE Retry(r)
  <2>1. /\ pc[r] = "handled" /\ pc'[r] = "selecting" /\ UNCHANGED budget
        /\ retries'[r] = retries[r] + 1
    BY <1>9 DEF Retry
  <2>2. UNCHANGED <<Phase, Calls>>
    BY <1>0, <2>1 DEF Admitted, Attempt
  <2> QED BY <2>1, <2>2
<1>10. CASE Select(r) \/ NoneSelectable(r) \/ Occupy(r)
  BY <1>1, <1>10 DEF Select, NoneSelectable, Occupy, Admitted, Attempt, locals
<1>11. CASE Respond(r) \/ FailToSend(r)
  BY <1>1, <1>11 DEF Respond, FailToSend, Admitted, Attempt
<1>12. CASE \/ HandleSuccess(r) \/ HandleRevoked(r) \/ HandleRateLimited(r)
            \/ HandleOther(r) \/ HandleTransport(r)
  BY <1>1, <1>12 DEF HandleSuccess, HandleRevoked, HandleRateLimited, HandleOther,
     HandleTransport, Admitted, Attempt, locals
<1> QED
  BY <1>3, <1>4, <1>5, <1>6, <1>7, <1>8, <1>9, <1>10, <1>11, <1>12 DEF Step

\* forward() keeps the promise of Gateway, for any number of requests, platforms and
\* accounts: admission within max_concurrency, max_retries + 1 calls at most, one end.
THEOREM KeepsPromise == Spec => ForwardKeepsPromise
<1>1. Init => Contract!Start
  BY DEF Init, Contract!Start, Admitted, Attempt
<1>2. TypeOK /\ PlatformPermits /\ RetriesOK /\ [Next]_vars
        => [Contract!Progress]_(Contract!promised)
  <2> SUFFICES ASSUME TypeOK, PlatformPermits, RetriesOK, [Next]_vars
               PROVE  Contract!Progress \/ UNCHANGED <<Phase, Calls, budget>>
    BY DEF Contract!promised, Phase, Calls
  <2>1. ASSUME NEW r \in Requests, Step(r) \/ Drop(r)
        PROVE  Contract!Progress \/ UNCHANGED <<Phase, Calls, budget>>
    BY <2>1, StepRefines
  <2>2. CASE Environment \/ UNCHANGED vars
    BY <2>2, EnvironmentKeepsRequests DEF Phase, Calls
  <2> QED BY <2>1, <2>2 DEF Next, AllEnded
<1> QED
  BY <1>1, <1>2, TypeCorrect, PlatformPermitsConserved, RetriesBounded, PTL
  DEF Spec, ForwardKeepsPromise, Contract!Promise

-----------------------------------------------------------------------------
(* A request that moves comes closer to its end.                            *)

\* Every step moves the request one place on, and only Retry moves it back, for the price
\* of one retry.
LEMMA MoverCloser ==
  ASSUME TypeOK, NEW r \in Requests, RetriesOf(r), Step(r) \/ Drop(r)
  PROVE  Closer(r)
<1> USE DEF TypeOK
<1>0. retries[r] \in Nat /\ budget[r] \in Nat
  OBVIOUS
<1>1. ASSUME Stage(pc'[r]) < Stage(pc[r]) PROVE Closer(r)
  BY <1>1 DEF Closer
<1>2. ASSUME UNCHANGED <<retries, budget>>, Stage(pc'[r]) = Stage(pc[r]),
             Ahead(pc'[r]) < Ahead(pc[r])
      PROVE  Closer(r)
  BY <1>2 DEF Closer, Spare
<1>3. ASSUME NEW how \in Ended, Leave(r, how), pc[r] \in {"queued"} \cup Admitted
      PROVE  Closer(r)
  <2>1. pc'[r] = how
    BY <1>3 DEF Leave
  <2>2. Stage(how) = 0 /\ Stage(pc[r]) \in {1, 2, 3}
    BY <1>3 DEF Stage, Ended, Admitted, Attempt
  <2> QED BY <1>1, <2>1, <2>2
<1>4. CASE Drop(r) \/ Reply(r) \/ GiveUp(r) \/ Refuse(r)
  BY <1>3, <1>4 DEF Drop, Suspended, Reply, GiveUp, Refuse, Ended, Admitted, Attempt
<1>5. CASE AcquirePlatform(r) \/ ReadSettings(r)
  <2>1. \/ pc[r] = "queued" /\ pc'[r] = "settings"
        \/ pc[r] = "settings" /\ pc'[r] = "selecting"
    BY <1>5 DEF AcquirePlatform, ReadSettings
  <2> QED BY <1>1, <2>1 DEF Stage, Ended
<1>6. CASE Select(r) \/ NoneSelectable(r) \/ Occupy(r)
  <2>1. /\ \/ pc[r] = "selecting" /\ pc'[r] \in {"chosen", "diagnosing"}
           \/ pc[r] = "chosen" /\ pc'[r] = "waiting"
        /\ UNCHANGED <<retries, budget>>
    BY <1>6 DEF Select, NoneSelectable, Occupy, locals
  <2> QED BY <1>2, <2>1 DEF Stage, Ahead, Ended
<1>7. CASE AcquireAccount(r) \/ CallUnguarded(r)
  <2>1. pc[r] = "waiting" /\ pc'[r] = "calling" /\ UNCHANGED <<retries, budget>>
    BY <1>7 DEF AcquireAccount, CallUnguarded, locals
  <2> QED BY <1>2, <2>1 DEF Stage, Ahead, Ended
<1>8. CASE Respond(r) \/ FailToSend(r)
  <2>1. pc[r] = "calling" /\ pc'[r] = "settled" /\ UNCHANGED <<retries, budget>>
    BY <1>8 DEF Respond, FailToSend
  <2> QED BY <1>2, <2>1 DEF Stage, Ahead, Ended
<1>9. CASE \/ HandleSuccess(r) \/ HandleRevoked(r) \/ HandleRateLimited(r)
           \/ HandleOther(r) \/ HandleTransport(r)
  <2>1. pc[r] = "settled" /\ pc'[r] = "handled" /\ UNCHANGED <<retries, budget>>
    BY <1>9 DEF HandleSuccess, HandleRevoked, HandleRateLimited, HandleOther,
       HandleTransport, locals
  <2> QED BY <1>2, <2>1 DEF Stage, Ahead, Ended
<1>10. CASE Retry(r)
  <2>1. /\ pc[r] = "handled" /\ pc'[r] = "selecting" /\ UNCHANGED budget
        /\ retries'[r] = retries[r] + 1 /\ retries[r] + 1 <= budget[r]
    BY <1>10 DEF Retry
  <2>2. Stage(pc'[r]) = Stage(pc[r])
    BY <2>1 DEF Stage, Ended
  <2>3. Spare(r)' \in 0 .. Spare(r) - 1
    BY <1>0, <2>1 DEF Spare
  <2> QED BY <2>2, <2>3 DEF Closer
<1> QED BY <1>4, <1>5, <1>6, <1>7, <1>8, <1>9, <1>10 DEF Step

\* No request can go on for ever, with the setting changing under it or not: every step
\* it takes lowers stage, spare retries and steps ahead in the lexicographic order.
THEOREM RequestsRunOut == Spec => StepsRunOut
<1>1. TypeOK /\ RetriesOK /\ [Next]_vars
        => [MoversComeCloser]_vars
  <2> SUFFICES ASSUME TypeOK, RetriesOK, Next, NEW q \in Requests, pc'[q] # pc[q]
               PROVE  Closer(q)
    BY DEF MoversComeCloser
  <2>1. PICK r \in Requests : Step(r) \/ Drop(r)
    BY EnvironmentKeepsRequests DEF Next, AllEnded
  <2>2. q = r
    BY <2>1, StepMovesOne DEF OnlyMoves
  <2> QED BY <2>1, <2>2, MoverCloser DEF RetriesOK
<1> QED BY <1>1, TypeCorrect, RetriesBounded, PTL DEF Spec, StepsRunOut
=============================================================================
