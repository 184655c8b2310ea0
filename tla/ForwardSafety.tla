--------------------------- MODULE ForwardSafety ---------------------------
(***************************************************************************)
(* What the counters of the forwarding engine mean: the in-use counts, the *)
(* semaphores and the quota.  Each count is compared with the set of       *)
(* requests it stands for.  A step of one request moves only that request  *)
(* in or out of those sets, so it is enough to show that the counter moves *)
(* by the same amount.                                                     *)
(***************************************************************************)
EXTENDS ForwardProofs

\* Where the locals of forward() and the position in the code belong together.
LocalsOK ==
  \A r \in Requests :
    /\ pc[r] \in Attempt =>
         /\ acct(r) \in Accounts
         /\ AcctPlatform[acct(r)] = plat(r)
         /\ slots[acct(r)].phase # "future"
    /\ guard[r] = "held" => pc[r] \in {"calling", "settled", "handled"}
    /\ guard[r] = "wanted" => pc[r] = "waiting"
    /\ pc[r] \in Occupying /\ guard[r] = "none" => slots[acct(r)].phase = "removed"

\* A step of request r leaves the other requests where they are.
OnlyMoves(r) ==
  \A q \in Requests \ {r} :
    pc'[q] = pc[q] /\ chosen'[q] = chosen[q] /\ guard'[q] = guard[q]

\* A slot's phase only moves forward: an id is uploaded once and deleted for good.
PhasesAdvance ==
  \A a \in Accounts :
    /\ slots[a].phase # "future" => slots'[a].phase # "future"
    /\ slots[a].phase = "removed" => slots'[a].phase = "removed"

-----------------------------------------------------------------------------
LEMMA RequestSetsFinite ==
  ASSUME NEW S \in SUBSET Requests
  PROVE  IsFiniteSet(S) /\ Cardinality(S) \in Nat
BY ForwardAssumption, FS_Subset, FS_CardinalityType

LEMMA StepMovesOne ==
  ASSUME TypeOK, NEW r \in Requests, Step(r) \/ Drop(r)
  PROVE  OnlyMoves(r)
<1> USE DEF OnlyMoves, TypeOK, locals
<1>1. ASSUME NEW how, Leave(r, how) PROVE OnlyMoves(r)
  BY <1>1 DEF Leave
<1>2. CASE Drop(r)
  BY <1>1, <1>2 DEF Drop
<1>3. CASE Reply(r) \/ GiveUp(r) \/ Refuse(r)
  BY <1>1, <1>3 DEF Reply, GiveUp, Refuse
<1>4. CASE AcquirePlatform(r) \/ ReadSettings(r) \/ Select(r) \/ NoneSelectable(r)
  BY <1>4 DEF AcquirePlatform, ReadSettings, Select, NoneSelectable
<1>5. CASE Occupy(r) \/ AcquireAccount(r) \/ CallUnguarded(r)
  BY <1>5 DEF Occupy, AcquireAccount, CallUnguarded
<1>6. CASE Respond(r) \/ FailToSend(r)
  BY <1>6 DEF Respond, FailToSend
<1>7. CASE HandleSuccess(r) \/ HandleRevoked(r) \/ HandleRateLimited(r)
  BY <1>7 DEF HandleSuccess, HandleRevoked, HandleRateLimited
<1>8. CASE HandleOther(r) \/ HandleTransport(r) \/ Retry(r)
  BY <1>8 DEF HandleOther, HandleTransport, Retry
<1> QED BY <1>2, <1>3, <1>4, <1>5, <1>6, <1>7, <1>8 DEF Step

LEMMA PhaseStep ==
  ASSUME TypeOK, [Next]_vars
  PROVE  PhasesAdvance
<1> USE DEF PhasesAdvance, TypeOK
<1>1. CASE UNCHANGED slots
  BY <1>1
<1>2. ASSUME NEW r \in Requests, HandleSuccess(r) PROVE PhasesAdvance
  BY <1>2 DEF HandleSuccess, Credited, Slot
<1>3. ASSUME NEW r \in Requests, HandleRevoked(r) PROVE PhasesAdvance
  BY <1>3 DEF HandleRevoked, Slot
<1>4. ASSUME NEW r \in Requests, HandleTransport(r) PROVE PhasesAdvance
  BY <1>4 DEF HandleTransport, Slot
<1>5. ASSUME NEW r \in Requests, Step(r) \/ Drop(r) PROVE PhasesAdvance
  <2>1. CASE UNCHANGED slots
    BY <2>1
  <2>2. HandleSuccess(r) \/ HandleRevoked(r) \/ HandleTransport(r) \/ UNCHANGED slots
    BY <1>5 DEF Step, Drop, Leave, index, AcquirePlatform, ReadSettings, Select,
       NoneSelectable, Occupy, AcquireAccount, CallUnguarded, Respond, FailToSend,
       HandleRateLimited, HandleOther, Reply, Retry, GiveUp, Refuse
  <2> QED BY <2>1, <2>2, <1>2, <1>3, <1>4
<1>6. CASE Environment
  <2>1. ASSUME NEW a \in Accounts, NEW s, SetStatus(a, s) PROVE PhasesAdvance
    BY <2>1 DEF SetStatus, Slot
  <2>2. ASSUME NEW a \in Accounts, ResetQuota(a) PROVE PhasesAdvance
    BY <2>2 DEF ResetQuota, Slot
  <2>3. ASSUME NEW a \in Accounts, NEW p, Rebind(a, p) PROVE PhasesAdvance
    BY <2>3 DEF Rebind, Slot
  <2>4. ASSUME NEW a \in Accounts, RemoveAccount(a) PROVE PhasesAdvance
    BY <2>4 DEF RemoveAccount, Slot, Listed
  <2>5. ASSUME NEW a \in Accounts, UploadAccount(a) PROVE PhasesAdvance
    BY <2>5 DEF UploadAccount, Slot
  <2>6. ASSUME NEW p, NEW e, ReloadProxy(p, e) PROVE PhasesAdvance
    BY <2>6, <1>1 DEF ReloadProxy
  <2>7. ASSUME NEW n, ChangeSettings(n) PROVE PhasesAdvance
    BY <2>7, <1>1 DEF ChangeSettings, index
  <2>8. ASSUME NEW a, BackoffExpires(a) PROVE PhasesAdvance
    BY <2>8, <1>1 DEF BackoffExpires
  <2> QED BY <1>6, <2>1, <2>2, <2>3, <2>4, <2>5, <2>6, <2>7, <2>8 DEF Environment
<1>7. UNCHANGED vars => UNCHANGED slots
  BY DEF vars, index
<1> QED BY <1>1, <1>5, <1>6, <1>7 DEF Next, AllEnded

-----------------------------------------------------------------------------
(* The locals stay in step with the position in the code.                   *)

\* The part of LocalsOK that speaks of one request.
LocalsOf(r) ==
  /\ pc[r] \in Attempt =>
       /\ acct(r) \in Accounts
       /\ AcctPlatform[acct(r)] = plat(r)
       /\ slots[acct(r)].phase # "future"
  /\ guard[r] = "held" => pc[r] \in {"calling", "settled", "handled"}
  /\ guard[r] = "wanted" => pc[r] = "waiting"
  /\ pc[r] \in Occupying /\ guard[r] = "none" => slots[acct(r)].phase = "removed"

LEMMA LocalsSplit == LocalsOK <=> \A r \in Requests : LocalsOf(r)
BY DEF LocalsOK, LocalsOf

LEMMA InitLocals == Init => LocalsOK
BY DEF Init, LocalsOK, Attempt, Occupying

\* Nothing but the phases of the accounts can disturb a request that does not move.
LEMMA BystanderLocals ==
  ASSUME TypeOK, PhasesAdvance, NEW q \in Requests, LocalsOf(q),
         pc'[q] = pc[q], chosen'[q] = chosen[q], guard'[q] = guard[q]
  PROVE  LocalsOf(q)'
<1>1. acct(q)' = acct(q) /\ plat(q)' = plat(q)
  BY DEF acct, plat
<1>2. pc[q] \in Occupying => pc[q] \in Attempt
  BY DEF Occupying, Attempt
<1> QED BY <1>1, <1>2 DEF LocalsOf, PhasesAdvance

LEMMA MoverLocals ==
  ASSUME TypeOK, PhasesAdvance, NEW r \in Requests, LocalsOf(r), Step(r) \/ Drop(r)
  PROVE  LocalsOf(r)'
<1> USE DEF LocalsOf, Attempt, Occupying
<1>0. plat(r)' = plat(r)
  BY DEF plat
<1>1. ASSUME NEW how \in Ended, Leave(r, how) PROVE LocalsOf(r)'
  BY <1>1 DEF Leave, TypeOK, Ended
<1>2. CASE Drop(r) \/ Reply(r) \/ GiveUp(r) \/ Refuse(r)
  BY <1>1, <1>2 DEF Drop, Reply, GiveUp, Refuse, Ended
<1>3. ASSUME UNCHANGED <<chosen, guard>>, pc[r] \notin {"handled"}, pc[r] \in PC,
             pc'[r] \in {"settings", "selecting", "diagnosing"}, pc[r] \notin Attempt
      PROVE  LocalsOf(r)'
  BY <1>3 DEF TypeOK
<1>4. CASE AcquirePlatform(r) \/ ReadSettings(r) \/ NoneSelectable(r)
  BY <1>3, <1>4 DEF AcquirePlatform, ReadSettings, NoneSelectable, TypeOK, locals
<1>5. CASE Select(r)
  <2>1. PICK a \in LeastBusy(Round(plat(r))) :
          chosen' = [chosen EXCEPT ![r] =
             [acct |-> a, proxy |-> slots[a].bound, ip |-> BoundEntry(a).exit_ip]]
    BY <1>5 DEF Select
  <2>2. a \in Accounts /\ AcctPlatform[a] = plat(r) /\ slots[a].phase = "listed"
    BY <2>1 DEF LeastBusy, Round, IdleAccts, Usable, Candidates, Listed
  <2>3. acct(r)' = a /\ UNCHANGED slots
    BY <1>5, <2>1 DEF Select, acct, index, TypeOK
  <2>4. pc'[r] = "chosen" /\ guard'[r] = guard[r] /\ pc[r] = "selecting"
    BY <1>5 DEF Select, TypeOK
  <2> QED BY <1>0, <2>2, <2>3, <2>4
<1>6. ASSUME UNCHANGED chosen, pc[r] \in Attempt PROVE acct(r)' = acct(r)
  BY <1>6 DEF acct
<1>7. CASE Occupy(r)
  <2>1. /\ pc[r] = "chosen" /\ pc'[r] = "waiting" /\ UNCHANGED <<chosen, slots>>
        /\ guard'[r] = IF Listed(acct(r)) THEN "wanted" ELSE "none"
    BY <1>7 DEF Occupy, TypeOK, index
  <2>2. slots[acct(r)].phase \in {"listed", "removed"}
    BY <2>1 DEF TypeOK, Slot
  <2> QED BY <1>0, <1>6, <2>1, <2>2 DEF Listed
<1>8. CASE AcquireAccount(r)
  <2>1. /\ pc[r] = "waiting" /\ pc'[r] = "calling" /\ UNCHANGED <<chosen, slots>>
        /\ guard'[r] = "held"
    BY <1>8 DEF AcquireAccount, TypeOK, index
  <2> QED BY <1>0, <1>6, <2>1
<1>9. CASE CallUnguarded(r)
  <2>1. /\ pc[r] = "waiting" /\ pc'[r] = "calling" /\ guard[r] = "none"
        /\ UNCHANGED <<chosen, slots, guard>>
    BY <1>9 DEF CallUnguarded, TypeOK, index, locals
  <2> QED BY <1>0, <1>6, <2>1
<1>10. CASE Respond(r) \/ FailToSend(r)
  <2>1. /\ pc[r] = "calling" /\ pc'[r] = "settled" /\ UNCHANGED <<chosen, slots, guard>>
    BY <1>10 DEF Respond, FailToSend, TypeOK, index, locals
  <2> QED BY <1>0, <1>6, <2>1
<1>11. CASE \/ HandleSuccess(r) \/ HandleRevoked(r) \/ HandleRateLimited(r)
            \/ HandleOther(r) \/ HandleTransport(r)
  <2>1. /\ pc[r] = "settled" /\ pc'[r] = "handled" /\ UNCHANGED <<chosen, guard>>
    <3>1. /\ pc[r] = "settled" /\ pc' = [pc EXCEPT ![r] = "handled"]
          /\ UNCHANGED <<chosen, guard>>
      BY <1>11 DEF HandleSuccess, HandleRevoked, HandleRateLimited, HandleOther,
         HandleTransport, locals
    <3> QED BY <3>1 DEF TypeOK
  <2>2. acct(r) \in Accounts /\ slots[acct(r)].phase # "future"
    BY <2>1
  <2>3. slots'[acct(r)].phase # "future" /\ acct(r)' = acct(r)
    BY <1>6, <2>1, <2>2 DEF PhasesAdvance
  <2>4. AcctPlatform[acct(r)] = plat(r)
    BY <2>1
  <2> QED BY <1>0, <2>1, <2>2, <2>3, <2>4
<1>12. CASE Retry(r)
  <2>1. pc'[r] = "selecting" /\ guard'[r] = "none"
    BY <1>12 DEF Retry, TypeOK
  <2> QED BY <2>1
<1> QED
  BY <1>2, <1>4, <1>5, <1>7, <1>8, <1>9, <1>10, <1>11, <1>12 DEF Step

LEMMA NextLocals ==
  ASSUME TypeOK, LocalsOK, [Next]_vars
  PROVE  LocalsOK'
<1>1. PhasesAdvance
  BY PhaseStep
<1>2. ASSUME NEW r \in Requests, Step(r) \/ Drop(r) PROVE LocalsOK'
  <2> SUFFICES ASSUME NEW q \in Requests PROVE LocalsOf(q)'
    BY DEF LocalsOK, LocalsOf
  <2>1. LocalsOf(q)
    BY LocalsSplit
  <2>2. CASE q = r
    BY <1>1, <1>2, <2>1, <2>2, MoverLocals
  <2>3. CASE q # r
    <3>1. pc'[q] = pc[q] /\ chosen'[q] = chosen[q] /\ guard'[q] = guard[q]
      BY <1>2, <2>3, StepMovesOne DEF OnlyMoves
    <3> QED BY <1>1, <2>1, <3>1, BystanderLocals
  <2> QED BY <2>2, <2>3
<1>3. CASE Environment \/ UNCHANGED vars
  <2> SUFFICES ASSUME NEW q \in Requests PROVE LocalsOf(q)'
    BY DEF LocalsOK, LocalsOf
  <2>1. UNCHANGED <<pc, chosen, guard>>
    BY <1>3 DEF vars, Environment, SetStatus, ResetQuota, Rebind, RemoveAccount,
       UploadAccount, ReloadProxy, ChangeSettings, BackoffExpires, engine, locals
  <2>2. LocalsOf(q)
    BY LocalsSplit
  <2> QED BY <1>1, <2>1, <2>2, BystanderLocals
<1> QED BY <1>2, <1>3 DEF Next, AllEnded

\* While a request is in an attempt it holds an account of its own platform, its guard
\* matches its place in forward(), and it runs unguarded only on a deleted account.
THEOREM LocalsHold == Spec => []LocalsOK
<1>1. TypeOK /\ LocalsOK /\ [Next]_vars => LocalsOK'
  BY NextLocals
<1> QED BY InitLocals, <1>1, TypeCorrect, PTL DEF Spec

-----------------------------------------------------------------------------
(* The in-use counts of the exit IPs.                                       *)

\* What Vacated does to the count of each exit IP.
LEMMA VacatedCounts ==
  ASSUME TypeOK, NEW r \in Requests, NEW i \in Ips, ip(r) = i => busy[i] > 0
  PROVE  Vacated(r)[i] = busy[i] - One(ip(r) = i)
<1>1. busy \in [Ips -> Nat] /\ busy[i] \in Nat
  BY DEF TypeOK
<1>2. CASE ip(r) = i
  <2>1. i # NoIp
    BY ForwardAssumption
  <2>2. Vacated(r) = [busy EXCEPT ![i] = @ - 1]
    BY <1>2, <2>1 DEF Vacated
  <2> QED BY <1>1, <1>2, <2>2 DEF One
<1>3. CASE ip(r) # i
  <2>1. Vacated(r)[i] = busy[i]
    BY <1>1, <1>3 DEF Vacated
  <2> QED BY <1>1, <1>3, <2>1 DEF One
<1> QED BY <1>2, <1>3

\* An occupied exit IP is counted.
LEMMA OccupiedIsCounted ==
  ASSUME TypeOK, BusyAccounting, NEW r \in Requests, NEW i \in Ips, r \in OnIp(i)
  PROVE  busy[i] > 0
<1>1. IsFiniteSet(OnIp(i)) /\ Cardinality(OnIp(i)) \in Nat
  BY RequestSetsFinite DEF OnIp
<1>2. Cardinality(OnIp(i)) # 0
  BY <1>1, FS_EmptySet
<1>3. busy[i] = Cardinality(OnIp(i)) + abandoned[i] /\ abandoned[i] \in Nat
  BY DEF BusyAccounting, TypeOK
<1> QED BY <1>1, <1>2, <1>3

\* The count moves exactly when the request moves in or out, or is abandoned there.
LEMMA BusyMoves ==
  ASSUME TypeOK, BusyAccounting, NEW r \in Requests, Step(r) \/ Drop(r), NEW i \in Ips
  PROVE  busy'[i] - abandoned'[i] =
           busy[i] - abandoned[i] - One(r \in OnIp(i)) + One(r \in OnIp(i)')
<1>0. /\ busy \in [Ips -> Nat] /\ abandoned \in [Ips -> Nat]
      /\ busy[i] \in Nat /\ abandoned[i] \in Nat /\ i # NoIp
  BY ForwardAssumption DEF TypeOK
<1>1. /\ r \in OnIp(i) <=> pc[r] \in Occupying /\ ip(r) = i
      /\ r \in OnIp(i)' <=> pc'[r] \in Occupying /\ ip(r)' = i
  BY DEF OnIp, Occupying
<1>2. ASSUME UNCHANGED <<busy, abandoned>>, pc[r] \notin Occupying, pc'[r] \notin Occupying
      PROVE  busy'[i] - abandoned'[i] =
               busy[i] - abandoned[i] - One(r \in OnIp(i)) + One(r \in OnIp(i)')
  BY <1>0, <1>1, <1>2 DEF One
<1>3. ASSUME UNCHANGED <<busy, abandoned, chosen>>,
             pc[r] \in Occupying, pc'[r] \in Occupying
      PROVE  busy'[i] - abandoned'[i] =
               busy[i] - abandoned[i] - One(r \in OnIp(i)) + One(r \in OnIp(i)')
  <2>1. ip(r)' = ip(r)
    BY <1>3 DEF ip
  <2> QED BY <1>0, <1>1, <1>3, <2>1 DEF One
<1>4. ASSUME busy' = Vacated(r), UNCHANGED abandoned, pc[r] = "calling", pc'[r] = "settled"
      PROVE  busy'[i] - abandoned'[i] =
               busy[i] - abandoned[i] - One(r \in OnIp(i)) + One(r \in OnIp(i)')
  <2>1. pc[r] \in Occupying /\ pc'[r] \notin Occupying
    BY <1>4 DEF Occupying
  <2>2. busy'[i] = busy[i] - One(ip(r) = i)
    BY <1>1, <1>4, <2>1, VacatedCounts, OccupiedIsCounted
  <2> QED BY <1>0, <1>1, <1>4, <2>1, <2>2 DEF One
<1>5. CASE Occupy(r)
  <2>1. /\ pc[r] = "chosen" /\ pc'[r] = "waiting" /\ UNCHANGED <<chosen, abandoned>>
        /\ busy' = IF ip(r) = NoIp THEN busy ELSE [busy EXCEPT ![ip(r)] = @ + 1]
    BY <1>5 DEF Occupy, TypeOK
  <2>2. ip(r)' = ip(r) /\ pc[r] \notin Occupying /\ pc'[r] \in Occupying
    BY <2>1 DEF ip, Occupying
  <2>3. busy'[i] = busy[i] + One(ip(r) = i)
    BY <1>0, <2>1 DEF One
  <2> QED BY <1>0, <1>1, <2>1, <2>2, <2>3 DEF One
<1>6. CASE Drop(r)
  <2>1. /\ UNCHANGED busy /\ pc'[r] = "dropped"
        /\ abandoned' = IF pc[r] \in Occupying /\ ip(r) # NoIp
                          THEN [abandoned EXCEPT ![ip(r)] = @ + 1] ELSE abandoned
    BY <1>6 DEF Drop, Leave, TypeOK
  <2>2. pc'[r] \notin Occupying
    BY <2>1 DEF Occupying
  <2>3. abandoned'[i] = abandoned[i] + One(r \in OnIp(i))
    BY <1>0, <1>1, <2>1 DEF One
  <2> QED BY <1>0, <1>1, <2>1, <2>2, <2>3 DEF One
<1>7. CASE Respond(r) \/ FailToSend(r)
  BY <1>4, <1>7 DEF Respond, FailToSend, TypeOK
<1>8. CASE AcquireAccount(r) \/ CallUnguarded(r)
  BY <1>3, <1>8 DEF AcquireAccount, CallUnguarded, TypeOK, Occupying, locals
<1>9. CASE AcquirePlatform(r) \/ ReadSettings(r) \/ Select(r) \/ NoneSelectable(r)
  BY <1>2, <1>9 DEF AcquirePlatform, ReadSettings, Select, NoneSelectable, TypeOK, Occupying
<1>10. CASE \/ HandleSuccess(r) \/ HandleRevoked(r) \/ HandleRateLimited(r)
            \/ HandleOther(r) \/ HandleTransport(r) \/ Retry(r)
  BY <1>2, <1>10 DEF HandleSuccess, HandleRevoked, HandleRateLimited, HandleOther,
     HandleTransport, Retry, TypeOK, Occupying
<1>11. CASE Reply(r) \/ GiveUp(r) \/ Refuse(r)
  BY <1>2, <1>11 DEF Reply, GiveUp, Refuse, Leave, TypeOK, Occupying
<1> QED
  BY <1>5, <1>6, <1>7, <1>8, <1>9, <1>10, <1>11 DEF Step

LEMMA OnIpMoves ==
  ASSUME TypeOK, NEW r \in Requests, OnlyMoves(r), NEW i \in Ips
  PROVE  OnIp(i)' \ {r} = OnIp(i) \ {r}
BY DEF OnIp, OnlyMoves, ip

LEMMA NextBusy ==
  ASSUME TypeOK, BusyAccounting, [Next]_vars
  PROVE  BusyAccounting'
<1>1. ASSUME NEW r \in Requests, Step(r) \/ Drop(r), NEW i \in Ips
      PROVE  busy'[i] = Cardinality(OnIp(i)') + abandoned'[i]
  <2>1. OnIp(i)' \ {r} = OnIp(i) \ {r}
    BY <1>1, StepMovesOne, OnIpMoves
  <2>2. IsFiniteSet(OnIp(i))
    BY RequestSetsFinite DEF OnIp
  <2>3. /\ Cardinality(OnIp(i)) \in Nat /\ Cardinality(OnIp(i)') \in Nat
        /\ Cardinality(OnIp(i)') =
             Cardinality(OnIp(i)) - One(r \in OnIp(i)) + One(r \in OnIp(i)')
    BY <2>1, <2>2, CountMoves
  <2>4. busy'[i] - abandoned'[i] =
          busy[i] - abandoned[i] - One(r \in OnIp(i)) + One(r \in OnIp(i)')
    BY <1>1, BusyMoves
  <2>5. /\ busy[i] = Cardinality(OnIp(i)) + abandoned[i]
        /\ busy[i] \in Nat /\ abandoned[i] \in Nat
    BY DEF BusyAccounting, TypeOK
  <2>6. TypeOK'
    BY <1>1, EngineType, DropType
  <2>7. busy'[i] \in Nat /\ abandoned'[i] \in Nat
    BY <2>6 DEF TypeOK
  <2>8. One(r \in OnIp(i)) \in Int /\ One(r \in OnIp(i)') \in Int
    BY DEF One
  <2> QED BY <2>3, <2>4, <2>5, <2>7, <2>8
<1>2. CASE Environment \/ UNCHANGED vars
  <2>1. UNCHANGED <<pc, chosen, busy, abandoned>>
    BY <1>2 DEF vars, Environment, SetStatus, ResetQuota, Rebind, RemoveAccount,
       UploadAccount, ReloadProxy, ChangeSettings, BackoffExpires, engine, locals
  <2>2. \A i \in Ips : OnIp(i)' = OnIp(i)
    BY <2>1 DEF OnIp, ip
  <2> QED BY <2>1, <2>2 DEF BusyAccounting
<1> QED BY <1>1, <1>2 DEF Next, AllEnded, BusyAccounting

LEMMA InitBusy == Init => BusyAccounting
<1> SUFFICES ASSUME Init, NEW i \in Ips PROVE busy[i] = Cardinality(OnIp(i)) + abandoned[i]
  BY DEF BusyAccounting
<1>1. OnIp(i) = {}
  BY DEF Init, OnIp, Occupying
<1> QED BY <1>1, FS_EmptySet DEF Init

\* busy_exit_ips[i] is the number of attempts occupying i plus the number abandoned
\* there: inc_exit_ip and dec_exit_ip pair up however the pool changes meanwhile.
THEOREM BusyCounted == Spec => []BusyAccounting
<1>1. TypeOK /\ BusyAccounting /\ [Next]_vars => BusyAccounting'
  BY NextBusy
<1> QED BY InitBusy, <1>1, TypeCorrect, PTL DEF Spec

\* The rest of the program leaves the requests and the in-use counts alone.
LEMMA EnvironmentKeepsEngine ==
  ASSUME Environment
  PROVE  UNCHANGED engine
<1>1. ASSUME NEW a, NEW s, SetStatus(a, s) PROVE UNCHANGED engine
  BY <1>1 DEF SetStatus
<1>2. ASSUME NEW a, NEW p, Rebind(a, p) PROVE UNCHANGED engine
  BY <1>2 DEF Rebind
<1>3. ASSUME NEW a, ResetQuota(a) \/ RemoveAccount(a) \/ UploadAccount(a) \/ BackoffExpires(a)
      PROVE  UNCHANGED engine
  BY <1>3 DEF ResetQuota, RemoveAccount, UploadAccount, BackoffExpires
<1>4. ASSUME NEW p, NEW e, ReloadProxy(p, e) PROVE UNCHANGED engine
  BY <1>4 DEF ReloadProxy
<1>5. ASSUME NEW n, ChangeSettings(n) PROVE UNCHANGED engine
  BY <1>5 DEF ChangeSettings
<1> QED BY <1>1, <1>2, <1>3, <1>4, <1>5 DEF Environment

\* Where no caller hangs up, nothing is ever abandoned.
LEMMA OnlyDropsAbandon ==
  ASSUME Droppable = {}, TypeOK, [Next]_vars
  PROVE  UNCHANGED abandoned
<1>1. ASSUME NEW r \in Requests, Step(r) PROVE UNCHANGED abandoned
  <2>1. CASE AcquirePlatform(r) \/ ReadSettings(r) \/ Select(r) \/ NoneSelectable(r)
    BY <2>1 DEF AcquirePlatform, ReadSettings, Select, NoneSelectable
  <2>2. CASE Occupy(r) \/ AcquireAccount(r) \/ CallUnguarded(r)
    BY <2>2 DEF Occupy, AcquireAccount, CallUnguarded
  <2>3. CASE Respond(r) \/ FailToSend(r)
    BY <2>3 DEF Respond, FailToSend
  <2>4. CASE \/ HandleSuccess(r) \/ HandleRevoked(r) \/ HandleRateLimited(r)
             \/ HandleOther(r) \/ HandleTransport(r)
    BY <2>4 DEF HandleSuccess, HandleRevoked, HandleRateLimited, HandleOther,
       HandleTransport
  <2>5. CASE Reply(r) \/ Retry(r) \/ GiveUp(r) \/ Refuse(r)
    BY <2>5 DEF Reply, Retry, GiveUp, Refuse
  <2> QED BY <1>1, <2>1, <2>2, <2>3, <2>4, <2>5 DEF Step
<1>2. ASSUME NEW r \in Requests, Drop(r) PROVE FALSE
  BY <1>2 DEF Drop
<1>3. CASE Environment
  BY <1>3, EnvironmentKeepsEngine DEF engine
<1>4. CASE UNCHANGED vars
  BY <1>4 DEF vars
<1> QED BY <1>1, <1>2, <1>3, <1>4 DEF Next, AllEnded

NoneAbandoned == abandoned = [i \in Ips |-> 0]

\* Hung-up callers are the only reason why "the count of exit IPs currently in use" is not
\* one: without them it is exact in every state, through retries, rebindings and reloads.
THEOREM ExactWithoutHangUps ==
  ASSUME Droppable = {}
  PROVE  Spec => []InUseCountExact
<1>1. Init => NoneAbandoned
  BY DEF Init, NoneAbandoned
<1>2. TypeOK /\ NoneAbandoned /\ [Next]_vars => NoneAbandoned'
  BY OnlyDropsAbandon DEF NoneAbandoned
<1>3. NoneAbandoned /\ BusyAccounting => InUseCountExact
  <2> SUFFICES ASSUME NoneAbandoned, BusyAccounting, NEW i \in Ips
               PROVE  busy[i] = Cardinality(OnIp(i))
    BY DEF InUseCountExact
  <2>1. Cardinality(OnIp(i)) \in Nat
    BY RequestSetsFinite DEF OnIp
  <2>2. abandoned[i] = 0 /\ busy[i] = Cardinality(OnIp(i)) + abandoned[i]
    BY DEF NoneAbandoned, BusyAccounting
  <2> QED BY <2>1, <2>2
<1> QED BY <1>1, <1>2, <1>3, TypeCorrect, BusyCounted, PTL DEF Spec

-----------------------------------------------------------------------------
(* The semaphores.                                                          *)

LEMMA PlatformMoves ==
  ASSUME TypeOK, NEW r \in Requests, Step(r) \/ Drop(r), NEW pl \in Platforms
  PROVE  platFree'[pl] =
           platFree[pl] + One(r \in Admissions(pl)) - One(r \in Admissions(pl)')
<1> DEFINE Goal == platFree'[pl] =
             platFree[pl] + One(r \in Admissions(pl)) - One(r \in Admissions(pl)')
<1>0. /\ platFree \in [Platforms -> Nat] /\ platFree[pl] \in Nat
      /\ pc \in [Requests -> PC]
  BY DEF TypeOK
<1>1. /\ r \in Admissions(pl) <=> pc[r] \in Admitted /\ plat(r) = pl
      /\ r \in Admissions(pl)' <=> pc'[r] \in Admitted /\ plat(r) = pl
  BY DEF Admissions, plat
<1>2. ASSUME UNCHANGED platFree, pc[r] \in Admitted, pc'[r] \in Admitted
      PROVE  Goal
  BY <1>0, <1>1, <1>2 DEF One
<1>3. ASSUME platFree' = PlatformReleased(r), pc[r] \in Admitted, pc'[r] \notin Admitted
      PROVE  Goal
  <2>1. platFree'[pl] = platFree[pl] + One(plat(r) = pl)
    BY <1>0, <1>3 DEF PlatformReleased, One
  <2> QED BY <1>0, <1>1, <1>3, <2>1 DEF One
<1>4. CASE AcquirePlatform(r)
  <2>1. /\ pc[r] = "queued" /\ pc'[r] = "settings"
        /\ platFree' = [platFree EXCEPT ![plat(r)] = @ - 1]
    BY <1>0, <1>4 DEF AcquirePlatform
  <2>2. platFree'[pl] = platFree[pl] - One(plat(r) = pl)
    BY <1>0, <2>1 DEF One
  <2>3. pc[r] \notin Admitted /\ pc'[r] \in Admitted
    BY <2>1 DEF Admitted, Attempt
  <2> QED BY <1>0, <1>1, <2>2, <2>3 DEF One
<1>5. CASE Drop(r)
  <2>1. pc'[r] \notin Admitted
    BY <1>0, <1>5 DEF Drop, Leave, Admitted, Attempt
  <2>2. CASE pc[r] \in Admitted
    BY <1>3, <1>5, <2>1, <2>2 DEF Drop
  <2>3. CASE pc[r] \notin Admitted
    BY <1>0, <1>1, <1>5, <2>1, <2>3 DEF Drop, One
  <2> QED BY <2>2, <2>3
<1>6. CASE Reply(r) \/ GiveUp(r) \/ Refuse(r)
  BY <1>0, <1>3, <1>6 DEF Reply, GiveUp, Refuse, Leave, Admitted, Attempt
<1>7. CASE ReadSettings(r) \/ Select(r) \/ NoneSelectable(r)
  BY <1>0, <1>2, <1>7
  DEF ReadSettings, Select, NoneSelectable, Admitted, Attempt, semaphores
<1>8. CASE Occupy(r) \/ AcquireAccount(r) \/ CallUnguarded(r)
  BY <1>0, <1>2, <1>8
  DEF Occupy, AcquireAccount, CallUnguarded, Admitted, Attempt, semaphores
<1>9. CASE Respond(r) \/ FailToSend(r) \/ Retry(r)
  BY <1>0, <1>2, <1>9 DEF Respond, FailToSend, Retry, Admitted, Attempt, semaphores
<1>10. CASE \/ HandleSuccess(r) \/ HandleRevoked(r) \/ HandleRateLimited(r)
            \/ HandleOther(r) \/ HandleTransport(r)
  BY <1>0, <1>2, <1>10 DEF HandleSuccess, HandleRevoked, HandleRateLimited, HandleOther,
     HandleTransport, Admitted, Attempt, semaphores
<1> QED BY <1>4, <1>5, <1>6, <1>7, <1>8, <1>9, <1>10 DEF Step

LEMMA AccountMoves ==
  ASSUME TypeOK, LocalsOK, NEW r \in Requests, Step(r) \/ Drop(r), NEW a \in Accounts
  PROVE  acctFree'[a] = acctFree[a] + One(r \in Holders(a)) - One(r \in Holders(a)')
<1> DEFINE Goal == acctFree'[a] =
             acctFree[a] + One(r \in Holders(a)) - One(r \in Holders(a)')
<1>0. /\ acctFree \in [Accounts -> Nat] /\ acctFree[a] \in Nat
      /\ guard \in [Requests -> {"none", "wanted", "held"}] /\ pc \in [Requests -> PC]
  BY DEF TypeOK
<1>1. /\ r \in Holders(a) <=> guard[r] = "held" /\ acct(r) = a
      /\ r \in Holders(a)' <=> guard'[r] = "held" /\ acct(r)' = a
  BY DEF Holders
<1>2. ASSUME UNCHANGED acctFree, guard[r] # "held", guard'[r] # "held" PROVE Goal
  BY <1>0, <1>1, <1>2 DEF One
<1>3. ASSUME UNCHANGED <<acctFree, guard, chosen>> PROVE Goal
  <2>1. acct(r)' = acct(r)
    BY <1>3 DEF acct
  <2> QED BY <1>0, <1>1, <1>3, <2>1 DEF One
<1>4. ASSUME acctFree' = GuardReleased(r), guard'[r] = "none" PROVE Goal
  <2>1. acctFree'[a] = acctFree[a] + One(guard[r] = "held" /\ acct(r) = a)
    BY <1>0, <1>4 DEF GuardReleased, One
  <2> QED BY <1>0, <1>1, <1>4, <2>1 DEF One
<1>5. CASE AcquireAccount(r)
  <2>1. /\ guard[r] = "wanted" /\ guard'[r] = "held" /\ UNCHANGED chosen
        /\ acctFree' = [acctFree EXCEPT ![acct(r)] = @ - 1]
    BY <1>0, <1>5 DEF AcquireAccount
  <2>2. acct(r)' = acct(r)
    BY <2>1 DEF acct
  <2>3. acctFree'[a] = acctFree[a] - One(acct(r) = a)
    BY <1>0, <2>1 DEF One
  <2> QED BY <1>0, <1>1, <2>1, <2>2, <2>3 DEF One
<1>6. CASE Drop(r) \/ Reply(r) \/ GiveUp(r) \/ Refuse(r) \/ Retry(r)
  BY <1>0, <1>4, <1>6 DEF Drop, Reply, GiveUp, Refuse, Retry, Leave
<1>7. pc[r] \in {"selecting", "chosen"} => guard[r] = "none"
  BY <1>0 DEF LocalsOK
<1>8. CASE Select(r)
  BY <1>2, <1>7, <1>8 DEF Select, semaphores
<1>9. CASE Occupy(r)
  BY <1>0, <1>2, <1>7, <1>9 DEF Occupy, semaphores
<1>10. CASE AcquirePlatform(r) \/ ReadSettings(r) \/ NoneSelectable(r) \/ CallUnguarded(r)
  BY <1>3, <1>10
  DEF AcquirePlatform, ReadSettings, NoneSelectable, CallUnguarded, semaphores, locals
<1>11. CASE Respond(r) \/ FailToSend(r)
  BY <1>3, <1>11 DEF Respond, FailToSend, semaphores
<1>12. CASE \/ HandleSuccess(r) \/ HandleRevoked(r) \/ HandleRateLimited(r)
            \/ HandleOther(r) \/ HandleTransport(r)
  BY <1>3, <1>12 DEF HandleSuccess, HandleRevoked, HandleRateLimited, HandleOther,
     HandleTransport, semaphores, locals
<1> QED BY <1>5, <1>6, <1>8, <1>9, <1>10, <1>11, <1>12 DEF Step

\* The first conjunct of AccountPermits; the second follows from it.
AccountBalance ==
  \A a \in Accounts : acctFree[a] + Cardinality(Holders(a)) = AcctConcurrency[a]

LEMMA InitPermits == Init => PlatformPermits /\ AccountBalance
<1> SUFFICES ASSUME Init PROVE PlatformPermits /\ AccountBalance
  OBVIOUS
<1>1. \A pl \in Platforms : Admissions(pl) = {}
  BY DEF Init, Admissions, Admitted, Attempt
<1>2. \A a \in Accounts : Holders(a) = {}
  BY DEF Init, Holders
<1>3. \A n \in Nat \ {0} : n + 0 = n
  OBVIOUS
<1>4. platFree = MaxConcurrency /\ acctFree = AcctConcurrency /\ Cardinality({}) = 0
  BY FS_EmptySet DEF Init
<1>5. /\ MaxConcurrency \in [Platforms -> Nat \ {0}]
      /\ AcctConcurrency \in [Accounts -> Nat \ {0}]
  BY ForwardAssumption
<1> QED BY <1>1, <1>2, <1>3, <1>4, <1>5 DEF PlatformPermits, AccountBalance

LEMMA NextPermits ==
  ASSUME TypeOK, LocalsOK, PlatformPermits, AccountBalance, [Next]_vars
  PROVE  PlatformPermits' /\ AccountBalance'
<1>1. ASSUME NEW r \in Requests, Step(r) \/ Drop(r) PROVE PlatformPermits' /\ AccountBalance'
  <2>0. OnlyMoves(r) /\ TypeOK'
    BY <1>1, StepMovesOne, EngineType, DropType
  <2>1. ASSUME NEW pl \in Platforms
        PROVE  platFree'[pl] + Cardinality(Admissions(pl)') = MaxConcurrency[pl]
    <3>1. Admissions(pl)' \ {r} = Admissions(pl) \ {r}
      BY <2>0 DEF Admissions, OnlyMoves, plat
    <3>2. IsFiniteSet(Admissions(pl))
      BY RequestSetsFinite DEF Admissions
    <3>3. /\ Cardinality(Admissions(pl)) \in Nat /\ Cardinality(Admissions(pl)') \in Nat
          /\ Cardinality(Admissions(pl)') = Cardinality(Admissions(pl))
               - One(r \in Admissions(pl)) + One(r \in Admissions(pl)')
      BY <3>1, <3>2, CountMoves
    <3>4. platFree'[pl] =
            platFree[pl] + One(r \in Admissions(pl)) - One(r \in Admissions(pl)')
      BY <1>1, PlatformMoves
    <3>5. platFree[pl] \in Nat /\ platFree[pl] + Cardinality(Admissions(pl)) = MaxConcurrency[pl]
      BY DEF TypeOK, PlatformPermits
    <3>6. One(r \in Admissions(pl)) \in Int /\ One(r \in Admissions(pl)') \in Int
      BY DEF One
    <3> QED BY <3>3, <3>4, <3>5, <3>6
  <2>2. ASSUME NEW a \in Accounts
        PROVE  acctFree'[a] + Cardinality(Holders(a)') = AcctConcurrency[a]
    <3>1. Holders(a)' \ {r} = Holders(a) \ {r}
      BY <2>0 DEF Holders, OnlyMoves, acct
    <3>2. IsFiniteSet(Holders(a))
      BY RequestSetsFinite DEF Holders
    <3>3. /\ Cardinality(Holders(a)) \in Nat /\ Cardinality(Holders(a)') \in Nat
          /\ Cardinality(Holders(a)') = Cardinality(Holders(a))
               - One(r \in Holders(a)) + One(r \in Holders(a)')
      BY <3>1, <3>2, CountMoves
    <3>4. acctFree'[a] = acctFree[a] + One(r \in Holders(a)) - One(r \in Holders(a)')
      BY <1>1, AccountMoves
    <3>5. acctFree[a] \in Nat /\ acctFree[a] + Cardinality(Holders(a)) = AcctConcurrency[a]
      BY DEF TypeOK, AccountBalance
    <3>6. One(r \in Holders(a)) \in Int /\ One(r \in Holders(a)') \in Int
      BY DEF One
    <3> QED BY <3>3, <3>4, <3>5, <3>6
  <2> QED BY <2>1, <2>2 DEF PlatformPermits, AccountBalance
<1>2. CASE Environment \/ UNCHANGED vars
  <2>1. UNCHANGED <<pc, chosen, guard, platFree, acctFree>>
    BY <1>2 DEF vars, Environment, SetStatus, ResetQuota, Rebind, RemoveAccount,
       UploadAccount, ReloadProxy, ChangeSettings, BackoffExpires, engine, locals, semaphores
  <2>2. \A pl \in Platforms : Admissions(pl)' = Admissions(pl)
    BY <2>1 DEF Admissions, plat
  <2>3. \A a \in Accounts : Holders(a)' = Holders(a)
    BY <2>1 DEF Holders, acct
  <2> QED BY <2>1, <2>2, <2>3 DEF PlatformPermits, AccountBalance
<1> QED BY <1>1, <1>2 DEF Next, AllEnded

\* No path out of forward(), hanging up included, loses or invents a platform permit.
THEOREM PlatformPermitsConserved == Spec => []PlatformPermits
<1>1. TypeOK /\ LocalsOK /\ PlatformPermits /\ AccountBalance /\ [Next]_vars
        => PlatformPermits' /\ AccountBalance'
  BY NextPermits
<1> QED BY InitPermits, <1>1, TypeCorrect, LocalsHold, PTL DEF Spec

\* A call on a listed account holds one of its permits.
LEMMA CallsHold ==
  ASSUME TypeOK, LocalsOK, AccountBalance
  PROVE  AccountPermits
<1> SUFFICES ASSUME NEW a \in Accounts, Listed(a)
             PROVE  Cardinality({r \in Requests : pc[r] = "calling" /\ acct(r) = a})
                      <= AcctConcurrency[a]
  BY DEF AccountPermits, AccountBalance
<1> DEFINE Calls == {r \in Requests : pc[r] = "calling" /\ acct(r) = a}
<1>1. ASSUME NEW r \in Calls PROVE r \in Holders(a)
  <2>1. pc[r] = "calling" /\ acct(r) = a /\ guard[r] \in {"none", "wanted", "held"}
    BY DEF TypeOK
  <2>2. guard[r] # "wanted" /\ guard[r] # "none"
    BY <2>1 DEF LocalsOK, Occupying, Listed
  <2> QED BY <2>1, <2>2 DEF Holders
<1>2. Calls \subseteq Holders(a) /\ IsFiniteSet(Holders(a)) /\ Cardinality(Holders(a)) \in Nat
  BY <1>1, RequestSetsFinite DEF Holders
<1>3. Cardinality(Calls) <= Cardinality(Holders(a)) /\ Cardinality(Calls) \in Nat
  BY <1>2, FS_Subset, RequestSetsFinite
<1>4. acctFree[a] \in Nat /\ acctFree[a] + Cardinality(Holders(a)) = AcctConcurrency[a]
  BY DEF TypeOK, AccountBalance
<1> QED BY <1>2, <1>3, <1>4

\* Account permits are conserved, and bound the calls in flight on a listed account.
THEOREM AccountPermitsConserved == Spec => []AccountPermits
<1>1. TypeOK /\ LocalsOK /\ PlatformPermits /\ AccountBalance /\ [Next]_vars
        => PlatformPermits' /\ AccountBalance'
  BY NextPermits
<1>2. TypeOK /\ LocalsOK /\ AccountBalance => AccountPermits
  BY CallsHold
<1> QED BY InitPermits, <1>1, <1>2, TypeCorrect, LocalsHold, PTL DEF Spec

-----------------------------------------------------------------------------
(* The quota.                                                               *)

LEMMA OnAccountAdmitted ==
  ASSUME TypeOK, LocalsOK, PlatformPermits, NEW a \in Accounts,
         NEW r \in Requests, pc[r] = "selecting", plat(r) = AcctPlatform[a]
  PROVE  /\ r \notin OnAccount(a)
         /\ Cardinality(OnAccount(a)) + 1 <= MaxConcurrency[AcctPlatform[a]]
<1> DEFINE pl == AcctPlatform[a]
<1>0. pl \in Platforms /\ MaxConcurrency[pl] \in Nat /\ platFree[pl] \in Nat
  BY ForwardAssumption DEF TypeOK
<1>1. r \notin OnAccount(a) /\ r \in Admissions(pl)
  BY DEF OnAccount, Attempt, Admissions, Admitted
<1>2. OnAccount(a) \subseteq Admissions(pl)
  BY DEF OnAccount, Admissions, Admitted, Attempt, LocalsOK
<1>3. /\ IsFiniteSet(OnAccount(a)) /\ Cardinality(OnAccount(a)) \in Nat
      /\ IsFiniteSet(Admissions(pl)) /\ Cardinality(Admissions(pl)) \in Nat
  BY RequestSetsFinite DEF OnAccount, Admissions
<1>4. /\ Cardinality(OnAccount(a) \cup {r}) = Cardinality(OnAccount(a)) + 1
      /\ IsFiniteSet(OnAccount(a) \cup {r})
  BY <1>1, <1>3, FS_AddElement
<1>5. OnAccount(a) \cup {r} \subseteq Admissions(pl)
  BY <1>1, <1>2
<1>6. Cardinality(OnAccount(a) \cup {r}) <= Cardinality(Admissions(pl))
  BY <1>3, <1>5, FS_Subset
<1>7. platFree[pl] + Cardinality(Admissions(pl)) = MaxConcurrency[pl]
  BY <1>0 DEF PlatformPermits
<1> QED BY <1>0, <1>1, <1>3, <1>4, <1>6, <1>7

\* What a step of the engine does to one slot.
LEMMA SlotStep ==
  ASSUME TypeOK, NEW r \in Requests, Step(r) \/ Drop(r), NEW a \in Accounts
  PROVE  /\ slots'[a].phase = slots[a].phase
         /\ \/ slots'[a].used = slots[a].used
            \/ /\ slots'[a].used = slots[a].used + 1
               /\ HandleSuccess(r) /\ acct(r) = a
         /\ slots[a].status \notin Selectable => slots'[a].status \notin Selectable
<1> USE DEF TypeOK
<1>1. CASE UNCHANGED slots
  BY <1>1
<1>2. CASE HandleSuccess(r)
  BY <1>2 DEF HandleSuccess, Credited, Slot, Selectable
<1>3. CASE HandleRevoked(r)
  BY <1>3 DEF HandleRevoked, Slot, Selectable
<1>4. CASE HandleTransport(r)
  BY <1>4 DEF HandleTransport, Slot
<1>5. HandleSuccess(r) \/ HandleRevoked(r) \/ HandleTransport(r) \/ UNCHANGED slots
  BY DEF Step, Drop, Leave, index, AcquirePlatform, ReadSettings, Select,
     NoneSelectable, Occupy, AcquireAccount, CallUnguarded, Respond, FailToSend,
     HandleRateLimited, HandleOther, Reply, Retry, GiveUp, Refuse
<1> QED BY <1>1, <1>2, <1>3, <1>4, <1>5

\* A request joins those under way on an account only by selecting it.
LEMMA OnAccountEntry ==
  ASSUME TypeOK, NEW r \in Requests, Step(r) \/ Drop(r), NEW a \in Accounts,
         r \notin OnAccount(a), r \in OnAccount(a)'
  PROVE  /\ pc[r] = "selecting" /\ plat(r) = AcctPlatform[a] /\ UNCHANGED slots
         /\ a \in Metered => slots[a].used < QuotaLimit[a]
<1> USE DEF TypeOK
<1>1. /\ pc'[r] \in {"chosen", "waiting", "calling", "settled"} /\ acct(r)' = a
      /\ ~(pc[r] \in {"chosen", "waiting", "calling", "settled"} /\ acct(r) = a)
  BY DEF OnAccount, Attempt
<1>2. ASSUME UNCHANGED chosen PROVE acct(r)' = acct(r)
  BY <1>2 DEF acct
<1>3. ~Drop(r) /\ ~Reply(r) /\ ~GiveUp(r) /\ ~Refuse(r)
  BY <1>1 DEF Drop, Reply, GiveUp, Refuse, Leave
<1>4. ~AcquirePlatform(r) /\ ~ReadSettings(r) /\ ~NoneSelectable(r) /\ ~Retry(r)
  BY <1>1 DEF AcquirePlatform, ReadSettings, NoneSelectable, Retry
<1>5. ~Occupy(r) /\ ~AcquireAccount(r) /\ ~CallUnguarded(r)
  BY <1>1, <1>2 DEF Occupy, AcquireAccount, CallUnguarded, locals
<1>6. ~Respond(r) /\ ~FailToSend(r)
  BY <1>1, <1>2 DEF Respond, FailToSend
<1>7. /\ ~HandleSuccess(r) /\ ~HandleRevoked(r) /\ ~HandleRateLimited(r)
      /\ ~HandleOther(r) /\ ~HandleTransport(r)
  BY <1>1 DEF HandleSuccess, HandleRevoked, HandleRateLimited, HandleOther, HandleTransport
<1>8. Select(r)
  BY <1>3, <1>4, <1>5, <1>6, <1>7 DEF Step
<1>9. PICK b \in LeastBusy(Round(plat(r))) :
        chosen' = [chosen EXCEPT ![r] =
           [acct |-> b, proxy |-> slots[b].bound, ip |-> BoundEntry(b).exit_ip]]
  BY <1>8 DEF Select
<1>10. b = a
  BY <1>1, <1>9 DEF acct
<1>11. b \in Candidates(plat(r))
  BY <1>9 DEF LeastBusy, Round, IdleAccts, Usable
<1> QED BY <1>8, <1>10, <1>11 DEF Select, Candidates, index

LEMMA OnAccountMoves ==
  ASSUME TypeOK, NEW r \in Requests, OnlyMoves(r), NEW a \in Accounts
  PROVE  /\ OnAccount(a)' \ {r} = OnAccount(a) \ {r}
         /\ IsFiniteSet(OnAccount(a))
         /\ Cardinality(OnAccount(a)) \in Nat /\ Cardinality(OnAccount(a)') \in Nat
         /\ Cardinality(OnAccount(a)') = Cardinality(OnAccount(a))
              - One(r \in OnAccount(a)) + One(r \in OnAccount(a)')
<1>1. OnAccount(a)' \ {r} = OnAccount(a) \ {r}
  BY DEF OnAccount, OnlyMoves, acct
<1>2. IsFiniteSet(OnAccount(a))
  BY RequestSetsFinite DEF OnAccount
<1> QED BY <1>1, <1>2, CountMoves

LEMMA EngineQuota ==
  ASSUME TypeOK, LocalsOK, PlatformPermits, QuotaOvershoot,
         NEW r \in Requests, Step(r) \/ Drop(r),
         NEW a \in Metered, Listed(a)', OnAccount(a)' # {}
  PROVE  slots'[a].used + Cardinality(OnAccount(a)')
           <= QuotaLimit[a] + MaxConcurrency[AcctPlatform[a]] - 1
<1>0. /\ a \in Accounts /\ QuotaLimit[a] \in Nat /\ MaxConcurrency[AcctPlatform[a]] \in Nat
      /\ slots[a].used \in Nat
  BY ForwardAssumption DEF TypeOK, Slot
<1>1. Listed(a)
  BY <1>0, SlotStep DEF Listed
<1>2. /\ OnAccount(a)' \ {r} = OnAccount(a) \ {r}
      /\ Cardinality(OnAccount(a)) \in Nat /\ Cardinality(OnAccount(a)') \in Nat
      /\ Cardinality(OnAccount(a)') = Cardinality(OnAccount(a))
           - One(r \in OnAccount(a)) + One(r \in OnAccount(a)')
  BY <1>0, StepMovesOne, OnAccountMoves
<1>3. CASE r \notin OnAccount(a) /\ r \in OnAccount(a)'
  <2>1. /\ pc[r] = "selecting" /\ plat(r) = AcctPlatform[a] /\ UNCHANGED slots
        /\ slots[a].used < QuotaLimit[a]
    BY <1>0, <1>3, OnAccountEntry
  <2>2. Cardinality(OnAccount(a)) + 1 <= MaxConcurrency[AcctPlatform[a]]
    BY <1>0, <2>1, OnAccountAdmitted
  <2>3. Cardinality(OnAccount(a)') = Cardinality(OnAccount(a)) + 1
    BY <1>2, <1>3 DEF One
  <2> QED BY <1>0, <1>2, <2>1, <2>2, <2>3
<1>4. CASE ~(r \notin OnAccount(a) /\ r \in OnAccount(a)')
  <2>1. OnAccount(a) # {}
    BY <1>2, <1>4
  <2>2. slots[a].used + Cardinality(OnAccount(a))
          <= QuotaLimit[a] + MaxConcurrency[AcctPlatform[a]] - 1
    BY <1>1, <2>1 DEF QuotaOvershoot
  <2>3. CASE slots'[a].used = slots[a].used
    <3>1. Cardinality(OnAccount(a)') <= Cardinality(OnAccount(a))
      BY <1>2, <1>4 DEF One
    <3> QED BY <1>0, <1>2, <2>2, <2>3, <3>1
  <2>4. CASE slots'[a].used = slots[a].used + 1 /\ HandleSuccess(r) /\ acct(r) = a
    <3>1. r \in OnAccount(a) /\ r \notin OnAccount(a)'
      BY <2>4 DEF HandleSuccess, OnAccount, Attempt, TypeOK
    <3>2. Cardinality(OnAccount(a)') = Cardinality(OnAccount(a)) - 1
      BY <1>2, <3>1 DEF One
    <3> QED BY <1>0, <1>2, <2>2, <2>4, <3>2
  <2> QED BY <1>0, <2>3, <2>4, SlotStep
<1> QED BY <1>3, <1>4

LEMMA EnvironmentQuota ==
  ASSUME TypeOK, LocalsOK, QuotaOvershoot, Environment \/ UNCHANGED vars,
         NEW a \in Metered, Listed(a)', OnAccount(a)' # {}
  PROVE  slots'[a].used + Cardinality(OnAccount(a)')
           <= QuotaLimit[a] + MaxConcurrency[AcctPlatform[a]] - 1
<1>0. /\ a \in Accounts /\ QuotaLimit[a] \in Nat /\ MaxConcurrency[AcctPlatform[a]] \in Nat
      /\ slots[a].used \in Nat /\ slots \in [Accounts -> Slot]
  BY ForwardAssumption DEF TypeOK, Slot
<1>1. UNCHANGED <<pc, chosen>>
  BY DEF vars, Environment, SetStatus, ResetQuota, Rebind, RemoveAccount,
     UploadAccount, ReloadProxy, ChangeSettings, BackoffExpires, engine, locals
<1>2. OnAccount(a)' = OnAccount(a)
  BY <1>1 DEF OnAccount, acct
<1>3. slots[a].phase # "future"
  <2>1. PICK q \in Requests : pc[q] \in Attempt /\ acct(q) = a
    BY <1>2 DEF OnAccount
  <2> QED BY <2>1 DEF LocalsOK
<1>4. Cardinality(OnAccount(a)) \in Nat
  BY RequestSetsFinite DEF OnAccount
<1>5. slots[a].phase = "listed" /\ slots'[a].used \in {0, slots[a].used}
  <2>1. CASE UNCHANGED slots
    BY <2>1 DEF Listed
  <2>2. ASSUME NEW b \in Accounts, NEW s, SetStatus(b, s)
        PROVE  slots'[a].phase = slots[a].phase /\ slots'[a].used = slots[a].used
    BY <1>0, <2>2 DEF SetStatus, Slot
  <2>3. ASSUME NEW b \in Accounts, ResetQuota(b)
        PROVE  slots'[a].phase = slots[a].phase /\ slots'[a].used \in {0, slots[a].used}
    BY <1>0, <2>3 DEF ResetQuota, Slot
  <2>4. ASSUME NEW b \in Accounts, NEW p, Rebind(b, p)
        PROVE  slots'[a].phase = slots[a].phase /\ slots'[a].used = slots[a].used
    BY <1>0, <2>4 DEF Rebind, Slot
  <2>5. ASSUME NEW b \in Accounts, RemoveAccount(b)
        PROVE  slots'[a].phase \in {slots[a].phase, "removed"} /\ slots'[a].used = slots[a].used
    BY <1>0, <2>5 DEF RemoveAccount, Slot
  <2>6. ASSUME NEW b \in Accounts, UploadAccount(b)
        PROVE  slots'[a] = slots[a]
    BY <1>0, <1>3, <2>6 DEF UploadAccount
  <2>7. ASSUME NEW p, NEW e, ReloadProxy(p, e) PROVE UNCHANGED slots
    BY <2>7 DEF ReloadProxy
  <2>8. ASSUME NEW n, ChangeSettings(n) PROVE UNCHANGED slots
    BY <2>8 DEF ChangeSettings, index
  <2>9. ASSUME NEW b, BackoffExpires(b) PROVE UNCHANGED slots
    BY <2>9 DEF BackoffExpires
  <2>10. slots'[a].phase = "listed"
    BY DEF Listed
  <2>11. UNCHANGED vars => UNCHANGED slots
    BY DEF vars, index
  <2> QED
    BY <2>1, <2>2, <2>3, <2>4, <2>5, <2>6, <2>7, <2>8, <2>9, <2>10, <2>11 DEF Environment
<1>6. slots[a].used + Cardinality(OnAccount(a))
        <= QuotaLimit[a] + MaxConcurrency[AcctPlatform[a]] - 1
  BY <1>2, <1>5 DEF QuotaOvershoot, Listed
<1> QED BY <1>0, <1>2, <1>4, <1>5, <1>6

\* quota_limit can be overrun only by requests admitted together: never by
\* max_concurrency or more.
THEOREM QuotaBounded == Spec => []QuotaOvershoot
<1>1. Init => QuotaOvershoot
  <2> SUFFICES ASSUME Init, NEW a \in Metered PROVE OnAccount(a) = {}
    BY DEF QuotaOvershoot
  <2> QED BY DEF Init, OnAccount, Attempt
<1>2. TypeOK /\ LocalsOK /\ PlatformPermits /\ QuotaOvershoot /\ [Next]_vars
        => QuotaOvershoot'
  BY EngineQuota, EnvironmentQuota DEF Next, AllEnded, QuotaOvershoot
<1> QED BY <1>1, <1>2, TypeCorrect, LocalsHold, PlatformPermitsConserved, PTL DEF Spec

\* The forwarding engine never puts an account back into rotation: whatever raises a
\* culled account's status is the rest of the program.
THEOREM NeverRevives == Spec => ForwardingNeverRevives
<1>1. TypeOK /\ [Next]_vars => [NotRevived]_vars
  <2> SUFFICES ASSUME TypeOK, Next PROVE NotRevived
    OBVIOUS
  <2>1. ASSUME NEW r \in Requests, Step(r) \/ Drop(r) PROVE NotRevived
    BY <2>1, SlotStep DEF NotRevived
  <2>2. CASE Environment
    <3>1. churn \in Nat
      BY ForwardAssumption DEF TypeOK
    <3>2. churn' = churn + 1 \/ UNCHANGED slots
      BY <2>2 DEF Environment, SetStatus, ResetQuota, Rebind, RemoveAccount,
         UploadAccount, ReloadProxy, ChangeSettings, BackoffExpires, Churn
    <3> QED BY <3>1, <3>2 DEF NotRevived
  <2>3. CASE AllEnded
    BY <2>3 DEF AllEnded, vars, index, NotRevived
  <2> QED BY <2>1, <2>2, <2>3 DEF Next
<1> QED BY <1>1, TypeCorrect, PTL DEF Spec, ForwardingNeverRevives

-----------------------------------------------------------------------------
(* Going on.  Only two awaits wait for a permit, and whoever holds an       *)
(* account's permit is past both; everywhere else forward() has an arm for  *)
(* whatever it finds.                                                       *)

\* A least busy account is to be found among any that are usable.
LEMMA SomeLeastBusy ==
  ASSUME TypeOK, NEW pl, Usable(pl) # {}
  PROVE  LeastBusy(Round(pl)) # {}
<1>1. Round(pl) # {} /\ Round(pl) \subseteq Usable(pl)
  BY DEF Round, IdleAccts
<1>2. \A a \in Usable(pl) : BusyKey(a) \in Nat
  <2> SUFFICES ASSUME NEW a \in Usable(pl) PROVE BusyKey(a) \in Nat
    OBVIOUS
  <2>1. slots[a].bound \in Proxies
    BY DEF Usable, HasProxy
  <2>2. BoundEntry(a) \in Entry
    BY <2>1 DEF BoundEntry, TypeOK
  <2>3. BoundEntry(a).exit_ip # NoIp => busy[BoundEntry(a).exit_ip] \in Nat
    BY <2>2 DEF Entry, TypeOK
  <2> QED BY <2>3 DEF BusyKey
<1> DEFINE T == {BusyKey(a) : a \in Round(pl)}
<1>3. T \in SUBSET Nat /\ T # {}
  BY <1>1, <1>2
<1>4. PICK m \in T : \A n \in T : m <= n
  BY <1>3, LeastNat
<1>5. PICK a \in Round(pl) : m = BusyKey(a)
  BY <1>4
<1>6. \A b \in Round(pl) : BusyKey(a) <= BusyKey(b)
  BY <1>4, <1>5
<1> QED BY <1>5, <1>6 DEF LeastBusy

\* A call that has come back has an outcome.
VerdictsOK == \A r \in Requests : pc[r] = "settled" => verdict[r] \in Outcome

LEMMA NextVerdicts ==
  ASSUME TypeOK, VerdictsOK, [Next]_vars
  PROVE  VerdictsOK'
<1> SUFFICES ASSUME NEW q \in Requests, pc'[q] = "settled"
             PROVE  verdict'[q] \in Outcome
  BY DEF VerdictsOK
<1>1. TypeOK'
  BY EngineType, DropType, EnvironmentType, StutterType DEF Next, AllEnded
<1>2. CASE verdict'[q] # "none"
  BY <1>1, <1>2 DEF TypeOK
<1>3. CASE pc[q] = "settled" /\ verdict'[q] = verdict[q]
  BY <1>3 DEF VerdictsOK
<1>4. ASSUME NEW r \in Requests, Step(r) \/ Drop(r)
      PROVE  verdict'[q] # "none" \/ (pc[q] = "settled" /\ verdict'[q] = verdict[q])
  <2>1. ASSUME NEW how \in Ended, Leave(r, how)
        PROVE  pc[q] = "settled" /\ verdict'[q] = verdict[q]
    BY <2>1 DEF Leave, Ended, TypeOK
  <2>2. CASE Drop(r) \/ Reply(r) \/ GiveUp(r) \/ Refuse(r)
    BY <2>1, <2>2 DEF Drop, Reply, GiveUp, Refuse, Ended
  <2>3. CASE Respond(r) \/ FailToSend(r)
    <3>1. PICK v \in Outcome : verdict' = [verdict EXCEPT ![r] = v]
      BY <2>3, ForwardAssumption, ClassifyType DEF Respond, FailToSend, Outcome
    <3>2. v # "none"
      BY DEF Outcome, Verdict, Transport
    <3>3. pc' = [pc EXCEPT ![r] = "settled"]
      BY <2>3 DEF Respond, FailToSend
    <3> QED BY <3>1, <3>2, <3>3 DEF TypeOK
  <2>4. CASE AcquirePlatform(r) \/ ReadSettings(r) \/ Select(r) \/ NoneSelectable(r)
    BY <2>4 DEF AcquirePlatform, ReadSettings, Select, NoneSelectable, TypeOK, locals
  <2>5. CASE Occupy(r) \/ AcquireAccount(r) \/ CallUnguarded(r) \/ Retry(r)
    BY <2>5 DEF Occupy, AcquireAccount, CallUnguarded, Retry, TypeOK, locals
  <2>6. CASE \/ HandleSuccess(r) \/ HandleRevoked(r) \/ HandleRateLimited(r)
             \/ HandleOther(r) \/ HandleTransport(r)
    BY <2>6 DEF HandleSuccess, HandleRevoked, HandleRateLimited, HandleOther,
       HandleTransport, TypeOK, locals
  <2> QED BY <1>4, <2>2, <2>3, <2>4, <2>5, <2>6 DEF Step
<1>5. CASE Environment \/ UNCHANGED vars
  <2>1. UNCHANGED <<pc, verdict>>
    BY <1>5, EnvironmentKeepsEngine DEF vars, engine, locals
  <2> QED BY <1>3, <2>1
<1> QED BY <1>2, <1>3, <1>4, <1>5 DEF Next, AllEnded

LEMMA HolderReady ==
  ASSUME TypeOK, LocalsOK, VerdictsOK, NEW q \in Requests, guard[q] = "held"
  PROVE  Ready(q)
<1>1. pc[q] \in {"calling", "settled", "handled"}
  BY DEF LocalsOK
<1>2. pc[q] = "settled" => verdict[q] \in Outcome
  BY DEF VerdictsOK
<1> QED BY <1>1, <1>2 DEF Ready

\* An account without a free permit is held by a request of the same platform that can
\* go on.
LEMMA HolderGoesOn ==
  ASSUME TypeOK, LocalsOK, VerdictsOK, AccountPermits, NEW r \in Requests,
         pc[r] = "waiting", ~(acctFree[acct(r)] > 0)
  PROVE  \E q \in Holders(acct(r)) : q \in Admissions(plat(r)) /\ Ready(q)
<1>1. acct(r) \in Accounts /\ AcctPlatform[acct(r)] = plat(r)
  BY DEF LocalsOK, Attempt
<1>2. Cardinality(Holders(acct(r))) # 0
  <2>1. AcctConcurrency[acct(r)] \in Nat \ {0} /\ acctFree[acct(r)] \in Nat
    BY <1>1, ForwardAssumption DEF TypeOK
  <2>2. acctFree[acct(r)] + Cardinality(Holders(acct(r))) = AcctConcurrency[acct(r)]
    BY <1>1 DEF AccountPermits
  <2> QED BY <2>1, <2>2, RequestSetsFinite DEF Holders
<1>3. PICK q \in Holders(acct(r)) : TRUE
  BY <1>2, FS_EmptySet
<1>4. q \in Requests /\ guard[q] = "held" /\ acct(q) = acct(r)
  BY <1>3 DEF Holders
<1>5. pc[q] \in {"calling", "settled", "handled"}
  BY <1>4 DEF LocalsOK
<1>6. plat(q) = plat(r) /\ pc[q] \in Admitted
  BY <1>1, <1>4, <1>5 DEF LocalsOK, Attempt, Admitted
<1> QED BY <1>3, <1>4, <1>6, HolderReady DEF Admissions

\* Past admission, a request can go on or waits for the account's permit.
LEMMA AdmittedGoesOn ==
  ASSUME TypeOK, LocalsOK, VerdictsOK, NEW r \in Requests, pc[r] \in Admitted
  PROVE  Ready(r) \/ (pc[r] = "waiting" /\ ~(acctFree[acct(r)] > 0))
<1>1. CASE pc[r] = "selecting"
  BY <1>1, SomeLeastBusy DEF Ready
<1>2. CASE pc[r] = "waiting"
  <2>1. guard[r] \in {"none", "wanted"}
    BY <1>2 DEF LocalsOK, TypeOK
  <2> QED BY <1>2, <2>1 DEF Ready
<1>3. CASE pc[r] = "settled"
  BY <1>3 DEF Ready, VerdictsOK
<1> QED BY <1>1, <1>2, <1>3 DEF Ready, Admitted, Attempt

LEMMA WaitsEnd ==
  ASSUME TypeOK, LocalsOK, VerdictsOK, PlatformPermits, AccountPermits
  PROVE  NobodyStuck
<1> SUFFICES ASSUME NEW r \in Requests, pc[r] \notin Ended, ~Ready(r)
             PROVE  \E q \in IF pc[r] = "queued" THEN Admissions(plat(r)) ELSE Holders(acct(r)) :
                      Ready(q)
  BY DEF NobodyStuck
<1>1. CASE pc[r] = "queued"
  <2>1. plat(r) \in Platforms /\ platFree[plat(r)] = 0
    <3>1. plat(r) \in Platforms
      BY ForwardAssumption DEF plat
    <3>2. platFree[plat(r)] \in Nat /\ ~(platFree[plat(r)] > 0)
      BY <1>1, <3>1 DEF Ready, TypeOK
    <3> QED BY <3>1, <3>2
  <2>2. Cardinality(Admissions(plat(r))) # 0
    <3>1. MaxConcurrency[plat(r)] \in Nat \ {0}
      BY <2>1, ForwardAssumption
    <3>2. platFree[plat(r)] + Cardinality(Admissions(plat(r))) = MaxConcurrency[plat(r)]
      BY <2>1 DEF PlatformPermits
    <3> QED BY <2>1, <3>1, <3>2, RequestSetsFinite DEF Admissions
  <2>3. PICK q \in Admissions(plat(r)) : TRUE
    BY <2>2, FS_EmptySet
  <2>4. q \in Requests /\ pc[q] \in Admitted /\ plat(q) = plat(r)
    BY <2>3 DEF Admissions
  <2>5. CASE Ready(q)
    BY <1>1, <2>3, <2>5
  <2>6. CASE ~Ready(q)
    <3>1. pc[q] = "waiting" /\ ~(acctFree[acct(q)] > 0)
      BY <2>4, <2>6, AdmittedGoesOn
    <3> QED BY <1>1, <2>4, <3>1, HolderGoesOn
  <2> QED BY <2>5, <2>6
<1>2. CASE pc[r] # "queued"
  <2>1. pc[r] \in Admitted
    BY <1>2 DEF TypeOK, PC
  <2>2. pc[r] = "waiting" /\ ~(acctFree[acct(r)] > 0)
    BY <2>1, AdmittedGoesOn
  <2> QED BY <1>2, <2>2, HolderGoesOn
<1> QED BY <1>1, <1>2

\* A request that has not ended can take its next step or waits for one that can: holding
\* the platform's permit while waiting for the account's never closes a circle, whatever
\* the number of requests and permits, and selection and the match on the outcome are total.
THEOREM SomebodyGoesOn == Spec => []NobodyStuck
<1>1. Init => VerdictsOK
  BY DEF Init, VerdictsOK
<1>2. TypeOK /\ VerdictsOK /\ [Next]_vars => VerdictsOK'
  BY NextVerdicts
<1>3. TypeOK /\ LocalsOK /\ VerdictsOK /\ PlatformPermits /\ AccountPermits => NobodyStuck
  BY WaitsEnd
<1> QED
  BY <1>1, <1>2, <1>3, TypeCorrect, LocalsHold, PlatformPermitsConserved,
     AccountPermitsConserved, PTL DEF Spec
=============================================================================
