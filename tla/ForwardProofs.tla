--------------------------- MODULE ForwardProofs ---------------------------
(***************************************************************************)
(* Theorems about the forwarding engine, for any number of requests,       *)
(* accounts, proxies and platforms, any churn and any set of status codes. *)
(***************************************************************************)
EXTENDS Forward, Counting

\* The updates of an account slot stay in the slot's type.
LEMMA SlotUpdates ==
  ASSUME NEW s \in Slot
  PROVE  /\ Credited(s) \in Slot
         /\ \A st \in AcctStatus : [s EXCEPT !.status = st] \in Slot
         /\ \A p \in Proxies \cup {NoProxy} : [s EXCEPT !.bound = p] \in Slot
         /\ [s EXCEPT !.used = 0, !.status = "healthy"] \in Slot
         /\ [s EXCEPT !.phase = "removed"] \in Slot
<1>1. /\ s.phase \in {"future", "listed", "removed"} /\ s.status \in AcctStatus
      /\ s.bound \in Proxies \cup {NoProxy} /\ s.used \in Nat
  BY DEF Slot
<1>2. Credited(s) \in Slot
  <2>1. /\ s.used + 1 \in Nat
        /\ (IF s.status = "pending" THEN "healthy" ELSE s.status) \in AcctStatus
    BY <1>1 DEF AcctStatus
  <2> QED BY <1>1, <2>1 DEF Credited, Slot
<1>3. \A st \in AcctStatus : [s EXCEPT !.status = st] \in Slot
  BY DEF Slot
<1>4. \A p \in Proxies \cup {NoProxy} : [s EXCEPT !.bound = p] \in Slot
  BY DEF Slot
<1>5. [s EXCEPT !.used = 0, !.status = "healthy"] \in Slot
  BY DEF Slot, AcctStatus
<1>6. [s EXCEPT !.phase = "removed"] \in Slot
  BY DEF Slot
<1> QED BY <1>2, <1>3, <1>4, <1>5, <1>6

\* Every verdict classify() can give is one of the five of CallOutcome.
LEMMA ClassifyType ==
  ASSUME NEW code, NEW revoke, NEW rate
  PROVE  Classify(code, revoke, rate) \in Verdict
BY DEF Classify, Verdict

\* The initial index and the semaphores as constructed are well-typed.
LEMMA InitType == Init => TypeOK
BY ForwardAssumption
DEF Init, TypeOK, PC, Admitted, Attempt, Ended, Choice, NoChoice, Outcome, Entry, ProxyStatus

-----------------------------------------------------------------------------
(* Each action preserves the type invariant.                                *)

\* Leaving forward() gives back what the request holds and clears its locals.
LEMMA LeaveType ==
  ASSUME TypeOK, NEW r \in Requests, NEW how \in Ended, Leave(r, how),
         platFree' \in [Platforms -> Nat], abandoned' \in [Ips -> Nat]
  PROVE  TypeOK'
<1>1. acctFree' \in [Accounts -> Nat]
  BY CountUp DEF TypeOK, Leave, GuardReleased
<1>2. pc' \in [Requests -> PC]
  BY DEF TypeOK, Leave, PC
<1>3. chosen' \in [Requests -> Choice]
  BY DEF TypeOK, Leave, NoChoice, Choice
<1>4. /\ guard' \in [Requests -> {"none", "wanted", "held"}]
      /\ retries' \in [Requests -> Nat] /\ budget' \in [Requests -> Nat]
      /\ verdict' \in [Requests -> Outcome \cup {"none"}]
  BY DEF TypeOK, Leave
<1>5. UNCHANGED <<slots, limited, proxies, busy, maxRetries, churn>>
  BY DEF Leave, index, outside
<1> QED BY <1>1, <1>2, <1>3, <1>4, <1>5 DEF TypeOK

LEMMA ReleaseType ==
  ASSUME TypeOK, NEW r \in Requests
  PROVE  /\ GuardReleased(r) \in [Accounts -> Nat]
         /\ PlatformReleased(r) \in [Platforms -> Nat]
BY CountUp DEF TypeOK, GuardReleased, PlatformReleased

LEMMA VacatedType ==
  ASSUME TypeOK, NEW r \in Requests
  PROVE  Vacated(r) \in [Ips -> Nat]
<1>1. CASE ip(r) # NoIp /\ busy[ip(r)] > 0
  BY <1>1, CountDown DEF Vacated, TypeOK
<1>2. CASE ~(ip(r) # NoIp /\ busy[ip(r)] > 0)
  BY <1>2 DEF Vacated, TypeOK
<1> QED BY <1>1, <1>2

LEMMA EngineType ==
  ASSUME TypeOK, NEW r \in Requests, Step(r)
  PROVE  TypeOK'
<1> USE DEF locals, index, semaphores, outside
<1>0. /\ {"queued", "settings", "selecting", "diagnosing", "chosen", "waiting", "calling",
          "settled", "handled", "replied", "refused", "dropped"} \subseteq PC
      /\ plat(r) \in Platforms
      /\ acct(r) \in Accounts \cup {NoAccount}
      /\ ip(r) \in Ips \cup {NoIp}
  BY ForwardAssumption DEF TypeOK, PC, Admitted, Attempt, Ended, plat, acct, ip, Choice
<1>1. CASE AcquirePlatform(r)
  <2>1. platFree' \in [Platforms -> Nat]
    BY <1>1, CountDown DEF AcquirePlatform, TypeOK
  <2> QED BY <1>0, <1>1, <2>1 DEF AcquirePlatform, TypeOK
<1>2. CASE ReadSettings(r)
  BY <1>0, <1>2 DEF ReadSettings, TypeOK
<1>3. CASE Select(r)
  <2>1. PICK a \in LeastBusy(Round(plat(r))) :
          chosen' = [chosen EXCEPT ![r] =
             [acct |-> a, proxy |-> slots[a].bound, ip |-> BoundEntry(a).exit_ip]]
    BY <1>3 DEF Select
  <2>2. a \in Accounts /\ slots[a].bound \in Proxies
    BY <2>1 DEF LeastBusy, Round, IdleAccts, Usable, Candidates, HasProxy
  <2>3. BoundEntry(a).exit_ip \in Ips \cup {NoIp}
    BY <2>2 DEF BoundEntry, Entry, TypeOK
  <2>4. chosen' \in [Requests -> Choice]
    BY <2>1, <2>2, <2>3 DEF TypeOK, Choice
  <2> QED BY <1>0, <1>3, <2>4 DEF Select, TypeOK
<1>4. CASE NoneSelectable(r)
  BY <1>0, <1>4 DEF NoneSelectable, TypeOK
<1>5. CASE Occupy(r)
  <2>1. busy' \in [Ips -> Nat]
    BY <1>5, CountUp DEF Occupy, TypeOK
  <2>2. guard' \in [Requests -> {"none", "wanted", "held"}]
    BY <1>5 DEF Occupy, TypeOK
  <2> QED BY <1>0, <1>5, <2>1, <2>2 DEF Occupy, TypeOK
<1>6. CASE AcquireAccount(r)
  <2>1. acctFree' \in [Accounts -> Nat]
    BY <1>6, CountDown DEF AcquireAccount, TypeOK
  <2> QED BY <1>0, <1>6, <2>1 DEF AcquireAccount, TypeOK
<1>7. CASE CallUnguarded(r)
  BY <1>0, <1>7 DEF CallUnguarded, TypeOK
<1>8. CASE Respond(r)
  <2>1. /\ verdict' \in [Requests -> Outcome \cup {"none"}]
    BY <1>8, ClassifyType, ForwardAssumption DEF Respond, TypeOK, Outcome
  <2>2. busy' \in [Ips -> Nat]
    BY <1>8, VacatedType DEF Respond
  <2> QED BY <1>0, <1>8, <2>1, <2>2 DEF Respond, TypeOK
<1>9. CASE FailToSend(r)
  <2>1. busy' \in [Ips -> Nat]
    BY <1>9, VacatedType DEF FailToSend
  <2>2. verdict' \in [Requests -> Outcome \cup {"none"}]
    BY <1>9 DEF FailToSend, TypeOK, Outcome
  <2> QED BY <1>0, <1>9, <2>1, <2>2 DEF FailToSend, TypeOK
<1>10. CASE HandleSuccess(r)
  <2>1. slots' \in [Accounts -> Slot]
    <3>1. acct(r) \in Accounts => Credited(slots[acct(r)]) \in Slot
      BY SlotUpdates DEF TypeOK
    <3>2. slots' \in {slots, [slots EXCEPT ![acct(r)] = Credited(slots[acct(r)])]}
      BY <1>10 DEF HandleSuccess
    <3> QED BY <3>1, <3>2, Overwrite DEF TypeOK
  <2> QED BY <1>0, <1>10, <2>1 DEF HandleSuccess, TypeOK
<1>11. CASE HandleRevoked(r)
  <2>1. slots' \in [Accounts -> Slot]
    <3>1. acct(r) \in Accounts => [slots[acct(r)] EXCEPT !.status = "hard_revoked"] \in Slot
      BY SlotUpdates DEF TypeOK, AcctStatus
    <3>2. slots' \in {slots, [slots EXCEPT ![acct(r)] =
                                [slots[acct(r)] EXCEPT !.status = "hard_revoked"]]}
      BY <1>11 DEF HandleRevoked
    <3> QED BY <3>1, <3>2, Overwrite DEF TypeOK
  <2> QED BY <1>0, <1>11, <2>1 DEF HandleRevoked, TypeOK
<1>12. CASE HandleRateLimited(r)
  BY <1>0, <1>12 DEF HandleRateLimited, TypeOK
<1>13. CASE HandleOther(r)
  BY <1>0, <1>13 DEF HandleOther, TypeOK
<1>14. CASE HandleTransport(r)
  <2>1. slots' \in [Accounts -> Slot]
    <3>1. PICK p \in Proxies \cup {slots[acct(r)].bound} :
            slots' \in {slots, [slots EXCEPT ![acct(r)] =
                                  [slots[acct(r)] EXCEPT !.bound = p]]}
      BY <1>14 DEF HandleTransport
    <3>2. acct(r) \in Accounts => p \in Proxies \cup {NoProxy}
      BY <3>1 DEF TypeOK, Slot
    <3>3. acct(r) \in Accounts => [slots[acct(r)] EXCEPT !.bound = p] \in Slot
      BY <3>2, SlotUpdates DEF TypeOK
    <3>4. slots \in [Accounts -> Slot]
      BY DEF TypeOK
    <3>5. [slots EXCEPT ![acct(r)] = [slots[acct(r)] EXCEPT !.bound = p]]
            \in [Accounts -> Slot]
      BY <3>3, <3>4, Overwrite
    <3> QED BY <3>1, <3>4, <3>5
  <2>2. limited' \in [Accounts -> BOOLEAN]
    BY <1>14 DEF HandleTransport, TypeOK
  <2> QED BY <1>0, <1>14, <2>1, <2>2 DEF HandleTransport, TypeOK
<1>15. CASE Reply(r)
  BY <1>15, LeaveType, ReleaseType DEF Reply, TypeOK, Ended
<1>16. CASE Retry(r)
  <2>1. acctFree' \in [Accounts -> Nat]
    BY <1>16, ReleaseType DEF Retry
  <2>2. retries' \in [Requests -> Nat]
    BY <1>16 DEF Retry, TypeOK
  <2>3. chosen' \in [Requests -> Choice]
    BY <1>16 DEF Retry, TypeOK, NoChoice, Choice
  <2>4. verdict' \in [Requests -> Outcome \cup {"none"}]
    BY <1>16 DEF Retry, TypeOK
  <2> QED BY <1>0, <1>16, <2>1, <2>2, <2>3, <2>4 DEF Retry, TypeOK
<1>17. CASE GiveUp(r)
  BY <1>17, LeaveType, ReleaseType DEF GiveUp, TypeOK, Ended
<1>18. CASE Refuse(r)
  BY <1>18, LeaveType, ReleaseType DEF Refuse, TypeOK, Ended
<1> QED
  BY <1>1, <1>2, <1>3, <1>4, <1>5, <1>6, <1>7, <1>8, <1>9, <1>10, <1>11, <1>12, <1>13,
     <1>14, <1>15, <1>16, <1>17, <1>18 DEF Step

LEMMA DropType ==
  ASSUME TypeOK, NEW r \in Requests, Drop(r)
  PROVE  TypeOK'
<1>1. platFree' \in [Platforms -> Nat]
  BY ReleaseType DEF Drop, TypeOK
<1>2. abandoned' \in [Ips -> Nat]
  BY CountUp DEF Drop, TypeOK
<1>3. Leave(r, "dropped")
  BY DEF Drop
<1> QED BY <1>1, <1>2, <1>3, LeaveType DEF Ended

LEMMA EnvironmentType ==
  ASSUME TypeOK, Environment
  PROVE  TypeOK'
<1> USE DEF locals, index, semaphores, outside, engine, Churn
<1>0. churn < MaxChurn => churn + 1 \in 0 .. MaxChurn
  BY ForwardAssumption DEF TypeOK
<1>1. ASSUME NEW a \in Accounts, NEW v \in Slot, Churn,
             slots' = [slots EXCEPT ![a] = v],
             UNCHANGED <<engine, limited, proxies, semaphores, maxRetries>>
      PROVE  TypeOK'
  BY <1>0, <1>1, Overwrite DEF TypeOK
<1>2. ASSUME NEW a \in Accounts, NEW s \in AcctStatus \ {"pending"}, SetStatus(a, s)
      PROVE  TypeOK'
  <2>1. [slots[a] EXCEPT !.status = s] \in Slot
    BY SlotUpdates DEF TypeOK
  <2> QED BY <1>1, <1>2, <2>1 DEF SetStatus
<1>3. ASSUME NEW a \in Accounts, ResetQuota(a) PROVE TypeOK'
  <2>1. [slots[a] EXCEPT !.used = 0, !.status = "healthy"] \in Slot
    BY SlotUpdates DEF TypeOK
  <2> QED BY <1>1, <1>3, <2>1 DEF ResetQuota
<1>4. ASSUME NEW a \in Accounts, NEW p \in Proxies, Rebind(a, p) PROVE TypeOK'
  <2>1. [slots[a] EXCEPT !.bound = p] \in Slot
    BY SlotUpdates DEF TypeOK
  <2> QED BY <1>1, <1>4, <2>1 DEF Rebind
<1>5. ASSUME NEW a \in Accounts, RemoveAccount(a) PROVE TypeOK'
  <2>1. [slots[a] EXCEPT !.phase = "removed"] \in Slot
    BY SlotUpdates DEF TypeOK
  <2> QED BY <1>1, <1>5, <2>1 DEF RemoveAccount
<1>6. ASSUME NEW a \in Accounts, UploadAccount(a) PROVE TypeOK'
  <2>1. [phase |-> "listed", status |-> "pending", bound |-> NoProxy, used |-> 0] \in Slot
    BY DEF Slot, AcctStatus
  <2> QED BY <1>1, <1>6, <2>1 DEF UploadAccount
<1>7. ASSUME NEW p \in Proxies, NEW e \in Entry, ReloadProxy(p, e) PROVE TypeOK'
  BY <1>0, <1>7, Overwrite DEF ReloadProxy, TypeOK
<1>8. ASSUME NEW n \in RetrySettings, ChangeSettings(n) PROVE TypeOK'
  BY <1>0, <1>8, ForwardAssumption DEF ChangeSettings, TypeOK
<1>9. ASSUME NEW a \in Accounts, BackoffExpires(a) PROVE TypeOK'
  BY <1>9 DEF BackoffExpires, TypeOK
<1> QED BY <1>2, <1>3, <1>4, <1>5, <1>6, <1>7, <1>8, <1>9 DEF Environment

LEMMA StutterType ==
  ASSUME TypeOK, UNCHANGED vars
  PROVE  TypeOK'
BY DEF TypeOK, vars, locals, index, semaphores, outside

\* Type correctness of the forwarding engine: among others, no permit count and no
\* in-use count ever goes below zero.
THEOREM TypeCorrect == Spec => []TypeOK
<1>1. TypeOK /\ [Next]_vars => TypeOK'
  BY EngineType, DropType, EnvironmentType, StutterType DEF Next, AllEnded
<1> QED BY InitType, <1>1, PTL DEF Spec
=============================================================================
