------------------------------ MODULE Forward ------------------------------
(***************************************************************************)
(* The forwarding engine: scheduler::forward() run by many requests at     *)
(* once over the in-memory index of pools.rs.  One action per stretch of   *)
(* code between two awaits, so every interleaving the tokio worker threads *)
(* can produce is a behaviour; Select and Occupy are separate actions      *)
(* although no await parts them, because two worker threads run them in    *)
(* parallel.  The rest of the program (admin handlers, workers, probes)    *)
(* appears as the changes it makes to the index while requests are in      *)
(* flight, at most MaxChurn of them.                                       *)
(***************************************************************************)
EXTENDS Integers, FiniteSets, Adapter

CONSTANTS
  Requests, Accounts, Proxies, Ips, Platforms,
  NoAccount, NoProxy, NoIp,   \* Rust's None
  ReqPlatform,                \* the platform in a request's path
  AcctPlatform,               \* accounts.platform_slug
  MaxConcurrency,             \* permits of a platform's semaphore
  AcctConcurrency,            \* permits of an account's semaphore
  Isolation,                  \* platforms.same_ip_isolation
  Metered, QuotaLimit,        \* accounts with a quota_limit, and the limit
  InitSlot, InitExit,         \* what load_all() finds: account slots, exit IP of each proxy
  Codes, RevokeCodes, RateCodes, \* status codes upstreams send; StatusCodes of the platforms
  RetrySettings,              \* values the max_retries setting takes
  Droppable,                  \* requests whose caller may hang up
  MaxChurn                    \* bound on changes made by the rest of the program

VARIABLES
  pc,          \* where forward() stands
  chosen,      \* its locals acct, proxy, exit_ip
  verdict,     \* its local outcome (Transport: the Err arm)
  retries,     \* its local retries
  budget,      \* settings.max_retries as read on entry
  guard,       \* its local _acct_guard
  slots,       \* Pools.accounts
  limited,     \* accounts whose rate_limited_until lies in the future
  proxies,     \* Pools.proxies
  busy,        \* Pools.busy_exit_ips (an absent entry counts 0)
  platFree,    \* available permits of the platform semaphores
  acctFree,    \* available permits of the account semaphores
  maxRetries,  \* the max_retries setting
  churn,       \* changes made by the rest of the program so far
  abandoned    \* history: calls dropped between inc_exit_ip and dec_exit_ip

locals     == <<chosen, verdict, retries, budget, guard>>
index      == <<slots, limited, proxies>>
semaphores == <<platFree, acctFree>>
outside    == <<maxRetries, churn>>
vars == <<pc, locals, index, busy, semaphores, outside, abandoned>>

AcctStatus  == {"pending", "healthy", "manual_disabled", "hard_revoked"}
Selectable  == {"pending", "healthy"}
ProxyStatus == {"available", "manual_disabled"}
Slot  == [phase : {"future", "listed", "removed"}, status : AcctStatus,
          bound : Proxies \cup {NoProxy}, used : Nat]
Entry == [listed : BOOLEAN, status : ProxyStatus, exit_ip : Ips \cup {NoIp}]
Choice == [acct : Accounts \cup {NoAccount}, proxy : Proxies \cup {NoProxy},
           ip : Ips \cup {NoIp}]
NoChoice == [acct |-> NoAccount, proxy |-> NoProxy, ip |-> NoIp]

ASSUME ForwardAssumption ==
  /\ IsFiniteSet(Requests)
  /\ NoAccount \notin Accounts /\ NoProxy \notin Proxies /\ NoIp \notin Ips
  /\ ReqPlatform \in [Requests -> Platforms]
  /\ AcctPlatform \in [Accounts -> Platforms]
  /\ MaxConcurrency \in [Platforms -> Nat \ {0}]
  /\ AcctConcurrency \in [Accounts -> Nat \ {0}]
  /\ Isolation \in [Platforms -> BOOLEAN]
  /\ Metered \subseteq Accounts /\ QuotaLimit \in [Accounts -> Nat]
  /\ InitSlot \in [Accounts -> Slot]
  /\ \A a \in Metered : InitSlot[a].used <= QuotaLimit[a]
  /\ InitExit \in [Proxies -> Ips \cup {NoIp}]
  /\ RetrySettings \subseteq Nat /\ RetrySettings # {}
  /\ Codes \subseteq HttpStatus
  /\ Droppable \subseteq Requests
  /\ MaxChurn \in Nat

-----------------------------------------------------------------------------
(* Where a request stands.  A queued one holds nothing; an attempt occupies *)
(* its exit IP from "waiting" to the end of "calling".                      *)

Attempt   == {"chosen", "waiting", "calling", "settled", "handled"}
Occupying == {"waiting", "calling"}
Ended     == {"replied", "refused", "dropped"}
Admitted  == {"settings", "selecting", "diagnosing"} \cup Attempt
PC        == {"queued"} \cup Admitted \cup Ended

plat(r) == ReqPlatform[r]
acct(r) == chosen[r].acct
ip(r)   == chosen[r].ip

Init ==
  /\ pc = [r \in Requests |-> "queued"]
  /\ chosen = [r \in Requests |-> NoChoice]
  /\ verdict = [r \in Requests |-> "none"]
  /\ retries = [r \in Requests |-> 0]
  /\ budget = [r \in Requests |-> 0]
  /\ guard = [r \in Requests |-> "none"]
  /\ slots = InitSlot
  /\ limited = [a \in Accounts |-> FALSE]
  /\ proxies = [p \in Proxies |->
                  [listed |-> TRUE, status |-> "available", exit_ip |-> InitExit[p]]]
  /\ busy = [i \in Ips |-> 0]
  /\ platFree = MaxConcurrency
  /\ acctFree = AcctConcurrency
  /\ maxRetries \in RetrySettings
  /\ churn = 0
  /\ abandoned = [i \in Ips |-> 0]

-----------------------------------------------------------------------------
(* Selection: Pools::candidates and select().                               *)

Listed(a) == slots[a].phase = "listed"

HasProxy(a)  == slots[a].bound \in Proxies /\ proxies[slots[a].bound].listed
BoundEntry(a) == proxies[slots[a].bound]

\* Mutant of Candidates: the quota comparison admits the limit itself.
CandidatesAtLimit(pl) ==
  {a \in Accounts : /\ Listed(a)
                    /\ AcctPlatform[a] = pl
                    /\ slots[a].status \in Selectable
                    /\ ~limited[a]
                    /\ a \in Metered => slots[a].used <= QuotaLimit[a]}

Candidates(pl) ==
  {a \in Accounts : /\ Listed(a)
                    /\ AcctPlatform[a] = pl
                    /\ slots[a].status \in Selectable
                    /\ ~limited[a]
                    /\ a \in Metered => slots[a].used < QuotaLimit[a]}

BusyKey(a) ==
  IF HasProxy(a) /\ BoundEntry(a).exit_ip # NoIp THEN busy[BoundEntry(a).exit_ip] ELSE 0

Usable(pl) ==
  {a \in Candidates(pl) : HasProxy(a) /\ BoundEntry(a).status = "available"}

\* Usable accounts whose exit IP no call is counted on.
IdleAccts(pl) ==
  {a \in Usable(pl) : BoundEntry(a).exit_ip # NoIp => busy[BoundEntry(a).exit_ip] = 0}

\* First round: strict isolation; second round when it finds nobody.
Round(pl) ==
  IF Isolation[pl] /\ IdleAccts(pl) # {} THEN IdleAccts(pl) ELSE Usable(pl)

\* sort_by_key keeps the order of the hash map among equals, which is arbitrary.
LeastBusy(S) == {a \in S : \A b \in S : BusyKey(a) <= BusyKey(b)}

-----------------------------------------------------------------------------
(* forward(), stretch by stretch.                                           *)

\* Mutant of AcquirePlatform: the permit is taken without waiting for one.
AcquirePlatformUnchecked(r) ==
  /\ pc[r] = "queued"
  /\ platFree' = [platFree EXCEPT ![plat(r)] = @ - 1]
  /\ pc' = [pc EXCEPT ![r] = "settings"]
  /\ UNCHANGED <<locals, index, busy, acctFree, outside, abandoned>>

\* forward_handler has called forward(), whose first await is the platform semaphore.
AcquirePlatform(r) ==
  /\ pc[r] = "queued"
  /\ platFree[plat(r)] > 0
  /\ platFree' = [platFree EXCEPT ![plat(r)] = @ - 1]
  /\ pc' = [pc EXCEPT ![r] = "settings"]
  /\ UNCHANGED <<locals, index, busy, acctFree, outside, abandoned>>

ReadSettings(r) ==
  /\ pc[r] = "settings"
  /\ budget' = [budget EXCEPT ![r] = maxRetries]
  /\ pc' = [pc EXCEPT ![r] = "selecting"]
  /\ UNCHANGED <<chosen, verdict, retries, guard>>
  /\ UNCHANGED <<index, busy, semaphores, outside, abandoned>>

Select(r) ==
  /\ pc[r] = "selecting"
  /\ \E a \in LeastBusy(Round(plat(r))) :
       chosen' = [chosen EXCEPT ![r] =
                    [acct |-> a, proxy |-> slots[a].bound, ip |-> BoundEntry(a).exit_ip]]
  /\ pc' = [pc EXCEPT ![r] = "chosen"]
  /\ UNCHANGED <<verdict, retries, budget, guard>>
  /\ UNCHANGED <<index, busy, semaphores, outside, abandoned>>

\* select() returns None; diagnose_no_account() then queries the database.
NoneSelectable(r) ==
  /\ pc[r] = "selecting"
  /\ Usable(plat(r)) = {}
  /\ pc' = [pc EXCEPT ![r] = "diagnosing"]
  /\ UNCHANGED <<locals, index, busy, semaphores, outside, abandoned>>

\* inc_exit_ip, then account_permit(): None once the account has been deleted.
Occupy(r) ==
  /\ pc[r] = "chosen"
  /\ busy' = IF ip(r) = NoIp THEN busy ELSE [busy EXCEPT ![ip(r)] = @ + 1]
  /\ guard' = [guard EXCEPT ![r] = IF Listed(acct(r)) THEN "wanted" ELSE "none"]
  /\ pc' = [pc EXCEPT ![r] = "waiting"]
  /\ UNCHANGED <<chosen, verdict, retries, budget>>
  /\ UNCHANGED <<index, semaphores, outside, abandoned>>

AcquireAccount(r) ==
  /\ pc[r] = "waiting"
  /\ guard[r] = "wanted"
  /\ acctFree[acct(r)] > 0
  /\ acctFree' = [acctFree EXCEPT ![acct(r)] = @ - 1]
  /\ guard' = [guard EXCEPT ![r] = "held"]
  /\ pc' = [pc EXCEPT ![r] = "calling"]
  /\ UNCHANGED <<chosen, verdict, retries, budget>>
  /\ UNCHANGED <<index, busy, platFree, outside, abandoned>>

CallUnguarded(r) ==
  /\ pc[r] = "waiting"
  /\ guard[r] = "none"
  /\ pc' = [pc EXCEPT ![r] = "calling"]
  /\ UNCHANGED <<locals, index, busy, semaphores, outside, abandoned>>

\* Mutant of Vacated: the exit IP is looked up again through the account's binding.
VacatedByBinding(r) ==
  IF HasProxy(acct(r)) /\ BoundEntry(acct(r)).exit_ip # NoIp
     /\ busy[BoundEntry(acct(r)).exit_ip] > 0
  THEN [busy EXCEPT ![BoundEntry(acct(r)).exit_ip] = @ - 1] ELSE busy

\* dec_exit_ip of the exit IP cloned at selection, saturating at 0.
Vacated(r) ==
  IF ip(r) # NoIp /\ busy[ip(r)] > 0 THEN [busy EXCEPT ![ip(r)] = @ - 1] ELSE busy

\* send() and bytes() complete with a response: classify, dec_exit_ip.
Respond(r) ==
  /\ pc[r] = "calling"
  /\ \E code \in Codes :
       verdict' = [verdict EXCEPT ![r] = Classify(code, RevokeCodes, RateCodes)]
  /\ busy' = Vacated(r)
  /\ pc' = [pc EXCEPT ![r] = "settled"]
  /\ UNCHANGED <<chosen, retries, budget, guard>>
  /\ UNCHANGED <<index, semaphores, outside, abandoned>>

\* Mutant of FailToSend: the error arm forgets dec_exit_ip.
FailToSendStaysBusy(r) ==
  /\ pc[r] = "calling"
  /\ verdict' = [verdict EXCEPT ![r] = Transport]
  /\ pc' = [pc EXCEPT ![r] = "settled"]
  /\ UNCHANGED <<chosen, retries, budget, guard>>
  /\ UNCHANGED <<index, busy, semaphores, outside, abandoned>>

\* send() fails: connection refused, reset, timed out.
FailToSend(r) ==
  /\ pc[r] = "calling"
  /\ verdict' = [verdict EXCEPT ![r] = Transport]
  /\ busy' = Vacated(r)
  /\ pc' = [pc EXCEPT ![r] = "settled"]
  /\ UNCHANGED <<chosen, retries, budget, guard>>
  /\ UNCHANGED <<index, semaphores, outside, abandoned>>

\* Mutant of Credited: a success makes the account healthy whatever it was.
CreditedHealthy(slot) == [slot EXCEPT !.used = @ + 1, !.status = "healthy"]

\* The memory half of record_call(acct, true); a deleted account has no slot to update.
Credited(slot) ==
  [slot EXCEPT !.used = @ + 1, !.status = IF @ = "pending" THEN "healthy" ELSE @]

HandleSuccess(r) ==
  /\ pc[r] = "settled"
  /\ verdict[r] = "Success"
  /\ slots' = IF Listed(acct(r)) THEN [slots EXCEPT ![acct(r)] = Credited(@)] ELSE slots
  /\ pc' = [pc EXCEPT ![r] = "handled"]
  /\ UNCHANGED <<locals, limited, proxies, busy, semaphores, outside, abandoned>>

\* The memory half of set_status(acct, "hard_revoked").
HandleRevoked(r) ==
  /\ pc[r] = "settled"
  /\ verdict[r] = "HardRevoked"
  /\ slots' = IF Listed(acct(r)) THEN [slots EXCEPT ![acct(r)].status = "hard_revoked"]
                                 ELSE slots
  /\ pc' = [pc EXCEPT ![r] = "handled"]
  /\ UNCHANGED <<locals, limited, proxies, busy, semaphores, outside, abandoned>>

HandleRateLimited(r) ==
  /\ pc[r] = "settled"
  /\ verdict[r] = "RateLimited"
  /\ limited' = [limited EXCEPT ![acct(r)] = TRUE]
  /\ pc' = [pc EXCEPT ![r] = "handled"]
  /\ UNCHANGED <<locals, slots, proxies, busy, semaphores, outside, abandoned>>

\* Only a log line (and the failure count, which AccountStore models).
HandleOther(r) ==
  /\ pc[r] = "settled"
  /\ verdict[r] \in {"Transient", "OtherError"}
  /\ pc' = [pc EXCEPT ![r] = "handled"]
  /\ UNCHANGED <<locals, index, busy, semaphores, outside, abandoned>>

\* The Err arm: after the log line, bind_account picks a proxy (perhaps the same, or
\* none) from the database, then mark_rate_limited for 30 s.
HandleTransport(r) ==
  /\ pc[r] = "settled"
  /\ verdict[r] = Transport
  /\ \E p \in Proxies \cup {slots[acct(r)].bound} :
       slots' = IF Listed(acct(r)) THEN [slots EXCEPT ![acct(r)].bound = p] ELSE slots
  /\ limited' = [limited EXCEPT ![acct(r)] = TRUE]
  /\ pc' = [pc EXCEPT ![r] = "handled"]
  /\ UNCHANGED <<locals, proxies, busy, semaphores, outside, abandoned>>

\* Mutant of GuardReleased: the permit goes back only while the account is listed.
GuardReleasedIfListed(r) ==
  IF guard[r] = "held" /\ Listed(acct(r)) THEN [acctFree EXCEPT ![acct(r)] = @ + 1]
                                          ELSE acctFree

GuardReleased(r) ==
  IF guard[r] = "held" THEN [acctFree EXCEPT ![acct(r)] = @ + 1] ELSE acctFree
PlatformReleased(r) == [platFree EXCEPT ![plat(r)] = @ + 1]

\* forward() ends: its guards and locals go out of scope.
Leave(r, how) ==
  /\ acctFree' = GuardReleased(r)
  /\ guard' = [guard EXCEPT ![r] = "none"]
  /\ chosen' = [chosen EXCEPT ![r] = NoChoice]
  /\ verdict' = [verdict EXCEPT ![r] = "none"]
  /\ retries' = [retries EXCEPT ![r] = 0]
  /\ budget' = [budget EXCEPT ![r] = 0]
  /\ pc' = [pc EXCEPT ![r] = how]
  /\ UNCHANGED <<index, busy, outside>>

Reply(r) ==
  /\ pc[r] = "handled"
  /\ verdict[r] \in Forwarded
  /\ platFree' = PlatformReleased(r)
  /\ Leave(r, "replied")
  /\ UNCHANGED abandoned

\* Mutant of Retry: the account guard is overwritten without giving its permit back.
RetryKeepsGuard(r) ==
  /\ pc[r] = "handled"
  /\ verdict[r] \notin Forwarded
  /\ retries[r] + 1 <= budget[r]
  /\ retries' = [retries EXCEPT ![r] = @ + 1]
  /\ guard' = [guard EXCEPT ![r] = "none"]
  /\ chosen' = [chosen EXCEPT ![r] = NoChoice]
  /\ verdict' = [verdict EXCEPT ![r] = "none"]
  /\ pc' = [pc EXCEPT ![r] = "selecting"]
  /\ UNCHANGED budget
  /\ UNCHANGED <<index, busy, semaphores, outside, abandoned>>

\* Mutant of Retry: one attempt too many.
RetryOnceMore(r) ==
  /\ pc[r] = "handled"
  /\ verdict[r] \notin Forwarded
  /\ retries[r] <= budget[r]
  /\ retries' = [retries EXCEPT ![r] = @ + 1]
  /\ acctFree' = GuardReleased(r)
  /\ guard' = [guard EXCEPT ![r] = "none"]
  /\ chosen' = [chosen EXCEPT ![r] = NoChoice]
  /\ verdict' = [verdict EXCEPT ![r] = "none"]
  /\ pc' = [pc EXCEPT ![r] = "selecting"]
  /\ UNCHANGED budget
  /\ UNCHANGED <<index, busy, platFree, outside, abandoned>>

\* Mutant of Retry: the attempt is not counted.
RetryUncounted(r) ==
  /\ pc[r] = "handled"
  /\ verdict[r] \notin Forwarded
  /\ retries[r] + 1 <= budget[r]
  /\ acctFree' = GuardReleased(r)
  /\ guard' = [guard EXCEPT ![r] = "none"]
  /\ chosen' = [chosen EXCEPT ![r] = NoChoice]
  /\ verdict' = [verdict EXCEPT ![r] = "none"]
  /\ pc' = [pc EXCEPT ![r] = "selecting"]
  /\ UNCHANGED <<retries, budget>>
  /\ UNCHANGED <<index, busy, platFree, outside, abandoned>>

\* End of the loop body: its locals and the account guard go, the platform guard stays.
Retry(r) ==
  /\ pc[r] = "handled"
  /\ verdict[r] \notin Forwarded
  /\ retries[r] + 1 <= budget[r]
  /\ retries' = [retries EXCEPT ![r] = @ + 1]
  /\ acctFree' = GuardReleased(r)
  /\ guard' = [guard EXCEPT ![r] = "none"]
  /\ chosen' = [chosen EXCEPT ![r] = NoChoice]
  /\ verdict' = [verdict EXCEPT ![r] = "none"]
  /\ pc' = [pc EXCEPT ![r] = "selecting"]
  /\ UNCHANGED budget
  /\ UNCHANGED <<index, busy, platFree, outside, abandoned>>

\* Mutant of GiveUp: the last failure leaves with the platform permit.
GiveUpKeepsPermit(r) ==
  /\ pc[r] = "handled"
  /\ verdict[r] \notin Forwarded
  /\ retries[r] + 1 > budget[r]
  /\ Leave(r, "refused")
  /\ UNCHANGED <<platFree, abandoned>>

GiveUp(r) ==
  /\ pc[r] = "handled"
  /\ verdict[r] \notin Forwarded
  /\ retries[r] + 1 > budget[r]
  /\ platFree' = PlatformReleased(r)
  /\ Leave(r, "refused")
  /\ UNCHANGED abandoned

Refuse(r) ==
  /\ pc[r] = "diagnosing"
  /\ platFree' = PlatformReleased(r)
  /\ Leave(r, "refused")
  /\ UNCHANGED abandoned

(***************************************************************************)
(* The caller hangs up and axum drops the handler's future.  That can only *)
(* happen where the future is suspended: at an await.  Dropping releases   *)
(* the semaphore guards; nothing gives back the exit IP counter.           *)
(***************************************************************************)
Suspended(r) ==
  \/ pc[r] \in {"queued", "settings", "diagnosing", "calling"}
  \/ pc[r] = "waiting" /\ guard[r] = "wanted"
  \/ pc[r] = "settled" /\ verdict[r] = Transport
  \/ pc[r] = "handled" /\ verdict[r] # Transport

Drop(r) ==
  /\ r \in Droppable
  /\ Suspended(r)
  /\ platFree' = IF pc[r] \in Admitted THEN PlatformReleased(r) ELSE platFree
  /\ abandoned' = IF pc[r] \in Occupying /\ ip(r) # NoIp
                    THEN [abandoned EXCEPT ![ip(r)] = @ + 1] ELSE abandoned
  /\ Leave(r, "dropped")

-----------------------------------------------------------------------------
(* The rest of the program, as the forwarding engine meets it.              *)

Churn == churn < MaxChurn /\ churn' = churn + 1
engine == <<pc, locals, busy, abandoned>>

\* set_status: enable and disable handlers, probe_account.
SetStatus(a, s) ==
  /\ Churn
  /\ Listed(a) /\ slots[a].status # s
  /\ slots' = [slots EXCEPT ![a].status = s]
  /\ UNCHANGED <<engine, limited, proxies, semaphores, maxRetries>>

\* The memory half of reset_quotas for one account.
ResetQuota(a) ==
  /\ Churn
  /\ Listed(a)
  /\ slots' = [slots EXCEPT ![a] = [@ EXCEPT !.used = 0, !.status = "healthy"]]
  /\ UNCHANGED <<engine, limited, proxies, semaphores, maxRetries>>

\* bind_account and patch_account.
Rebind(a, p) ==
  /\ Churn
  /\ Listed(a) /\ slots[a].bound # p
  /\ slots' = [slots EXCEPT ![a].bound = p]
  /\ UNCHANGED <<engine, limited, proxies, semaphores, maxRetries>>

\* delete_account: accounts.remove, acct_permits.remove.
RemoveAccount(a) ==
  /\ Churn
  /\ Listed(a)
  /\ slots' = [slots EXCEPT ![a].phase = "removed"]
  /\ UNCHANGED <<engine, limited, proxies, semaphores, maxRetries>>

\* upload_accounts: ids are AUTOINCREMENT, so a removed account never comes back.
UploadAccount(a) ==
  /\ Churn
  /\ slots[a].phase = "future"
  /\ slots' = [slots EXCEPT ![a] =
                 [phase |-> "listed", status |-> "pending", bound |-> NoProxy, used |-> 0]]
  /\ UNCHANGED <<engine, limited, proxies, semaphores, maxRetries>>

\* sync_group, disable_proxy, enable_proxy, delete_proxy_group.
ReloadProxy(p, e) ==
  /\ Churn
  /\ proxies[p] # e
  /\ proxies' = [proxies EXCEPT ![p] = e]
  /\ UNCHANGED <<engine, slots, limited, semaphores, maxRetries>>

ChangeSettings(n) ==
  /\ Churn
  /\ maxRetries # n
  /\ maxRetries' = n
  /\ UNCHANGED <<engine, index, semaphores>>

\* rate_limited_until passes.
BackoffExpires(a) ==
  /\ limited[a]
  /\ limited' = [limited EXCEPT ![a] = FALSE]
  /\ UNCHANGED <<engine, slots, proxies, semaphores, outside>>

Step(r) ==
  \/ AcquirePlatform(r) \/ ReadSettings(r) \/ Select(r) \/ NoneSelectable(r)
  \/ Occupy(r) \/ AcquireAccount(r) \/ CallUnguarded(r)
  \/ Respond(r) \/ FailToSend(r)
  \/ HandleSuccess(r) \/ HandleRevoked(r) \/ HandleRateLimited(r)
  \/ HandleOther(r) \/ HandleTransport(r)
  \/ Reply(r) \/ Retry(r) \/ GiveUp(r) \/ Refuse(r)

Environment ==
  \/ \E a \in Accounts, s \in AcctStatus \ {"pending"} : SetStatus(a, s)
  \/ \E a \in Accounts : ResetQuota(a)
  \/ \E a \in Accounts, p \in Proxies : Rebind(a, p)
  \/ \E a \in Accounts : RemoveAccount(a)
  \/ \E a \in Accounts : UploadAccount(a)
  \/ \E p \in Proxies, e \in Entry : ReloadProxy(p, e)
  \/ \E n \in RetrySettings : ChangeSettings(n)
  \/ \E a \in Accounts : BackoffExpires(a)

\* Every request has ended and the server waits for the next one.
AllEnded == (\A r \in Requests : pc[r] \in Ended) /\ UNCHANGED vars

Next ==
  \/ \E r \in Requests : Step(r) \/ Drop(r)
  \/ Environment
  \/ AllEnded

Spec == Init /\ [][Next]_vars
(* A task that can run is polled; tokio's semaphores are FIFO; reqwest's    *)
(* timeout bounds every call.  Callers owe nothing, nor does the            *)
(* environment.                                                             *)
FairSpec == Spec /\ \A r \in Requests : WF_vars(Step(r))

-----------------------------------------------------------------------------
TypeOK ==
  /\ pc \in [Requests -> PC]
  /\ chosen \in [Requests -> Choice]
  /\ verdict \in [Requests -> Outcome \cup {"none"}]
  /\ retries \in [Requests -> Nat]
  /\ budget \in [Requests -> Nat]
  /\ guard \in [Requests -> {"none", "wanted", "held"}]
  /\ slots \in [Accounts -> Slot]
  /\ limited \in [Accounts -> BOOLEAN]
  /\ proxies \in [Proxies -> Entry]
  /\ busy \in [Ips -> Nat]
  /\ platFree \in [Platforms -> Nat]
  /\ acctFree \in [Accounts -> Nat]
  /\ maxRetries \in Nat
  /\ churn \in 0 .. MaxChurn
  /\ abandoned \in [Ips -> Nat]

OnIp(i)       == {r \in Requests : pc[r] \in Occupying /\ ip(r) = i}
Admissions(pl) == {r \in Requests : pc[r] \in Admitted /\ plat(r) = pl}
Holders(a)    == {r \in Requests : guard[r] = "held" /\ acct(r) = a}
OnAccount(a)  == {r \in Requests : pc[r] \in Attempt \ {"handled"} /\ acct(r) = a}

(***************************************************************************)
(* busy_exit_ips counts, for every exit IP, the attempts that occupy it    *)
(* plus those abandoned by callers who hung up: inc and dec pair up        *)
(* although the proxy, its exit IP and the account's binding may all       *)
(* change in between, and the saturation of dec_exit_ip never bites.       *)
(***************************************************************************)
BusyAccounting ==
  \A i \in Ips : busy[i] = Cardinality(OnIp(i)) + abandoned[i]

(***************************************************************************)
(* No permit of a platform semaphore is lost or invented on any path out   *)
(* of forward(), so a platform never has more than max_concurrency         *)
(* requests past admission.                                                *)
(***************************************************************************)
PlatformPermits ==
  \A pl \in Platforms :
    platFree[pl] + Cardinality(Admissions(pl)) = MaxConcurrency[pl]

(***************************************************************************)
(* The same for the account semaphores; and every call that goes out on an *)
(* account still listed holds one of its permits, so single-account        *)
(* concurrency stays within its limit across retries and deletions.        *)
(***************************************************************************)
AccountPermits ==
  \A a \in Accounts :
    /\ acctFree[a] + Cardinality(Holders(a)) = AcctConcurrency[a]
    /\ Listed(a) => Cardinality({r \in Requests : pc[r] = "calling" /\ acct(r) = a})
                      <= AcctConcurrency[a]

(***************************************************************************)
(* The quota check of candidates() and the increment of record_call are    *)
(* far apart, so a quota can be overrun, but by less than the platform's   *)
(* concurrency: what is used and what is under way never exceed            *)
(* quota_limit + max_concurrency - 1.                                      *)
(***************************************************************************)
QuotaOvershoot ==
  \A a \in Metered :
    Listed(a) /\ OnAccount(a) # {} =>
      slots[a].used + Cardinality(OnAccount(a))
        <= QuotaLimit[a] + MaxConcurrency[AcctPlatform[a]] - 1

(***************************************************************************)
(* An account taken out of rotation stays out of it as far as forwarding   *)
(* is concerned: a success that was in flight when another request drew a  *)
(* revoke code (or an admin disabled the account) does not put it back.    *)
(***************************************************************************)
NotRevived ==
  \A a \in Accounts :
    slots[a].status \notin Selectable /\ slots'[a].status \in Selectable => churn' # churn

ForwardingNeverRevives == [][NotRevived]_vars

\* r's next step can be taken: the permit it needs is there, a least busy account is to be
\* found if any is usable, and the outcome has its arm in the match.
Ready(r) ==
  \/ pc[r] \in {"settings", "chosen", "calling", "handled", "diagnosing"}
  \/ pc[r] = "queued" /\ platFree[plat(r)] > 0
  \/ pc[r] = "selecting" /\ (Usable(plat(r)) # {} => LeastBusy(Round(plat(r))) # {})
  \/ /\ pc[r] = "waiting"
     /\ guard[r] = "none" \/ (guard[r] = "wanted" /\ acctFree[acct(r)] > 0)
  \/ pc[r] = "settled" /\ verdict[r] \in Outcome

(***************************************************************************)
(* Requests keep a platform permit while they wait for an account's, yet   *)
(* they never end up waiting for each other, through retries, deletions    *)
(* and callers who hang up: a request that has not ended can go on, or     *)
(* waits for a permit one of whose holders can.                            *)
(***************************************************************************)
NobodyStuck ==
  \A r \in Requests : pc[r] \notin Ended =>
    \/ Ready(r)
    \/ \E q \in IF pc[r] = "queued" THEN Admissions(plat(r)) ELSE Holders(acct(r)) : Ready(q)

\* How far from its end a position is: its stage, and within the loop the steps ahead.
Stage(p) == CASE p = "queued" -> 3 [] p = "settings" -> 2 [] p \in Ended -> 0 [] OTHER -> 1
Ahead(p) == CASE p = "selecting" -> 6 [] p \in {"chosen", "diagnosing"} -> 5 [] p = "waiting" -> 4
              [] p = "calling" -> 3 [] p = "settled" -> 2 [] OTHER -> 1
Spare(r) == budget[r] - retries[r]

\* r's position is closer to its end after the step than before it.
Closer(r) ==
  \/ Stage(pc'[r]) < Stage(pc[r])
  \/ /\ Stage(pc'[r]) = Stage(pc[r])
     /\ \/ Spare(r)' \in 0 .. Spare(r) - 1
        \/ Spare(r)' = Spare(r) /\ Ahead(pc'[r]) < Ahead(pc[r])

(***************************************************************************)
(* Requests run out of steps: whatever a request does, and however often   *)
(* the setting changes meanwhile, it comes closer to its end, in stage, in *)
(* retries left of those it read on entry, or in steps left of an attempt. *)
(***************************************************************************)
MoversComeCloser == \A r \in Requests : pc'[r] # pc[r] => Closer(r)
StepsRunOut == [][MoversComeCloser]_vars

\* Every request that entered forward() ends: with a reply, a refusal or its caller gone.
EveryRequestEnds == \A r \in Requests : (pc[r] = "queued") ~> (pc[r] \in Ended)

-----------------------------------------------------------------------------
(* What a caller sees of it.                                                *)

Contract == INSTANCE Gateway WITH
  phase <- [r \in Requests |-> IF pc[r] \in Admitted THEN "admitted" ELSE pc[r]],
  calls <- [r \in Requests |->
              retries[r] + IF pc[r] \in {"calling", "settled", "handled"} THEN 1 ELSE 0],
  limit <- budget

(***************************************************************************)
(* forward() keeps the promise of Gateway: bounded admission, at most      *)
(* max_retries + 1 calls per request under the value read on entry, a      *)
(* reply only from a call, and no step after the end.                      *)
(***************************************************************************)
ForwardKeepsPromise == Contract!Promise

-----------------------------------------------------------------------------
(* Claims of the repository that the code does not keep.                    *)

\* pools.rs: busy_exit_ips is "the count of exit IPs currently in use".
InUseCountExact == \A i \in Ips : busy[i] = Cardinality(OnIp(i))

\* scheduler.rs: the first round isolates strictly.  An attempt starts on a busy exit
\* IP only if at that moment no usable account had a quiet one.
StrictFirstRound ==
  [][\A r \in Requests :
       /\ pc[r] = "chosen" /\ pc'[r] = "waiting"
       /\ Isolation[plat(r)] /\ ip(r) # NoIp
       /\ busy[ip(r)] > 0
       => IdleAccts(plat(r)) = {}]_vars
=============================================================================
