# A TLA+ model of the research-tool key pool

The gateway (`src/src/*.rs`, a tokio/axum program over SQLite) forwards calls to research-tool
platforms through a pool of upstream accounts, each bound to a proxy. It keeps a hot copy of
accounts and proxies in memory, the durable copy in SQLite, and changes both from request
handlers, administrator handlers and background workers. Nothing is protected by a lock held
across an await, so what matters is how those tasks interleave. That is the subject of this
project.

* [Inventory](#inventory)
* [Modules](#modules) and how they correspond to the code
* [Runs](#runs), their bounds and the fairness they assume
* [Disagreements between code and documentation](#disagreements-between-code-and-documentation)
* [Proofs](#proofs)
* [What is not modelled](#what-is-not-modelled)
* [Plan](#plan)

## Inventory

| Component | State it keeps | Operations | Interacts through |
|---|---|---|---|
| Forwarding engine (`scheduler.rs`: `forward`, `select`) | locals of each running request | admit, select, occupy, call, classify, handle, retry, leave | reads and writes `Pools`; calls `record_call`, `set_status`, `mark_rate_limited`, `bind_account` |
| Index and semaphores (`pools.rs`: `Pools`) | account slots, proxy entries, in-use counts of exit IPs, platform and account semaphores | `candidates`, `proxy_available`, `inc_exit_ip`, `dec_exit_ip`, `ensure_platform_permit`, `account_permit`, `load_all` | shared by every task (DashMap, `Arc<Semaphore>`) |
| Account lifecycle (`pools.rs`, `sync.rs`, `api_admin.rs`) | slot in memory and row in `accounts` | `set_status`, `record_call`, `reset_quotas`, `upload_accounts`, `delete_account`, `patch_account` | two writes each, an await in between; `load_all` after a restart |
| Proxies and binding (`sync.rs`, `api_admin.rs`) | `proxies`, `proxy_groups`, `platform_proxy_groups`, `accounts.bound_proxy_id`, and their copies in memory | `sync_all_groups`, `sync_group`, `reload_group_proxies`, `rebind_null_accounts`, `bind_account`, enable/disable proxy, create/patch/delete group, relink platform, pin account | subscriptions over HTTP; the foreign keys of the schema |
| Probing (`scheduler.rs`: `probe_account`; activate handlers) | none | read row, call, `set_status` | account lifecycle, `bind_account` |
| Platform adapters (`adapter.rs`) | none | `prepare`, `classify`, `balance`, `probe` | called by the engine |
| Token gate (`auth.rs`, `api_forward.rs`, `api_admin.rs`) | `issued_tokens`, `token_platforms` | look up token, platform and right; create, edit and delete tokens | in front of `forward()` and the platform's semaphore |
| Configuration (`api_admin.rs`, `main.rs`) | `settings`, `platforms`, two atomics | patch, enable and disable platform, patch settings | engine, gate, pools, workers |
| Call log (`pools.rs`, `scheduler.rs`, `sync.rs`) | `call_logs`, `issued_tokens.call_count` | `inc_token_count`, `write_call_log`, `cleanup_logs` | foreign keys to tokens, accounts and proxies; `settings.log_max_mb` |
| Balance refresh (`sync.rs`) | `accounts.reset_at`, an estimate | `refresh_balances` | picks in memory, writes rows the quota worker reads |
| Sessions, startup, schema, encryption, front end | — | — | — |

What is hard about it, and the properties that make each component correct:

* **Forwarding.** Selecting and counting are separate operations on a concurrent map;
  counters and permits are taken and given back across network calls, retries, account
  deletion, proxy changes and callers who hang up (axum drops the future at an await). Correct
  means: no permit and no in-use count is lost or invented, the platform's and the account's
  concurrency hold, a quota is overrun by a bounded amount at most, a late success never
  undoes a revocation, a request makes a bounded number of calls and ends.
* **Account lifecycle.** `set_status` and `record_call` write memory first, `reset_quotas`,
  `upload_accounts` and `delete_account` the database first; statements may fail, and the
  process may stop between the two. Correct means: no success is counted twice or forgotten,
  a restart never makes a quota laxer, an account that is due comes back.
* **Token gate.** Token, platform and right are read at three moments, then the permit is waited
  for; administrators edit tokens statement by statement, outside of transactions. Correct
  means: a deleted token opens nothing, an edit grants what was asked, permits are conserved.
* **Call log.** A success is written to the account, to the token and to the log by three
  statements whose errors are discarded, while the rows the log names may be deleted and an
  hourly worker cuts it. Correct means: nothing is in the log that was not counted, every
  attempt is in it once unless something identifiable took it, the newest rows survive, the
  log returns under its limit.
* **Binding.** Several tasks sync, rebind, prune and delete at once over a schema with
  foreign keys; failing statements are mostly ignored. Correct means: both copies agree, the
  load is spread, the index recovers, no account stays without proxy while there is one.

The full list of hazards, each at its line and with the properties that watch it, is under
`hazards` in `PROJECT.json`.

## Modules

| Module | What it is |
|---|---|
| `Adapter` | `PlatformAdapter::classify` (the four adapters share it) as an operator |
| `Forward` | `forward()` run by many requests over the index and the semaphores |
| `Gateway` | abstract specification: what a caller is promised; `Forward` implements it |
| `TokenGate` | what a request passes before `forward()`, against edits of tokens and platforms and restarts |
| `AccountStore` | an account's slot and row under the operations, the reset and balance workers and restarts |
| `ProxyBinding` | proxies, links and bindings in both copies under syncs, binders and administrators |
| `CallLedger` | the token's count and the call log under requests, deletions, the cleanup and crashes |
| `Counting` | lemmas about counters, cardinalities and least numbers that the proofs share |
| `ForwardProofs` | type correctness of `Forward` |
| `ForwardSafety` | the accounting, quota, no-revival and nobody-stuck theorems |
| `ForwardContract` | `Forward` implements `Gateway`, and its requests run out of steps |
| `GateProofs`, `StoreProofs`, `BindingProofs`, `LedgerProofs` | the theorems of the other four modules |
| `MCForward`, `MCTokenGate`, `MCAccountStore`, `MCProxyBinding`, `MCCallLedger` | constants for TLC |

`Forward` describes the server with the in-memory half of its state only. `TokenGate` is what
comes before it, with `forward()` reduced to the permit it takes and gives back;
`AccountStore`, `ProxyBinding` and `CallLedger` describe what it and the others write, with
the engine reduced to the calls it makes there. Conversely the environment actions of
`Forward` (`SetStatus`, `ResetQuota`, `Rebind`, `RemoveAccount`, `UploadAccount`,
`ReloadProxy`, `ChangeSettings`, `BackoffExpires`) are the memory halves of what those modules
do. A definition whose comment begins "Mutant of" is no part of the system: it is a plausible
mistake in the definition below it, used to see that the properties notice.

### Forward

`pc[r]` is where a request stands between two awaits of `forward()`:

| `pc` | Code (`scheduler.rs`) | Leaves by |
|---|---|---|
| `queued` | waiting on the platform semaphore | `AcquirePlatform` |
| `settings` | awaiting `get_settings` | `ReadSettings` |
| `selecting` | head of the loop | `Select`, `NoneSelectable` |
| `diagnosing` | `diagnose_no_account` | `Refuse` |
| `chosen` | between `select()` and `inc_exit_ip` | `Occupy` |
| `waiting` | awaiting the account's permit | `AcquireAccount`, `CallUnguarded` |
| `calling` | awaiting `send()` and `bytes()` | `Respond`, `FailToSend` |
| `settled` | `dec_exit_ip` done, before the outcome's effect on memory | `HandleSuccess`, `HandleRevoked`, `HandleRateLimited`, `HandleOther`, `HandleTransport` |
| `handled` | awaiting the database half and the log | `Reply`, `Retry`, `GiveUp` |

`chosen`, `verdict`, `retries`, `budget`, `guard` are the locals `acct/proxy/exit_ip`,
`outcome`, `retries`, `max_retries` and `_acct_guard`; `slots`, `proxies`, `busy`, `platFree`,
`acctFree` are the fields of `Pools`. `Select` and `Occupy` are two actions although no await
parts them: two worker threads run them in parallel. `Drop` is possible exactly where the
future is suspended (`Suspended`), gives the permits back and, like the code, not the in-use
count; `abandoned` is a history variable that remembers those. An account that was deleted has
no semaphore any more, hence `guard = "none"` and `CallUnguarded`.

Data abstracted: bodies, headers, URLs and keys; an upstream answer is its status code. A
back-off is a flag that may end at any moment, which covers every `Retry-After`. `Select`
takes the busy counts at one moment, whereas the sort in the code may read them while other
threads change them. Quota limits and permit counts are constants: `ensure_platform_permit`
never changes a semaphore that exists, which `PermitsMatch` of `TokenGate` establishes.

### TokenGate

A request goes from `new` through four separate moments: `Authenticate` (`require_forward`
finds the token), `LookUpPlatform` (`forward_handler`, once the body is there, reads `enabled`
and `max_concurrency`), `Pass` or `TurnAway` (the row of `token_platforms`, and
`ensure_platform_permit` with the limit read before), and `Enter` (the permit); `Return` gives
the permit back, `Abandon` is a query that fails, a body that does not arrive or a caller who
hangs up. `edit[e]` is a `create_token` or `patch_token` between two of its statements:
`CreateToken` and `PatchToken` are the first one (the row; the DELETE of all platforms),
`InsertRight` each further one, `InsertRefused` the foreign key when the token has been
deleted, `EditFails` an unknown slug, an error or an administrator who hangs up.
`DeleteToken`, `SwitchPlatform` and `PatchLimit` are single statements. `permit[pl]` is the
entry of `Pools.plat_permits` with size and free permits; `Restart` rebuilds all of them as
`main` does, or ends in a server that is down, because `Semaphore::new` panics on a negative
limit cast to `usize`. Token ids are never reused. Two history variables: `wish[t]` is what
the edits of a token should leave it with, and whether exactly that (no overlap, no failure);
`booted` is the limit at the last start.

### AccountStore

`mem` and `db` are the slot and the row (`used` for `quota_used`, `fails` for
`consecutive_failures`, `reset` for `reset_at`: NULL, past or later). A task runs one
operation at a time; `task[t].at` names the statement it is about to execute and `task[t].val`
the status it carries over an await. `record_call` looks the slot up a second time for the
status it will write (`RecordReread`), as the code does. `worker` is `reset_quotas`: one read
of the due ids, then two writes per id. `balance` is `refresh_balances`: it picks healthy
accounts in memory, and each answer may give a row its reset date, which a row that has one
ignores (`BalanceAnswer`). `Lose` is a statement whose error is discarded or a future that is
dropped; `Restart` is `load_all`. The history variables `unsaved` (successes counted in memory
whose UPDATE was lost), `renewed` (accounts reset since the start) and `crossed` (accounts
whose last change of either copy lost its second statement, or began between the two writes of
another operation) serve the statements of the properties.

### ProxyBinding

A proxy is a row id; ids are never reused, so each has one life: `unused`, then a status, then
`deleted`. So do groups, with `enabled` and `disabled`. `StartRound` is the worker's list of
enabled groups, `round` those it has still to visit in this round (`Fetch`, `FetchFails`); the
administrator's button syncs any group, enabled or not. Several ids can stand for the same
server of the same group. `sync[s]` is a `sync_group` under way (fetch, upsert one by one,
prune one by one, clear the index, read the rows, insert, rebind), `bind[x]` a `bind_account`,
`queue[x]` the accounts its caller has still to pass to it, `admin` an administrator's
operation between its statement and its memory half. The foreign keys are modelled: an INSERT
for a deleted group is refused (`UpsertRefused`), a deleted proxy unbinds its accounts in the
database (`Without`), an UPDATE naming a proxy that is gone fails and its error is discarded
(`BindWrite`). Other statements fail as well, each with the effect the code gives it: an error
returned ends the sync (`SyncFails`), an error discarded leaves the database as it was and the
code goes on (`PruneFails`, `BindWriteFails`), a query that fails counts as empty
(`ReadFails`, `RebindScanFails`, `LinksUnread`, `BindQueryFails`). `HangUp` drops a handler at
an await (the worker is nobody's handler), `AdminHangsUp` an administrator's operation between
its two halves. Feeds change too; `MaxChurn` bounds all of that together. `torn` is a history
variable: the accounts whose last binding was not written to both copies in one go, because
the UPDATE failed, a handler was dropped before it set the slot, or another caller of
`bind_account` stood between its UPDATE and its slot at that moment.

### CallLedger

`call[r]` is `forward()` reduced to its calls and what it writes: `Start`, `Select`,
`Answered`, then for a success or another error `RecordCall` (the account's row, followed by
`AccountStore`), for a success `CountToken` (`inc_token_count`), and for every attempt
`WriteLog`; then `Continue`, which is the answer, the next attempt or the end of the retries.
`log` is `call_logs` in the order of its ids. Its three foreign keys are modelled: a row
naming something deleted during the call is refused and, as the error is discarded, lost
(`LogRefused`); deleting a token, an account or a proxy sets its references to NULL
(`Unlinked`). Selection reads the index, which forgets a deleted account or proxy a little
later (`Forget`). The cleanup is three awaits apart: `ReadLogMax`, `Count`, `DeleteOldest`;
`CountFails` counts zero, `DeleteFails` changes nothing. `MaxRows` multiplies modulo `2 *
Half` as an i64 does in a release build and divides towards zero. Status codes, durations and
times are left out: an attempt is a success, another recorded error, or one that is tried
again. History variables: `missing[r]` and `cut[r]` are the attempts a foreign key or the
cleanup took, `faults` the tokens whose count failed and the requests a failure, a hang-up or
a crash cut short.

## Runs

Deadlock is checked in every run; where the system may rest, a self-loop (`AllEnded`,
`AtRest`) says so.

| Run | Instance | What it shows |
|---|---|---|
| `fwd_safety` | 3 requests, 2 accounts and 2 proxies behind one exit IP, 2 platform permits, 1 permit per account, quota 1 on one account, codes 200/401/429 and transport errors, 1 retry, any caller may hang up | `TypeOK`, `BusyAccounting`, `PlatformPermits`, `AccountPermits`, `QuotaOvershoot`, `NobodyStuck`, `ForwardingNeverRevives`, and `ForwardKeepsPromise` (refinement of `Gateway`) |
| `fwd_churn` | 2 requests, 0 or 1 retries, codes 200/401/503, one exit IP unknown, one account still to be uploaded, and one change by the rest of the program at any moment; fair | the accounting under churn, no revival, `StepsRunOut`, and `EveryRequestEnds` |
| `gate` | 2 requests to one of 2 platforms, 1 token still to be created, 2 editors, an initial limit of 0 changed to 2 or -1, 5 administrators' operations, 1 restart; fair | `TypeOK`, `RightsAsAsked`, `PermitsMatch`, `DeletionIsFinal`, `EveryRequestLeaves` |
| `store` | 2 accounts (one uploaded at the start, the other with balance queries), 2 tasks, all six operations, 3 operations, resets and balance answers at any time, 1 restart; fair worker | `TypeOK`, `UsedConserved`, `UsedNeverLaxer`, `StatusesAgree`, `DueComesBack` |
| `bind_sync` | 1 syncer and another caller of `bind_account`, 2 interchangeable accounts, 2 linked groups, 2 servers, 4 ids, 2 changes, other bindings or failures | `TypeOK` with the schema's constraints, `BindingsAgree`, `Balanced` |
| `bind_liveness` | 2 syncers and another binder, 1 account with a registration IP, 2 servers, 5 ids, a second group that may be created, 1 change or failure; fair | `BindingsAgree`, `IndexHeals`, and `EveryAccountBinds` (while some linked group is enabled and a linked group has a usable proxy) |
| `ledger` | 2 requests on one token with 1 retry each, one account, one proxy, one of the callers may hang up, limits 0, 1 and 64 "MB" of which the last overflows, 2 deletions, settings, failures or crashes; fair cleaner | `TypeOK`, `CountedBeforeLogged`, `AttemptsLogged`, `NewestKept`, `LogBounded` |
| `fwd_inuse_leak`, `fwd_isolation_race`, `store_revival`, `store_status_drift`, `bind_mirror` | | one violated claim each, see below |

**Bounds.** Three requests are one more than the platform admits, so waiting for the platform,
waiting for an account's permit and a success arriving after a revocation all happen; both
accounts share one exit IP so that counts above one occur. One retry suffices for a second
selection with the first guard still held; the theorems lift the numbers. In `fwd_churn` every
change can fall between any two steps of both requests; `Rebind` and `ReloadProxy` cover a
change of exit IP under a running call. In `store`, three operations on two tasks are enough
for two conflicting writers and a third operation after them, with a reset and a restart
around any of their halves. In `bind_sync` one server has a spare id, so it can leave its
subscription and return; in `bind_liveness` both have. The other group has an id of its own,
so that `bind_account` goes through two linked groups, and one group can be disabled or
deleted while the other's sync is under way. Two changes are enough for each way a binding is
torn: a rebinding by the error arm and its failing UPDATE, a patch and its handler dropped
before the slot, a pin beside a sync. A server that leaves, returns and loses its group takes
three; that is left to the theorems `BindingTypeCorrect` and `BindingsStayTogether`. The
accounts of `bind_sync` differ in nothing, so `AccountsAlike` is a symmetry; no liveness
property is checked with it. In `gate`, five operations are a creation, two
edits overlapping it and each other, a deletion or a failure between their INSERTs, and a
changed limit; no step relates two tokens; a limit of 0 is what `NewSemaphore` corrects, -1
what makes the next start panic, 2 what must not take effect before it. In `ledger` a
"megabyte" holds one row (`Unit = RowSize`), so the two requests, who may write four rows,
exceed the limit while the cleanup runs, and with 8-bit integers 64 "megabytes" wrap to a
negative number; a second token, account or proxy would only add rows no property relates to
the first. `FallsDue` and `ResetDbFails` consume the bound `MaxOps`, so time stops passing at
some point; `DueComesBack` is about accounts that are due, whenever that was.

**Fairness.** `EveryRequestEnds` assumes `WF(Step(r))`: a runnable task is polled, tokio's
semaphores serve waiters in order, and the HTTP client has a timeout, so a call ends. Neither
callers (`Drop`) nor the environment owe anything. `DueComesBack` assumes `WF(WorkerStep)`:
the interval timer ticks for ever and SQLite answers; nothing is assumed of the tasks.
`EveryRequestLeaves` assumes `WF(RequestStep(r))`: the lookups answer, and `forward()`
returns, which is `EveryRequestEnds`. `LogBounded` assumes `WF(CleanerStep)`, the hourly timer
and SQLite again; requests stop of themselves. In `ProxyBinding`, what has been started goes
on (`WF` of `SyncStep`, `BindStep`, `AdminStep`), the worker begins its rounds and goes on
after a subscription that does not answer (`WF` of `StartRound` and of `FetchFails`), and `SF`
of the worker's `Fetch` per group: each round visits every group that was enabled when it
began, each visit is a new request, and a subscription that answers now and then is fetched
now and then although others come in between. Nobody has to press the sync button, and the
liveness properties speak of enabled groups only: the entries of a disabled one are not
repaired by anything.

**Reading some of the properties.** `BusyAccounting` is the true relation: the count is the
number of attempts *plus the abandoned ones*; `InUseCountExact`, without them, is what the
comment says. `UsedConserved` is exact until a quota reset, after which the two copies may
part because the reset and `record_call` write in opposite orders; `UsedNeverLaxer` says in
which direction. `StatusesAgree` and `BindingsAgree` say from what alone the copies part: a
statement lost half-way or an overlap, which `crossed` and `torn` record, for a status in any
of the six operations and the reset, for a binding by whoever calls `bind_account` or pins.
Neither says that they meet again: a status is written to both copies by the next operation
that runs alone, but a binding torn by the error arm (slot on the new proxy, row on the old
one) or by a dropped handler (row bound, slot empty) stays so, since `rebind_null_accounts`
reads only rows that are NULL. `StatusMirrored` and `BindingMirrored`, the claims without the
exceptions, are violated. An account with a NULL row and a slot on a proxy that is gone is no
exception: `select()` passes it over and the next sync binds it. `Balanced` is about one syncer
before anything else has run (`churn = 0`), and about each group by itself, where the comment
at `sync.rs:179` speaks of the union of the groups. `DueComesBack` describes what the code
does, including for a revoked account (see `store_revival`). `RightsAsAsked` allows two
overlapping edits to leave the union of what they asked for, which is what they do.
`NewestKept` and `LogBounded` are about limits whose bytes are an i64 (`Fits`). `LogBounded`
holds because the requests of the model are finitely many: under steady traffic every cleanup
leaves the rows that were written between its count and its DELETE above the limit.
`CountedBeforeLogged` is one-sided: a count whose log row was refused, lost or cut stays.

## Disagreements between code and documentation

Shown by a run:

1. `fwd_inuse_leak` — `inc_exit_ip` and `dec_exit_ip` (`scheduler.rs:195`, `224`, `317`) are
   not tied to a guard. If the caller disconnects in between, the exit IP counts as in use
   until a restart. `pools.rs:21` calls the map the count of exit IPs currently in use.
2. `fwd_isolation_race` — testing the count and raising it are separate operations, so two
   threads can both start on an exit IP they found idle, in the round called strict
   (`scheduler.rs:76`), while another usable account was idle.
3. `store_revival` — `reset_quotas` sets every due account to `healthy`, revoked and disabled
   ones included (`sync.rs:321`); `scheduler.rs:275` and `README.md:41` say a revoked account
   is removed for good.
4. `store_status_drift` — two changes of one account's status can reach memory and database
   in opposite orders; nothing corrects it, and a restart takes the database's.
5. `bind_mirror` — the same for the proxy binding, with `bind_account` in a sync and in
   another caller.

Seen while reading, without a run: a retry after a 5xx may take the same account
(`README.md:43` announces another); a rebinding after a proxy failure may pick the same proxy
(`README.md:44`); an account revoked while a request waits for its permit is called all the
same; a body that fails to arrive is answered as an empty success (`scheduler.rs:222`);
`consecutive_failures` grows in the database on success as well (`pools.rs:210`);
`bind_account` takes the first linked group with a usable proxy and not the least loaded proxy
of all linked groups (`sync.rs:179`); changing `max_concurrency` has no effect until a restart
(`pools.rs:98`); a negative `max_concurrency` is accepted by `patch_platform`, has no effect
either, and makes every later startup panic (`main.rs:50`); a call whose token, account or
proxy is deleted while it runs is missing from the log (`pools.rs:239`), where
`api_admin.rs:848` speaks of log entries that outlive their token; a very large `log_max_mb`
overflows and deletes every row, or panics the worker in a debug build (`sync.rs:343`);
`README.md:114` says a changed `account_concurrency` takes effect with the next loop, but it
only concerns accounts uploaded later and is forgotten at a restart (`pools.rs:54`).

## Proofs

Checked by TLAPS for every value of the constants allowed by the assumptions of the modules:
`ForwardAssumption` (requests are finitely many, concurrency limits at least 1, metered
accounts start within their quota), `GateAssumption` (requests are finitely many, only tokens
in the database have rights at the start), `StoreAssumption` (tasks are finitely many, names
of statuses and kinds are those of the code), `BindingAssumption` (accounts are finitely many,
group ids are numbers, links name groups that exist, the worker is a syncer) and
`LedgerAssumption` (requests are finitely many, ids of accounts and proxies are told apart,
units and widths are positive). TLC evaluates each of them in the runs of its module.

| Theorem | Statement |
|---|---|
| `ForwardProofs!TypeCorrect` | `Spec => []TypeOK` |
| `ForwardSafety!LocalsHold` | `Spec => []LocalsOK`, the strengthening below |
| `ForwardSafety!BusyCounted` | `Spec => []BusyAccounting` |
| `ForwardSafety!PlatformPermitsConserved` | `Spec => []PlatformPermits` |
| `ForwardSafety!AccountPermitsConserved` | `Spec => []AccountPermits` |
| `ForwardSafety!QuotaBounded` | `Spec => []QuotaOvershoot` |
| `ForwardSafety!NeverRevives` | `Spec => ForwardingNeverRevives` |
| `ForwardSafety!SomebodyGoesOn` | `Spec => []NobodyStuck` |
| `ForwardSafety!ExactWithoutHangUps` | `Spec => []InUseCountExact`, if `Droppable = {}` |
| `ForwardContract!RetriesBounded` | `Spec => []RetriesOK` |
| `ForwardContract!KeepsPromise` | `Spec => ForwardKeepsPromise` |
| `ForwardContract!RequestsRunOut` | `Spec => StepsRunOut` |
| `GateProofs!GateTypeCorrect` | `Spec => []TypeOK` with the foreign key of `token_platforms` |
| `GateProofs!DeletionFinal` | `Spec => DeletionIsFinal` |
| `GateProofs!RightsKept` | `Spec => []RightsAsAsked` |
| `GateProofs!PermitsConserved` | `Spec => []PermitsMatch` |
| `StoreProofs!StoreTypeCorrect` | `Spec => []TypeOK` |
| `StoreProofs!CountConserved` | `Spec => []UsedConserved` |
| `StoreProofs!NeverLaxer` | `Spec => []UsedNeverLaxer` |
| `StoreProofs!StatusKept` | `Spec => []StatusesAgree` |
| `BindingProofs!BindingTypeCorrect` | `Spec => []TypeOK` with uniqueness and three foreign keys |
| `BindingProofs!BindingsStayTogether` | `Spec => []BindingsAgree` |
| `BindingProofs!SyncsSpreadEvenly` | `Balanced /\ Spec => []Balanced`, if `Syncers = {Worker}` and no account has a registration IP |
| `LedgerProofs!LedgerTypeCorrect` | `Spec => []TypeOK` with the foreign keys of `call_logs` |
| `LedgerProofs!CleanupKeepsNewest` | `Spec => NewestKept` |
| `LedgerProofs!BillingCovered` | `Spec => []CountedBeforeLogged` |
| `LedgerProofs!TrailComplete` | `Spec => []AttemptsLogged` |

**Forward.** `TypeOK` is inductive by itself; that counters stay natural numbers follows from
the guards of the decrements. The accounting invariants are not: they need to know what a
request holds at each `pc`. `LocalsOK` says so (an attempt has an account of the request's
platform; `guard` is `"held"` exactly from the acquisition to the end of the loop body unless
the account was already deleted, and an attempt without guard is on a deleted account, which
stays deleted). Each counting argument then goes the same way: a step of `r` leaves every
other request where it is (`OnlyMoves`), so the counted set changes by `r` alone, and
`CountMoves` turns that into `+1`, `-1` or `0` (`One`), which is what the step does to the
counter. Saturation in `dec_exit_ip` never takes effect because an occupied exit IP is counted
(`OccupiedIsCounted`). `QuotaOvershoot` combines the quota test in `Candidates` with
`PlatformPermits`: a selection adds one attempt below the limit, and no more than
`MaxConcurrency` attempts are under way. For the refinement, `phase`, `calls` and `limit` of
`Gateway` are `pc` with the inner positions merged, `retries` plus the call under way, and
`budget`; admission needs `PlatformPermits`, the bound on calls `RetriesOK`.

`EveryRequestEnds` itself is liveness and stays with TLC, but what it rests on is proved, for
any number of requests. `StepsRunOut`: each step of a request lowers, in lexicographic order,
its stage (queued, settings, loop, ended), the retries left of those it read on entry, and the
steps left of the attempt; only `Retry` goes back, for the price of a retry (`MoverCloser`,
which needs `RetriesOK` for the retries left to be a natural number). So no request goes on
for ever. `NobodyStuck`: it does not stop half-way either, because it can take its next step
(`Ready`, the guards of `Step` in one place) or waits for a permit one of whose holders can.
The proof follows the two semaphores: one without a free permit has a holder, since limits are
at least 1 (`PlatformPermits`, `AccountPermits`); a holder of the account's permit is past both
awaits (`LocalsOK`); a holder of the platform's permit may itself wait for an account's, but
then the holder of that one is of the same platform and can go on (`HolderGoesOn`). Readiness
elsewhere means that `forward()` has an arm for what it finds: `VerdictsOK` (an answered call
has an outcome), and `SomeLeastBusy` (selection finds a least busy account whenever one is
usable). The last is the well-foundedness of the natural numbers, `LeastNat` of `Counting`,
from the library's `WFMin`. What remains for liveness is fairness: that a step that can be
taken is, and that a semaphore's queue is served in order.

`ExactWithoutHangUps` is the positive side of `fwd_inuse_leak`: the history variable
`abandoned` is raised by `Drop` only, so `BusyAccounting` without it is `InUseCountExact`.

**TokenGate.** `TypeOK` contains the foreign key (a token with rights is active), and that is
what makes deletion final: the right is read last, and a deleted token has none and can get
none, since every INSERT for it is refused. `RightsAsAsked` is not inductive: what an edit has
still to insert must be part of the wish too, and an edit that is alone with an exact wish
must have inserted or be about to insert all of it. For `PermitsMatch` the size of every
semaphore is that of the last start, at least 1, so `Ensure` never builds one; the rest is
counting requests inside with `CountMoves`, which `Counting` shares with the proofs of
`Forward`.

**AccountStore.** `TypeOK` needs `TasksOK`: where a task of each kind can stand, and that what
a status-setting task carries is a status. The two counting theorems come from one invariant,
`StoreInv`. `LifeOf` follows an account through upload and deletion: a row without slot has
counted nothing and nobody is about to write to it, at most one upload is about to give it a
slot, and a slot is taken away only after its row. Without it, a slot appearing beside a row
somebody has already counted on would break the sum. `CountsOf` is the sum itself: equality
until the first reset, and an inequality after it except between the two halves of the reset.
`StatusesAgree` follows from `OneAtATime`: while an account is not `crossed`, at most one
operation stands between its two writes, and what it has still to write is what the other copy
says by now (`Carried`) — the status `record_call` has read again, the verdict of a probe,
`pending` for an upload, `healthy` for a reset. `LifeOf` comes in for deletions.

**ProxyBinding.** The schema's constraints are inductive together with the types of the
callers' records (`Typed`): a proxy is inserted only for a server of the group that has no
row. Agreement is a theorem about any number of callers, without hypothesis. Its invariant
`InStep` has two parts. `Picked`: a proxy about to be written has had a row, and as ids are not
reused a deleted one never counts as usable again. `Whole`, for every account that is not
`torn`: at most one caller has the slot still to set, what it will set matches the row, and
when there is none the slot does; to match is to be the row's proxy, or a deleted one beside a
NULL row. A write makes its caller the only publisher or marks the account; a deletion sets the
row to NULL and leaves a deleted proxy in the slot.

`Balanced` is about `churn = 0`, the time before anything but syncs has run, and it is not
inductive. Its strengthening `Spread` says that nobody else binds (`OthersRest`); that every
group has exactly the rows of the servers its subscription lists, so a sync inserts and prunes
nothing (`Listing`, `Fetched`); that the accounts waiting to be bound are unbound, and wait
only in the worker's last phase (`OnlyThen`, `Waiting`); and that the proxy picked is still a
least loaded usable one of its group when it is written (`Least`), which is what keeps the
loads even (`Even`) when that one is raised. The hypotheses are what a second writer or a
preference would break: two syncers may pick the same proxy at once, and accounts with a
registration IP may all prefer one server. `Balanced` at the start stays a hypothesis, since a
database may be found with any bindings. They hold in `bind_sync`, which starts unbound.

**CallLedger.** `NewestKept` follows from `KeepsEnough`: between the cleanup's count and its
DELETE the log only grows, so what it is about to delete leaves the limit.
`CountedBeforeLogged` follows from `Covered`: the successes in the log together with those
about to be logged never exceed the count. `AttemptsLogged` follows from `Trails`, which says
the same at every moment of a request and not only at its end, with what a request's locals
hold at each position.

Only model-checked: liveness (`EveryRequestEnds`, `EveryRequestLeaves`, `DueComesBack`,
`IndexHeals`, `EveryAccountBinds`, `LogBounded`), since fairness and `ENABLED` are outside the
prover's reach. Every safety invariant and action property of the passing runs is a theorem.

## What is not modelled

* `Forward`: the cache of HTTP clients, the early returns for a platform without adapter or
  semaphore. The log and the token's count are in `CallLedger`.
* `TokenGate`: parsing of header and path, names and notes of tokens.
* `AccountStore`: `patch_account`'s quota limit, `last_called_at`, the balance estimate and the
  filter on recent calls (any set of healthy accounts may be picked), probing's use of the
  network beside the semaphores.
* `ProxyBinding`: the account rows are fixed; a change of a subscription's URL is a change of
  what it returns.
* `CallLedger`: status codes, durations and the queries over the log.
* `account_concurrency` and the intervals of the workers: the first is used by uploads only, a
  timer may tick at any moment in every module.
* Sessions and password hashing, request building in the adapters, encryption, read-only
  endpoints, configuration files, migrations, the front end: sequential code or pure
  conversions without shared state.

## Plan

Done, in this order: forwarding and its contract; accounts and bindings in both copies; the
token gate with the semaphores in force; the log with its cleanup; the proofs of each. What is
left, by what it would add:

1. `account_concurrency` across uploads and restarts: the permits `load_all` builds against
   those an upload builds, as variables of `Forward` instead of constants.
2. Accounts that come and go in `ProxyBinding`, so that an upload's binding and a deletion meet
   a sync.
3. The safety half of the other liveness properties as theorems, as `NobodyStuck` and
   `StepsRunOut` are for `EveryRequestEnds`: first `EveryRequestLeaves` of `TokenGate`, then the
   rounds of the workers.
4. Larger instances: two platforms sharing a group, two accounts in `ledger`.
