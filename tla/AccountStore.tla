---------------------------- MODULE AccountStore ----------------------------
(***************************************************************************)
(* An account lives twice: as a slot in Pools.accounts and as a row of the *)
(* accounts table.  Every operation that changes it writes one copy, then  *)
(* the other, with an await in between: set_status and record_call write   *)
(* memory first, reset_quotas, delete_account and upload_accounts the      *)
(* database first.  Tasks are the requests and admin handlers that run     *)
(* those operations; the quota worker is a process of its own, and so is   *)
(* the balance worker, which gives rows without a reset date one.          *)
(***************************************************************************)
EXTENDS Integers, FiniteSets

CONSTANTS
  Accounts, Tasks,
  NoStatus,        \* record_call's new_status when the slot is gone
  Statuses,        \* statuses set_status is called with
  Kinds,           \* the operations tasks perform in this instance
  Queried,         \* accounts of platforms that answer balance queries
  Uploaded,        \* accounts in the database at the start
  Droppable,       \* tasks whose future may be dropped, or whose statement may fail
  MaxOps,          \* bound on operations started
  MaxRestarts      \* bound on restarts

VARIABLES
  mem,        \* Pools.accounts
  db,         \* the accounts table
  task,       \* per task: operation under way, where it stands, its account and local value
  worker,     \* reset_quotas: where it stands, and the ids it read and has yet to treat
  balance,    \* refresh_balances: the ids it picked and has yet to treat
  ops,        \* operations started
  restarts,
  unsaved,    \* history: successes counted in memory whose UPDATE was lost
  renewed,    \* history: accounts whose quota was reset since the start
  crossed     \* history: accounts whose last change did not reach both copies on its own

history == <<unsaved, renewed, crossed>>
vars == <<mem, db, task, worker, balance, ops, restarts, history>>

Status == {"pending", "healthy", "manual_disabled", "hard_revoked"}
Kind   == {"set_status", "record_ok", "record_failed", "probe", "upload", "delete"}

ASSUME StoreAssumption ==
  /\ IsFiniteSet(Tasks) /\ "none" \notin Accounts
  /\ NoStatus \notin Status
  /\ Statuses \subseteq Status \ {"pending"} /\ Kinds \subseteq Kind
  /\ Queried \subseteq Accounts
  /\ Uploaded \subseteq Accounts /\ Droppable \subseteq Tasks
  /\ MaxOps \in Nat /\ MaxRestarts \in Nat

\* Of a date only matters which side of now it is on.
Date == {"past", "later"}
Slot == [there : BOOLEAN, status : Status, used : Nat, fails : Nat]
Row  == [there : BOOLEAN, status : Status, used : Nat, fails : Nat, reset : Date \cup {"null"},
         id : {"unused", "taken"}]
Idle == [kind |-> "none", at |-> "idle", acct |-> "none", val |-> NoStatus]
Task == [kind : Kind \cup {"none"}, at : {"idle", "reread", "write", "probing", "publish",
         "forget"}, acct : Accounts \cup {"none"}, val : Status \cup {NoStatus}]

FreshSlot == [there |-> TRUE, status |-> "pending", used |-> 0, fails |-> 0]
NoSlot    == [there |-> FALSE, status |-> "pending", used |-> 0, fails |-> 0]

\* What load_all reads from a row.
Loaded(row) == [there |-> row.there, status |-> row.status, used |-> row.used,
                fails |-> row.fails]

Init ==
  /\ db = [a \in Accounts |->
             [there |-> a \in Uploaded, status |-> "pending", used |-> 0, fails |-> 0,
              reset |-> "null", id |-> IF a \in Uploaded THEN "taken" ELSE "unused"]]
  /\ mem = [a \in Accounts |-> IF a \in Uploaded THEN FreshSlot ELSE NoSlot]
  /\ task = [t \in Tasks |-> Idle]
  /\ worker = [at |-> "asleep", rows |-> {}, acct |-> "none"] /\ balance = {}
  /\ ops = 0 /\ restarts = 0
  /\ unsaved = [a \in Accounts |-> 0] /\ renewed = {} /\ crossed = {}

Starts(t, k, a, where, v) ==
  /\ k \in Kinds
  /\ task[t] = Idle
  /\ ops < MaxOps /\ ops' = ops + 1
  /\ task' = [task EXCEPT ![t] = [kind |-> k, at |-> where, acct |-> a, val |-> v]]

Ends(t) == task' = [task EXCEPT ![t] = Idle]
At(t, where) == task[t].at = where
on(t) == task[t].acct

\* Tasks that have written one copy of the account and have yet to write the other.
Halfway(a) == {t \in Tasks : on(t) = a /\ task[t].at \in {"reread", "write", "publish", "forget"}}

\* An operation writes its first copy.  It reaches both on its own unless its second
\* statement is lost or another operation stands between its two.
Changes(a, lost) ==
  crossed' = IF lost \/ Halfway(a) # {} \/ worker.acct = a THEN crossed \cup {a}
                                                            ELSE crossed \ {a}

-----------------------------------------------------------------------------
(* Pools::set_status.                                                       *)

WithStatus(slot, s) == [slot EXCEPT !.status = s, !.fails = 0]

\* The slot, if there is one; the UPDATE comes after the await.
SetStatusMem(t, a, s) ==
  /\ Starts(t, "set_status", a, "write", s)
  /\ mem' = IF mem[a].there THEN [mem EXCEPT ![a] = WithStatus(@, s)] ELSE mem
  /\ Changes(a, FALSE)
  /\ UNCHANGED <<db, worker, balance, restarts, unsaved, renewed>>

SetStatusDb(t) ==
  /\ At(t, "write") /\ task[t].kind \in {"set_status", "probe"}
  /\ db' = IF db[on(t)].there THEN [db EXCEPT ![on(t)] = WithStatus(@, task[t].val)] ELSE db
  /\ Ends(t)
  /\ UNCHANGED <<mem, worker, balance, ops, restarts, history>>

-----------------------------------------------------------------------------
(* Pools::record_call.                                                      *)

\* Mutant of Recorded: a success takes one failure back instead of clearing them.
RecordedDecay(slot, ok) ==
  IF ok THEN [slot EXCEPT !.used = @ + 1, !.fails = @ - 1,
                          !.status = IF @ = "pending" THEN "healthy" ELSE @]
        ELSE [slot EXCEPT !.fails = @ + 1]

Recorded(slot, ok) ==
  IF ok THEN [slot EXCEPT !.used = @ + 1, !.fails = 0,
                          !.status = IF @ = "pending" THEN "healthy" ELSE @]
        ELSE [slot EXCEPT !.fails = @ + 1]

\* The call went out on this account, so its slot is there unless it was deleted since.
RecordMem(t, a, ok) ==
  /\ db[a].id = "taken" /\ (mem[a].there \/ ~db[a].there)
  /\ Starts(t, IF ok THEN "record_ok" ELSE "record_failed", a, "reread", NoStatus)
  /\ mem' = IF mem[a].there THEN [mem EXCEPT ![a] = Recorded(@, ok)] ELSE mem
  /\ Changes(a, FALSE)
  /\ UNCHANGED <<db, worker, balance, restarts, unsaved, renewed>>

\* new_status: the slot is looked up a second time, outside the first lock.
RecordReread(t) ==
  /\ At(t, "reread")
  /\ task' = [task EXCEPT ![t] = [@ EXCEPT !.at = "write",
                 !.val = IF mem[on(t)].there THEN mem[on(t)].status ELSE NoStatus]]
  /\ UNCHANGED <<mem, db, worker, balance, ops, restarts, history>>

\* Mutant of RecordedRow: every call counts, successful or not.
RecordedRowAlways(row, ok, s) ==
  [row EXCEPT !.used = @ + 1, !.fails = @ + 1, !.status = IF s = NoStatus THEN @ ELSE s]

\* Mutant of RecordedRow: the status found again in memory is not written.
RecordedRowCounts(row, ok, s) == [row EXCEPT !.used = IF ok THEN @ + 1 ELSE @, !.fails = @ + 1]

\* consecutive_failures goes up whatever the outcome was; status=COALESCE(?,status).
RecordedRow(row, ok, s) ==
  [row EXCEPT !.used = IF ok THEN @ + 1 ELSE @, !.fails = @ + 1,
              !.status = IF s = NoStatus THEN @ ELSE s]

RecordDb(t) ==
  /\ At(t, "write") /\ task[t].kind \in {"record_ok", "record_failed"}
  /\ db' = IF db[on(t)].there
             THEN [db EXCEPT ![on(t)] =
                     RecordedRow(@, task[t].kind = "record_ok", task[t].val)]
             ELSE db
  /\ Ends(t)
  /\ UNCHANGED <<mem, worker, balance, ops, restarts, history>>

-----------------------------------------------------------------------------
(* probe_account: the row must be there; the verdict arrives a network call *)
(* later and goes through set_status, or leaves the account alone.          *)

ProbeStart(t, a) ==
  /\ db[a].there
  /\ Starts(t, "probe", a, "probing", NoStatus)
  /\ UNCHANGED <<mem, db, worker, balance, restarts, history>>

ProbeVerdict(t, s) ==
  /\ At(t, "probing")
  /\ mem' = IF mem[on(t)].there THEN [mem EXCEPT ![on(t)] = WithStatus(@, s)] ELSE mem
  /\ task' = [task EXCEPT ![t] = [@ EXCEPT !.at = "write", !.val = s]]
  /\ Changes(on(t), FALSE)
  /\ UNCHANGED <<db, worker, balance, ops, restarts, unsaved, renewed>>

ProbeUnknown(t) ==
  /\ At(t, "probing")
  /\ Ends(t)
  /\ UNCHANGED <<mem, db, worker, balance, ops, restarts, history>>

-----------------------------------------------------------------------------
(* upload_accounts and delete_account.  An id is never reused.              *)

UploadDb(t, a) ==
  /\ db[a].id = "unused"
  /\ Starts(t, "upload", a, "publish", NoStatus)
  /\ db' = [db EXCEPT ![a] = [@ EXCEPT !.there = TRUE, !.id = "taken"]]
  /\ Changes(a, FALSE)
  /\ UNCHANGED <<mem, worker, balance, restarts, unsaved, renewed>>

UploadMem(t) ==
  /\ At(t, "publish")
  /\ mem' = [mem EXCEPT ![on(t)] = FreshSlot]
  /\ Ends(t)
  /\ UNCHANGED <<db, worker, balance, ops, restarts, history>>

DeleteDb(t, a) ==
  /\ db[a].id = "taken"
  /\ Starts(t, "delete", a, "forget", NoStatus)
  /\ db' = [db EXCEPT ![a].there = FALSE]
  /\ Changes(a, FALSE)
  /\ UNCHANGED <<mem, worker, balance, restarts, unsaved, renewed>>

DeleteMem(t) ==
  /\ At(t, "forget")
  /\ mem' = [mem EXCEPT ![on(t)] = NoSlot]
  /\ Ends(t)
  /\ UNCHANGED <<db, worker, balance, ops, restarts, history>>

-----------------------------------------------------------------------------
(* sync::reset_quotas, run by one worker: the ids that are due are read     *)
(* once, then each is reset in the database and in memory.                  *)

Due(a) == db[a].reset # "later"

ResetScan ==
  /\ worker.at = "asleep"
  /\ worker' = [at |-> "scanned", rows |-> {a \in Accounts : db[a].there /\ Due(a)},
                acct |-> "none"]
  /\ UNCHANGED <<mem, db, task, balance, ops, restarts, history>>

ResetDb(a) ==
  /\ worker.at = "scanned" /\ a \in worker.rows
  /\ db' = IF db[a].there
             THEN [db EXCEPT ![a] = [@ EXCEPT !.used = 0, !.status = "healthy",
                                              !.fails = 0, !.reset = "later"]]
             ELSE db
  /\ worker' = [at |-> "row_done", rows |-> worker.rows \ {a}, acct |-> a]
  /\ renewed' = renewed \cup {a} /\ Changes(a, FALSE)
  /\ UNCHANGED <<mem, task, balance, ops, restarts, unsaved>>

\* Mutant of ResetMem: the slot gets its status back but keeps its count.
ResetMemKeepsUsed ==
  /\ worker.at = "row_done"
  /\ LET a == worker.acct IN
       /\ mem' = IF mem[a].there THEN [mem EXCEPT ![a] = WithStatus(@, "healthy")] ELSE mem
  /\ unsaved' = [unsaved EXCEPT ![worker.acct] = 0]
  /\ worker' = [worker EXCEPT !.at = "scanned", !.acct = "none"]
  /\ UNCHANGED <<db, task, balance, ops, restarts, renewed, crossed>>

ResetMem ==
  /\ worker.at = "row_done"
  /\ LET a == worker.acct IN
       /\ mem' = IF mem[a].there
                   THEN [mem EXCEPT ![a] = [@ EXCEPT !.used = 0, !.status = "healthy",
                                                     !.fails = 0]]
                   ELSE mem
  /\ unsaved' = [unsaved EXCEPT ![worker.acct] = 0]
  /\ worker' = [worker EXCEPT !.at = "scanned", !.acct = "none"]
  /\ UNCHANGED <<db, task, balance, ops, restarts, renewed, crossed>>

ResetDone ==
  /\ worker.at = "scanned" /\ worker.rows = {}
  /\ worker' = [worker EXCEPT !.at = "asleep"]
  /\ UNCHANGED <<mem, db, task, balance, ops, restarts, history>>

\* The UPDATE fails: the error is discarded and memory is reset all the same.
ResetDbFails(a) ==
  /\ worker.at = "scanned" /\ a \in worker.rows
  /\ ops < MaxOps /\ ops' = ops + 1
  /\ worker' = [at |-> "row_done", rows |-> worker.rows \ {a}, acct |-> a]
  /\ renewed' = renewed \cup {a} /\ Changes(a, TRUE)
  /\ UNCHANGED <<mem, db, task, balance, restarts, unsaved>>

\* Thirty days pass.
FallsDue(a) ==
  /\ ops < MaxOps /\ ops' = ops + 1
  /\ db[a].there /\ db[a].reset = "later"
  /\ db' = [db EXCEPT ![a].reset = "past"]
  /\ UNCHANGED <<mem, task, worker, balance, restarts, history>>

-----------------------------------------------------------------------------
(* sync::refresh_balances: healthy accounts called of late are picked in    *)
(* memory; each answer may bring a date, which a row that has one ignores.  *)

BalanceScan(S) ==
  /\ balance = {} /\ S \subseteq {a \in Queried : mem[a].there /\ mem[a].status = "healthy"}
  /\ balance' = S
  /\ UNCHANGED <<mem, db, task, worker, ops, restarts, history>>

\* Mutant of BalanceAnswer: the date the row has is overwritten.
BalanceAnswerAnyway(a, date) ==
  /\ a \in balance
  /\ balance' = balance \ {a}
  /\ db' = IF db[a].there THEN [db EXCEPT ![a].reset = date] ELSE db
  /\ UNCHANGED <<mem, task, worker, ops, restarts, history>>

\* reset_at=COALESCE(reset_at,?).
BalanceAnswer(a, date) ==
  /\ a \in balance
  /\ balance' = balance \ {a}
  /\ db' = IF db[a].there /\ db[a].reset = "null" THEN [db EXCEPT ![a].reset = date] ELSE db
  /\ UNCHANGED <<mem, task, worker, ops, restarts, history>>

\* No answer, an answer without a date, or a statement that fails.
BalanceSkip(a) ==
  /\ a \in balance
  /\ balance' = balance \ {a}
  /\ UNCHANGED <<mem, db, task, worker, ops, restarts, history>>

-----------------------------------------------------------------------------
(* Failures.                                                                *)

\* The statement fails (every caller in the engine discards the error), or the caller
\* hangs up and the future is dropped at the await.
Lose(t) ==
  /\ t \in Droppable
  /\ task[t].at \in {"write", "probing", "publish", "forget"}
  /\ unsaved' = IF task[t].kind = "record_ok" /\ mem[on(t)].there
                  THEN [unsaved EXCEPT ![on(t)] = @ + 1] ELSE unsaved
  /\ crossed' = IF At(t, "probing") THEN crossed ELSE crossed \cup {on(t)}
  /\ Ends(t)
  /\ UNCHANGED <<mem, db, worker, balance, ops, restarts, renewed>>

\* The process dies and starts again: load_all.
Restart ==
  /\ restarts < MaxRestarts /\ restarts' = restarts + 1
  /\ mem' = [a \in Accounts |-> IF db[a].there THEN Loaded(db[a]) ELSE NoSlot]
  /\ task' = [t \in Tasks |-> Idle]
  /\ worker' = [at |-> "asleep", rows |-> {}, acct |-> "none"] /\ balance' = {}
  /\ unsaved' = [a \in Accounts |-> 0] /\ renewed' = {} /\ crossed' = {}
  /\ UNCHANGED <<db, ops>>

\* Nothing is under way.
AtRest == worker.at = "asleep" /\ balance = {} /\ \A t \in Tasks : task[t] = Idle

TaskStep(t) ==
  \/ SetStatusDb(t) \/ RecordReread(t) \/ RecordDb(t)
  \/ (\E s \in {"healthy", "hard_revoked"} : ProbeVerdict(t, s)) \/ ProbeUnknown(t)
  \/ UploadMem(t) \/ DeleteMem(t)

TaskStart(t) ==
  \E a \in Accounts :
    \/ \E s \in Statuses : SetStatusMem(t, a, s)
    \/ \E ok \in BOOLEAN : RecordMem(t, a, ok)
    \/ ProbeStart(t, a) \/ UploadDb(t, a) \/ DeleteDb(t, a)

WorkerStep == ResetScan \/ (\E a \in Accounts : ResetDb(a)) \/ ResetMem \/ ResetDone

Next ==
  \/ \E t \in Tasks : TaskStart(t) \/ TaskStep(t) \/ Lose(t)
  \/ WorkerStep
  \/ \E S \in SUBSET Queried \ {{}} : BalanceScan(S)
  \/ \E a \in Queried : BalanceSkip(a) \/ \E date \in Date : BalanceAnswer(a, date)
  \/ \E a \in Accounts : ResetDbFails(a) \/ FallsDue(a)
  \/ Restart
  \/ AtRest /\ UNCHANGED vars

Spec == Init /\ [][Next]_vars
(* The worker's timer ticks for ever and SQLite answers: the loop makes     *)
(* progress.  Nothing is assumed of the tasks.                              *)
FairSpec == Spec /\ WF_vars(WorkerStep)

-----------------------------------------------------------------------------
TypeOK ==
  /\ mem \in [Accounts -> Slot]
  /\ db \in [Accounts -> Row]
  /\ task \in [Tasks -> Task]
  /\ worker \in [at : {"asleep", "scanned", "row_done"}, rows : SUBSET Accounts,
                 acct : Accounts \cup {"none"}]
  /\ balance \subseteq Queried
  /\ ops \in 0 .. MaxOps /\ restarts \in 0 .. MaxRestarts
  /\ unsaved \in [Accounts -> Nat] /\ renewed \subseteq Accounts
  /\ crossed \subseteq Accounts

\* Successes counted in memory whose UPDATE is still to come.
Unwritten(a) ==
  {t \in Tasks : task[t].kind = "record_ok" /\ task[t].at \in {"reread", "write"}
                 /\ on(t) = a}

\* Both copies are there, and no upload or delete is still working on the account.
Settled(a) == /\ mem[a].there /\ db[a].there
              /\ \A t \in Tasks : task[t].kind \in {"upload", "delete"} => on(t) # a

(***************************************************************************)
(* Until an account's quota is reset, no success is counted twice or       *)
(* forgotten: what memory counts is what the row counts, plus the UPDATEs  *)
(* under way, plus those lost.  A restart forgets at most the calls whose  *)
(* UPDATE had not been written.                                            *)
(***************************************************************************)
UsedConserved ==
  \A a \in Accounts \ renewed :
    Settled(a) =>
      mem[a].used = db[a].used + Cardinality(Unwritten(a)) + unsaved[a]

(***************************************************************************)
(* With resets running among the calls (database first, memory second, the *)
(* opposite of record_call) the counts may part, but only one way: memory  *)
(* never counts a success the row does not.  So the quota a restart goes   *)
(* on enforcing is never laxer than the one enforced before it, the lost   *)
(* UPDATEs aside.                                                          *)
(***************************************************************************)
UsedNeverLaxer ==
  \A a \in Accounts :
    Settled(a) /\ worker.acct # a =>
      mem[a].used <= db[a].used + Cardinality(Unwritten(a)) + unsaved[a]

Both(a) == mem[a].there /\ db[a].there

(***************************************************************************)
(* Whatever changes an account's status - a call recorded, an admin, a     *)
(* probe deciding on an old answer, a reset, an upload, a deletion -       *)
(* memory and database name the same status once it is done, and part in   *)
(* two ways only: a statement is lost, or two operations stand between     *)
(* their two writes at once (record_call writes back the status it read in *)
(* memory, which the other has changed by then).  The next operation that  *)
(* goes through alone brings the copies together again.                    *)
(***************************************************************************)
StatusesAgree ==
  \A a \in Accounts \ crossed :
    Both(a) /\ Halfway(a) = {} /\ worker.acct # a => mem[a].status = db[a].status

(***************************************************************************)
(* Every account whose reset_at is past comes back into rotation, whatever *)
(* took it out of it and however calls, admins, balance answers and        *)
(* failing UPDATEs interfere, unless it is deleted or the process restarts *)
(* first (a restart between the two halves of a reset may load what was    *)
(* written after the first).  So does one whose reset_at is NULL, except   *)
(* that a balance answer may give it a date first.                         *)
(***************************************************************************)
DueComesBack ==
  \A a \in Accounts, k \in 0 .. MaxRestarts :
    (Settled(a) /\ restarts = k /\ db[a].reset \in IF a \in Queried THEN {"past"} ELSE {"past", "null"})
    ~> \/ ~Settled(a) \/ restarts # k
       \/ mem[a].status = "healthy" /\ mem[a].used = 0

-----------------------------------------------------------------------------
(* Claims of the repository that the code does not keep.                    *)

\* pools.rs: changes are synchronised to SQLite.  When nothing is under way the two
\* copies agree on an account's status.
StatusMirrored == AtRest => \A a \in Accounts : Both(a) => mem[a].status = db[a].status

\* scheduler.rs: a revoked account is removed for good; only an admin (set_status) or
\* a probe that finds the key alive brings it back.
RevokedForGood ==
  [][\A a \in Accounts :
       /\ mem[a].there /\ mem[a].status = "hard_revoked"
       /\ mem'[a].there /\ mem'[a].status # "hard_revoked"
       => \E t \in Tasks : task'[t] # task[t] /\ task'[t].kind \in {"set_status", "probe"}]_vars
=============================================================================
