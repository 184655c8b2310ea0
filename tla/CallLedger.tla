----------------------------- MODULE CallLedger -----------------------------
(***************************************************************************)
(* The trail forwarded calls leave in the database: after the account's    *)
(* row (AccountStore follows that one) forward() writes                    *)
(* issued_tokens.call_count and call_logs, one after the other, and        *)
(* discards their errors; the rows a log entry refers to may be deleted    *)
(* while the call is under way; and an hourly worker cuts the log to a     *)
(* size it reads from the settings.                                        *)
(***************************************************************************)
EXTENDS Integers, Sequences, FiniteSets

CONSTANTS
  Requests, Tokens, Accounts, Proxies, Null,
  ReqToken,          \* the token a request passed the gate with
  MaxRetries,        \* settings.max_retries
  LogSettings,       \* values of settings.log_max_mb
  Unit, RowSize,     \* bytes in a MB, bytes reckoned for a row (1048576 and 320)
  Half,              \* an i64 is in -Half .. Half - 1
  Droppable,         \* requests whose caller may hang up
  MaxEvents          \* bound on deletions, changed settings, failures and crashes

VARIABLES
  tokens, accounts, proxies,   \* rows that exist
  index,       \* accounts and proxies in memory
  callCount,   \* issued_tokens.call_count
  log,         \* call_logs, ordered by id
  call,        \* forward(), per request
  cleaner,     \* cleanup_logs: where it stands, log_max_mb as read, rows to delete
  logMax,      \* settings.log_max_mb
  events,
  missing,     \* history: attempts a foreign key kept out of the log, per request
  cut,         \* history: attempts the cleanup took out of the log, per request
  faults       \* history: tokens not counted and requests cut short by a failure

rows   == <<tokens, accounts, proxies>>
history == <<missing, cut, faults>>
vars == <<rows, index, callCount, log, call, cleaner, logMax, events, history>>

ASSUME LedgerAssumption ==
  /\ IsFiniteSet(Requests)
  /\ Null \notin Tokens \cup Accounts \cup Proxies
  /\ Accounts \cap Proxies = {}
  /\ ReqToken \in [Requests -> Tokens]
  /\ MaxRetries \in Nat /\ MaxEvents \in Nat
  /\ LogSettings \subseteq Int /\ LogSettings # {}
  /\ Unit \in Nat \ {0} /\ RowSize \in Nat \ {0} /\ Half \in Nat \ {0}
  /\ Droppable \subseteq Requests

Verdicts == {"none", "success", "other", "again"}
Row  == [of : Requests, retry : Nat, ok : BOOLEAN, token : Tokens \cup {Null},
         acct : Accounts \cup {Null}, proxy : Proxies \cup {Null}]
Call == [at : {"new", "selecting", "calling", "record", "count", "log", "gone"},
         acct : Accounts \cup {Null}, proxy : Proxies \cup {Null},
         verdict : Verdicts, retries : Nat]

NewCall == [at |-> "new", acct |-> Null, proxy |-> Null, verdict |-> "none", retries |-> 0]
Asleep  == [at |-> "asleep", max |-> 0, del |-> 0]

at(r) == call[r].at
tk(r) == ReqToken[r]

Init ==
  /\ tokens = Tokens /\ accounts = Accounts /\ proxies = Proxies
  /\ index = Accounts \cup Proxies
  /\ callCount = [t \in Tokens |-> 0]
  /\ log = <<>>
  /\ call = [r \in Requests |-> NewCall]
  /\ cleaner = Asleep
  /\ logMax \in LogSettings
  /\ events = 0
  /\ missing = [r \in Requests |-> {}] /\ cut = [r \in Requests |-> {}] /\ faults = {}

Event == events < MaxEvents /\ events' = events + 1

-----------------------------------------------------------------------------
(* forward(), reduced to its calls and what it writes.                      *)

Moves(r, where) == call' = [call EXCEPT ![r].at = where]

\* Past the gate, which saw the token.
Start(r) ==
  /\ at(r) = "new" /\ tk(r) \in tokens
  /\ Moves(r, "selecting")
  /\ UNCHANGED <<rows, index, callCount, log, cleaner, logMax, events, history>>

\* Selection reads the index, which forgets a deleted row a little later.
Select(r, a, p) ==
  /\ at(r) = "selecting" /\ {a, p} \subseteq index
  /\ call' = [call EXCEPT ![r] = [@ EXCEPT !.at = "calling", !.acct = a, !.proxy = p]]
  /\ UNCHANGED <<rows, index, callCount, log, cleaner, logMax, events, history>>

NoneSelectable(r) ==
  /\ at(r) = "selecting"
  /\ Moves(r, "gone")
  /\ UNCHANGED <<rows, index, callCount, log, cleaner, logMax, events, history>>

\* Mutant of Answered: an attempt that is tried again is not logged.
AnsweredUnlogged(r, v) ==
  /\ at(r) = "calling"
  /\ call' = [call EXCEPT ![r] =
       IF v = "again" /\ @.retries < MaxRetries
       THEN [NewCall EXCEPT !.at = "selecting", !.retries = call[r].retries + 1]
       ELSE [@ EXCEPT !.verdict = v, !.at = IF v = "again" THEN "log" ELSE "record"]]
  /\ UNCHANGED <<rows, index, callCount, log, cleaner, logMax, events, history>>

\* Success and OtherError are recorded on the account; the other outcomes and a failed
\* connection only in the log.
Answered(r, v) ==
  /\ at(r) = "calling"
  /\ call' = [call EXCEPT ![r] = [@ EXCEPT !.verdict = v,
                                           !.at = IF v = "again" THEN "log" ELSE "record"]]
  /\ UNCHANGED <<rows, index, callCount, log, cleaner, logMax, events, history>>

Succeeded(r) == call[r].verdict = "success"

\* Mutant of RecordCall: the token's count is skipped.
RecordCallOnly(r) ==
  /\ at(r) = "record"
  /\ Moves(r, "log")
  /\ UNCHANGED <<rows, index, callCount, log, cleaner, logMax, events, history>>

\* record_call returned, with or without an error.
RecordCall(r) ==
  /\ at(r) = "record"
  /\ Moves(r, IF Succeeded(r) THEN "count" ELSE "log")
  /\ UNCHANGED <<rows, index, callCount, log, cleaner, logMax, events, history>>

\* inc_token_count.
CountToken(r) ==
  /\ at(r) = "count"
  /\ callCount' = IF tk(r) \in tokens THEN [callCount EXCEPT ![tk(r)] = @ + 1] ELSE callCount
  /\ Moves(r, "log")
  /\ UNCHANGED <<rows, index, log, cleaner, logMax, events, history>>

\* What follows write_call_log: an answer, the next attempt, or retries exhausted.
Continue(r) ==
  call' = [call EXCEPT ![r] =
             IF @.verdict = "again" /\ @.retries < MaxRetries
             THEN [NewCall EXCEPT !.at = "selecting", !.retries = call[r].retries + 1]
             ELSE [@ EXCEPT !.at = "gone"]]

RowOf(r) == [of |-> r, retry |-> call[r].retries, ok |-> Succeeded(r), token |-> tk(r),
             acct |-> call[r].acct, proxy |-> call[r].proxy]
Referenced(r) == tk(r) \in tokens /\ call[r].acct \in accounts /\ call[r].proxy \in proxies

\* Mutant of WriteLog: the foreign keys are not enforced.
WriteLogOrphan(r) ==
  /\ at(r) = "log"
  /\ log' = Append(log, RowOf(r))
  /\ Continue(r)
  /\ UNCHANGED <<rows, index, callCount, cleaner, logMax, events, history>>

WriteLog(r) ==
  /\ at(r) = "log" /\ Referenced(r)
  /\ log' = Append(log, RowOf(r))
  /\ Continue(r)
  /\ UNCHANGED <<rows, index, callCount, cleaner, logMax, events, history>>

\* A row it names is gone: a foreign key fails, the error is discarded and the call is
\* not in the log.
LogRefused(r) ==
  /\ at(r) = "log" /\ ~Referenced(r)
  /\ missing' = [missing EXCEPT ![r] = @ \cup {call[r].retries}]
  /\ Continue(r)
  /\ UNCHANGED <<rows, index, callCount, log, cleaner, logMax, events, cut, faults>>

\* Any other error of the last two is discarded as well.
StatementFails(r) ==
  /\ Event
  /\ \/ at(r) = "count" /\ Moves(r, "log") /\ faults' = faults \cup {tk(r)}
     \/ at(r) = "log" /\ Continue(r) /\ faults' = faults \cup {r}
  /\ UNCHANGED <<rows, index, callCount, log, cleaner, logMax, missing, cut>>

\* The caller hangs up: the future is dropped at its await.
HangUp(r) ==
  /\ r \in Droppable /\ at(r) \notin {"new", "gone"}
  /\ faults' = faults \cup {r}
  /\ Moves(r, "gone")
  /\ UNCHANGED <<rows, index, callCount, log, cleaner, logMax, events, missing, cut>>

-----------------------------------------------------------------------------
(* The other actors.                                                        *)

\* ON DELETE SET NULL of call_logs.
Unlinked(x) ==
  [i \in DOMAIN log |->
     [log[i] EXCEPT !.token = IF @ = x THEN Null ELSE @, !.acct = IF @ = x THEN Null ELSE @,
                    !.proxy = IF @ = x THEN Null ELSE @]]

\* delete_token, delete_account, and a proxy pruned by a sync or deleted with its group.
DeleteRow(x) ==
  /\ Event
  /\ x \in tokens \cup accounts \cup proxies
  /\ tokens' = tokens \ {x} /\ accounts' = accounts \ {x} /\ proxies' = proxies \ {x}
  /\ log' = Unlinked(x)
  /\ UNCHANGED <<index, callCount, call, cleaner, logMax, history>>

Forget(x) ==
  /\ x \in index /\ x \notin accounts \cup proxies
  /\ index' = index \ {x}
  /\ UNCHANGED <<rows, callCount, log, call, cleaner, logMax, events, history>>

\* update_settings.
ChangeLogMax(mb) ==
  /\ Event
  /\ mb # logMax /\ logMax' = mb
  /\ UNCHANGED <<rows, index, callCount, log, call, cleaner, history>>

-----------------------------------------------------------------------------
(* cleanup_logs.  A release build multiplies modulo 2 * Half; division      *)
(* truncates.                                                               *)

Wrapped(n)  == ((n + Half) % (2 * Half)) - Half
Quotient(n) == IF n < 0 THEN -((-n) \div RowSize) ELSE n \div RowSize
MaxRows(mb) == Quotient(Wrapped(mb * Unit))

ReadLogMax ==
  /\ cleaner.at = "asleep"
  /\ cleaner' = [cleaner EXCEPT !.at = "counting", !.max = logMax]
  /\ UNCHANGED <<rows, index, callCount, log, call, logMax, events, history>>

\* Mutant of CountRows: everything counted is deleted.
CountRowsAll(n) ==
  /\ cleaner.at = "counting"
  /\ cleaner' = IF cleaner.max > 0 /\ n > MaxRows(cleaner.max)
                THEN [cleaner EXCEPT !.at = "deleting", !.del = n]
                ELSE [cleaner EXCEPT !.at = "asleep"]

\* Mutant of CountRows: twice the limit is tolerated before anything is deleted.
CountRowsSlack(n) ==
  /\ cleaner.at = "counting"
  /\ cleaner' = IF cleaner.max > 0 /\ n > 2 * MaxRows(cleaner.max)
                THEN [cleaner EXCEPT !.at = "deleting", !.del = n - MaxRows(cleaner.max)]
                ELSE [cleaner EXCEPT !.at = "asleep"]

\* n rows counted.  A limit of zero or less means no limit.
CountRows(n) ==
  /\ cleaner.at = "counting"
  /\ cleaner' = IF cleaner.max > 0 /\ n > MaxRows(cleaner.max)
                THEN [cleaner EXCEPT !.at = "deleting", !.del = n - MaxRows(cleaner.max)]
                ELSE [cleaner EXCEPT !.at = "asleep"]

Count ==
  /\ CountRows(Len(log))
  /\ UNCHANGED <<rows, index, callCount, log, call, logMax, events, history>>

\* A COUNT that fails counts as zero.
CountFails ==
  /\ Event
  /\ CountRows(0)
  /\ UNCHANGED <<rows, index, callCount, log, call, logMax, history>>

\* The oldest ones go; requests may have added others since the count.
DeleteOldest ==
  /\ cleaner.at = "deleting"
  /\ log' = SubSeq(log, cleaner.del + 1, Len(log))
  /\ cut' = [r \in Requests |->
       cut[r] \cup {log[i].retry : i \in {j \in DOMAIN log : j <= cleaner.del /\ log[j].of = r}}]
  /\ cleaner' = [cleaner EXCEPT !.at = "asleep", !.del = 0]
  /\ UNCHANGED <<rows, index, callCount, call, logMax, events, missing, faults>>

\* A DELETE that fails is ignored.
DeleteFails ==
  /\ Event
  /\ cleaner.at = "deleting"
  /\ cleaner' = [cleaner EXCEPT !.at = "asleep", !.del = 0]
  /\ UNCHANGED <<rows, index, callCount, log, call, logMax, history>>

\* The process dies and starts again.
Crash ==
  /\ Event
  /\ call' = [r \in Requests |-> IF at(r) = "new" THEN NewCall ELSE [call[r] EXCEPT !.at = "gone"]]
  /\ faults' = faults \cup {r \in Requests : at(r) \notin {"new", "gone"}}
  /\ cleaner' = Asleep
  /\ index' = accounts \cup proxies
  /\ UNCHANGED <<rows, callCount, log, logMax, missing, cut>>

-----------------------------------------------------------------------------
RequestStep(r) ==
  \/ Start(r) \/ NoneSelectable(r)
  \/ \E a \in Accounts, p \in Proxies : Select(r, a, p)
  \/ \E v \in Verdicts \ {"none"} : Answered(r, v)
  \/ RecordCall(r) \/ CountToken(r) \/ WriteLog(r) \/ LogRefused(r)

CleanerStep == ReadLogMax \/ Count \/ DeleteOldest

Next ==
  \/ \E r \in Requests : RequestStep(r) \/ StatementFails(r) \/ HangUp(r)
  \/ \E x \in Tokens \cup Accounts \cup Proxies : DeleteRow(x) \/ Forget(x)
  \/ \E mb \in LogSettings : ChangeLogMax(mb)
  \/ CleanerStep \/ CountFails \/ DeleteFails
  \/ Crash

Spec == Init /\ [][Next]_vars
(* The worker's timer ticks for ever and SQLite answers.                    *)
FairSpec == Spec /\ WF_vars(CleanerStep)

-----------------------------------------------------------------------------
(* Types, and the foreign keys of call_logs.                                *)
TypeOK ==
  /\ tokens \subseteq Tokens /\ accounts \subseteq Accounts /\ proxies \subseteq Proxies
  /\ index \subseteq Accounts \cup Proxies
  /\ callCount \in [Tokens -> Nat]
  /\ log \in Seq(Row)
  /\ call \in [Requests -> Call]
  /\ cleaner \in [at : {"asleep", "counting", "deleting"}, max : LogSettings \cup {0}, del : Nat]
  /\ logMax \in LogSettings /\ events \in 0 .. MaxEvents
  /\ missing \in [Requests -> SUBSET Nat] /\ cut \in [Requests -> SUBSET Nat]
  /\ faults \subseteq Requests \cup Tokens
  /\ \A i \in DOMAIN log : /\ log[i].token \in tokens \cup {Null}
                           /\ log[i].acct \in accounts \cup {Null}
                           /\ log[i].proxy \in proxies \cup {Null}

(***************************************************************************)
(* Billing is never behind the evidence: every success the log holds for a *)
(* token has been counted on it, whatever happened in between (the account *)
(* or the proxy deleted, callers that hang up, a crash between the two     *)
(* statements), unless the count itself failed.                            *)
(***************************************************************************)
CountedBeforeLogged ==
  \A t \in tokens \ faults :
    Cardinality({i \in DOMAIN log : log[i].ok /\ log[i].token = t}) <= callCount[t]

Logged(r)  == {log[i].retry : i \in {j \in DOMAIN log : log[j].of = r}}
\* The attempts a request that came back had made: the last selection may have failed.
Made(r) == IF call[r].verdict = "none" THEN 0 .. call[r].retries - 1 ELSE 0 .. call[r].retries

(***************************************************************************)
(* A request that ran to its end has every one of its attempts in the log, *)
(* each once, short of those the cleanup has cut and those whose token,    *)
(* account or proxy was deleted meanwhile, and nothing else is in it.  The *)
(* attempt that gave the caller a success is marked as one, no other is.   *)
(***************************************************************************)
AttemptsLogged ==
  \A r \in Requests :
    at(r) = "gone" /\ r \notin faults =>
      /\ Logged(r) \cup cut[r] \cup missing[r] = Made(r)
      /\ \A i, j \in DOMAIN log : log[i].of = r /\ log[j].of = r /\ i # j => log[i].retry # log[j].retry
      /\ missing[r] # {} => tokens # Tokens \/ accounts # Accounts \/ proxies # Proxies
      /\ \A i \in DOMAIN log :
           log[i].of = r => (log[i].ok <=> Succeeded(r) /\ log[i].retry = call[r].retries)

\* The rows a limit is meant to allow.
Allowed(mb) == (mb * Unit) \div RowSize
Fits(mb)    == mb * Unit < Half

(***************************************************************************)
(* A cleanup takes the oldest rows and leaves at least as many as the      *)
(* limit it read allows, although calls are logged between its count and   *)
(* its DELETE, as long as that limit in bytes is an i64.                   *)
(***************************************************************************)
NewestKept ==
  [][Len(log') < Len(log) /\ Fits(cleaner.max) =>
       LET gone == Len(log) - Len(log') IN
       /\ log' = SubSeq(log, gone + 1, Len(log))
       /\ Len(log') >= Allowed(cleaner.max)]_vars

WithinLimit == logMax <= 0 \/ ~Fits(logMax) \/ Len(log) <= Allowed(logMax)

(***************************************************************************)
(* The log comes back under its limit again and again, whatever the limit  *)
(* is changed to, after failing statements and crashes too.  Requests are  *)
(* finitely many here: under steady traffic the rows written between the   *)
(* count and the DELETE keep the log above its limit by as many.           *)
(***************************************************************************)
LogBounded == []<>WithinLimit
=============================================================================
