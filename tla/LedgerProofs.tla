---------------------------- MODULE LedgerProofs ----------------------------
(***************************************************************************)
(* What the trail in the database guarantees for any number of requests,   *)
(* deletions, changed limits, failing statements and crashes: its types    *)
(* with the foreign keys of call_logs, that the cleanup keeps the newest   *)
(* rows, that a success is counted on its token before it is logged, and   *)
(* that every attempt of a request is in the log unless something took it. *)
(***************************************************************************)
EXTENDS CallLedger, Counting, SequenceTheorems

-----------------------------------------------------------------------------
(* The reckoning of the cleanup.                                            *)

\* A number below Half is not changed by wrapping.
LEMMA WrappedFits ==
  ASSUME NEW n \in Nat, n < Half
  PROVE  Wrapped(n) = n
<1>1. Half \in Nat /\ Half > 0
  BY LedgerAssumption
<1>2. n + Half \in Nat /\ n + Half < 2 * Half /\ 2 * Half > 0 /\ 2 * Half \in Nat
  BY <1>1
<1>3. (n + Half) % (2 * Half) = n + Half
  BY <1>2
<1> QED BY <1>1, <1>3 DEF Wrapped

\* A limit whose bytes fit into an i64 is reckoned right.
LEMMA AllowedFits ==
  ASSUME NEW mb \in Int, mb > 0, Fits(mb)
  PROVE  MaxRows(mb) = Allowed(mb) /\ Allowed(mb) \in Nat
<1>1. Unit \in Nat /\ Unit > 0 /\ RowSize \in Nat /\ RowSize > 0
  BY LedgerAssumption
<1>2. mb * Unit \in Nat
  BY <1>1
<1>3. Wrapped(mb * Unit) = mb * Unit
  BY <1>2, WrappedFits DEF Fits
<1>4. (mb * Unit) \div RowSize \in Nat
  BY <1>1, <1>2
<1> QED BY <1>2, <1>3, <1>4 DEF MaxRows, Quotient, Allowed

\* Any other is reckoned as some integer.
LEMMA MaxRowsType ==
  ASSUME NEW mb \in Int
  PROVE  MaxRows(mb) \in Int
<1>1. /\ Unit \in Nat /\ RowSize \in Nat /\ RowSize > 0 /\ Half \in Nat /\ 2 * Half > 0
  BY LedgerAssumption
<1>2. \A n \in Int : n % (2 * Half) \in Int
  BY <1>1
<1>3. Wrapped(mb * Unit) \in Int
  BY <1>1, <1>2 DEF Wrapped
<1>4. \A n \in Int : n \div RowSize \in Int
  BY <1>1
<1> QED BY <1>3, <1>4 DEF MaxRows, Quotient

CleanerType == [at : {"asleep", "counting", "deleting"}, max : LogSettings \cup {0}, del : Nat]

\* Where counting n rows leaves the cleaner.
LEMMA CountRowsType ==
  ASSUME TypeOK, NEW n \in Nat, CountRows(n)
  PROVE  /\ cleaner' \in CleanerType
         /\ cleaner'.max = cleaner.max /\ cleaner.at = "counting"
         /\ cleaner'.at = "deleting" =>
              cleaner.max > 0 /\ n > MaxRows(cleaner.max) /\ cleaner'.del = n - MaxRows(cleaner.max)
<1>0. cleaner \in CleanerType
  BY DEF TypeOK, CleanerType
<1>1. cleaner.max \in Int
  <2>1. LogSettings \cup {0} \subseteq Int
    BY LedgerAssumption
  <2> QED BY <1>0, <2>1 DEF CleanerType
<1>2. MaxRows(cleaner.max) \in Int
  BY <1>1, MaxRowsType
<1>3. CASE cleaner.max > 0 /\ n > MaxRows(cleaner.max)
  <2>1. n - MaxRows(cleaner.max) \in Nat
    BY <1>2, <1>3
  <2>2. cleaner' = [cleaner EXCEPT !.at = "deleting", !.del = n - MaxRows(cleaner.max)]
    BY <1>3 DEF CountRows
  <2> QED BY <1>0, <1>3, <2>1, <2>2 DEF CountRows, CleanerType
<1>4. CASE ~(cleaner.max > 0 /\ n > MaxRows(cleaner.max))
  <2>1. cleaner' = [cleaner EXCEPT !.at = "asleep"] /\ cleaner.at = "counting"
    BY <1>4 DEF CountRows
  <2> QED BY <1>0, <2>1 DEF CleanerType
<1> QED BY <1>3, <1>4

-----------------------------------------------------------------------------
(* Types and foreign keys.                                                  *)

KeysHold == \A i \in DOMAIN log : /\ log[i].token \in tokens \cup {Null}
                                  /\ log[i].acct \in accounts \cup {Null}
                                  /\ log[i].proxy \in proxies \cup {Null}

\* At the start every table and local has its type.
LEMMA InitType == Init => TypeOK
<1> SUFFICES ASSUME Init PROVE TypeOK
  OBVIOUS
<1>1. log \in Seq(Row) /\ DOMAIN log = {}
  BY EmptySeq, LenProperties DEF Init
<1>2. NewCall \in Call /\ Asleep \in CleanerType
  BY DEF NewCall, Call, Verdicts, Asleep, CleanerType
<1> QED BY <1>1, <1>2, LedgerAssumption DEF Init, TypeOK, CleanerType

Cleared(row, x) == [row EXCEPT !.token = IF @ = x THEN Null ELSE @,
  !.acct = IF @ = x THEN Null ELSE @, !.proxy = IF @ = x THEN Null ELSE @]

\* Deleting a row keeps the log's length and order, and drops the references to it.
LEMMA UnlinkedType ==
  ASSUME log \in Seq(Row), NEW x
  PROVE  /\ Unlinked(x) \in Seq(Row) /\ Len(Unlinked(x)) = Len(log) /\ DOMAIN Unlinked(x) = DOMAIN log
         /\ \A i \in DOMAIN log : Unlinked(x)[i] = Cleared(log[i], x)
<1>1. \A i \in DOMAIN log : log[i] \in Row
  BY LenProperties
<1>2. \A i \in DOMAIN log : Unlinked(x)[i] \in Row
  BY <1>1 DEF Unlinked, Row
<1>3. DOMAIN log = 1 .. Len(log) /\ Len(log) \in Nat
  BY LenProperties
<1>4. Unlinked(x) \in [1 .. Len(log) -> Row]
  BY <1>2, <1>3 DEF Unlinked
<1>5. \A i \in DOMAIN log : Unlinked(x)[i] = Cleared(log[i], x)
  BY DEF Unlinked, Cleared
<1>6. Unlinked(x) \in Seq(Row) /\ Len(Unlinked(x)) = Len(log) /\ DOMAIN Unlinked(x) = DOMAIN log
  BY <1>3, <1>4
<1> QED BY <1>5, <1>6

\* What is left of the log when the first n rows go.
LEMMA CutType ==
  ASSUME log \in Seq(Row), NEW n \in Nat
  PROVE  /\ SubSeq(log, n + 1, Len(log)) \in Seq(Row)
         /\ Len(log) \in Nat
         /\ Len(SubSeq(log, n + 1, Len(log))) = IF n <= Len(log) THEN Len(log) - n ELSE 0
         /\ DOMAIN SubSeq(log, n + 1, Len(log)) = 1 .. Len(log) - n
         /\ \A i \in 1 .. Len(log) - n : SubSeq(log, n + 1, Len(log))[i] = log[n + i]
<1>1. Len(log) \in Nat /\ \A i \in n + 1 .. Len(log) : log[i] \in Row
  BY LenProperties
<1>2. /\ SubSeq(log, n + 1, Len(log)) \in Seq(Row)
      /\ Len(SubSeq(log, n + 1, Len(log))) = IF n + 1 <= Len(log) THEN Len(log) - (n + 1) + 1 ELSE 0
      /\ \A i \in 1 .. Len(log) - (n + 1) + 1 : SubSeq(log, n + 1, Len(log))[i] = log[(n + 1) + i - 1]
  BY <1>1, SubSeqProperties
<1>3. DOMAIN SubSeq(log, n + 1, Len(log)) = 1 .. Len(SubSeq(log, n + 1, Len(log)))
  BY <1>2, LenProperties
<1>4. \A i \in 1 .. Len(log) - n : SubSeq(log, n + 1, Len(log))[i] = log[n + i]
  <2>1. Len(log) - (n + 1) + 1 = Len(log) - n
    BY <1>1
  <2>2. \A i \in 1 .. Len(log) - n : (n + 1) + i - 1 = n + i
    OBVIOUS
  <2> QED BY <1>2, <2>1, <2>2
<1> QED BY <1>1, <1>2, <1>3, <1>4

\* The steps of a request that leave the log alone keep the types.
LEMMA CallType ==
  ASSUME TypeOK, NEW r \in Requests, NEW c \in Call, call' = [call EXCEPT ![r] = c],
         UNCHANGED <<rows, index, log, cleaner, logMax, cut>>,
         callCount' \in [Tokens -> Nat], events' \in 0 .. MaxEvents,
         missing' \in [Requests -> SUBSET Nat], faults' \subseteq Requests \cup Tokens
  PROVE  TypeOK'
BY DEF TypeOK, rows

\* The record after write_call_log.
LEMMA ContinueType ==
  ASSUME TypeOK, NEW r \in Requests, Continue(r)
  PROVE  \E c \in Call : call' = [call EXCEPT ![r] = c]
<1>1. call[r] \in Call /\ call[r].retries + 1 \in Nat
  BY DEF TypeOK, Call
<1>2. /\ [NewCall EXCEPT !.at = "selecting", !.retries = call[r].retries + 1] \in Call
      /\ [call[r] EXCEPT !.at = "gone"] \in Call
  BY <1>1 DEF NewCall, Call, Verdicts
<1> QED BY <1>2 DEF Continue

\* A request's steps keep the types and the foreign keys.
LEMMA RequestType ==
  ASSUME TypeOK, NEW r \in Requests, RequestStep(r) \/ StatementFails(r) \/ HangUp(r)
  PROVE  TypeOK'
<1>0. /\ call \in [Requests -> Call] /\ call[r] \in Call /\ tk(r) \in Tokens
      /\ callCount \in [Tokens -> Nat] /\ events \in 0 .. MaxEvents /\ MaxEvents \in Nat
      /\ missing \in [Requests -> SUBSET Nat] /\ faults \subseteq Requests \cup Tokens
  BY LedgerAssumption DEF TypeOK, tk
<1>1. ASSUME NEW where \in {"selecting", "record", "count", "log", "gone"}, Moves(r, where)
      PROVE  \E c \in Call : call' = [call EXCEPT ![r] = c]
  <2>1. [call[r] EXCEPT !.at = where] \in Call
    BY <1>0 DEF Call
  <2> QED BY <2>1, <1>1 DEF Moves
<1>2. CASE Start(r) \/ NoneSelectable(r)
  BY <1>2, <1>0, <1>1, CallType DEF Start, NoneSelectable, history
<1>3. ASSUME NEW a \in Accounts, NEW p \in Proxies, Select(r, a, p) PROVE TypeOK'
  <2>1. [call[r] EXCEPT !.at = "calling", !.acct = a, !.proxy = p] \in Call
    BY <1>0 DEF Call
  <2> QED BY <2>1, <1>3, <1>0, CallType DEF Select, history
<1>4. ASSUME NEW v \in Verdicts, Answered(r, v) PROVE TypeOK'
  <2>1. [call[r] EXCEPT !.verdict = v, !.at = IF v = "again" THEN "log" ELSE "record"] \in Call
    BY <1>0 DEF Call
  <2> QED BY <2>1, <1>4, <1>0, CallType DEF Answered, history
<1>5. CASE RecordCall(r)
  BY <1>5, <1>0, <1>1, CallType DEF RecordCall, history
<1>6. CASE CountToken(r)
  <2>1. callCount' \in [Tokens -> Nat]
    BY <1>6, <1>0, CountUp DEF CountToken
  <2> QED BY <2>1, <1>6, <1>0, <1>1, CallType DEF CountToken, history
<1>7. CASE WriteLog(r)
  <2>1. /\ log \in Seq(Row) /\ RowOf(r) \in Row
        /\ RowOf(r).token \in tokens /\ RowOf(r).acct \in accounts /\ RowOf(r).proxy \in proxies
    BY <1>7, <1>0 DEF TypeOK, RowOf, Row, Call, Succeeded, WriteLog, Referenced
  <2>2. /\ log' \in Seq(Row) /\ DOMAIN log' = 1 .. Len(log) + 1 /\ DOMAIN log = 1 .. Len(log)
        /\ \A i \in 1 .. Len(log) : log'[i] = log[i]
        /\ log'[Len(log) + 1] = RowOf(r) /\ Len(log) \in Nat
    BY <2>1, <1>7, AppendProperties, LenProperties DEF WriteLog
  <2>3. UNCHANGED <<tokens, accounts, proxies>>
    BY <1>7 DEF WriteLog, rows
  <2>4. KeysHold'
    <3>1. \A i \in 1 .. Len(log) : i \in DOMAIN log
      BY <2>2
    <3>2. KeysHold
      BY DEF TypeOK, KeysHold
    <3>3. \A i \in DOMAIN log' : i \in 1 .. Len(log) \/ i = Len(log) + 1
      BY <2>2
    <3> QED BY <2>1, <2>2, <2>3, <3>1, <3>2, <3>3 DEF KeysHold
  <2>5. call' \in [Requests -> Call]
    BY <1>7, <1>0, ContinueType DEF WriteLog
  <2> QED BY <2>2, <2>4, <2>5, <1>7 DEF WriteLog, TypeOK, KeysHold, rows, history
<1>8. CASE LogRefused(r)
  <2>1. missing' \in [Requests -> SUBSET Nat]
    BY <1>8, <1>0 DEF LogRefused, Call
  <2>2. PICK c \in Call : call' = [call EXCEPT ![r] = c]
    BY <1>8, ContinueType DEF LogRefused
  <2> QED BY <2>1, <2>2, <1>8, <1>0, CallType DEF LogRefused
<1>9. CASE StatementFails(r)
  <2>1. events' \in 0 .. MaxEvents /\ faults' \subseteq Requests \cup Tokens
    BY <1>9, <1>0 DEF StatementFails, Event
  <2>2. PICK c \in Call : call' = [call EXCEPT ![r] = c]
    BY <1>9, <1>1, ContinueType DEF StatementFails
  <2> QED BY <2>1, <2>2, <1>9, <1>0, CallType DEF StatementFails
<1>10. CASE HangUp(r)
  <2>1. faults' \subseteq Requests \cup Tokens
    BY <1>10, <1>0 DEF HangUp
  <2> QED BY <2>1, <1>10, <1>0, <1>1, CallType DEF HangUp
<1> QED BY <1>2, <1>3, <1>4, <1>5, <1>6, <1>7, <1>8, <1>9, <1>10 DEF RequestStep

\* So do deletions, the cleanup and crashes.
LEMMA OtherType ==
  ASSUME TypeOK, [Next]_vars, ~\E r \in Requests : RequestStep(r) \/ StatementFails(r) \/ HangUp(r)
  PROVE  TypeOK'
<1>0. /\ call \in [Requests -> Call] /\ log \in Seq(Row) /\ KeysHold
      /\ tokens \subseteq Tokens /\ accounts \subseteq Accounts /\ proxies \subseteq Proxies
      /\ events \in 0 .. MaxEvents /\ MaxEvents \in Nat /\ cleaner \in CleanerType
      /\ LogSettings \subseteq Int
  BY LedgerAssumption DEF TypeOK, KeysHold, CleanerType
<1>1. ASSUME NEW x, DeleteRow(x) PROVE TypeOK'
  <2>1. /\ log' \in Seq(Row) /\ DOMAIN log' = DOMAIN log
        /\ \A i \in DOMAIN log : log[i] \in Row
        /\ \A i \in DOMAIN log : log'[i] = Cleared(log[i], x)
    BY <1>1, <1>0, UnlinkedType, LenProperties DEF DeleteRow
  <2>2. \A i \in DOMAIN log : /\ log'[i].token = IF log[i].token = x THEN Null ELSE log[i].token
                              /\ log'[i].acct = IF log[i].acct = x THEN Null ELSE log[i].acct
                              /\ log'[i].proxy = IF log[i].proxy = x THEN Null ELSE log[i].proxy
    BY <2>1 DEF Cleared, Row
  <2>3. KeysHold'
    BY <2>1, <2>2, <1>0, <1>1 DEF KeysHold, DeleteRow
  <2>4. events' \in 0 .. MaxEvents
    BY <1>1, <1>0 DEF DeleteRow, Event
  <2> QED BY <2>1, <2>3, <2>4, <1>0, <1>1 DEF DeleteRow, TypeOK, KeysHold, history
<1>2. ASSUME NEW x, Forget(x) PROVE TypeOK'
  BY <1>2 DEF Forget, TypeOK, rows, history
<1>3. ASSUME NEW mb \in LogSettings, ChangeLogMax(mb) PROVE TypeOK'
  BY <1>3, <1>0 DEF ChangeLogMax, Event, TypeOK, rows, history
<1>4. CASE ReadLogMax
  BY <1>4 DEF ReadLogMax, TypeOK, rows, history
<1>5. CASE Count \/ CountFails
  <2>1. Len(log) \in Nat
    BY <1>0, LenProperties
  <2>2. cleaner' \in CleanerType
    BY <2>1, <1>5, CountRowsType DEF Count, CountFails, CleanerType
  <2>3. events' \in 0 .. MaxEvents
    BY <1>5, <1>0 DEF Count, CountFails, Event
  <2> QED BY <2>2, <2>3, <1>5 DEF Count, CountFails, CleanerType, TypeOK, rows, history
<1>6. CASE DeleteOldest
  <2>1. cleaner.del \in Nat
    BY <1>0 DEF CleanerType
  <2>2. /\ log' \in Seq(Row) /\ Len(log) \in Nat
        /\ DOMAIN log' = 1 .. Len(log) - cleaner.del
        /\ \A i \in 1 .. Len(log) - cleaner.del : log'[i] = log[cleaner.del + i]
    BY <2>1, <1>6, <1>0, CutType DEF DeleteOldest
  <2>3. DOMAIN log = 1 .. Len(log) /\ \A i \in 1 .. Len(log) : log[i] \in Row
    BY <1>0, LenProperties
  <2>4. KeysHold'
    <3>1. \A i \in 1 .. Len(log) - cleaner.del : cleaner.del + i \in DOMAIN log
      BY <2>1, <2>2, <2>3
    <3>2. UNCHANGED <<tokens, accounts, proxies>>
      BY <1>6 DEF DeleteOldest, rows
    <3> QED BY <3>1, <3>2, <2>2, <1>0 DEF KeysHold
  <2>5. cut' \in [Requests -> SUBSET Nat]
    <3>1. \A i \in 1 .. Len(log) : log[i].retry \in Nat
      BY <2>3 DEF Row
    <3>2. \A q \in Requests :
            {log[i].retry : i \in {j \in DOMAIN log : j <= cleaner.del /\ log[j].of = q}} \subseteq Nat
      BY <3>1, <2>3
    <3> QED BY <3>2, <1>6 DEF DeleteOldest, TypeOK
  <2> QED BY <2>2, <2>4, <2>5, <1>6, <1>0 DEF DeleteOldest, CleanerType, KeysHold, TypeOK, rows
<1>7. CASE DeleteFails
  <2>1. events' \in 0 .. MaxEvents
    BY <1>7, <1>0 DEF DeleteFails, Event
  <2>2. cleaner' = [cleaner EXCEPT !.at = "asleep", !.del = 0]
    BY <1>7 DEF DeleteFails
  <2>3. cleaner' \in CleanerType
    BY <2>2, <1>0 DEF CleanerType
  <2> QED BY <2>1, <2>3, <1>7 DEF DeleteFails, CleanerType, TypeOK, rows, history
<1>8. CASE Crash
  <2>1. NewCall \in Call /\ \A q \in Requests : [call[q] EXCEPT !.at = "gone"] \in Call
    BY <1>0 DEF NewCall, Call, Verdicts
  <2>2. call' \in [Requests -> Call]
    BY <2>1, <1>8 DEF Crash
  <2>3. events' \in 0 .. MaxEvents /\ cleaner' \in CleanerType
    BY <1>8, <1>0 DEF Crash, Event, Asleep, CleanerType
  <2> QED BY <2>2, <2>3, <1>8, <1>0 DEF Crash, CleanerType, TypeOK, rows
<1>9. CASE UNCHANGED vars
  BY <1>9 DEF TypeOK, vars, rows, history
<1> QED BY <1>1, <1>2, <1>3, <1>4, <1>5, <1>6, <1>7, <1>8, <1>9 DEF Next, CleanerStep

\* Types, and the foreign keys of call_logs.
THEOREM LedgerTypeCorrect == Spec => []TypeOK
<1>1. TypeOK /\ [Next]_vars => TypeOK'
  BY RequestType, OtherType
<1> QED BY InitType, <1>1, PTL DEF Spec
-----------------------------------------------------------------------------
(* The cleanup.  Between its count and its DELETE the log only grows, so    *)
(* the rows it is about to take never include one of the newest Allowed.    *)

KeepsEnough ==
  cleaner.at = "deleting" /\ Fits(cleaner.max) =>
    /\ Allowed(cleaner.max) \in Nat
    /\ Len(log) - cleaner.del >= Allowed(cleaner.max)

\* Only the cleanup makes the log shorter.
LEMMA LogGrows ==
  ASSUME TypeOK, [Next]_vars, ~DeleteOldest
  PROVE  Len(log') >= Len(log)
<1>0. log \in Seq(Row) /\ Len(log) \in Nat /\ call \in [Requests -> Call] /\ ReqToken \in [Requests -> Tokens]
  BY LedgerAssumption, LenProperties DEF TypeOK
<1>1. ASSUME NEW r \in Requests, WriteLog(r) PROVE Len(log') >= Len(log)
  <2>1. RowOf(r) \in Row
    BY <1>0 DEF RowOf, Row, Call, Succeeded, tk
  <2>2. Len(log') = Len(log) + 1
    BY <2>1, <1>0, <1>1, AppendProperties DEF WriteLog
  <2> QED BY <2>2, <1>0
<1>2. ASSUME NEW x, DeleteRow(x) PROVE Len(log') >= Len(log)
  BY <1>0, <1>2, UnlinkedType DEF DeleteRow
<1>3. CASE UNCHANGED log
  BY <1>3, <1>0
<1>4. \/ \E r \in Requests : WriteLog(r)
      \/ \E x \in Tokens \cup Accounts \cup Proxies : DeleteRow(x)
      \/ UNCHANGED log
  BY DEF Next, RequestStep, CleanerStep, Start, NoneSelectable, Select, Answered, RecordCall, CountToken,
     LogRefused, StatementFails, HangUp, Forget, ChangeLogMax, ReadLogMax, Count, CountFails,
     DeleteFails, Crash, vars
<1> QED BY <1>1, <1>2, <1>3, <1>4

\* Where the cleaner goes in a step that is not its DELETE.
LEMMA CleanerMoves ==
  ASSUME TypeOK, [Next]_vars, ~DeleteOldest, cleaner'.at = "deleting"
  PROVE  \/ cleaner' = cleaner
         \/ /\ cleaner'.max = cleaner.max /\ cleaner.max > 0 /\ log' = log
            /\ \E n \in 0 .. Len(log) : n > MaxRows(cleaner.max) /\ cleaner'.del = n - MaxRows(cleaner.max)
<1>0. Len(log) \in Nat /\ cleaner \in CleanerType
  BY LenProperties DEF TypeOK, CleanerType
<1>1. CASE Count \/ CountFails
  <2>1. PICK n \in 0 .. Len(log) : CountRows(n) /\ log' = log
    BY <1>0, <1>1 DEF Count, CountFails
  <2> QED BY <2>1, CountRowsType
<1>2. CASE ReadLogMax \/ DeleteFails \/ Crash
  <2>1. \/ cleaner' = Asleep
        \/ cleaner' = [cleaner EXCEPT !.at = "counting", !.max = logMax]
        \/ cleaner' = [cleaner EXCEPT !.at = "asleep", !.del = 0]
    BY <1>2 DEF ReadLogMax, DeleteFails, Crash
  <2>2. /\ Asleep.at = "asleep"
        /\ [cleaner EXCEPT !.at = "counting", !.max = logMax].at = "counting"
        /\ [cleaner EXCEPT !.at = "asleep", !.del = 0].at = "asleep"
    BY <1>0 DEF CleanerType, Asleep
  <2> QED BY <2>1, <2>2
<1>3. ReadLogMax \/ DeleteFails \/ Crash \/ Count \/ CountFails \/ UNCHANGED cleaner
  BY DEF Next, RequestStep, CleanerStep, Start, NoneSelectable, Select, Answered, RecordCall, CountToken,
     WriteLog, LogRefused, StatementFails, HangUp, DeleteRow, Forget, ChangeLogMax, vars
<1> QED BY <1>1, <1>2, <1>3

\* A cleanup under way never leaves fewer rows than the limit it read allows.
LEMMA KeepsEnoughHolds == Spec => []KeepsEnough
<1>1. Init => KeepsEnough
  BY DEF Init, Asleep, KeepsEnough
<1>2. ASSUME TypeOK, KeepsEnough, [Next]_vars PROVE KeepsEnough'
  <2> SUFFICES ASSUME cleaner'.at = "deleting", Fits(cleaner'.max)
               PROVE  /\ Allowed(cleaner'.max) \in Nat
                      /\ Len(log') - cleaner'.del >= Allowed(cleaner'.max)
    BY DEF KeepsEnough, Fits, Allowed
  <2>0. /\ Len(log) \in Nat /\ cleaner \in CleanerType /\ cleaner.max \in Int /\ cleaner.del \in Nat
    <3>1. LogSettings \cup {0} \subseteq Int
      BY LedgerAssumption
    <3> QED BY <1>2, <3>1, LenProperties DEF TypeOK, CleanerType
  <2>1. ~DeleteOldest
    BY <2>0 DEF DeleteOldest, CleanerType
  <2>2. Len(log') >= Len(log) /\ Len(log') \in Nat
    <3>1. TypeOK'
      BY <1>2, RequestType, OtherType
    <3> QED BY <1>2, <2>1, <3>1, LogGrows, LenProperties DEF TypeOK
  <2>3. CASE cleaner' = cleaner
    BY <1>2, <2>0, <2>2, <2>3 DEF KeepsEnough
  <2>4. CASE cleaner' # cleaner
    <3>1. PICK n \in 0 .. Len(log) : /\ cleaner'.del = n - MaxRows(cleaner.max) /\ cleaner.max > 0
                                     /\ cleaner'.max = cleaner.max /\ log' = log
      BY <1>2, <2>1, <2>4, CleanerMoves
    <3>2. MaxRows(cleaner.max) = Allowed(cleaner.max) /\ Allowed(cleaner.max) \in Nat
      BY <2>0, <3>1, AllowedFits
    <3>3. Len(log) - (n - Allowed(cleaner.max)) >= Allowed(cleaner.max)
      BY <2>0, <3>2
    <3> QED BY <3>1, <3>2, <3>3
  <2> QED BY <2>3, <2>4
<1> QED BY <1>1, <1>2, LedgerTypeCorrect, PTL DEF Spec

\* NewestKept: whatever is logged while the cleanup runs, it takes the oldest rows and leaves
\* as many as its limit allows.
THEOREM CleanupKeepsNewest == Spec => NewestKept
<1> DEFINE Kept == Len(log') < Len(log) /\ Fits(cleaner.max) =>
                     /\ log' = SubSeq(log, Len(log) - Len(log') + 1, Len(log))
                     /\ Len(log') >= Allowed(cleaner.max)
<1>1. ASSUME TypeOK, KeepsEnough, [Next]_vars PROVE Kept
  <2> SUFFICES ASSUME Len(log') < Len(log), Fits(cleaner.max)
               PROVE  /\ log' = SubSeq(log, Len(log) - Len(log') + 1, Len(log))
                      /\ Len(log') >= Allowed(cleaner.max)
    OBVIOUS
  <2>1. TypeOK' /\ Len(log) \in Nat /\ Len(log') \in Nat
    <3>1. TypeOK'
      BY <1>1, RequestType, OtherType
    <3> QED BY <1>1, <3>1, LenProperties DEF TypeOK
  <2>2. DeleteOldest
    BY <1>1, <2>1, LogGrows
  <2>3. /\ log \in Seq(Row) /\ cleaner.del \in Nat /\ log' = SubSeq(log, cleaner.del + 1, Len(log))
        /\ Allowed(cleaner.max) \in Nat /\ Len(log) - cleaner.del >= Allowed(cleaner.max)
    BY <1>1, <2>2 DEF DeleteOldest, TypeOK, KeepsEnough
  <2>4. Len(log') = Len(log) - cleaner.del
    <3>1. Len(SubSeq(log, cleaner.del + 1, Len(log)))
            = IF cleaner.del <= Len(log) THEN Len(log) - cleaner.del ELSE 0
      BY <2>3, CutType
    <3>2. cleaner.del <= Len(log)
      BY <2>1, <2>3
    <3> QED BY <3>1, <3>2, <2>3
  <2>5. Len(log) - Len(log') = cleaner.del
    BY <2>1, <2>3, <2>4
  <2> QED BY <2>3, <2>4, <2>5
<1> QED BY <1>1, KeepsEnoughHolds, LedgerTypeCorrect, PTL DEF Spec, NewestKept
-----------------------------------------------------------------------------
(* Counting before logging.  A success that is about to be logged has been  *)
(* counted already, so those two kinds together never outgrow the count.    *)

Evidence(t) == {i \in DOMAIN log : log[i].ok /\ log[i].token = t}
Pending(t)  == {r \in Requests : at(r) = "log" /\ Succeeded(r) /\ tk(r) = t}
CoveredOf(t) == t \in tokens \ faults => Cardinality(Evidence(t)) + Cardinality(Pending(t)) <= callCount[t]
Covered == \A t \in Tokens : CoveredOf(t)

\* The successes the log holds for a token, and the requests about to add one, are finitely many.
LEMMA FiniteEvidence ==
  ASSUME TypeOK, NEW t
  PROVE  /\ IsFiniteSet(Evidence(t)) /\ Cardinality(Evidence(t)) \in Nat
         /\ IsFiniteSet(Pending(t)) /\ Cardinality(Pending(t)) \in Nat
<1>1. DOMAIN log = 1 .. Len(log) /\ Len(log) \in Int
  BY LenProperties DEF TypeOK
<1>2. IsFiniteSet(DOMAIN log)
  BY <1>1, FS_Interval
<1>3. Evidence(t) \in SUBSET DOMAIN log /\ Pending(t) \in SUBSET Requests
  BY DEF Evidence, Pending
<1> QED BY <1>2, <1>3, LedgerAssumption, FS_Subset, FS_CardinalityType

\* Steps that neither log nor let a request that succeeded come before its log row.
LEMMA NothingLogged ==
  ASSUME TypeOK, TypeOK', NEW t \in Tokens, CoveredOf(t),
         t \in tokens' \ faults' => t \in tokens \ faults,
         Evidence(t)' = Evidence(t), Pending(t)' \subseteq Pending(t), callCount'[t] >= callCount[t]
  PROVE  CoveredOf(t)'
<1>1. /\ Cardinality(Evidence(t)) \in Nat /\ IsFiniteSet(Pending(t)) /\ Cardinality(Pending(t)) \in Nat
      /\ Cardinality(Pending(t))' \in Nat /\ callCount[t] \in Nat /\ callCount'[t] \in Nat
  <2>1. Cardinality(Pending(t)') \in Nat
    BY FiniteEvidence, FS_Subset, FS_CardinalityType
  <2> QED BY <2>1, FiniteEvidence DEF TypeOK
<1>2. Cardinality(Pending(t)') <= Cardinality(Pending(t))
  BY <1>1, FS_Subset
<1> QED BY <1>1, <1>2 DEF CoveredOf

\* A request that moves and is not about to log a success any more, or was not either.
LEMMA PendingShrinks ==
  ASSUME NEW t, NEW r \in Requests, \A q \in Requests : q # r => call'[q] = call[q],
         r \in Pending(t)' => r \in Pending(t)
  PROVE  Pending(t)' \subseteq Pending(t)
BY DEF Pending, at, Succeeded, tk

\* The steps of requests, the last two of a success included.
LEMMA RequestCovered ==
  ASSUME TypeOK, TypeOK', NEW t \in Tokens, CoveredOf(t), NEW r \in Requests,
         RequestStep(r) \/ StatementFails(r) \/ HangUp(r)
  PROVE  CoveredOf(t)'
<1>0. /\ call \in [Requests -> Call] /\ call[r] \in Call /\ tk(r) \in Tokens
      /\ callCount \in [Tokens -> Nat] /\ callCount[t] \in Nat
      /\ log \in Seq(Row) /\ Len(log) \in Nat /\ DOMAIN log = 1 .. Len(log)
  BY LedgerAssumption, LenProperties DEF TypeOK, tk
<1>1. ASSUME UNCHANGED <<rows, log, callCount>>, faults \subseteq faults',
             \A q \in Requests : q # r => call'[q] = call[q],
             r \in Pending(t)' => r \in Pending(t)
      PROVE  CoveredOf(t)'
  <2>1. Evidence(t)' = Evidence(t) /\ Pending(t)' \subseteq Pending(t)
    BY <1>1, PendingShrinks DEF Evidence
  <2> QED BY <2>1, <1>0, <1>1, NothingLogged DEF rows
<1>2. ASSUME NEW where, Moves(r, where)
      PROVE  /\ call'[r].at = where /\ call'[r].verdict = call[r].verdict
             /\ \A q \in Requests : q # r => call'[q] = call[q]
  BY <1>0, <1>2 DEF Moves, Call
<1>3. ASSUME Continue(r)
      PROVE  call'[r].at # "log" /\ \A q \in Requests : q # r => call'[q] = call[q]
  <2>1. call'[r] = [NewCall EXCEPT !.at = "selecting", !.retries = call[r].retries + 1]
        \/ call'[r] = [call[r] EXCEPT !.at = "gone"]
    BY <1>0, <1>3 DEF Continue
  <2>2. /\ [NewCall EXCEPT !.at = "selecting", !.retries = call[r].retries + 1].at = "selecting"
        /\ [call[r] EXCEPT !.at = "gone"].at = "gone"
    BY <1>0 DEF NewCall, Call
  <2> QED BY <2>1, <2>2, <1>0, <1>3 DEF Continue
<1>4. CASE Start(r) \/ NoneSelectable(r) \/ HangUp(r)
  BY <1>4, <1>1, <1>2 DEF Start, NoneSelectable, HangUp, history, Pending, at
<1>5. ASSUME NEW a \in Accounts, NEW p \in Proxies, Select(r, a, p) PROVE CoveredOf(t)'
  <2>1. call'[r].at = "calling" /\ \A q \in Requests : q # r => call'[q] = call[q]
    BY <1>5, <1>0 DEF Select, Call
  <2> QED BY <2>1, <1>5, <1>1 DEF Select, history, Pending, at
<1>6. ASSUME NEW v \in Verdicts, Answered(r, v) PROVE CoveredOf(t)'
  <2>1. /\ call'[r].verdict = v /\ call'[r].at = IF v = "again" THEN "log" ELSE "record"
        /\ \A q \in Requests : q # r => call'[q] = call[q]
    BY <1>6, <1>0 DEF Answered, Call
  <2>2. r \notin Pending(t)'
    BY <2>1 DEF Pending, at, Succeeded
  <2> QED BY <2>1, <2>2, <1>6, <1>1 DEF Answered, history
<1>7. CASE RecordCall(r)
  <2>1. r \notin Pending(t)'
    BY <1>7, <1>2 DEF RecordCall, Pending, at, Succeeded
  <2> QED BY <2>1, <1>7, <1>1, <1>2 DEF RecordCall, history
<1>8. CASE CountToken(r)
  <2>1. UNCHANGED <<tokens, log, faults>> /\ \A q \in Requests : q # r => call'[q] = call[q]
    BY <1>8, <1>2 DEF CountToken, rows, history
  <2>2. Evidence(t)' = Evidence(t)
    BY <2>1 DEF Evidence
  <2>3. CASE t = tk(r)
    <3>1. t \in tokens => callCount'[t] = callCount[t] + 1
      BY <1>8, <1>0, <2>3 DEF CountToken
    <3>2. Pending(t)' \ {r} = Pending(t) \ {r}
      BY <2>1 DEF Pending, at, Succeeded, tk
    <3>3. r \notin Pending(t)
      BY <1>8 DEF CountToken, Pending
    <3>4. Cardinality(Pending(t)') <= Cardinality(Pending(t)) + 1 /\ Cardinality(Pending(t)') \in Nat
      BY <3>2, <3>3, FiniteEvidence, CountMoves DEF One
    <3>5. Cardinality(Evidence(t)) \in Nat /\ Cardinality(Pending(t)) \in Nat
      BY FiniteEvidence
    <3> QED BY <3>1, <3>4, <3>5, <2>1, <2>2, <1>0 DEF CoveredOf
  <2>4. CASE t # tk(r)
    <3>1. callCount'[t] = callCount[t]
      BY <1>8, <1>0, <2>4 DEF CountToken
    <3>2. r \notin Pending(t)'
      BY <2>4 DEF Pending, tk
    <3>3. Pending(t)' \subseteq Pending(t)
      BY <3>2, <2>1, PendingShrinks
    <3> QED BY <3>1, <3>3, <2>1, <2>2, <1>0, NothingLogged
  <2> QED BY <2>3, <2>4
<1>9. CASE WriteLog(r)
  <2>1. /\ UNCHANGED <<tokens, callCount, faults>>
        /\ call'[r].at # "log" /\ \A q \in Requests : q # r => call'[q] = call[q]
    BY <1>9, <1>3 DEF WriteLog, rows, history
  <2>2. RowOf(r) \in Row
    BY <1>0 DEF RowOf, Row, Call, Succeeded
  <2>3. /\ DOMAIN log' = 1 .. Len(log) + 1
        /\ \A i \in 1 .. Len(log) : log'[i] = log[i]
        /\ log'[Len(log) + 1] = RowOf(r)
    BY <1>9, <1>0, <2>2, AppendProperties, LenProperties DEF WriteLog
  <2>4. /\ RowOf(r).ok <=> Succeeded(r)
        /\ RowOf(r).token = tk(r) /\ at(r) = "log"
    BY <1>9 DEF RowOf, WriteLog
  <2> DEFINE n == Len(log) + 1
  <2>5. Evidence(t)' \ {n} = Evidence(t) \ {n} /\ n \notin Evidence(t)
    BY <2>3, <1>0 DEF Evidence
  <2>6. n \in Evidence(t)' <=> r \in Pending(t)
    BY <2>3, <2>4, <1>0 DEF Evidence, Pending
  <2>7. Pending(t)' \ {r} = Pending(t) \ {r} /\ r \notin Pending(t)'
    BY <2>1 DEF Pending, at, Succeeded, tk
  <2>8. /\ Cardinality(Evidence(t)') = Cardinality(Evidence(t)) + One(r \in Pending(t))
        /\ Cardinality(Evidence(t)') \in Nat
    BY <2>5, <2>6, FiniteEvidence, CountMoves DEF One
  <2>9. /\ Cardinality(Pending(t)') = Cardinality(Pending(t)) - One(r \in Pending(t))
        /\ Cardinality(Pending(t)') \in Nat
    BY <2>7, FiniteEvidence, CountMoves DEF One
  <2>10. Cardinality(Evidence(t)) \in Nat /\ Cardinality(Pending(t)) \in Nat
    BY FiniteEvidence
  <2> QED BY <2>1, <2>8, <2>9, <2>10, <1>0 DEF CoveredOf, One
<1>10. CASE LogRefused(r)
  BY <1>10, <1>1, <1>3 DEF LogRefused, Pending, at
<1>11. CASE StatementFails(r)
  <2>1. CASE at(r) = "log" /\ Continue(r)
    BY <1>11, <2>1, <1>1, <1>3 DEF StatementFails, Pending, at
  <2>2. CASE at(r) = "count" /\ Moves(r, "log") /\ faults' = faults \cup {tk(r)}
    <3>1. CASE t = tk(r)
      BY <2>2, <3>1 DEF CoveredOf
    <3>2. CASE t # tk(r)
      <4>1. r \notin Pending(t)'
        BY <3>2 DEF Pending, tk
      <4> QED BY <1>11, <2>2, <4>1, <1>1, <1>2 DEF StatementFails
    <3> QED BY <3>1, <3>2
  <2> QED BY <1>11, <2>1, <2>2 DEF StatementFails
<1> QED BY <1>4, <1>5, <1>6, <1>7, <1>8, <1>9, <1>10, <1>11 DEF RequestStep

\* Deletions, the cleanup and crashes.
LEMMA OtherCovered ==
  ASSUME TypeOK, TypeOK', NEW t \in Tokens, CoveredOf(t), [Next]_vars,
         ~\E r \in Requests : RequestStep(r) \/ StatementFails(r) \/ HangUp(r)
  PROVE  CoveredOf(t)'
<1>0. /\ call \in [Requests -> Call] /\ callCount[t] \in Nat
      /\ log \in Seq(Row) /\ Len(log) \in Nat /\ DOMAIN log = 1 .. Len(log)
      /\ \A i \in DOMAIN log : log[i] \in Row
  BY LenProperties DEF TypeOK
<1>1. ASSUME NEW x, DeleteRow(x) PROVE CoveredOf(t)'
  <2>1. /\ tokens' = tokens \ {x} /\ UNCHANGED <<callCount, call, faults>>
        /\ DOMAIN log' = DOMAIN log /\ \A i \in DOMAIN log : log'[i] = Cleared(log[i], x)
    BY <1>1, <1>0, UnlinkedType DEF DeleteRow, history
  <2>2. CASE t = x
    BY <2>1, <2>2 DEF CoveredOf
  <2>3. CASE t # x
    <3>1. t # Null
      BY LedgerAssumption
    <3>2. \A i \in DOMAIN log : /\ log'[i].ok = log[i].ok
                                /\ log'[i].token = IF log[i].token = x THEN Null ELSE log[i].token
      BY <2>1, <1>0 DEF Cleared, Row
    <3>3. Evidence(t)' = Evidence(t)
      BY <3>1, <3>2, <2>1, <2>3 DEF Evidence
    <3>4. Pending(t)' = Pending(t)
      BY <2>1 DEF Pending, at, Succeeded
    <3> QED BY <3>3, <3>4, <2>1, <1>0, NothingLogged
  <2> QED BY <2>2, <2>3
<1>2. CASE DeleteOldest
  <2> DEFINE n == cleaner.del
             down == [i \in Evidence(t)' |-> n + i]
  <2>1. /\ n \in Nat /\ UNCHANGED <<tokens, callCount, call, faults>>
        /\ DOMAIN log' = 1 .. Len(log) - n
        /\ \A i \in 1 .. Len(log) - n : log'[i] = log[n + i]
    <3>1. n \in Nat
      BY DEF TypeOK
    <3> QED BY <3>1, <1>0, <1>2, CutType DEF DeleteOldest, rows
  <2>2. Pending(t)' = Pending(t)
    BY <2>1 DEF Pending, at, Succeeded
  <2>3. \A i \in Evidence(t)' : i \in Int /\ n + i \in Evidence(t)
    BY <2>1, <1>0 DEF Evidence
  <2>4. down \in [Evidence(t)' -> Evidence(t)]
    BY <2>3
  <2>5. \A i, j \in Evidence(t)' : down[i] = down[j] => i = j
    BY <2>1, <2>3
  <2>6. down \in Injection(Evidence(t)', Evidence(t))
    BY <2>4, <2>5 DEF Injection, IsInjective
  <2>7. Cardinality(Evidence(t)') <= Cardinality(Evidence(t)) /\ Cardinality(Evidence(t)') \in Nat
    BY <2>6, FiniteEvidence, FS_Injection, FS_CardinalityType
  <2>8. Cardinality(Evidence(t)) \in Nat /\ Cardinality(Pending(t)) \in Nat
    BY FiniteEvidence
  <2> QED BY <2>1, <2>2, <2>7, <2>8, <1>0 DEF CoveredOf
<1>3. CASE Crash
  <2>1. UNCHANGED <<tokens, callCount, log>> /\ faults \subseteq faults'
    BY <1>3 DEF Crash, rows
  <2>2. Pending(t)' = {}
    <3>1. \A r \in Requests : call'[r].at # "log"
      BY <1>3, <1>0 DEF Crash, NewCall, Call
    <3> QED BY <3>1 DEF Pending, at
  <2>3. Evidence(t)' = Evidence(t)
    BY <2>1 DEF Evidence
  <2> QED BY <2>1, <2>2, <2>3, <1>0, NothingLogged
<1>4. CASE UNCHANGED <<tokens, callCount, log, call, faults>>
  <2>1. Evidence(t)' = Evidence(t) /\ Pending(t)' = Pending(t)
    BY <1>4 DEF Evidence, Pending, at, Succeeded
  <2> QED BY <2>1, <1>4, <1>0, NothingLogged
<1>5. \/ \E x \in Tokens \cup Accounts \cup Proxies : DeleteRow(x)
      \/ DeleteOldest \/ Crash \/ UNCHANGED <<tokens, callCount, log, call, faults>>
  BY DEF Next, CleanerStep, Forget, ChangeLogMax, ReadLogMax, Count, CountFails, DeleteFails, vars, rows,
     history
<1> QED BY <1>1, <1>2, <1>3, <1>4, <1>5

\* CountedBeforeLogged: a token's count is never behind the successes the log shows for it.
THEOREM BillingCovered == Spec => []CountedBeforeLogged
<1>1. Init => Covered
  <2> SUFFICES ASSUME Init, NEW t \in Tokens PROVE CoveredOf(t)
    BY DEF Covered
  <2>1. DOMAIN log = {}
    BY EmptySeq, LenProperties DEF Init
  <2>2. Evidence(t) = {} /\ Pending(t) = {} /\ callCount[t] = 0
    BY <2>1 DEF Init, Evidence, Pending, at, NewCall
  <2>3. Cardinality(Evidence(t)) = 0 /\ Cardinality(Pending(t)) = 0
    BY <2>2, FS_EmptySet
  <2> QED BY <2>2, <2>3 DEF CoveredOf
<1>2. ASSUME TypeOK, TypeOK', Covered, [Next]_vars PROVE Covered'
  BY <1>2, RequestCovered, OtherCovered DEF Covered
<1>3. ASSUME TypeOK, Covered PROVE CountedBeforeLogged
  <2> SUFFICES ASSUME NEW t \in tokens \ faults
               PROVE  Cardinality({i \in DOMAIN log : log[i].ok /\ log[i].token = t}) <= callCount[t]
    BY DEF CountedBeforeLogged
  <2>1. t \in Tokens /\ callCount[t] \in Nat
    BY <1>3 DEF TypeOK
  <2>2. Cardinality(Evidence(t)) + Cardinality(Pending(t)) <= callCount[t]
    BY <1>3, <2>1 DEF Covered, CoveredOf
  <2>3. Cardinality(Evidence(t)) \in Nat /\ Cardinality(Pending(t)) \in Nat
    BY <1>3, FiniteEvidence
  <2>4. Cardinality(Evidence(t)) <= callCount[t]
    BY <2>1, <2>2, <2>3
  <2> QED BY <2>4 DEF Evidence
<1> QED BY <1>1, <1>2, <1>3, LedgerTypeCorrect, PTL DEF Spec
-----------------------------------------------------------------------------
(* The trail of a request, at every moment and not only at its end: the     *)
(* attempts made so far, each in the log, cut from it or kept out by a key. *)

Deleted == tokens # Tokens \/ accounts # Accounts \/ proxies # Proxies
Done(r) == IF at(r) = "gone" THEN Made(r) ELSE 0 .. call[r].retries - 1
\* The attempt that gave the caller a success.
Last(r) == IF at(r) = "gone" /\ Succeeded(r) THEN call[r].retries ELSE -1
LocalsOK(r) ==
  /\ at(r) = "new" => call[r] = NewCall
  /\ at(r) \in {"new", "selecting", "calling"} => call[r].verdict = "none"
  /\ at(r) \in {"record", "count", "log"} => call[r].verdict # "none"
  /\ at(r) \in {"calling", "record", "count", "log"} =>
       call[r].acct \in Accounts /\ call[r].proxy \in Proxies
LogOf(r) ==
  /\ \A i, j \in DOMAIN log : log[i].of = r /\ log[j].of = r /\ i # j => log[i].retry # log[j].retry
  /\ \A i \in DOMAIN log : log[i].of = r => (log[i].ok <=> log[i].retry = Last(r))
Trail(r) ==
  /\ Logged(r) \cup cut[r] \cup missing[r] = Done(r)
  /\ missing[r] # {} => Deleted
  /\ LogOf(r)
  /\ LocalsOK(r)
TrailOf(r) == r \notin faults => Trail(r)
Trails == \A r \in Requests : TrailOf(r)

\* The log's rows of a request are what they were.
SameRows(r) ==
  /\ \A i \in DOMAIN log : log[i].of = r =>
       i \in DOMAIN log' /\ log'[i].of = r /\ log'[i].retry = log[i].retry /\ log'[i].ok = log[i].ok
  /\ \A i \in DOMAIN log' : log'[i].of = r => i \in DOMAIN log /\ log[i].of = r

\* A deleted row does not come back.
LEMMA DeletedStays ==
  ASSUME TypeOK, tokens' \subseteq tokens, accounts' \subseteq accounts, proxies' \subseteq proxies, Deleted
  PROVE  Deleted'
BY DEF TypeOK, Deleted

\* Steps that leave a request's rows and the attempts it has made as they are.
LEMMA TrailKept ==
  ASSUME TypeOK, NEW r \in Requests, Trail(r), SameRows(r),
         cut'[r] = cut[r], missing'[r] = missing[r],
         tokens' \subseteq tokens, accounts' \subseteq accounts, proxies' \subseteq proxies,
         Done(r)' = Done(r), Last(r)' = Last(r), LocalsOK(r)'
  PROVE  Trail(r)'
<1>1. Logged(r)' = Logged(r)
  BY DEF SameRows, Logged
<1>2. missing'[r] # {} => Deleted'
  BY DeletedStays DEF Trail
<1>3. LogOf(r)'
  <2>1. \A i \in DOMAIN log' : log'[i].of = r => (log'[i].ok <=> log'[i].retry = Last(r)')
    BY DEF Trail, LogOf, SameRows
  <2> QED BY <2>1 DEF Trail, LogOf, SameRows
<1> QED BY <1>1, <1>2, <1>3 DEF Trail

\* Steps of others.
LEMMA TrailUntouched ==
  ASSUME TypeOK, NEW r \in Requests, TrailOf(r), r \notin faults' => r \notin faults, SameRows(r),
         cut'[r] = cut[r], missing'[r] = missing[r], call'[r] = call[r],
         tokens' \subseteq tokens, accounts' \subseteq accounts, proxies' \subseteq proxies
  PROVE  TrailOf(r)'
<1>1. Done(r)' = Done(r) /\ LocalsOK(r)' = LocalsOK(r) /\ Last(r)' = Last(r)
  BY DEF Done, LocalsOK, Last, Made, at, Succeeded
<1> QED BY <1>1, TrailKept DEF TrailOf, Trail

\* After write_call_log: the next attempt, or the end.
LEMMA TrailContinues ==
  ASSUME TypeOK, NEW r \in Requests, at(r) = "log", Continue(r), LocalsOK(r)
  PROVE  /\ Done(r)' = Done(r) \cup {call[r].retries}
         /\ LocalsOK(r)'
         /\ Last(r)' = IF Succeeded(r) THEN call[r].retries ELSE -1
<1>1. call \in [Requests -> Call] /\ call[r] \in Call /\ call[r].retries \in Nat
  BY DEF TypeOK, Call
<1>2. CASE call[r].verdict = "again" /\ call[r].retries < MaxRetries
  <2>1. call'[r] = [NewCall EXCEPT !.at = "selecting", !.retries = call[r].retries + 1]
    BY <1>1, <1>2 DEF Continue
  <2>2. call'[r].at = "selecting" /\ call'[r].retries = call[r].retries + 1 /\ call'[r].verdict = "none"
    BY <2>1 DEF NewCall
  <2>3. Done(r)' = 0 .. call[r].retries /\ Done(r) = 0 .. call[r].retries - 1
    BY <2>2, <1>1 DEF Done, at
  <2>4. 0 .. call[r].retries = (0 .. call[r].retries - 1) \cup {call[r].retries}
    BY <1>1
  <2> QED BY <1>2, <2>2, <2>3, <2>4 DEF LocalsOK, Last, at, Succeeded
<1>3. CASE ~(call[r].verdict = "again" /\ call[r].retries < MaxRetries)
  <2>1. call'[r] = [call[r] EXCEPT !.at = "gone"]
    BY <1>1, <1>3 DEF Continue
  <2>2. call'[r].at = "gone" /\ call'[r].retries = call[r].retries /\ call'[r].verdict = call[r].verdict
    BY <2>1, <1>1 DEF Call
  <2>3. call[r].verdict # "none"
    BY DEF LocalsOK
  <2>4. Done(r)' = 0 .. call[r].retries /\ Done(r) = 0 .. call[r].retries - 1
    BY <2>2, <2>3, <1>1 DEF Done, Made, at
  <2>5. 0 .. call[r].retries = (0 .. call[r].retries - 1) \cup {call[r].retries}
    BY <1>1
  <2> QED BY <2>2, <2>4, <2>5 DEF LocalsOK, Last, at, Succeeded
<1> QED BY <1>2, <1>3

\* A request's own steps.
LEMMA OwnTrail ==
  ASSUME TypeOK, NEW r \in Requests, TrailOf(r), RequestStep(r) \/ StatementFails(r) \/ HangUp(r)
  PROVE  TrailOf(r)'
<1> SUFFICES ASSUME r \notin faults' PROVE Trail(r)'
  BY DEF TrailOf
<1>0. /\ call \in [Requests -> Call] /\ call[r] \in Call /\ call[r].retries \in Nat /\ tk(r) \in Tokens
      /\ log \in Seq(Row) /\ Len(log) \in Nat /\ DOMAIN log = 1 .. Len(log)
      /\ \A i \in DOMAIN log : log[i] \in Row
  BY LedgerAssumption, LenProperties DEF TypeOK, Call, tk
<1>1. Trail(r) /\ LocalsOK(r)
  BY DEF TrailOf, Trail, RequestStep, Start, NoneSelectable, Select, Answered, RecordCall, CountToken,
         WriteLog, LogRefused, StatementFails, HangUp, history
<1>2. ASSUME UNCHANGED <<rows, log, cut, missing>>, LocalsOK(r)', call'[r].retries = call[r].retries,
             at(r) # "gone", at(r)' # "gone" \/ call'[r].verdict = "none"
      PROVE  Trail(r)'
  <2>1. SameRows(r)
    BY <1>2 DEF SameRows
  <2>2. Done(r)' = Done(r)
    BY <1>2 DEF Done, Made, at
  <2>3. Last(r)' = Last(r)
    BY <1>2 DEF Last, at, Succeeded
  <2> QED BY <1>1, <1>2, <2>1, <2>2, <2>3, TrailKept DEF rows
<1>3. ASSUME NEW where, Moves(r, where)
      PROVE  call'[r].at = where /\ call'[r].verdict = call[r].verdict /\ call'[r].retries = call[r].retries
             /\ call'[r].acct = call[r].acct /\ call'[r].proxy = call[r].proxy
  BY <1>0, <1>3 DEF Moves, Call
<1>4. CASE Start(r) \/ NoneSelectable(r)
  BY <1>4, <1>1, <1>2, <1>3 DEF Start, NoneSelectable, LocalsOK, at, history
<1>5. ASSUME NEW a \in Accounts, NEW p \in Proxies, Select(r, a, p) PROVE Trail(r)'
  <2>1. /\ call'[r].at = "calling" /\ call'[r].acct = a /\ call'[r].proxy = p
        /\ call'[r].verdict = call[r].verdict /\ call'[r].retries = call[r].retries
    BY <1>5, <1>0 DEF Select, Call
  <2> QED BY <2>1, <1>5, <1>1, <1>2 DEF Select, LocalsOK, at, history
<1>6. ASSUME NEW v \in Verdicts \ {"none"}, Answered(r, v) PROVE Trail(r)'
  <2>1. /\ call'[r].at \in {"log", "record"} /\ call'[r].acct = call[r].acct /\ call'[r].proxy = call[r].proxy
        /\ call'[r].verdict = v /\ call'[r].retries = call[r].retries
    BY <1>6, <1>0 DEF Answered, Call
  <2> QED BY <2>1, <1>6, <1>1, <1>2 DEF Answered, LocalsOK, at, history
<1>7. CASE RecordCall(r)
  BY <1>7, <1>1, <1>2, <1>3 DEF RecordCall, LocalsOK, at, history
<1>8. CASE CountToken(r)
  BY <1>8, <1>1, <1>2, <1>3 DEF CountToken, LocalsOK, at, history
<1>9. CASE WriteLog(r)
  <2> DEFINE n == Len(log) + 1
  <2>1. RowOf(r) \in Row
    BY <1>0, <1>9 DEF RowOf, Row, Call, Succeeded
  <2>2. /\ DOMAIN log' = 1 .. n /\ log'[n] = RowOf(r)
        /\ \A i \in 1 .. Len(log) : log'[i] = log[i]
    BY <1>9, <1>0, <2>1, AppendProperties, LenProperties DEF WriteLog
  <2>3. log'[n].of = r /\ log'[n].retry = call[r].retries /\ (log'[n].ok <=> Succeeded(r))
    BY <2>2 DEF RowOf
  <2>4. /\ Done(r)' = Done(r) \cup {call[r].retries} /\ LocalsOK(r)'
        /\ Last(r)' = IF Succeeded(r) THEN call[r].retries ELSE -1
    BY <1>9, <1>1, TrailContinues DEF WriteLog
  <2>5. UNCHANGED <<tokens, accounts, proxies, cut, missing>> /\ at(r) = "log"
    BY <1>9 DEF WriteLog, rows, history
  <2>6. Logged(r)' = Logged(r) \cup {call[r].retries}
    <3>1. Logged(r)' = {log'[i].retry : i \in {j \in 1 .. n : log'[j].of = r}}
      BY <2>2 DEF Logged
    <3>2. \A i : i \in 1 .. n <=> i \in 1 .. Len(log) \/ i = n
      BY <1>0
    <3> QED BY <3>1, <3>2, <2>2, <2>3, <1>0 DEF Logged
  <2>7. \A i \in DOMAIN log : log[i].of = r =>
          log[i].retry \in Nat /\ log[i].retry # call[r].retries /\ ~log[i].ok
    <3>1. Logged(r) \subseteq 0 .. call[r].retries - 1
      BY <1>1, <2>5 DEF Trail, Done
    <3>2. \A i \in DOMAIN log : log[i].of = r => log[i].retry \in 0 .. call[r].retries - 1
      BY <3>1 DEF Logged
    <3> QED BY <3>2, <2>5, <1>0, <1>1 DEF Trail, LogOf, Last
  <2>8. LogOf(r)'
    <3>1. \A i \in DOMAIN log' : i = n \/ (i \in DOMAIN log /\ log'[i] = log[i])
      <4>1. \A i \in 1 .. n : i = n \/ i \in 1 .. Len(log)
        BY <1>0
      <4> QED BY <4>1, <2>2, <1>0
    <3>2. \A i \in DOMAIN log' : log'[i].of = r => (log'[i].ok <=> log'[i].retry = Last(r)')
      BY <3>1, <2>3, <2>4, <2>7, <1>0
    <3>3. \A i, j \in DOMAIN log' :
            log'[i].of = r /\ log'[j].of = r /\ i # j => log'[i].retry # log'[j].retry
      BY <3>1, <2>3, <2>7, <1>1 DEF Trail, LogOf
    <3> QED BY <3>2, <3>3 DEF LogOf
  <2>9. missing'[r] # {} => Deleted'
    BY <2>5, <1>1 DEF Trail, Deleted
  <2>10. (Logged(r) \cup cut[r] \cup missing[r] = Done(r))'
    BY <2>4, <2>5, <2>6, <1>1 DEF Trail
  <2> QED BY <2>4, <2>8, <2>9, <2>10 DEF Trail
<1>10. CASE LogRefused(r)
  <2>1. /\ Done(r)' = Done(r) \cup {call[r].retries} /\ LocalsOK(r)'
        /\ Last(r)' = IF Succeeded(r) THEN call[r].retries ELSE -1
    BY <1>10, <1>1, TrailContinues DEF LogRefused
  <2>2. /\ UNCHANGED <<tokens, accounts, proxies, log, cut>> /\ at(r) = "log"
        /\ missing'[r] = missing[r] \cup {call[r].retries}
    BY <1>10 DEF LogRefused, rows, TypeOK
  <2>3. Deleted'
    BY <1>10, <1>0, <1>1, <2>2 DEF LogRefused, Referenced, Deleted, LocalsOK
  <2>4. Logged(r)' = Logged(r)
    BY <2>2 DEF Logged
  <2>5. \A i \in DOMAIN log : log[i].of = r =>
          log[i].retry \in Nat /\ log[i].retry # call[r].retries /\ ~log[i].ok
    <3>1. Logged(r) \subseteq 0 .. call[r].retries - 1
      BY <1>1, <2>2 DEF Trail, Done
    <3>2. \A i \in DOMAIN log : log[i].of = r => log[i].retry \in 0 .. call[r].retries - 1
      BY <3>1 DEF Logged
    <3> QED BY <3>2, <2>2, <1>0, <1>1 DEF Trail, LogOf, Last
  <2>6. LogOf(r)'
    BY <2>1, <2>2, <2>5, <1>1 DEF Trail, LogOf
  <2>7. (Logged(r) \cup cut[r] \cup missing[r] = Done(r))'
    BY <2>1, <2>2, <2>4, <1>1 DEF Trail
  <2> QED BY <2>1, <2>3, <2>6, <2>7 DEF Trail
<1>11. CASE StatementFails(r) \/ HangUp(r)
  <2>1. at(r) = "count" /\ Moves(r, "log") /\ UNCHANGED <<rows, log, cut, missing>>
    BY <1>11 DEF StatementFails, HangUp
  <2> QED BY <2>1, <1>1, <1>2, <1>3 DEF LocalsOK, at
<1> QED BY <1>4, <1>5, <1>6, <1>7, <1>8, <1>9, <1>10, <1>11 DEF RequestStep

\* The steps of another request: of the log it only adds a row, its own.
LEMMA OthersTrail ==
  ASSUME TypeOK, NEW r \in Requests, TrailOf(r), NEW q \in Requests, q # r,
         RequestStep(q) \/ StatementFails(q) \/ HangUp(q)
  PROVE  TrailOf(r)'
<1>0. call \in [Requests -> Call] /\ log \in Seq(Row) /\ Len(log) \in Nat /\ DOMAIN log = 1 .. Len(log)
  BY LenProperties DEF TypeOK
<1>1. /\ call'[r] = call[r] /\ UNCHANGED rows /\ cut' = cut /\ missing'[r] = missing[r]
      /\ faults \subseteq faults'
  <2>1. ASSUME NEW where, Moves(q, where) PROVE call'[r] = call[r]
    BY <2>1, <1>0 DEF Moves
  <2>2. ASSUME Continue(q) PROVE call'[r] = call[r]
    BY <2>2, <1>0 DEF Continue
  <2>3. CASE Start(q) \/ NoneSelectable(q) \/ RecordCall(q) \/ CountToken(q)
    BY <2>3, <2>1 DEF Start, NoneSelectable, RecordCall, CountToken, history
  <2>4. CASE \E a \in Accounts, p \in Proxies : Select(q, a, p)
    BY <2>4, <1>0 DEF Select, history
  <2>5. CASE \E v \in Verdicts \ {"none"} : Answered(q, v)
    BY <2>5, <1>0 DEF Answered, history
  <2>6. CASE WriteLog(q)
    BY <2>6, <2>2 DEF WriteLog, history
  <2>7. CASE LogRefused(q)
    BY <2>7, <2>2 DEF LogRefused, TypeOK
  <2>8. CASE StatementFails(q)
    BY <2>8, <2>1, <2>2 DEF StatementFails
  <2>9. CASE HangUp(q)
    BY <2>9, <2>1 DEF HangUp
  <2> QED BY <2>3, <2>4, <2>5, <2>6, <2>7, <2>8, <2>9 DEF RequestStep
<1>2. SameRows(r)
  <2>1. CASE WriteLog(q)
    <3>1. RowOf(q) \in Row
      BY <1>0, <2>1, LedgerAssumption DEF RowOf, Row, Call, Succeeded, tk
    <3>2. /\ DOMAIN log' = 1 .. Len(log) + 1 /\ log'[Len(log) + 1] = RowOf(q)
          /\ \A i \in 1 .. Len(log) : log'[i] = log[i]
      BY <2>1, <1>0, <3>1, AppendProperties, LenProperties DEF WriteLog
    <3>3. \A i \in DOMAIN log' : i \in DOMAIN log \/ log'[i].of = q
      BY <3>2, <1>0 DEF RowOf
    <3>4. \A i \in DOMAIN log : i \in DOMAIN log'
      BY <3>2, <1>0
    <3> QED BY <3>2, <3>3, <3>4, <1>0 DEF SameRows
  <2>2. CASE log' = log
    BY <2>2 DEF SameRows
  <2>3. WriteLog(q) \/ log' = log
    BY DEF RequestStep, Start, NoneSelectable, Select, Answered, RecordCall, CountToken, LogRefused,
           StatementFails, HangUp
  <2> QED BY <2>1, <2>2, <2>3
<1> QED BY <1>1, <1>2, TrailUntouched DEF rows

\* Deletions, the cleanup and crashes.
LEMMA OtherTrail ==
  ASSUME TypeOK, NEW r \in Requests, TrailOf(r), [Next]_vars,
         ~\E q \in Requests : RequestStep(q) \/ StatementFails(q) \/ HangUp(q)
  PROVE  TrailOf(r)'
<1>0. /\ call \in [Requests -> Call] /\ call[r] \in Call
      /\ log \in Seq(Row) /\ Len(log) \in Nat /\ DOMAIN log = 1 .. Len(log)
      /\ \A i \in DOMAIN log : log[i] \in Row
  BY LenProperties DEF TypeOK
<1>1. ASSUME NEW x, DeleteRow(x) PROVE TrailOf(r)'
  <2>1. /\ DOMAIN log' = DOMAIN log /\ \A i \in DOMAIN log : log'[i] = Cleared(log[i], x)
    BY <1>1, <1>0, UnlinkedType DEF DeleteRow
  <2>2. \A i \in DOMAIN log :
          log'[i].of = log[i].of /\ log'[i].retry = log[i].retry /\ log'[i].ok = log[i].ok
    <3> SUFFICES ASSUME NEW i \in DOMAIN log
                 PROVE  log'[i].of = log[i].of /\ log'[i].retry = log[i].retry /\ log'[i].ok = log[i].ok
      OBVIOUS
    <3>1. log'[i] = Cleared(log[i], x) /\ log[i] \in Row
      BY <2>1, <1>0
    <3>2. log'[i].of = log[i].of /\ log'[i].retry = log[i].retry
      BY <3>1 DEF Cleared, Row
    <3>3. log'[i].ok = log[i].ok
      BY <3>1 DEF Cleared, Row
    <3> QED BY <3>2, <3>3
  <2>3. SameRows(r)
    BY <2>1, <2>2 DEF SameRows
  <2> QED BY <1>1, <2>3, TrailUntouched DEF DeleteRow, history
<1>2. CASE DeleteOldest
  <2> SUFFICES ASSUME r \notin faults' PROVE Trail(r)'
    BY DEF TrailOf
  <2> DEFINE n == cleaner.del
  <2>1. n \in Nat
    BY DEF TypeOK
  <2>2. /\ DOMAIN log' = 1 .. Len(log) - n
        /\ \A i \in 1 .. Len(log) - n : log'[i] = log[n + i]
    BY <2>1, <1>2, <1>0, CutType DEF DeleteOldest
  <2>3. UNCHANGED <<rows, call, missing, faults>>
    BY <1>2 DEF DeleteOldest
  <2>4. Trail(r)
    BY <2>3 DEF TrailOf
  <2>5. cut'[r] = cut[r] \cup {log[i].retry : i \in {j \in DOMAIN log : j <= n /\ log[j].of = r}}
    BY <1>2 DEF DeleteOldest
  <2>6. Logged(r)' \cup cut'[r] = Logged(r) \cup cut[r]
    <3>1. \A i \in DOMAIN log' : n + i \in DOMAIN log /\ log'[i] = log[n + i]
      BY <2>1, <2>2, <1>0
    <3>2. ASSUME NEW i \in DOMAIN log, ~(i <= n)
          PROVE  i - n \in DOMAIN log' /\ log'[i - n] = log[i]
      <4>1. i - n \in 1 .. Len(log) - n /\ n + (i - n) = i
        BY <2>1, <1>0, <3>2
      <4> QED BY <4>1, <2>2
    <3>3. Logged(r)' \subseteq Logged(r)
      BY <3>1 DEF Logged
    <3>4. \A i \in DOMAIN log : log[i].of = r => log[i].retry \in Logged(r)' \cup cut'[r]
      BY <3>2, <2>5 DEF Logged
    <3>5. Logged(r) \subseteq Logged(r)' \cup cut'[r]
      BY <3>4 DEF Logged
    <3>6. cut'[r] \subseteq Logged(r) \cup cut[r] /\ cut[r] \subseteq cut'[r]
      BY <2>5 DEF Logged
    <3> QED BY <3>3, <3>5, <3>6
  <2>7. LogOf(r)'
    <3>1. \A i \in DOMAIN log' : i \in Int /\ n + i \in DOMAIN log /\ log'[i] = log[n + i]
      BY <2>1, <2>2, <1>0
    <3>2. Last(r)' = Last(r)
      BY <2>3 DEF Last, at, Succeeded
    <3>3. \A i, j \in DOMAIN log' : i # j => n + i # n + j
      BY <3>1, <2>1
    <3>4. \A i, j \in DOMAIN log' :
            log'[i].of = r /\ log'[j].of = r /\ i # j => log'[i].retry # log'[j].retry
      BY <3>1, <3>3, <2>4 DEF Trail, LogOf
    <3>5. \A i \in DOMAIN log' : log'[i].of = r => (log'[i].ok <=> log'[i].retry = Last(r)')
      BY <3>1, <3>2, <2>4 DEF Trail, LogOf
    <3> QED BY <3>4, <3>5 DEF LogOf
  <2>8. Done(r)' = Done(r) /\ LocalsOK(r)' /\ (missing'[r] # {} => Deleted')
    BY <2>3, <2>4 DEF Trail, Done, LocalsOK, Made, at, Succeeded, Deleted, rows
  <2>9. (Logged(r) \cup cut[r] \cup missing[r] = Done(r))'
    BY <2>3, <2>4, <2>6, <2>8 DEF Trail
  <2> QED BY <2>7, <2>8, <2>9 DEF Trail
<1>3. CASE Crash
  <2> SUFFICES ASSUME r \notin faults' PROVE TrailOf(r)'
    BY DEF TrailOf
  <2>1. SameRows(r) /\ UNCHANGED <<rows, cut, missing>> /\ faults \subseteq faults'
    BY <1>3 DEF Crash, SameRows
  <2>2. at(r) \in {"new", "gone"}
    BY <1>3 DEF Crash
  <2>3. call'[r] = call[r]
    <3>1. CASE at(r) = "new"
      BY <3>1, <2>1, <1>3 DEF Crash, TrailOf, Trail, LocalsOK
    <3>2. CASE at(r) = "gone"
      <4>1. call'[r] = [call[r] EXCEPT !.at = "gone"] /\ call[r].at = "gone"
        BY <3>2, <1>3 DEF Crash, at
      <4> QED BY <4>1, <1>0 DEF Call
    <3> QED BY <2>2, <3>1, <3>2
  <2> QED BY <2>1, <2>3, TrailUntouched DEF rows
<1>4. CASE UNCHANGED <<rows, log, call, cut, missing, faults>>
  BY <1>4, TrailUntouched DEF SameRows, rows
<1>5. \/ \E x \in Tokens \cup Accounts \cup Proxies : DeleteRow(x)
      \/ DeleteOldest \/ Crash \/ UNCHANGED <<rows, log, call, cut, missing, faults>>
  BY DEF Next, CleanerStep, Forget, ChangeLogMax, ReadLogMax, Count, CountFails, DeleteFails, vars,
     history
<1> QED BY <1>1, <1>2, <1>3, <1>4, <1>5

\* AttemptsLogged: a request that ran to its end has every attempt in the log, each once, short
\* of what the cleanup and deletions took.
THEOREM TrailComplete == Spec => []AttemptsLogged
<1>1. Init => Trails
  <2> SUFFICES ASSUME Init, NEW r \in Requests PROVE Trail(r)
    BY DEF Trails, TrailOf
  <2>1. DOMAIN log = {} /\ call[r] = NewCall /\ cut[r] = {} /\ missing[r] = {}
    BY EmptySeq, LenProperties DEF Init
  <2>2. Logged(r) = {}
    BY <2>1 DEF Logged
  <2>3. Done(r) = {}
    BY <2>1 DEF Done, at, NewCall
  <2> QED BY <2>1, <2>2, <2>3 DEF Trail, LogOf, LocalsOK, NewCall, at
<1>2. ASSUME TypeOK, Trails, [Next]_vars PROVE Trails'
  BY <1>2, OwnTrail, OthersTrail, OtherTrail DEF Trails
<1>3. TypeOK /\ Trails => AttemptsLogged
  <2> SUFFICES ASSUME TypeOK, Trails, NEW r \in Requests, at(r) = "gone", r \notin faults
               PROVE  /\ Logged(r) \cup cut[r] \cup missing[r] = Made(r)
                      /\ \A i, j \in DOMAIN log :
                           log[i].of = r /\ log[j].of = r /\ i # j => log[i].retry # log[j].retry
                      /\ missing[r] # {} => Deleted
                      /\ \A i \in DOMAIN log :
                           log[i].of = r => (log[i].ok <=> Succeeded(r) /\ log[i].retry = call[r].retries)
    BY DEF AttemptsLogged, Deleted
  <2>1. Trail(r)
    BY DEF Trails, TrailOf
  <2>2. \A i \in DOMAIN log : log[i].of = r => (log[i].ok <=> Succeeded(r) /\ log[i].retry = call[r].retries)
    <3>1. \A i \in DOMAIN log : log[i].retry \in Nat
      <4>1. \A i \in DOMAIN log : log[i] \in Row
        BY LenProperties DEF TypeOK
      <4> QED BY <4>1 DEF Row
    <3>2. Last(r) = IF Succeeded(r) THEN call[r].retries ELSE -1
      BY DEF Last
    <3> QED BY <2>1, <3>1, <3>2 DEF Trail, LogOf
  <2> QED BY <2>1, <2>2 DEF Trail, Done, LogOf
<1> QED BY <1>1, <1>2, <1>3, LedgerTypeCorrect, PTL DEF Spec

=============================================================================
