---------------------------- MODULE StoreProofs ----------------------------
(***************************************************************************)
(* An account's two copies: types, the conservation of its count, and the  *)
(* agreement of its status, under any number of tasks, resets, lost        *)
(* UPDATEs and restarts.                                                   *)
(***************************************************************************)
EXTENDS AccountStore, Counting

\* Where a task of each kind can stand; what set_status or a probe will write is a status.
Sensible(v) ==
  /\ v.at # "idle" => v.acct \in Accounts
  /\ v.at = "idle" => v = Idle
  /\ v.at = "reread" => v.kind \in {"record_ok", "record_failed"}
  /\ v.at = "probing" => v.kind = "probe"
  /\ v.at = "publish" => v.kind = "upload"
  /\ v.at = "forget" => v.kind = "delete"
  /\ v.kind \in {"set_status", "probe"} /\ v.at = "write" => v.val \in Status
TasksOK == \A t \in Tasks : Sensible(task[t])

\* What load_all finds is well-typed.
LEMMA InitType == Init => TypeOK /\ TasksOK
BY StoreAssumption DEF Init, TypeOK, TasksOK, Sensible, FreshSlot, NoSlot, Slot, Row, Date, Status,
   Idle, Task, Kind

\* A task takes up, carries on or ends its operation.
LEMMA TaskMoves ==
  ASSUME TypeOK, TasksOK, NEW t \in Tasks, NEW v \in Task, Sensible(v),
         task' = [task EXCEPT ![t] = v]
  PROVE  task' \in [Tasks -> Task] /\ TasksOK'
BY DEF TypeOK, TasksOK

\* It ends.
LEMMA TaskEnds ==
  ASSUME TypeOK, TasksOK, NEW t \in Tasks, Ends(t)
  PROVE  task' \in [Tasks -> Task] /\ TasksOK'
<1>1. Idle \in Task /\ Sensible(Idle)
  BY DEF Idle, Task, Sensible
<1> QED BY <1>1, TaskMoves DEF Ends

\* It starts.
LEMMA TaskStarts ==
  ASSUME TypeOK, TasksOK, NEW t \in Tasks, NEW k \in Kind, NEW a \in Accounts,
         NEW where \in {"write", "reread", "probing", "publish", "forget"},
         NEW v \in Status \cup {NoStatus},
         Sensible([kind |-> k, at |-> where, acct |-> a, val |-> v]),
         Starts(t, k, a, where, v)
  PROVE  task' \in [Tasks -> Task] /\ TasksOK' /\ ops' \in 0 .. MaxOps
<1> DEFINE new == [kind |-> k, at |-> where, acct |-> a, val |-> v]
<1>1. new \in Task
  BY DEF Task
<1>2. ops' \in 0 .. MaxOps
  BY StoreAssumption DEF Starts, TypeOK
<1> QED BY <1>1, <1>2, TaskMoves DEF Starts

\* A recorded call keeps a slot's and a row's type.
LEMMA RecordedType ==
  ASSUME NEW slot \in Slot, NEW row \in Row, NEW ok \in BOOLEAN, NEW s \in Status \cup {NoStatus}
  PROVE  Recorded(slot, ok) \in Slot /\ RecordedRow(row, ok, s) \in Row
<1>1. /\ slot.used + 1 \in Nat /\ slot.fails + 1 \in Nat /\ slot.status \in Status /\ "healthy" \in Status
      /\ row.used + 1 \in Nat /\ row.fails + 1 \in Nat /\ row.status \in Status
  BY DEF Slot, Row, Status
<1>2. /\ (IF ok THEN row.used + 1 ELSE row.used) \in Nat
      /\ (IF s = NoStatus THEN row.status ELSE s) \in Status
      /\ (IF slot.status = "pending" THEN "healthy" ELSE slot.status) \in Status
  BY <1>1 DEF Row
<1>3. RecordedRow(row, ok, s) \in Row
  BY <1>1, <1>2 DEF RecordedRow, Row
<1>4. CASE ok
  BY <1>1, <1>2, <1>3, <1>4 DEF Recorded, Slot
<1>5. CASE ~ok
  BY <1>1, <1>3, <1>5 DEF Recorded, Slot
<1> QED BY <1>4, <1>5

\* Steps that write a slot.
LEMMA SlotsType ==
  ASSUME TypeOK, NEW a, NEW v, a \in Accounts => v \in Slot,
         mem' = [mem EXCEPT ![a] = v] \/ mem' = mem
  PROVE  mem' \in [Accounts -> Slot]
BY DEF TypeOK

\* Steps that write a row.
LEMMA RowsType ==
  ASSUME TypeOK, NEW a, NEW v, a \in Accounts => v \in Row,
         db' = [db EXCEPT ![a] = v] \/ db' = db
  PROVE  db' \in [Accounts -> Row]
BY DEF TypeOK

\* Steps that only put a slot or a row into a new state keep the other variables' types.
LEMMA Typed ==
  ASSUME TypeOK, mem' \in [Accounts -> Slot], db' \in [Accounts -> Row],
         task' \in [Tasks -> Task], ops' \in 0 .. MaxOps,
         UNCHANGED <<worker, balance, restarts>>,
         unsaved' \in [Accounts -> Nat], renewed' = renewed, crossed' \subseteq Accounts
  PROVE  TypeOK'
BY DEF TypeOK

\* The steps of a task keep the types.
LEMMA TaskType ==
  ASSUME TypeOK, TasksOK, NEW t \in Tasks, TaskStart(t) \/ TaskStep(t) \/ Lose(t)
  PROVE  TypeOK' /\ TasksOK'
<1>0. /\ mem \in [Accounts -> Slot] /\ db \in [Accounts -> Row] /\ task \in [Tasks -> Task]
      /\ Kinds \subseteq Kind /\ Statuses \subseteq Status /\ unsaved \in [Accounts -> Nat]
      /\ ops \in 0 .. MaxOps /\ NoStatus \notin Status /\ Sensible(task[t])
      /\ crossed \subseteq Accounts
  BY StoreAssumption DEF TypeOK, TasksOK
<1>1. \A a \in Accounts, s \in Status : WithStatus(mem[a], s) \in Slot /\ WithStatus(db[a], s) \in Row
  BY <1>0 DEF WithStatus, Slot, Row
<1>2. \A a \in Accounts, ok \in BOOLEAN : Recorded(mem[a], ok) \in Slot
  BY <1>0, RecordedType
<1>3. \A a \in Accounts, ok \in BOOLEAN, s \in Status \cup {NoStatus} : RecordedRow(db[a], ok, s) \in Row
  BY <1>0, RecordedType
<1>4. FreshSlot \in Slot /\ NoSlot \in Slot
  BY DEF FreshSlot, NoSlot, Slot, Status
<1>5. ASSUME NEW a \in Accounts, NEW s \in Statuses, SetStatusMem(t, a, s) PROVE TypeOK' /\ TasksOK'
  <2>1. task' \in [Tasks -> Task] /\ TasksOK' /\ ops' \in 0 .. MaxOps
    BY <1>5, <1>0, TaskStarts DEF SetStatusMem, Kind, Sensible
  <2>2. mem' \in [Accounts -> Slot]
    BY <1>5, <1>0, <1>1, SlotsType DEF SetStatusMem
  <2> QED BY <2>1, <2>2, <1>5, <1>0, Typed DEF SetStatusMem, Changes
<1>6. ASSUME NEW a \in Accounts, NEW ok \in BOOLEAN, RecordMem(t, a, ok) PROVE TypeOK' /\ TasksOK'
  <2>1. task' \in [Tasks -> Task] /\ TasksOK' /\ ops' \in 0 .. MaxOps
    BY <1>6, <1>0, TaskStarts DEF RecordMem, Kind, Sensible
  <2>2. mem' \in [Accounts -> Slot]
    BY <1>6, <1>0, <1>2, SlotsType DEF RecordMem
  <2> QED BY <2>1, <2>2, <1>6, <1>0, Typed DEF RecordMem, Changes
<1>7. ASSUME NEW a \in Accounts, ProbeStart(t, a) PROVE TypeOK' /\ TasksOK'
  <2>1. task' \in [Tasks -> Task] /\ TasksOK' /\ ops' \in 0 .. MaxOps
    BY <1>7, <1>0, TaskStarts DEF ProbeStart, Kind, Sensible
  <2> QED BY <2>1, <1>7, <1>0, Typed DEF ProbeStart, history
<1>8. ASSUME NEW a \in Accounts, UploadDb(t, a) PROVE TypeOK' /\ TasksOK'
  <2>1. task' \in [Tasks -> Task] /\ TasksOK' /\ ops' \in 0 .. MaxOps
    BY <1>8, <1>0, TaskStarts DEF UploadDb, Kind, Sensible
  <2>2. [db[a] EXCEPT !.there = TRUE, !.id = "taken"] \in Row
    BY <1>0 DEF Row
  <2>3. db' \in [Accounts -> Row]
    BY <1>8, <2>2, RowsType DEF UploadDb
  <2> QED BY <2>1, <2>3, <1>8, <1>0, Typed DEF UploadDb, Changes
<1>9. ASSUME NEW a \in Accounts, DeleteDb(t, a) PROVE TypeOK' /\ TasksOK'
  <2>1. task' \in [Tasks -> Task] /\ TasksOK' /\ ops' \in 0 .. MaxOps
    BY <1>9, <1>0, TaskStarts DEF DeleteDb, Kind, Sensible
  <2>2. [db[a] EXCEPT !.there = FALSE] \in Row
    BY <1>0 DEF Row
  <2>3. db' = [db EXCEPT ![a] = [db[a] EXCEPT !.there = FALSE]]
    BY <1>9 DEF DeleteDb
  <2>4. db' \in [Accounts -> Row]
    BY <2>2, <2>3, RowsType
  <2> QED BY <2>1, <2>4, <1>9, <1>0, Typed DEF DeleteDb, Changes
<1>10. CASE SetStatusDb(t)
  <2>1. task[t].val \in Status
    BY <1>10, <1>0 DEF SetStatusDb, At, Sensible
  <2>2. db' \in [Accounts -> Row]
    BY <1>10, <2>1, <1>1, RowsType DEF SetStatusDb
  <2> QED BY <2>2, <1>10, <1>0, TaskEnds, Typed DEF SetStatusDb, history
<1>11. CASE RecordDb(t)
  <2>1. task[t].val \in Status \cup {NoStatus}
    BY <1>0 DEF Task
  <2>2. db' \in [Accounts -> Row]
    BY <1>11, <2>1, <1>3, RowsType DEF RecordDb
  <2> QED BY <2>2, <1>11, <1>0, TaskEnds, Typed DEF RecordDb, history
<1>12. CASE RecordReread(t)
  <2> DEFINE s == IF mem[on(t)].there THEN mem[on(t)].status ELSE NoStatus
             new == [task[t] EXCEPT !.at = "write", !.val = s]
  <2>1. task'= [task EXCEPT ![t] = new]
    BY <1>12 DEF RecordReread
  <2>2. task[t].kind \in {"record_ok", "record_failed"} /\ task[t].acct \in Accounts
    BY <1>12, <1>0 DEF RecordReread, At, Sensible
  <2>3. s \in Status \cup {NoStatus}
    BY <2>2, <1>0 DEF Slot, on
  <2>4. new \in Task /\ Sensible(new)
    BY <2>2, <2>3, <1>0 DEF Task, Sensible
  <2>5. task' \in [Tasks -> Task] /\ TasksOK'
    BY <2>1, <2>4, TaskMoves
  <2> QED BY <2>5, <1>12, <1>0, Typed DEF RecordReread, history
<1>13. ASSUME NEW s \in Status, ProbeVerdict(t, s) PROVE TypeOK' /\ TasksOK'
  <2> DEFINE new == [task[t] EXCEPT !.at = "write", !.val = s]
  <2>1. new \in Task /\ Sensible(new)
    BY <1>0, <1>13 DEF ProbeVerdict, At, Task, Sensible
  <2>2. task' \in [Tasks -> Task] /\ TasksOK'
    BY <2>1, <1>13, TaskMoves DEF ProbeVerdict
  <2>3. mem' \in [Accounts -> Slot]
    BY <1>13, <1>1, SlotsType DEF ProbeVerdict
  <2>4. crossed' \subseteq Accounts
    BY <1>13, <1>0 DEF ProbeVerdict, At, Sensible, Changes, on
  <2> QED BY <2>2, <2>3, <2>4, <1>13, <1>0, Typed DEF ProbeVerdict
<1>14. CASE ProbeUnknown(t)
  BY <1>14, <1>0, TaskEnds, Typed DEF ProbeUnknown, history
<1>15. CASE UploadMem(t)
  <2>1. mem' \in [Accounts -> Slot]
    BY <1>15, <1>4, SlotsType DEF UploadMem
  <2> QED BY <2>1, <1>15, <1>0, TaskEnds, Typed DEF UploadMem, history
<1>16. CASE DeleteMem(t)
  <2>1. mem' \in [Accounts -> Slot]
    BY <1>16, <1>4, SlotsType DEF DeleteMem
  <2> QED BY <2>1, <1>16, <1>0, TaskEnds, Typed DEF DeleteMem, history
<1>17. CASE Lose(t)
  <2>1. unsaved' \in [Accounts -> Nat]
    BY <1>17, <1>0, CountUp DEF Lose
  <2>2. crossed' \subseteq Accounts
    BY <1>17, <1>0 DEF Lose, Sensible, on
  <2> QED BY <2>1, <2>2, <1>17, <1>0, TaskEnds, Typed DEF Lose
<1>18. {"healthy", "hard_revoked"} \subseteq Status
  BY DEF Status
<1> QED BY <1>5, <1>6, <1>7, <1>8, <1>9, <1>10, <1>11, <1>12, <1>13, <1>14, <1>15, <1>16, <1>17,
           <1>18 DEF TaskStart, TaskStep
\* The workers' steps, time and restarts keep the types.
LEMMA WorkerType ==
  ASSUME TypeOK, TasksOK, ~(\E t \in Tasks : TaskStart(t) \/ TaskStep(t) \/ Lose(t)), [Next]_vars
  PROVE  TypeOK' /\ TasksOK'
<1>0. /\ mem \in [Accounts -> Slot] /\ db \in [Accounts -> Row] /\ task \in [Tasks -> Task]
      /\ unsaved \in [Accounts -> Nat] /\ renewed \subseteq Accounts /\ crossed \subseteq Accounts
      /\ balance \subseteq Queried /\ Queried \subseteq Accounts
      /\ ops \in 0 .. MaxOps /\ restarts \in 0 .. MaxRestarts
      /\ worker \in [at : {"asleep", "scanned", "row_done"}, rows : SUBSET Accounts,
                     acct : Accounts \cup {"none"}]
  BY StoreAssumption DEF TypeOK
<1>9. TasksOK'
  <2>1. Sensible(Idle)
    BY DEF Sensible, Idle
  <2>2. task' = task \/ task' = [t \in Tasks |-> Idle]
    <3>1. CASE WorkerStep
      <4>1. \A a \in Accounts : ResetDb(a) => task' = task
        BY DEF ResetDb
      <4>2. ResetMem => task' = task
        BY DEF ResetMem
      <4>3. ResetScan \/ ResetDone => task' = task
        BY DEF ResetScan, ResetDone
      <4> QED BY <3>1, <4>1, <4>2, <4>3 DEF WorkerStep
    <3>2. CASE \E a \in Accounts : ResetDbFails(a) \/ FallsDue(a)
      BY <3>2 DEF ResetDbFails, FallsDue
    <3>3. CASE \E S \in SUBSET Queried \ {{}} : BalanceScan(S)
      BY <3>3 DEF BalanceScan
    <3>4. CASE \E a \in Queried : BalanceSkip(a) \/ \E date \in Date : BalanceAnswer(a, date)
      BY <3>4 DEF BalanceAnswer, BalanceSkip
    <3>5. CASE Restart
      BY <3>5 DEF Restart
    <3>6. CASE UNCHANGED vars
      BY <3>6 DEF vars
    <3> QED BY <3>1, <3>2, <3>3, <3>4, <3>5, <3>6 DEF Next
  <2> QED BY <2>1, <2>2 DEF TasksOK
<1> SUFFICES TypeOK'
  BY <1>9
<1>1. ASSUME NEW a \in Accounts, ResetDb(a) PROVE TypeOK'
  <2>0. db[a] \in Row /\ "healthy" \in Status /\ "later" \in Date \cup {"null"}
    BY <1>0 DEF Status, Date
  <2>1. [db[a] EXCEPT !.used = 0, !.status = "healthy", !.fails = 0, !.reset = "later"] \in Row
    BY <2>0 DEF Row
  <2>2. db' \in [Accounts -> Row]
    BY <1>1, <2>1, RowsType DEF ResetDb
  <2> QED BY <2>2, <1>1, <1>0 DEF ResetDb, Changes, TypeOK
<1>2. CASE ResetMem
  <2>1. PICK b : b = worker.acct
    OBVIOUS
  <2>3. ASSUME b \in Accounts
        PROVE  [mem[b] EXCEPT !.used = 0, !.status = "healthy", !.fails = 0] \in Slot
    <3>1. mem[b] \in Slot
      BY <1>0, <2>3
    <3> QED BY <3>1 DEF Slot, Status
  <2>2. mem' \in [Accounts -> Slot]
    BY <1>2, <2>1, <2>3, SlotsType DEF ResetMem
  <2> QED BY <2>2, <1>2, <1>0 DEF ResetMem, TypeOK
<1>3. CASE ResetScan \/ ResetDone
  BY <1>3, <1>0 DEF ResetScan, ResetDone, TypeOK, history
<1>4. ASSUME NEW a \in Accounts, ResetDbFails(a) PROVE TypeOK'
  BY <1>4, <1>0, StoreAssumption DEF ResetDbFails, Changes, TypeOK
<1>5. ASSUME NEW a \in Accounts, NEW date \in Date,
             FallsDue(a) \/ BalanceAnswer(a, date)
      PROVE  TypeOK'
  <2>1. [db[a] EXCEPT !.reset = "past"] \in Row /\ [db[a] EXCEPT !.reset = date] \in Row
    BY <1>0 DEF Row, Date
  <2>2. db' \in [Accounts -> Row]
    BY <1>5, <2>1, RowsType DEF FallsDue, BalanceAnswer
  <2> QED BY <2>2, <1>5, <1>0, StoreAssumption DEF FallsDue, BalanceAnswer, TypeOK, history
<1>6. ASSUME NEW a \in Queried, BalanceSkip(a) PROVE TypeOK'
  BY <1>6, <1>0 DEF BalanceSkip, TypeOK, history
<1>7. CASE Restart
  <2>1. \A a \in Accounts : Loaded(db[a]) \in Slot
    BY <1>0 DEF Loaded, Slot, Row
  <2>2. NoSlot \in Slot /\ Idle \in Task
    BY DEF NoSlot, Slot, Status, Idle, Task
  <2>3. /\ mem' \in [Accounts -> Slot] /\ task' \in [Tasks -> Task]
        /\ restarts' \in 0 .. MaxRestarts
    BY <1>7, <2>1, <2>2, <1>0, StoreAssumption DEF Restart
  <2> QED BY <2>3, <1>7, <1>0 DEF Restart, TypeOK
<1>8. CASE UNCHANGED vars
  BY <1>8 DEF TypeOK, vars, history
<1>10. ASSUME NEW a \in Queried, NEW date \in Date, BalanceAnswer(a, date) PROVE TypeOK'
  BY <1>10, <1>0, <1>5
<1>11. CASE WorkerStep
  BY <1>11, <1>1, <1>2, <1>3 DEF WorkerStep
<1>12. CASE \E a \in Accounts : ResetDbFails(a) \/ FallsDue(a)
  <2>1. "past" \in Date
    BY DEF Date
  <2> QED BY <1>12, <2>1, <1>4, <1>5
<1>13. CASE \E S \in SUBSET Queried \ {{}} : BalanceScan(S)
  BY <1>13, <1>0 DEF BalanceScan, TypeOK, history
<1>14. CASE \E a \in Queried : BalanceSkip(a) \/ \E date \in Date : BalanceAnswer(a, date)
  BY <1>14, <1>6, <1>10
<1> QED BY <1>7, <1>8, <1>11, <1>12, <1>13, <1>14 DEF Next

\* The types of both copies, of the tasks and of the workers.
THEOREM StoreTypeCorrect == Spec => []TypeOK
<1>1. TypeOK /\ TasksOK /\ [Next]_vars => TypeOK' /\ TasksOK'
  BY TaskType, WorkerType
<1> QED BY InitType, <1>1, PTL DEF Spec
-----------------------------------------------------------------------------
(* Conservation of the count.  What makes it inductive is the life of an    *)
(* account: a row that is there without its slot has never counted          *)
(* anything, no UPDATE for it is under way, and at most one upload is about *)
(* to give it the slot; a slot is taken away only after its row is gone.    *)

Working(a, where) == {t \in Tasks : At(t, where) /\ on(t) = a}
Blank(a) == ~mem[a].there /\ db[a].used = 0 /\ Unwritten(a) = {} /\ unsaved[a] = 0

LifeOf(a) ==
  /\ db[a].id = "unused" => Blank(a) /\ ~db[a].there /\ Working(a, "publish") = {}
  /\ db[a].there /\ ~mem[a].there => Blank(a)
  /\ Working(a, "forget") # {} => ~db[a].there /\ db[a].id = "taken"
  /\ Working(a, "publish") # {} => ~(db[a].there /\ mem[a].there)
  /\ \A t, u \in Working(a, "publish") : t = u

Counted(a) == db[a].used + Cardinality(Unwritten(a)) + unsaved[a]
CountsOf(a) ==
  /\ db[a].there /\ mem[a].there =>
       /\ a \notin renewed => mem[a].used = Counted(a)
       /\ worker.acct # a => mem[a].used <= Counted(a)
  /\ worker.acct = a => worker.at = "row_done" /\ a \in renewed

StoreInv == \A a \in Accounts : LifeOf(a) /\ CountsOf(a)

\* What leaves both copies, the tasks and the worker's place alone as far as an account is
\* concerned keeps its invariant.
LEMMA Undisturbed ==
  ASSUME NEW a, LifeOf(a), CountsOf(a),
         mem'[a].there = mem[a].there, mem'[a].used = mem[a].used,
         db'[a].there = db[a].there, db'[a].used = db[a].used, db'[a].id = db[a].id,
         Unwritten(a)' = Unwritten(a), Working(a, "publish")' = Working(a, "publish"),
         Working(a, "forget")' = Working(a, "forget"),
         unsaved'[a] = unsaved[a], a \in renewed' <=> a \in renewed,
         worker'.acct = a <=> worker.acct = a, worker'.acct = a => worker'.at = worker.at
  PROVE  (LifeOf(a) /\ CountsOf(a))'
<1>1. LifeOf(a)'
  BY DEF LifeOf, Blank
<1>2. Counted(a)' = Counted(a)
  BY DEF Counted
<1>3. CountsOf(a)'
  BY <1>2 DEF CountsOf
<1> QED BY <1>1, <1>3

\* A step of t in which it plays the same part for the account leaves the account's tasks.
LEMMA SameTasks ==
  ASSUME NEW a, NEW t \in Tasks, \A u \in Tasks : u # t => task'[u] = task[u],
         t \in Unwritten(a)' <=> t \in Unwritten(a),
         t \in Working(a, "publish")' <=> t \in Working(a, "publish"),
         t \in Working(a, "forget")' <=> t \in Working(a, "forget")
  PROVE  /\ Unwritten(a)' = Unwritten(a) /\ Working(a, "publish")' = Working(a, "publish")
         /\ Working(a, "forget")' = Working(a, "forget")
BY DEF Unwritten, Working, At, on

\* A task at work on another account.
LEMMA OtherAccount ==
  ASSUME NEW a, LifeOf(a), CountsOf(a), NEW t \in Tasks,
         \A u \in Tasks : u # t => task'[u] = task[u],
         task[t].acct # a, task'[t].acct # a,
         mem'[a] = mem[a], db'[a] = db[a], unsaved'[a] = unsaved[a],
         UNCHANGED <<worker, renewed>>
  PROVE  (LifeOf(a) /\ CountsOf(a))'
<1>1. /\ t \notin Unwritten(a) /\ t \notin Working(a, "publish") /\ t \notin Working(a, "forget")
      /\ t \notin Unwritten(a)' /\ t \notin Working(a, "publish")' /\ t \notin Working(a, "forget")'
  BY DEF Unwritten, Working, on
<1> QED BY <1>1, SameTasks, Undisturbed

\* The UPDATEs to come, counted.
LEMMA Recount ==
  ASSUME NEW a, NEW t \in Tasks, \A u \in Tasks : u # t => task'[u] = task[u]
  PROVE  /\ Cardinality(Unwritten(a)) \in Nat /\ Cardinality(Unwritten(a))' \in Nat
         /\ Cardinality(Unwritten(a))' = Cardinality(Unwritten(a))
              - One(t \in Unwritten(a)) + One(t \in Unwritten(a)')
<1>1. IsFiniteSet(Unwritten(a))
  BY StoreAssumption, FS_Subset DEF Unwritten
<1>2. Unwritten(a)' \ {t} = Unwritten(a) \ {t}
  BY DEF Unwritten, on
<1> QED BY <1>1, <1>2, CountMoves

\* The steps of tasks keep every account's invariant.
LEMMA TaskCounts ==
  ASSUME TypeOK, TasksOK, StoreInv, NEW t \in Tasks, TaskStart(t) \/ TaskStep(t) \/ Lose(t),
         NEW a \in Accounts
  PROVE  (LifeOf(a) /\ CountsOf(a))'
<1>0. /\ mem \in [Accounts -> Slot] /\ db \in [Accounts -> Row] /\ task \in [Tasks -> Task]
      /\ unsaved \in [Accounts -> Nat] /\ "none" \notin Accounts
      /\ LifeOf(a) /\ CountsOf(a) /\ Sensible(task[t])
      /\ mem[a].used \in Nat /\ db[a].used \in Nat /\ unsaved[a] \in Nat
  BY StoreAssumption DEF TypeOK, StoreInv, TasksOK, Slot, Row
<1>1. ASSUME NEW b \in Accounts, NEW s \in Statuses, SetStatusMem(t, b, s)
      PROVE  (LifeOf(a) /\ CountsOf(a))'
  <2>1. /\ task[t] = Idle /\ task' = [task EXCEPT ![t] = [kind |-> "set_status", at |-> "write",
                                                           acct |-> b, val |-> s]]
    BY <1>1 DEF SetStatusMem, Starts
  <2>2. mem'[a].there = mem[a].there /\ mem'[a].used = mem[a].used
    BY <1>1, <1>0 DEF SetStatusMem, WithStatus, Slot
  <2>3. /\ t \notin Unwritten(a) /\ t \notin Working(a, "publish") /\ t \notin Working(a, "forget")
        /\ t \notin Unwritten(a)' /\ t \notin Working(a, "publish")' /\ t \notin Working(a, "forget")'
    BY <2>1, <1>0 DEF Idle, Unwritten, Working, At, on
  <2>4. \A u \in Tasks : u # t => task'[u] = task[u]
    BY <2>1, <1>0
  <2> QED BY <1>1, <1>0, <2>2, <2>3, <2>4, SameTasks, Undisturbed DEF SetStatusMem, history
<1>2. ASSUME NEW b \in Accounts, NEW ok \in BOOLEAN, RecordMem(t, b, ok)
      PROVE  (LifeOf(a) /\ CountsOf(a))'
  <2> DEFINE k == IF ok THEN "record_ok" ELSE "record_failed"
  <2>1. /\ task[t] = Idle /\ task' = [task EXCEPT ![t] = [kind |-> k, at |-> "reread",
                                                           acct |-> b, val |-> NoStatus]]
        /\ UNCHANGED <<db, worker, unsaved, renewed>>
    BY <1>2 DEF RecordMem, Starts, history
  <2>2. \A u \in Tasks : u # t => task'[u] = task[u]
    BY <2>1, <1>0
  <2>3. /\ t \notin Unwritten(a) /\ t \notin Working(a, "publish") /\ t \notin Working(a, "forget")
        /\ t \notin Working(a, "publish")' /\ t \notin Working(a, "forget")'
        /\ t \in Unwritten(a)' <=> ok /\ b = a
    BY <2>1, <1>0 DEF Idle, Unwritten, Working, At, on
  <2>4. mem'[a].there = mem[a].there
    BY <1>2, <1>0 DEF RecordMem, Recorded, Slot
  <2>5. mem'[a].used = IF ok /\ b = a /\ mem[a].there THEN mem[a].used + 1 ELSE mem[a].used
    BY <1>2, <1>0 DEF RecordMem, Recorded, Slot
  <2>6. CASE ok /\ b = a
    <3>1. db[a].id = "taken" /\ (mem[a].there \/ ~db[a].there)
      BY <1>2, <2>6 DEF RecordMem
    <3>2. /\ Working(a, "publish")' = Working(a, "publish")
          /\ Working(a, "forget")' = Working(a, "forget")
      BY <2>2, <2>3 DEF Working, At, on
    <3>3. LifeOf(a)'
      BY <3>1, <3>2, <2>1, <2>4, <1>0 DEF LifeOf
    <3>4. Counted(a)' = Counted(a) + 1 /\ Counted(a) \in Nat
      BY <2>1, <2>2, <2>3, <2>6, <1>0, Recount DEF Counted, One
    <3>5. CountsOf(a)'
      BY <3>4, <2>1, <2>4, <2>5, <2>6, <1>0 DEF CountsOf
    <3> QED BY <3>3, <3>5
  <2>7. CASE ~(ok /\ b = a)
    BY <2>1, <2>2, <2>3, <2>4, <2>5, <2>7, <1>0, SameTasks, Undisturbed
  <2> QED BY <2>6, <2>7
<1>3. ASSUME NEW b \in Accounts, ProbeStart(t, b) PROVE (LifeOf(a) /\ CountsOf(a))'
  <2>1. /\ task[t] = Idle /\ task' = [task EXCEPT ![t] = [kind |-> "probe", at |-> "probing",
                                                           acct |-> b, val |-> NoStatus]]
        /\ UNCHANGED <<mem, db, worker, unsaved, renewed>>
    BY <1>3 DEF ProbeStart, Starts, history
  <2>2. /\ t \notin Unwritten(a) /\ t \notin Working(a, "publish") /\ t \notin Working(a, "forget")
        /\ t \notin Unwritten(a)' /\ t \notin Working(a, "publish")' /\ t \notin Working(a, "forget")'
    BY <2>1, <1>0 DEF Idle, Unwritten, Working, At, on
  <2>3. \A u \in Tasks : u # t => task'[u] = task[u]
    BY <2>1, <1>0
  <2> QED BY <1>0, <2>1, <2>2, <2>3, SameTasks, Undisturbed
<1>4. ASSUME NEW b \in Accounts, UploadDb(t, b) PROVE (LifeOf(a) /\ CountsOf(a))'
  <2>1. /\ task[t] = Idle /\ task' = [task EXCEPT ![t] = [kind |-> "upload", at |-> "publish",
                                                           acct |-> b, val |-> NoStatus]]
        /\ UNCHANGED <<mem, worker, unsaved, renewed>> /\ db[b].id = "unused"
        /\ db' = [db EXCEPT ![b] = [@ EXCEPT !.there = TRUE, !.id = "taken"]]
    BY <1>4 DEF UploadDb, Starts, history
  <2>2. \A u \in Tasks : u # t => task'[u] = task[u]
    BY <2>1, <1>0
  <2>3. CASE b # a
    <3>1. task[t].acct # a /\ task'[t].acct # a
      BY <2>1, <2>3, <1>0 DEF Idle
    <3> QED BY <3>1, <2>1, <2>2, <2>3, <1>0, OtherAccount
  <2>4. CASE b = a
    <3>1. Blank(a) /\ Working(a, "publish") = {} /\ Working(a, "forget") = {}
      BY <2>1, <2>4, <1>0 DEF LifeOf
    <3>2. Working(a, "publish")' = {t} /\ Working(a, "forget")' = {} /\ Unwritten(a)' = {}
      BY <3>1, <2>1, <2>2, <2>4, <1>0 DEF Working, Unwritten, At, on, Blank
    <3>3. db'[a].there /\ db'[a].id = "taken" /\ db'[a].used = db[a].used
      BY <2>1, <2>4, <1>0 DEF Row
    <3>4. Blank(a)'
      BY <3>1, <3>2, <3>3, <2>1 DEF Blank
    <3>5. LifeOf(a)'
      BY <3>2, <3>3, <3>4 DEF LifeOf, Blank
    <3>6. CountsOf(a)'
      BY <3>4, <2>1, <1>0 DEF Blank, CountsOf
    <3> QED BY <3>5, <3>6
  <2> QED BY <2>3, <2>4
<1>5. ASSUME NEW b \in Accounts, DeleteDb(t, b) PROVE (LifeOf(a) /\ CountsOf(a))'
  <2>1. /\ task[t] = Idle /\ task' = [task EXCEPT ![t] = [kind |-> "delete", at |-> "forget",
                                                           acct |-> b, val |-> NoStatus]]
        /\ UNCHANGED <<mem, worker, unsaved, renewed>> /\ db[b].id = "taken"
        /\ db' = [db EXCEPT ![b].there = FALSE]
    BY <1>5 DEF DeleteDb, Starts, history
  <2>2. \A u \in Tasks : u # t => task'[u] = task[u]
    BY <2>1, <1>0
  <2>3. CASE b # a
    <3>1. task[t].acct # a /\ task'[t].acct # a
      BY <2>1, <2>3, <1>0 DEF Idle
    <3> QED BY <3>1, <2>1, <2>2, <2>3, <1>0, OtherAccount
  <2>4. CASE b = a
    <3>1. Working(a, "publish")' = Working(a, "publish")
      BY <2>1, <2>2, <1>0 DEF Working, At, on, Idle
    <3>2. ~db'[a].there /\ db'[a].id = "taken"
      BY <2>1, <2>4, <1>0 DEF Row
    <3> QED BY <3>1, <3>2, <2>1, <1>0 DEF LifeOf, CountsOf
  <2> QED BY <2>3, <2>4
<1>6. CASE SetStatusDb(t) \/ ProbeUnknown(t)
  <2>1. /\ task[t].kind \in {"set_status", "probe"} \/ task[t].at = "probing"
        /\ task[t].at \in {"write", "probing"}
        /\ task' = [task EXCEPT ![t] = Idle] /\ UNCHANGED <<mem, worker, unsaved, renewed>>
    BY <1>6 DEF SetStatusDb, ProbeUnknown, At, Ends, history
  <2>2. /\ db'[a].there = db[a].there /\ db'[a].used = db[a].used /\ db'[a].id = db[a].id
    <3>1. db' = db \/ db' = [db EXCEPT ![on(t)] = WithStatus(@, task[t].val)]
      BY <1>6 DEF SetStatusDb, ProbeUnknown
    <3>2. db[a] \in Row
      BY <1>0
    <3>3. db'[a] = db[a] \/ db'[a] = WithStatus(db[a], task[t].val)
      BY <3>1, <1>0
    <3> QED BY <3>2, <3>3 DEF WithStatus, Row
  <2>3. /\ t \notin Unwritten(a) /\ t \notin Working(a, "publish") /\ t \notin Working(a, "forget")
        /\ t \notin Unwritten(a)' /\ t \notin Working(a, "publish")' /\ t \notin Working(a, "forget")'
    BY <2>1, <1>0 DEF Idle, Unwritten, Working, At, on
  <2>4. \A u \in Tasks : u # t => task'[u] = task[u]
    BY <2>1, <1>0
  <2> QED BY <1>0, <2>1, <2>2, <2>3, <2>4, SameTasks, Undisturbed
<1>7. CASE RecordDb(t)
  <2> DEFINE b == on(t)
  <2>1. /\ task[t].at = "write" /\ task[t].kind \in {"record_ok", "record_failed"}
        /\ task' = [task EXCEPT ![t] = Idle] /\ UNCHANGED <<mem, worker, unsaved, renewed>>
    BY <1>7 DEF RecordDb, At, Ends, history
  <2>2. \A u \in Tasks : u # t => task'[u] = task[u]
    BY <2>1, <1>0
  <2>3. /\ t \notin Working(a, "publish") /\ t \notin Working(a, "forget")
        /\ t \notin Unwritten(a)' /\ t \notin Working(a, "publish")' /\ t \notin Working(a, "forget")'
        /\ t \in Unwritten(a) <=> task[t].kind = "record_ok" /\ b = a
    BY <2>1, <1>0 DEF Idle, Unwritten, Working, At, on
  <2>4. db'[a].there = db[a].there /\ db'[a].id = db[a].id
    BY <1>7, <1>0 DEF RecordDb, RecordedRow, Row
  <2>5. db'[a].used = IF t \in Unwritten(a) /\ db[a].there THEN db[a].used + 1 ELSE db[a].used
    BY <1>7, <2>3, <1>0 DEF RecordDb, RecordedRow, Row
  <2>6. CASE t \in Unwritten(a)
    <3>1. /\ Working(a, "publish")' = Working(a, "publish")
          /\ Working(a, "forget")' = Working(a, "forget")
      BY <2>2, <2>3 DEF Working, At, on
    <3>2. db[a].id # "unused" /\ ~(db[a].there /\ ~mem[a].there)
      BY <2>6, <1>0 DEF LifeOf, Blank
    <3>3. LifeOf(a)'
      BY <3>1, <3>2, <2>1, <2>4, <1>0 DEF LifeOf
    <3>4. db[a].there => Counted(a)' = Counted(a)
      BY <2>1, <2>2, <2>3, <2>5, <2>6, <1>0, Recount DEF Counted, One
    <3>5. CountsOf(a)'
      BY <3>4, <2>1, <2>4, <1>0 DEF CountsOf
    <3> QED BY <3>3, <3>5
  <2>7. CASE t \notin Unwritten(a)
    BY <2>1, <2>2, <2>3, <2>4, <2>5, <2>7, <1>0, SameTasks, Undisturbed
  <2> QED BY <2>6, <2>7
<1>8. CASE RecordReread(t)
  <2>1. /\ task[t].at = "reread" /\ UNCHANGED <<mem, db, worker, unsaved, renewed>>
        /\ \A u \in Tasks : u # t => task'[u] = task[u]
        /\ task'[t].at = "write" /\ task'[t].kind = task[t].kind /\ task'[t].acct = task[t].acct
    BY <1>8, <1>0 DEF RecordReread, At, Task, history
  <2>2. /\ t \notin Working(a, "publish") /\ t \notin Working(a, "forget")
        /\ t \notin Working(a, "publish")' /\ t \notin Working(a, "forget")'
        /\ t \in Unwritten(a)' <=> t \in Unwritten(a)
    BY <2>1 DEF Unwritten, Working, At, on
  <2> QED BY <1>0, <2>1, <2>2, SameTasks, Undisturbed
<1>9. ASSUME NEW s \in Status, ProbeVerdict(t, s) PROVE (LifeOf(a) /\ CountsOf(a))'
  <2>1. /\ task[t].at = "probing" /\ UNCHANGED <<db, worker, unsaved, renewed>>
        /\ \A u \in Tasks : u # t => task'[u] = task[u]
        /\ task'[t].at = "write" /\ task'[t].kind = task[t].kind
    BY <1>9, <1>0 DEF ProbeVerdict, At, Task, history
  <2>2. /\ t \notin Unwritten(a) /\ t \notin Working(a, "publish") /\ t \notin Working(a, "forget")
        /\ t \notin Unwritten(a)' /\ t \notin Working(a, "publish")' /\ t \notin Working(a, "forget")'
    BY <2>1, <1>0 DEF Sensible, Unwritten, Working, At, on
  <2>3. mem'[a].there = mem[a].there /\ mem'[a].used = mem[a].used
    BY <1>9, <1>0 DEF ProbeVerdict, WithStatus, Slot
  <2> QED BY <1>0, <2>1, <2>2, <2>3, SameTasks, Undisturbed
<1>10. CASE UploadMem(t) \/ DeleteMem(t)
  <2> DEFINE b == on(t)
  <2>1. /\ task[t].at \in {"publish", "forget"}
        /\ task' = [task EXCEPT ![t] = Idle] /\ UNCHANGED <<db, worker, unsaved, renewed>>
        /\ mem' = [mem EXCEPT ![b] = IF task[t].at = "publish" THEN FreshSlot ELSE NoSlot]
    BY <1>10 DEF UploadMem, DeleteMem, At, Ends, history
  <2>2. \A u \in Tasks : u # t => task'[u] = task[u]
    BY <2>1, <1>0
  <2>3. CASE b # a
    <3>1. task[t].acct # a /\ task'[t].acct # a
      BY <2>1, <2>3, <1>0 DEF Idle, on
    <3> QED BY <3>1, <2>1, <2>2, <2>3, <1>0, OtherAccount
  <2>4. CASE b = a /\ task[t].at = "publish"
    <3>1. t \in Working(a, "publish") /\ t \notin Working(a, "forget") /\ t \notin Unwritten(a)
      BY <2>4 DEF Working, Unwritten, At, on
    <3>2. /\ Working(a, "publish")' = {} /\ Working(a, "forget")' = Working(a, "forget")
          /\ Unwritten(a)' = Unwritten(a)
      <4>1. Working(a, "publish") = {t}
        BY <3>1, <1>0 DEF LifeOf
      <4>2. t \notin Working(a, "publish")' /\ t \notin Working(a, "forget")' /\ t \notin Unwritten(a)'
        BY <2>1, <1>0 DEF Idle, Working, Unwritten, At, on
      <4> QED BY <3>1, <4>1, <4>2, <2>2 DEF Working, Unwritten, At, on
    <3>3. db[a].id # "unused" /\ (db[a].there => Blank(a))
      BY <3>1, <1>0 DEF LifeOf
    <3>4. mem'[a].there /\ mem'[a].used = 0
      BY <2>1, <2>4, <1>0 DEF FreshSlot
    <3>5. LifeOf(a)'
      BY <3>2, <3>3, <3>4, <2>1, <1>0 DEF LifeOf
    <3>6. db[a].there => Counted(a)' = 0
      BY <3>2, <3>3, <2>1, FS_EmptySet DEF Blank, Counted
    <3>7. CountsOf(a)'
      BY <3>4, <3>6, <2>1, <1>0 DEF CountsOf
    <3> QED BY <3>5, <3>7
  <2>5. CASE b = a /\ task[t].at = "forget"
    <3>1. t \in Working(a, "forget") /\ t \notin Working(a, "publish") /\ t \notin Unwritten(a)
      BY <2>5 DEF Working, Unwritten, At, on
    <3>2. ~db[a].there /\ db[a].id = "taken"
      BY <3>1, <1>0 DEF LifeOf
    <3>3. Working(a, "publish")' = Working(a, "publish")
      BY <3>1, <2>1, <2>2, <1>0 DEF Idle, Working, At, on
    <3> QED BY <3>2, <3>3, <2>1, <1>0 DEF LifeOf, CountsOf
  <2> QED BY <2>1, <2>3, <2>4, <2>5
<1>11. CASE Lose(t)
  <2> DEFINE b == on(t)
             owed == task[t].kind = "record_ok" /\ task[t].at = "write"
  <2>1. /\ task[t].at \in {"write", "probing", "publish", "forget"}
        /\ task' = [task EXCEPT ![t] = Idle] /\ UNCHANGED <<mem, db, worker, renewed>>
        /\ unsaved' = IF owed /\ mem[b].there THEN [unsaved EXCEPT ![b] = @ + 1] ELSE unsaved
    BY <1>11, <1>0 DEF Lose, Sensible, Ends
  <2>2. \A u \in Tasks : u # t => task'[u] = task[u]
    BY <2>1, <1>0
  <2>3. CASE b # a
    <3>1. task[t].acct # a /\ task'[t].acct # a
      BY <2>1, <2>3, <1>0 DEF Idle, on
    <3>2. unsaved'[a] = unsaved[a]
      BY <2>1, <2>3, <1>0
    <3> QED BY <3>1, <3>2, <2>1, <2>2, <2>3, <1>0, OtherAccount
  <2>4. CASE b = a
    <3>1. /\ t \notin Working(a, "publish")' /\ t \notin Working(a, "forget")' /\ t \notin Unwritten(a)'
          /\ t \in Unwritten(a) <=> owed
      BY <2>1, <2>4, <1>0 DEF Idle, Working, Unwritten, At, on, Sensible
    <3>2. /\ Working(a, "publish")' \subseteq Working(a, "publish")
          /\ Working(a, "forget")' \subseteq Working(a, "forget")
          /\ Unwritten(a)' \subseteq Unwritten(a)
      BY <3>1, <2>2 DEF Working, Unwritten, At, on
    <3>3. unsaved'[a] = unsaved[a] + One(t \in Unwritten(a) /\ mem[a].there)
      BY <3>1, <2>1, <2>4, <1>0 DEF One
    <3>4. Blank(a) => Blank(a)'
      BY <3>2, <3>3, <2>1, <1>0 DEF Blank, One
    <3>5. LifeOf(a)'
      BY <3>2, <3>4, <2>1, <1>0 DEF LifeOf
    <3>6. mem[a].there => Counted(a)' = Counted(a)
      BY <3>1, <3>3, <2>1, <2>2, <1>0, Recount DEF Counted, One
    <3>7. CountsOf(a)'
      BY <3>6, <2>1, <1>0 DEF CountsOf
    <3> QED BY <3>5, <3>7
  <2> QED BY <2>3, <2>4
<1>12. {"healthy", "hard_revoked"} \subseteq Status
  BY DEF Status
<1> QED BY <1>1, <1>2, <1>3, <1>4, <1>5, <1>6, <1>7, <1>8, <1>9, <1>10, <1>11, <1>12
        DEF TaskStart, TaskStep
\* So do the workers' steps, time and restarts.
LEMMA WorkerCounts ==
  ASSUME TypeOK, StoreInv, ~(\E t \in Tasks : TaskStart(t) \/ TaskStep(t) \/ Lose(t)), [Next]_vars,
         NEW a \in Accounts
  PROVE  (LifeOf(a) /\ CountsOf(a))'
<1>0. /\ mem \in [Accounts -> Slot] /\ db \in [Accounts -> Row] /\ unsaved \in [Accounts -> Nat]
      /\ "none" \notin Accounts /\ LifeOf(a) /\ CountsOf(a)
      /\ mem[a].used \in Nat /\ db[a].used \in Nat /\ unsaved[a] \in Nat
      /\ \A b \in Accounts : worker.acct = b => worker.at = "row_done" /\ b \in renewed
      /\ worker \in [at : {"asleep", "scanned", "row_done"}, rows : SUBSET Accounts,
                     acct : Accounts \cup {"none"}]
  BY StoreAssumption DEF TypeOK, StoreInv, CountsOf, Slot, Row
<1>1. ASSUME UNCHANGED task
      PROVE  /\ Unwritten(a)' = Unwritten(a) /\ Working(a, "publish")' = Working(a, "publish")
             /\ Working(a, "forget")' = Working(a, "forget")
  BY <1>1 DEF Unwritten, Working, At, on
<1>2. Cardinality(Unwritten(a)) \in Nat
  BY StoreAssumption, FS_Subset, FS_CardinalityType DEF Unwritten
<1>3. ASSUME UNCHANGED <<mem, task, unsaved, renewed>>,
             db'[a].there = db[a].there, db'[a].used = db[a].used, db'[a].id = db[a].id,
             worker'.acct = worker.acct, worker'.at = worker.at \/ worker.acct = "none"
      PROVE  (LifeOf(a) /\ CountsOf(a))'
  BY <1>3, <1>1, <1>0, Undisturbed
<1>4. ASSUME NEW b \in Accounts, ResetDb(b) \/ ResetDbFails(b) PROVE (LifeOf(a) /\ CountsOf(a))'
  <2>1. /\ UNCHANGED <<mem, task, unsaved>> /\ renewed' = renewed \cup {b}
        /\ worker.at = "scanned" /\ worker'.at = "row_done" /\ worker'.acct = b
    <3>1. ResetDb(b) => UNCHANGED <<mem, task, unsaved>> /\ renewed' = renewed \cup {b}
      BY DEF ResetDb
    <3>2. ResetDbFails(b) => UNCHANGED <<mem, task, unsaved>> /\ renewed' = renewed \cup {b}
      BY DEF ResetDbFails
    <3>3. worker.at = "scanned" /\ worker' = [at |-> "row_done", rows |-> worker.rows \ {b}, acct |-> b]
      BY <1>4 DEF ResetDb, ResetDbFails
    <3> QED BY <1>4, <3>1, <3>2, <3>3
  <2>2. worker.acct # a
    BY <2>1, <1>0
  <2>3. CASE b # a
    <3>1. db'[a] = db[a]
      BY <1>4, <2>3, <1>0 DEF ResetDb, ResetDbFails
    <3> QED BY <3>1, <2>1, <2>2, <2>3, <1>1, <1>0, Undisturbed
  <2>4. CASE b = a
    <3>1. db[a] \in Row
      BY <1>0
    <3>2. \/ db'[a] = db[a]
          \/ db'[a] = [db[a] EXCEPT !.used = 0, !.status = "healthy", !.fails = 0, !.reset = "later"]
      BY <1>4, <2>4, <1>0 DEF ResetDb, ResetDbFails
    <3>3. /\ db'[a].there = db[a].there /\ db'[a].id = db[a].id
          /\ db'[a].used = db[a].used \/ db'[a].used = 0
      BY <3>1, <3>2 DEF Row
    <3>4. LifeOf(a)'
      BY <3>3, <2>1, <1>1, <1>0 DEF LifeOf, Blank
    <3> QED BY <3>4, <2>1, <2>4 DEF CountsOf
  <2> QED BY <2>3, <2>4
<1>5. CASE ResetMem
  <2> DEFINE b == worker.acct
  <2>1. /\ UNCHANGED <<db, task, renewed>> /\ unsaved' = [unsaved EXCEPT ![b] = 0]
        /\ worker'.acct = "none"
    BY <1>5, <1>0 DEF ResetMem
  <2>2. CASE b # a
    <3>1. mem'[a] = mem[a] /\ unsaved'[a] = unsaved[a]
      BY <1>5, <2>1, <2>2, <1>0 DEF ResetMem
    <3> QED BY <3>1, <2>1, <2>2, <1>1, <1>0, Undisturbed
  <2>3. CASE b = a
    <3>1. mem[a] \in Slot
      BY <1>0
    <3>2. mem'[a].there = mem[a].there /\ (mem[a].there => mem'[a].used = 0)
      BY <3>1, <1>5, <2>3, <1>0 DEF ResetMem, Slot
    <3>3. unsaved'[a] = 0 /\ a \in renewed'
      BY <2>1, <2>3, <1>0
    <3>4. LifeOf(a)'
      BY <3>2, <3>3, <2>1, <1>1, <1>0 DEF LifeOf, Blank
    <3>5. CountsOf(a)'
      BY <3>2, <3>3, <2>1, <1>1, <1>2, <1>0 DEF CountsOf, Counted
    <3> QED BY <3>4, <3>5
  <2> QED BY <2>2, <2>3
<1>6. CASE ResetScan \/ ResetDone
  <2>1. /\ UNCHANGED <<mem, db, task, unsaved, renewed>> /\ worker.at # "row_done"
        /\ worker'.acct = "none" \/ worker'.acct = worker.acct
    BY <1>6, <1>0 DEF ResetScan, ResetDone, history
  <2>2. worker.acct = "none"
    BY <2>1, <1>0
  <2> QED BY <2>1, <2>2, <1>1, <1>0, Undisturbed
<1>7. ASSUME NEW b \in Accounts, NEW date, FallsDue(b) \/ BalanceAnswer(b, date)
      PROVE  (LifeOf(a) /\ CountsOf(a))'
  <2>1. db[a] \in Row
    BY <1>0
  <2>2. \/ db'[a] = db[a]
        \/ db'[a] = [db[a] EXCEPT !.reset = "past"]
        \/ db'[a] = [db[a] EXCEPT !.reset = date]
    BY <1>7, <1>0 DEF FallsDue, BalanceAnswer
  <2>3. db'[a].there = db[a].there /\ db'[a].used = db[a].used /\ db'[a].id = db[a].id
    BY <2>1, <2>2 DEF Row
  <2> QED BY <1>7, <2>3, <1>3 DEF FallsDue, BalanceAnswer, history
<1>8. CASE \/ \E S \in SUBSET Queried \ {{}} : BalanceScan(S)
           \/ \E b \in Queried : BalanceSkip(b)
  BY <1>8, <1>3 DEF BalanceScan, BalanceSkip, history
<1>9. CASE Restart
  <2>1. /\ Unwritten(a)' = {} /\ Working(a, "publish")' = {} /\ Working(a, "forget")' = {}
    BY <1>9 DEF Restart, Idle, Unwritten, Working, At, on
  <2>2. /\ db' = db /\ unsaved'[a] = 0 /\ worker'.acct = "none"
        /\ mem'[a] = IF db[a].there THEN Loaded(db[a]) ELSE NoSlot
    BY <1>9, <1>0 DEF Restart
  <2>3. (mem'[a].there <=> db[a].there) /\ (db[a].there => mem'[a].used = db[a].used)
    BY <2>2 DEF Loaded, NoSlot
  <2>4. LifeOf(a)'
    BY <2>1, <2>2, <2>3, <1>0 DEF LifeOf, Blank
  <2>5. Counted(a)' = db[a].used
    BY <2>1, <2>2, <1>0, FS_EmptySet DEF Counted
  <2>6. CountsOf(a)'
    BY <2>2, <2>3, <2>5, <1>0 DEF CountsOf
  <2> QED BY <2>4, <2>6
<1>10. CASE UNCHANGED vars
  BY <1>10, <1>3 DEF vars, history
<1>11. Queried \subseteq Accounts
  BY StoreAssumption
<1> QED BY <1>4, <1>5, <1>6, <1>7, <1>8, <1>9, <1>10, <1>11 DEF Next, WorkerStep

\* Both are inductive together.
LEMMA StoreHolds == Spec => []StoreInv
<1>1. Init => StoreInv
  <2> SUFFICES ASSUME Init, NEW a \in Accounts PROVE LifeOf(a) /\ CountsOf(a)
    BY DEF StoreInv
  <2>1. Unwritten(a) = {} /\ Working(a, "publish") = {} /\ Working(a, "forget") = {}
    BY DEF Init, Idle, Unwritten, Working, At, on
  <2>2. Cardinality(Unwritten(a)) = 0
    BY <2>1, FS_EmptySet
  <2>3. /\ db[a].there <=> a \in Uploaded
        /\ mem[a].there <=> a \in Uploaded
        /\ mem[a].used = 0 /\ db[a].used = 0 /\ unsaved[a] = 0 /\ renewed = {}
        /\ db[a].id = "unused" => a \notin Uploaded
    BY DEF Init, FreshSlot, NoSlot
  <2>4. worker.acct # a
    BY StoreAssumption DEF Init
  <2> QED BY <2>1, <2>2, <2>3, <2>4 DEF LifeOf, CountsOf, Blank, Counted
<1>2. TypeOK /\ TasksOK /\ StoreInv /\ [Next]_vars => StoreInv'
  BY TaskCounts, WorkerCounts DEF StoreInv
<1>3. TypeOK /\ TasksOK /\ [Next]_vars => TypeOK' /\ TasksOK'
  BY TaskType, WorkerType
<1> QED BY InitType, <1>1, <1>2, <1>3, PTL DEF Spec

\* UsedConserved: until a reset no success is counted twice or forgotten.
THEOREM CountConserved == Spec => []UsedConserved
<1>1. StoreInv => UsedConserved
  BY DEF StoreInv, CountsOf, Counted, UsedConserved, Settled
<1> QED BY <1>1, StoreHolds, PTL

\* UsedNeverLaxer: memory never counts a success that a restart would lose, the UPDATEs
\* under way or lost aside, however often the quota is reset.
THEOREM NeverLaxer == Spec => []UsedNeverLaxer
<1>1. StoreInv => UsedNeverLaxer
  BY DEF StoreInv, CountsOf, Counted, UsedNeverLaxer, Settled
<1> QED BY <1>1, StoreHolds, PTL
-----------------------------------------------------------------------------
(* Agreement of the status.  While an account is not crossed, at most one   *)
(* operation stands between its two writes, and what it has still to write  *)
(* is what the other copy already says.                                     *)

Carried(a, t) ==
  /\ At(t, "write") /\ Both(a) => task[t].val = mem[a].status
  /\ At(t, "publish") /\ db[a].there => db[a].status = "pending"
  /\ At(t, "forget") => ~db[a].there

OneAtATime(a) ==
  /\ \A t, u \in Halfway(a) : t = u
  /\ \A t \in Halfway(a) : Carried(a, t)
  /\ worker.acct = a => Halfway(a) = {} /\ (db[a].there => db[a].status = "healthy")
  /\ Halfway(a) = {} /\ worker.acct # a /\ Both(a) => mem[a].status = db[a].status

StatusOf(a) ==
  /\ db[a].id = "unused" => db[a].status = "pending"
  /\ a \in crossed \/ OneAtATime(a)

StatusInv == \A a \in Accounts : StatusOf(a)

\* What leaves the account's copies, the part each task plays for it and the worker's place.
LEMMA StatusUndisturbed ==
  ASSUME NEW a, StatusOf(a), a \in crossed' <=> a \in crossed,
         mem'[a].there = mem[a].there, mem'[a].status = mem[a].status,
         db'[a].there = db[a].there, db'[a].status = db[a].status, db'[a].id = db[a].id,
         \A t \in Tasks : t \in Halfway(a)' <=> t \in Halfway(a),
         \A t \in Halfway(a) : task'[t] = task[t],
         worker'.acct = a <=> worker.acct = a
  PROVE  StatusOf(a)'
<1>1. Halfway(a)' = Halfway(a)
  BY DEF Halfway
<1>2. Both(a)' = Both(a)
  BY DEF Both
<1>3. \A t \in Halfway(a) : Carried(a, t) => Carried(a, t)'
  BY <1>2 DEF Carried, At
<1>4. OneAtATime(a) => OneAtATime(a)'
  BY <1>1, <1>2, <1>3 DEF OneAtATime
<1> QED BY <1>4 DEF StatusOf

\* A step of a task that stands half-way on this account neither before nor after it.
LEMMA ElsewhereStatus ==
  ASSUME NEW a, StatusOf(a), NEW t \in Tasks, \A u \in Tasks : u # t => task'[u] = task[u],
         t \notin Halfway(a), t \notin Halfway(a)',
         mem'[a] = mem[a], db'[a] = db[a], UNCHANGED worker, a \in crossed' <=> a \in crossed
  PROVE  StatusOf(a)'
<1>1. \A u \in Tasks : u \in Halfway(a)' <=> u \in Halfway(a)
  BY DEF Halfway, on
<1>2. \A u \in Halfway(a) : task'[u] = task[u]
  BY DEF Halfway
<1> QED BY <1>1, <1>2, StatusUndisturbed

\* The first write of an operation of t: either the account is crossed, or t is alone on it.
LEMMA FirstWrite ==
  ASSUME NEW a, StatusOf(a), NEW t \in Tasks, \A u \in Tasks : u # t => task'[u] = task[u],
         t \notin Halfway(a), t \in Halfway(a)', UNCHANGED worker, Changes(a, FALSE),
         Carried(a, t)', db'[a].id = "unused" => db'[a].status = "pending"
  PROVE  StatusOf(a)'
<1>1. CASE Halfway(a) # {} \/ worker.acct = a
  BY <1>1 DEF Changes, StatusOf
<1>2. CASE ~(Halfway(a) # {} \/ worker.acct = a)
  <2>1. Halfway(a)' = {t}
    BY <1>2 DEF Halfway, on
  <2>2. OneAtATime(a)'
    BY <2>1, <1>2 DEF OneAtATime
  <2> QED BY <2>2 DEF StatusOf
<1> QED BY <1>1, <1>2

\* The second write: the copies agree once t, alone on the account, is done.
LEMMA SecondWrite ==
  ASSUME NEW a, StatusOf(a), NEW t \in Tasks, \A u \in Tasks : u # t => task'[u] = task[u],
         t \in Halfway(a), t \notin Halfway(a)', UNCHANGED <<worker, crossed>>,
         OneAtATime(a) /\ Both(a)' => mem'[a].status = db'[a].status,
         db'[a].id = "unused" => db'[a].status = "pending"
  PROVE  StatusOf(a)'
<1>1. CASE a \in crossed
  BY <1>1 DEF StatusOf
<1>2. CASE a \notin crossed
  <2>1. OneAtATime(a)
    BY <1>2 DEF StatusOf
  <2>2. Halfway(a)' = {}
    BY <2>1 DEF OneAtATime, Halfway, on
  <2>3. worker.acct # a
    BY <2>1 DEF OneAtATime
  <2>4. OneAtATime(a)'
    BY <2>1, <2>2, <2>3 DEF OneAtATime
  <2> QED BY <2>4 DEF StatusOf
<1> QED BY <1>1, <1>2

\* The first steps of an operation keep every account's status in order.
LEMMA StartsKeepStatus ==
  ASSUME TypeOK, TasksOK, StoreInv, StatusInv, NEW t \in Tasks, TaskStart(t), NEW a \in Accounts
  PROVE  StatusOf(a)'
<1>0. /\ mem \in [Accounts -> Slot] /\ db \in [Accounts -> Row] /\ task \in [Tasks -> Task]
      /\ "none" \notin Accounts /\ StatusOf(a) /\ LifeOf(a) /\ crossed \subseteq Accounts
      /\ mem[a] \in Slot /\ db[a] \in Row
  BY StoreAssumption DEF TypeOK, StoreInv, StatusInv
<1>1. ASSUME NEW b \in Accounts, NEW k, NEW where, NEW v, Starts(t, k, b, where, v)
      PROVE  /\ \A u \in Tasks : u # t => task'[u] = task[u]
             /\ task'[t].acct = b /\ task'[t].at = where /\ task'[t].val = v
             /\ t \notin Halfway(a)
             /\ b # a => t \notin Halfway(a)'
             /\ b = a => (t \in Halfway(a)' <=> where \in {"reread", "write", "publish", "forget"})
  <2>1. task[t] = Idle /\ task' = [task EXCEPT ![t] = [kind |-> k, at |-> where, acct |-> b, val |-> v]]
    BY <1>1 DEF Starts
  <2>2. task'[t] = [kind |-> k, at |-> where, acct |-> b, val |-> v]
    BY <2>1, <1>0
  <2>3. \A u \in Tasks : u # t => task'[u] = task[u]
    BY <2>1, <1>0
  <2> QED BY <2>1, <2>2, <2>3, <1>0 DEF Halfway, on, Idle
<1>2. ASSUME NEW b \in Accounts, b # a, Changes(b, FALSE)
      PROVE  a \in crossed' <=> a \in crossed
  BY <1>2 DEF Changes
<1>3. ASSUME NEW b \in Accounts, NEW s \in Statuses, SetStatusMem(t, b, s) PROVE StatusOf(a)'
  <2>1. /\ Starts(t, "set_status", b, "write", s) /\ UNCHANGED <<db, worker>> /\ Changes(b, FALSE)
        /\ mem' = IF mem[b].there THEN [mem EXCEPT ![b] = WithStatus(@, s)] ELSE mem
    BY <1>3 DEF SetStatusMem
  <2>2. CASE b # a
    <3>1. mem'[a] = mem[a]
      BY <2>1, <2>2, <1>0
    <3> QED BY <3>1, <2>1, <2>2, <1>0, <1>1, <1>2, ElsewhereStatus
  <2>3. CASE b = a
    <3>1. Both(a)' => mem'[a].status = s
      BY <2>1, <2>3, <1>0 DEF Both, WithStatus, Slot
    <3>2. Carried(a, t)'
      BY <3>1, <2>1, <1>1 DEF Carried, At
    <3> QED BY <3>2, <2>1, <2>3, <1>0, <1>1, FirstWrite DEF StatusOf
  <2> QED BY <2>2, <2>3
<1>4. ASSUME NEW b \in Accounts, NEW ok \in BOOLEAN, RecordMem(t, b, ok) PROVE StatusOf(a)'
  <2> DEFINE k == IF ok THEN "record_ok" ELSE "record_failed"
  <2>1. /\ Starts(t, k, b, "reread", NoStatus) /\ UNCHANGED <<db, worker>> /\ Changes(b, FALSE)
        /\ mem' = IF mem[b].there THEN [mem EXCEPT ![b] = Recorded(@, ok)] ELSE mem
    BY <1>4 DEF RecordMem
  <2> HIDE DEF k
  <2>2. CASE b # a
    <3>1. mem'[a] = mem[a]
      BY <2>1, <2>2, <1>0
    <3> QED BY <3>1, <2>1, <2>2, <1>0, <1>1, <1>2, ElsewhereStatus
  <2>3. CASE b = a
    <3>1. Carried(a, t)'
      BY <2>1, <1>1 DEF Carried, At
    <3> QED BY <3>1, <2>1, <2>3, <1>0, <1>1, FirstWrite DEF StatusOf
  <2> QED BY <2>2, <2>3
<1>5. ASSUME NEW b \in Accounts, ProbeStart(t, b) PROVE StatusOf(a)'
  <2>1. Starts(t, "probe", b, "probing", NoStatus) /\ UNCHANGED <<mem, db, worker, crossed>>
    BY <1>5 DEF ProbeStart, history
  <2>2. t \notin Halfway(a) /\ t \notin Halfway(a)'
    BY <2>1, <1>1
  <2> QED BY <2>1, <2>2, <1>0, <1>1, ElsewhereStatus
<1>6. ASSUME NEW b \in Accounts, UploadDb(t, b) PROVE StatusOf(a)'
  <2>1. /\ Starts(t, "upload", b, "publish", NoStatus) /\ UNCHANGED <<mem, worker>> /\ Changes(b, FALSE)
        /\ db[b].id = "unused" /\ db' = [db EXCEPT ![b] = [@ EXCEPT !.there = TRUE, !.id = "taken"]]
    BY <1>6 DEF UploadDb
  <2>2. CASE b # a
    <3>1. db'[a] = db[a]
      BY <2>1, <2>2, <1>0
    <3> QED BY <3>1, <2>1, <2>2, <1>0, <1>1, <1>2, ElsewhereStatus
  <2>3. CASE b = a
    <3>1. db'[a].status = "pending"
      BY <2>1, <2>3, <1>0 DEF StatusOf, Row
    <3>2. Carried(a, t)'
      BY <3>1, <2>1, <1>1 DEF Carried, At
    <3> QED BY <3>1, <3>2, <2>1, <2>3, <1>0, <1>1, FirstWrite
  <2> QED BY <2>2, <2>3
<1>7. ASSUME NEW b \in Accounts, DeleteDb(t, b) PROVE StatusOf(a)'
  <2>1. /\ Starts(t, "delete", b, "forget", NoStatus) /\ UNCHANGED <<mem, worker>> /\ Changes(b, FALSE)
        /\ db[b].id = "taken" /\ db' = [db EXCEPT ![b].there = FALSE]
    BY <1>7 DEF DeleteDb
  <2>2. CASE b # a
    <3>1. db'[a] = db[a]
      BY <2>1, <2>2, <1>0
    <3> QED BY <3>1, <2>1, <2>2, <1>0, <1>1, <1>2, ElsewhereStatus
  <2>3. CASE b = a
    <3>1. ~db'[a].there /\ db'[a].id = "taken"
      BY <2>1, <2>3, <1>0 DEF Row
    <3>2. Carried(a, t)'
      BY <3>1, <2>1, <1>1 DEF Carried, At
    <3> QED BY <3>1, <3>2, <2>1, <2>3, <1>0, <1>1, FirstWrite
  <2> QED BY <2>2, <2>3
<1> QED BY <1>3, <1>4, <1>5, <1>6, <1>7 DEF TaskStart

\* So do the steps that carry an operation on, and the loss of its second write.
LEMMA StepsKeepStatus ==
  ASSUME TypeOK, TasksOK, StoreInv, StatusInv, NEW t \in Tasks, TaskStep(t) \/ Lose(t),
         NEW a \in Accounts
  PROVE  StatusOf(a)'
<1>0. /\ mem \in [Accounts -> Slot] /\ db \in [Accounts -> Row] /\ task \in [Tasks -> Task]
      /\ "none" \notin Accounts /\ StatusOf(a) /\ LifeOf(a) /\ crossed \subseteq Accounts
      /\ mem[a] \in Slot /\ db[a] \in Row /\ Sensible(task[t]) /\ task[t] \in Task
      /\ NoStatus \notin Status
  BY StoreAssumption DEF TypeOK, TasksOK, StoreInv, StatusInv
<1>1. ASSUME Ends(t)
      PROVE  /\ \A u \in Tasks : u # t => task'[u] = task[u]
             /\ t \notin Halfway(a)'
             /\ on(t) # a => t \notin Halfway(a)
  BY <1>1, <1>0 DEF Ends, Idle, Halfway, on
<1>2. CASE SetStatusDb(t) \/ RecordDb(t)
  <2>1. At(t, "write") /\ Ends(t) /\ UNCHANGED <<mem, worker, crossed>>
    BY <1>2 DEF SetStatusDb, RecordDb, history
  <2>2. CASE on(t) # a
    <3>1. db'[a] = db[a]
      BY <1>2, <2>2, <1>0 DEF SetStatusDb, RecordDb
    <3> QED BY <3>1, <2>1, <2>2, <1>0, <1>1, ElsewhereStatus
  <2>3. CASE on(t) = a
    <3>1. t \in Halfway(a)
      BY <2>1, <2>3 DEF Halfway, At
    <3>2. /\ db'[a].there = db[a].there /\ db'[a].id = db[a].id
          /\ ~db[a].there => db'[a] = db[a]
          /\ db[a].there /\ task[t].val \in Status => db'[a].status = task[t].val
      <4>1. \A x \in Row, v \in Status \cup {NoStatus} :
              /\ WithStatus(x, v).there = x.there
              /\ WithStatus(x, v).id = x.id
              /\ WithStatus(x, v).status = v
        BY DEF WithStatus, Row
      <4>2. \A x \in Row, v \in Status \cup {NoStatus} : \A ok :
              /\ RecordedRow(x, ok, v).there = x.there
              /\ RecordedRow(x, ok, v).id = x.id
              /\ v # NoStatus => RecordedRow(x, ok, v).status = v
        BY DEF RecordedRow, Row
      <4>3. \/ db'[a] = db[a] /\ ~db[a].there
            \/ db'[a] = WithStatus(db[a], task[t].val) /\ db[a].there
            \/ db'[a] = RecordedRow(db[a], task[t].kind = "record_ok", task[t].val) /\ db[a].there
        BY <1>2, <2>3, <1>0 DEF SetStatusDb, RecordDb
      <4>4. task[t].val \in Status \cup {NoStatus}
        BY <1>0 DEF Task
      <4> QED BY <4>1, <4>2, <4>3, <4>4, <1>0
    <3>3. db'[a].id = "unused" => db'[a].status = "pending"
      BY <3>2, <1>0 DEF LifeOf, StatusOf
    <3>4. OneAtATime(a) /\ Both(a)' => mem'[a].status = db'[a].status
      <4>1. SUFFICES ASSUME OneAtATime(a), Both(a)' PROVE mem'[a].status = db'[a].status
        OBVIOUS
      <4>2. Both(a)
        BY <4>1, <3>2, <2>1 DEF Both
      <4>3. task[t].val = mem[a].status
        BY <4>1, <4>2, <3>1, <2>1 DEF OneAtATime, Carried
      <4>4. mem[a].status \in Status
        BY <1>0 DEF Slot
      <4> QED BY <4>2, <4>3, <4>4, <3>2, <2>1 DEF Both
    <3> QED BY <3>1, <3>3, <3>4, <2>1, <1>0, <1>1, SecondWrite
  <2> QED BY <2>2, <2>3
<1>3. CASE RecordReread(t)
  <2> DEFINE v == IF mem[on(t)].there THEN mem[on(t)].status ELSE NoStatus
  <2>1. /\ At(t, "reread") /\ UNCHANGED <<mem, db, worker, crossed>>
        /\ \A u \in Tasks : u # t => task'[u] = task[u]
        /\ task'[t].at = "write" /\ task'[t].acct = on(t) /\ task'[t].val = v
    BY <1>3, <1>0 DEF RecordReread, Task, on, history
  <2>2. Halfway(a)' = Halfway(a) /\ Both(a)' = Both(a)
    BY <2>1 DEF Halfway, on, At, Both
  <2>3. t \in Halfway(a) => Carried(a, t)'
    BY <2>1 DEF Carried, At, Both, Halfway
  <2>4. \A u \in Halfway(a) : u # t /\ Carried(a, u) => Carried(a, u)'
    BY <2>1, <2>2 DEF Carried, At, Halfway
  <2>5. OneAtATime(a) => OneAtATime(a)'
    BY <2>1, <2>2, <2>3, <2>4 DEF OneAtATime
  <2> QED BY <2>1, <2>5, <1>0 DEF StatusOf
<1>4. ASSUME NEW s \in Status, ProbeVerdict(t, s) PROVE StatusOf(a)'
  <2>1. /\ At(t, "probing") /\ UNCHANGED <<db, worker>> /\ Changes(on(t), FALSE)
        /\ \A u \in Tasks : u # t => task'[u] = task[u]
        /\ task'[t].at = "write" /\ task'[t].acct = on(t) /\ task'[t].val = s
        /\ mem' = IF mem[on(t)].there THEN [mem EXCEPT ![on(t)] = WithStatus(@, s)] ELSE mem
    BY <1>4, <1>0 DEF ProbeVerdict, Task, on
  <2>2. t \notin Halfway(a) /\ (t \in Halfway(a)' <=> on(t) = a)
    BY <2>1 DEF Halfway, At, on
  <2>3. CASE on(t) # a
    <3>1. mem'[a] = mem[a] /\ (a \in crossed' <=> a \in crossed)
      BY <2>1, <2>3, <1>0 DEF Changes
    <3> QED BY <3>1, <2>1, <2>2, <2>3, <1>0, ElsewhereStatus
  <2>4. CASE on(t) = a
    <3>1. Both(a)' => mem'[a].status = s
      BY <2>1, <2>4, <1>0 DEF Both, WithStatus, Slot
    <3>2. Carried(a, t)'
      BY <3>1, <2>1 DEF Carried, At
    <3> QED BY <3>2, <2>1, <2>2, <2>4, <1>0, FirstWrite DEF StatusOf
  <2> QED BY <2>3, <2>4
<1>5. CASE ProbeUnknown(t) \/ (Lose(t) /\ At(t, "probing"))
  <2>1. At(t, "probing") /\ Ends(t) /\ UNCHANGED <<mem, db, worker, crossed>>
    BY <1>5 DEF ProbeUnknown, Lose, history
  <2>2. t \notin Halfway(a)
    BY <2>1 DEF Halfway, At
  <2> QED BY <2>1, <2>2, <1>0, <1>1, ElsewhereStatus
<1>6. CASE UploadMem(t) \/ DeleteMem(t)
  <2>1. /\ Ends(t) /\ UNCHANGED <<db, worker, crossed>> /\ task[t].at \in {"publish", "forget"}
        /\ mem' = [mem EXCEPT ![on(t)] = IF At(t, "publish") THEN FreshSlot ELSE NoSlot]
    BY <1>6 DEF UploadMem, DeleteMem, At, history
  <2>2. CASE on(t) # a
    <3>1. mem'[a] = mem[a]
      BY <2>1, <2>2, <1>0
    <3> QED BY <3>1, <2>1, <2>2, <1>0, <1>1, ElsewhereStatus
  <2>3. CASE on(t) = a
    <3>1. t \in Halfway(a)
      BY <2>1, <2>3 DEF Halfway
    <3>2. mem'[a] = IF At(t, "publish") THEN FreshSlot ELSE NoSlot
      BY <2>1, <2>3, <1>0
    <3>3. OneAtATime(a) /\ Both(a)' => mem'[a].status = db'[a].status
      BY <3>1, <3>2, <2>1 DEF OneAtATime, Carried, Both, FreshSlot, NoSlot
    <3> QED BY <3>1, <3>3, <2>1, <1>0, <1>1, SecondWrite DEF StatusOf
  <2> QED BY <2>2, <2>3
<1>7. CASE Lose(t) /\ ~At(t, "probing")
  <2>1. Ends(t) /\ UNCHANGED <<mem, db, worker>> /\ crossed' = crossed \cup {on(t)}
    BY <1>7 DEF Lose
  <2>2. CASE on(t) # a
    BY <2>1, <2>2, <1>0, <1>1, ElsewhereStatus
  <2>3. CASE on(t) = a
    BY <2>1, <2>3, <1>0 DEF StatusOf
  <2> QED BY <2>2, <2>3
<1>8. {"healthy", "hard_revoked"} \subseteq Status
  BY DEF Status
<1> QED BY <1>2, <1>3, <1>4, <1>5, <1>6, <1>7, <1>8 DEF TaskStep

\* So do the workers' steps, time and restarts.
LEMMA WorkersKeepStatus ==
  ASSUME TypeOK, StoreInv, StatusInv, ~(\E t \in Tasks : TaskStart(t) \/ TaskStep(t) \/ Lose(t)),
         [Next]_vars, NEW a \in Accounts
  PROVE  StatusOf(a)'
<1>0. /\ mem \in [Accounts -> Slot] /\ db \in [Accounts -> Row]
      /\ "none" \notin Accounts /\ StatusOf(a) /\ LifeOf(a) /\ crossed \subseteq Accounts
      /\ mem[a] \in Slot /\ db[a] \in Row
      /\ \A b \in Accounts : worker.acct = b => worker.at = "row_done"
      /\ worker \in [at : {"asleep", "scanned", "row_done"}, rows : SUBSET Accounts,
                     acct : Accounts \cup {"none"}]
  BY StoreAssumption DEF TypeOK, StoreInv, StatusInv, CountsOf
<1>1. ASSUME UNCHANGED task PROVE Halfway(a)' = Halfway(a)
  BY <1>1 DEF Halfway, on
<1>2. ASSUME UNCHANGED <<mem, task, crossed>>,
             db'[a].there = db[a].there, db'[a].status = db[a].status, db'[a].id = db[a].id,
             worker'.acct = worker.acct
      PROVE  StatusOf(a)'
  BY <1>2, <1>0, <1>1, StatusUndisturbed DEF Halfway
<1>3. ASSUME NEW b \in Accounts, ResetDb(b) PROVE StatusOf(a)'
  <2>1. /\ UNCHANGED <<mem, task>> /\ Changes(b, FALSE) /\ worker.acct # a /\ worker'.acct = b
    <3>1. worker.at = "scanned" /\ worker' = [at |-> "row_done", rows |-> worker.rows \ {b}, acct |-> b]
      BY <1>3 DEF ResetDb
    <3>2. UNCHANGED <<mem, task>> /\ Changes(b, FALSE)
      BY <1>3 DEF ResetDb
    <3>3. worker.acct # a /\ worker'.acct = b
      BY <3>1, <1>0
    <3> QED BY <3>2, <3>3
  <2>2. CASE b # a
    <3>1. db'[a] = db[a] /\ (a \in crossed' <=> a \in crossed)
      BY <1>3, <2>1, <2>2, <1>0 DEF ResetDb, Changes
    <3> QED BY <3>1, <2>1, <2>2, <1>0, <1>1, StatusUndisturbed DEF Halfway
  <2>3. CASE b = a
    <3>1. /\ db'[a].there = db[a].there /\ db'[a].id = db[a].id
          /\ db[a].there => db'[a].status = "healthy"
          /\ ~db[a].there => db'[a] = db[a]
      BY <1>3, <2>3, <1>0 DEF ResetDb, Row
    <3>2. db'[a].id = "unused" => db'[a].status = "pending"
      BY <3>1, <1>0 DEF LifeOf, StatusOf
    <3>3. a \in crossed' \/ Halfway(a)' = {}
      BY <2>1, <2>3, <1>1 DEF Changes
    <3>4. Halfway(a)' = {} => OneAtATime(a)'
      BY <3>1, <2>1, <2>3 DEF OneAtATime
    <3> QED BY <3>2, <3>3, <3>4 DEF StatusOf
  <2> QED BY <2>2, <2>3
<1>4. ASSUME NEW b \in Accounts, ResetDbFails(b) PROVE StatusOf(a)'
  <2>1. /\ UNCHANGED <<mem, db, task>> /\ crossed' = crossed \cup {b}
        /\ worker.acct # a /\ worker'.acct = b
    <3>1. worker.at = "scanned" /\ worker' = [at |-> "row_done", rows |-> worker.rows \ {b}, acct |-> b]
      BY <1>4 DEF ResetDbFails
    <3> QED BY <3>1, <1>4, <1>0 DEF ResetDbFails, Changes
  <2>2. CASE b # a
    BY <2>1, <2>2, <1>0, <1>1, StatusUndisturbed DEF Halfway
  <2>3. CASE b = a
    BY <2>1, <2>3, <1>0 DEF StatusOf
  <2> QED BY <2>2, <2>3
<1>5. CASE ResetMem
  <2>0. PICK b : b = worker.acct
    OBVIOUS
  <2>1. UNCHANGED <<db, task, crossed>> /\ worker'.acct = "none"
    BY <1>5, <1>0 DEF ResetMem
  <2>2. CASE b # a
    <3>1. mem'[a] = mem[a]
      BY <1>5, <2>0, <2>2, <1>0 DEF ResetMem
    <3> QED BY <3>1, <2>0, <2>1, <2>2, <1>0, <1>1, StatusUndisturbed DEF Halfway
  <2>3. CASE b = a
    <3>1. mem'[a].there = mem[a].there /\ (mem[a].there => mem'[a].status = "healthy")
      <4>1. \/ mem'[a] = [mem[a] EXCEPT !.used = 0, !.status = "healthy", !.fails = 0] /\ mem[a].there
            \/ mem'[a] = mem[a] /\ ~mem[a].there
        BY <1>5, <2>0, <2>3, <1>0 DEF ResetMem
      <4>2. mem[a] \in Slot
        BY <1>0
      <4> QED BY <4>1, <4>2 DEF Slot
    <3>2. OneAtATime(a) => OneAtATime(a)'
      BY <3>1, <2>0, <2>1, <2>3, <1>0, <1>1 DEF OneAtATime, Both
    <3> QED BY <3>2, <2>1, <1>0 DEF StatusOf
  <2> QED BY <2>2, <2>3
<1>6. CASE ResetScan \/ ResetDone
  <2>1. /\ UNCHANGED <<mem, db, task, crossed>> /\ worker.at # "row_done"
        /\ worker'.acct = "none" \/ worker'.acct = worker.acct
    BY <1>6, <1>0 DEF ResetScan, ResetDone, history
  <2>2. worker.acct = "none"
    BY <2>1, <1>0
  <2> QED BY <2>1, <2>2, <1>2
<1>7. ASSUME NEW b \in Accounts, NEW date, FallsDue(b) \/ BalanceAnswer(b, date)
      PROVE  StatusOf(a)'
  <2>1. \/ db'[a] = db[a]
        \/ db'[a] = [db[a] EXCEPT !.reset = "past"]
        \/ db'[a] = [db[a] EXCEPT !.reset = date]
    BY <1>7, <1>0 DEF FallsDue, BalanceAnswer
  <2>2. db[a] \in Row
    BY <1>0
  <2>3. db'[a].there = db[a].there /\ db'[a].status = db[a].status /\ db'[a].id = db[a].id
    BY <2>1, <2>2 DEF Row
  <2> QED BY <1>7, <2>3, <1>2 DEF FallsDue, BalanceAnswer, history
<1>8. CASE \/ \E S \in SUBSET Queried \ {{}} : BalanceScan(S)
           \/ \E b \in Queried : BalanceSkip(b)
  BY <1>8, <1>2 DEF BalanceScan, BalanceSkip, history
<1>9. CASE Restart
  <2>1. Halfway(a)' = {} /\ db' = db /\ worker'.acct = "none"
    BY <1>9, <1>0 DEF Restart, Idle, Halfway, on
  <2>2. mem'[a] = IF db[a].there THEN Loaded(db[a]) ELSE NoSlot
    BY <1>9, <1>0 DEF Restart
  <2>3. Both(a)' => mem'[a].status = db'[a].status
    BY <2>1, <2>2 DEF Both, Loaded, NoSlot
  <2>4. OneAtATime(a)'
    BY <2>1, <2>3, <1>0 DEF OneAtATime
  <2> QED BY <2>1, <2>4, <1>0 DEF StatusOf
<1>10. CASE UNCHANGED vars
  BY <1>10, <1>2 DEF vars, history
<1>11. Queried \subseteq Accounts
  BY StoreAssumption
<1> QED BY <1>3, <1>4, <1>5, <1>6, <1>7, <1>8, <1>9, <1>10, <1>11 DEF Next, WorkerStep

\* StatusesAgree: whatever the operations and however many, the two copies of a status part
\* only through a lost statement or two operations at once on the account.
THEOREM StatusKept == Spec => []StatusesAgree
<1>1. Init => StatusInv
  <2> SUFFICES ASSUME Init, NEW a \in Accounts PROVE StatusOf(a)
    BY DEF StatusInv
  <2>1. Halfway(a) = {} /\ worker.acct # a
    BY StoreAssumption DEF Init, Idle, Halfway, on
  <2>2. mem[a].status = "pending" /\ db[a].status = "pending"
    BY DEF Init, FreshSlot, NoSlot
  <2> QED BY <2>1, <2>2 DEF StatusOf, OneAtATime
<1>2. TypeOK /\ TasksOK /\ StoreInv /\ StatusInv /\ [Next]_vars => StatusInv'
  BY StartsKeepStatus, StepsKeepStatus, WorkersKeepStatus DEF StatusInv
<1>3. TypeOK /\ TasksOK /\ [Next]_vars => TypeOK' /\ TasksOK'
  BY TaskType, WorkerType
<1>4. StatusInv => StatusesAgree
  BY DEF StatusInv, StatusOf, OneAtATime, StatusesAgree
<1> QED BY InitType, StoreHolds, <1>1, <1>2, <1>3, <1>4, PTL DEF Spec
=============================================================================
