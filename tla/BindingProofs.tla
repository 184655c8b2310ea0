--------------------------- MODULE BindingProofs ---------------------------
(***************************************************************************)
(* The schema's constraints and the agreement of both copies of a binding  *)
(* under any number of syncers, binders and administrators, and the even   *)
(* spread of accounts that syncs bind.                                     *)
(***************************************************************************)
EXTENDS ProxyBinding, Counting, TLAPS

\* What a caller of bind_account holds, by where it stands.
BindType ==
  [at : {"idle", "rescan", "affine", "balance", "write", "publish"},
   acct : Accounts \cup {"none"}, groups : SUBSET Groups, todo : SUBSET Groups,
   pick : MaybeProxy]
Held(b) ==
  /\ b.at \in {"affine", "balance", "write", "publish"} => b.acct \in Accounts
  /\ b.at \in {"write", "publish"} => b.pick \in Proxies
  /\ b.at = "idle" => b = NoBind
CallersOK == bind \in [Callers -> BindType] /\ \A x \in Callers : Held(bind[x])

\* The tables: their types, the foreign keys, and UNIQUE(group_id,host,port).
Tables ==
  /\ row \in [Proxies -> RowStatus]
  /\ bound \in [Accounts -> MaybeProxy]
  /\ group \in [Groups -> {"unused", "enabled", "disabled", "deleted"}]
Keys ==
  /\ linked \subseteq groups
  /\ \A p \in Proxies : InRow(p) => GroupOf[p] \in groups
  /\ \A a \in Accounts : bound[a] # NoProxy => InRow(bound[a])
Unique ==
  \A p, q \in Proxies :
    InRow(p) /\ InRow(q) /\ GroupOf[p] = GroupOf[q] /\ ServerOf[p] = ServerOf[q] => p = q
Schema == Tables /\ Keys /\ Unique

\* The copies in memory and everything else.
Copies ==
  /\ entry \in [Proxies -> Status \cup {"absent"}]
  /\ slot \in [Accounts -> MaybeProxy]
Rest ==
  /\ round \subseteq Groups
  /\ feed \in [Groups -> SUBSET Servers]
  /\ queue \in [Callers -> SUBSET Accounts]
  /\ churn \in 0 .. MaxChurn /\ torn \subseteq Accounts

\* TypeOK, taken apart.
LEMMA Parts == TypeOK <=> Schema /\ Copies /\ Rest
BY DEF TypeOK, Schema, Tables, Keys, Unique, Copies, Rest

-----------------------------------------------------------------------------
(* The database.                                                            *)

\* A server found in a subscription gets a row only if it has none.
LEMMA UpsertKeepsSchema ==
  ASSUME Schema, NEW s \in Syncers, NEW v \in Servers, Upsert(s, v)
  PROVE  Schema'
<1> DEFINE g == sync[s].group
<1>1. CASE row' = row
  BY <1>1 DEF Upsert, Schema, Tables, Keys, Unique, groups, InRow
<1>2. ASSUME NEW p \in Proxies, row[p] = "unused", GroupOf[p] = g, ServerOf[p] = v,
             row' = [row EXCEPT ![p] = "available"],
             \A q \in Proxies : GroupOf[q] = g /\ InRow(q) => ServerOf[q] # v
      PROVE  Schema'
  <2>1. g \in groups /\ UNCHANGED <<bound, group, linked>>
    BY DEF Upsert
  <2>2. Tables'
    BY <1>2, <2>1 DEF Schema, Tables, RowStatus
  <2>3. \A q \in Proxies : InRow(q)' <=> q = p \/ InRow(q)
    BY <1>2 DEF Schema, Tables, InRow, Status
  <2>5. Keys'
    BY <1>2, <2>1, <2>3 DEF Schema, Tables, Keys, groups, MaybeProxy
  <2>6. Unique'
    BY <1>2, <2>3 DEF Schema, Unique
  <2> QED BY <2>2, <2>5, <2>6 DEF Schema
<1> QED BY <1>1, <1>2 DEF Upsert, RowsOf

\* Rows go with what refers to them.
LEMMA WithoutKeepsSchema ==
  ASSUME Schema, NEW gone, Without(gone), UNCHANGED group,
         linked' \subseteq groups,
         NEW S \in SUBSET Proxies, gone = S
  PROVE  Schema'
<1>1. \A q \in Proxies : InRow(q)' <=> InRow(q) /\ q \notin gone
  BY DEF Schema, Tables, Without, InRow, Status
<1>2. Tables'
  BY DEF Schema, Tables, Without, RowStatus, MaybeProxy
<1>3. \A a \in Accounts : bound'[a] # NoProxy => bound'[a] = bound[a] /\ bound[a] \notin gone
  BY DEF Schema, Tables, Without
<1>4. Keys'
  BY <1>1, <1>3 DEF Schema, Tables, Keys, groups, MaybeProxy
<1>5. Unique'
  BY <1>1 DEF Schema, Unique
<1> QED BY <1>2, <1>4, <1>5 DEF Schema

\* Operations that leave the proxies' rows alone.
LEMMA LinksKeepSchema ==
  ASSUME Schema, UNCHANGED <<row, bound>>,
         group' \in [Groups -> {"unused", "enabled", "disabled", "deleted"}],
         groups \subseteq groups', linked' \subseteq groups'
  PROVE  Schema'
BY DEF Schema, Tables, Keys, Unique, InRow

\* A binding to a proxy that is there.
LEMMA BoundKeepsSchema ==
  ASSUME Schema, UNCHANGED <<row, group, linked>>, NEW a, NEW p \in Proxies, InRow(p),
         bound' = [bound EXCEPT ![a] = p]
  PROVE  Schema'
<1>1. Tables'
  BY DEF Schema, Tables, MaybeProxy
<1>2. Keys'
  BY DEF Schema, Tables, Keys, groups, InRow
<1> QED BY <1>1, <1>2 DEF Schema, Unique, InRow

\* delete_proxy_group.
LEMMA DeletionKeepsSchema ==
  ASSUME Schema, NEW g \in Groups, DeleteGroupDb(g)
  PROVE  Schema'
<1>1. \A q \in Proxies : InRow(q)' <=> InRow(q) /\ GroupOf[q] # g
  BY DEF DeleteGroupDb, Schema, Tables, Without, InRow, Status, RowsOf
<1>2. Tables'
  BY DEF DeleteGroupDb, Schema, Tables, Without, RowStatus, MaybeProxy
<1>3. groups' = groups \ {g}
  BY DEF DeleteGroupDb, Schema, Tables, groups
<1>4. \A a \in Accounts : bound'[a] # NoProxy => bound'[a] = bound[a] /\ bound[a] \notin RowsOf(g)
  BY DEF DeleteGroupDb, Schema, Tables, Without
<1>5. Keys'
  <2>1. linked' \subseteq groups'
    BY <1>3 DEF DeleteGroupDb, Schema, Keys
  <2>2. \A p \in Proxies : InRow(p)' => GroupOf[p] \in groups'
    BY <1>1, <1>3 DEF Schema, Keys
  <2>3. \A a \in Accounts : (bound[a] # NoProxy => InRow(bound[a]))'
    BY <1>1, <1>4 DEF Schema, Tables, Keys, MaybeProxy, RowsOf
  <2> QED BY <2>1, <2>2, <2>3 DEF Keys
<1>6. Unique'
  BY <1>1 DEF Schema, Unique
<1> QED BY <1>2, <1>5, <1>6 DEF Schema

\* disable_proxy and enable_proxy.
LEMMA SwitchKeepsSchema ==
  ASSUME Schema, NEW p \in Proxies, NEW st \in Status, SwitchDb(p, st)
  PROVE  Schema'
<1>1. /\ row' = [row EXCEPT ![p] = st] /\ InRow(p)
      /\ UNCHANGED <<bound, group, linked>>
  BY DEF SwitchDb
<1>2. \A q \in Proxies : InRow(q)' <=> InRow(q)
  BY <1>1 DEF Schema, Tables, InRow
<1>3. Tables'
  BY <1>1 DEF Schema, Tables, RowStatus, Status
<1>4. groups' = groups
  BY <1>1 DEF groups
<1>5. Keys'
  BY <1>1, <1>2, <1>4 DEF Schema, Tables, Keys, MaybeProxy
<1>6. Unique'
  BY <1>2 DEF Schema, Unique
<1> QED BY <1>3, <1>5, <1>6 DEF Schema

-----------------------------------------------------------------------------
(* The callers of bind_account.                                             *)

\* A caller that takes up, carries on or ends a binding.
LEMMA CallerMoves ==
  ASSUME CallersOK, NEW x \in Callers, NEW b \in BindType, Held(b),
         bind' = [bind EXCEPT ![x] = b]
  PROVE  CallersOK'
BY DEF CallersOK

\* It ends.
LEMMA NothingHeld == NoBind \in BindType /\ Held(NoBind)
BY DEF NoBind, BindType, Held, MaybeProxy

\* The steps of bind_account.
LEMMA BindingMoves ==
  ASSUME CallersOK, Schema, NEW x \in Callers, BindStep(x)
  PROVE  CallersOK'
<1>0. /\ bind[x] \in BindType /\ Held(bind[x]) /\ linked \subseteq Groups
      /\ NoBind \in BindType /\ Held(NoBind)
  BY NothingHeld DEF CallersOK, Schema, Keys, groups
<1>1. ASSUME NEW a \in Accounts, BindNext(x, a) PROVE CallersOK'
  <2> DEFINE b == [at |-> IF x \in Syncers /\ Affine[a] # {} THEN "affine" ELSE "balance",
                   acct |-> a, groups |-> linked, todo |-> linked, pick |-> NoProxy]
  <2>1. b \in BindType /\ Held(b)
    BY <1>0 DEF BindType, Held, MaybeProxy
  <2>2. bind' = bind \/ bind' = [bind EXCEPT ![x] = b]
    BY <1>1 DEF BindNext
  <2> QED BY <2>1, <2>2, CallerMoves DEF CallersOK
<1>2. ASSUME NEW g \in Groups, BindPick(x, g) PROVE CallersOK'
  <2>1. PICK p \in Matches(x, g) : bind' = [bind EXCEPT ![x].at = "write", ![x].pick = p]
    BY <1>2 DEF BindPick
  <2>2. p \in Proxies /\ bind[x].at \in {"affine", "balance"}
    BY <1>2 DEF BindPick, Querying, Matches, Usable, RowsOf
  <2> DEFINE b == [bind[x] EXCEPT !.at = "write", !.pick = p]
  <2>3. b \in BindType /\ Held(b)
    BY <1>0, <2>2 DEF BindType, Held, MaybeProxy
  <2>4. bind' = [bind EXCEPT ![x] = b]
    BY <2>1
  <2> QED BY <2>3, <2>4, CallerMoves
<1>3. ASSUME NEW g \in Groups, BindSkip(x, g) PROVE CallersOK'
  <2> DEFINE b == [bind[x] EXCEPT !.todo = @ \ {g}]
  <2>1. b \in BindType /\ Held(b)
    BY <1>0, <1>3 DEF BindType, Held, BindSkip, Querying
  <2>2. bind' = [bind EXCEPT ![x] = b]
    BY <1>3 DEF BindSkip
  <2> QED BY <2>1, <2>2, CallerMoves
<1>4. CASE BindExhausted(x)
  <2> DEFINE b == [bind[x] EXCEPT !.at = "balance", !.todo = bind[x].groups]
  <2>1. bind[x].at = "affine" => b \in BindType /\ Held(b)
    BY <1>0 DEF BindType, Held
  <2>2. \/ bind[x].at = "affine" /\ bind' = [bind EXCEPT ![x] = b]
        \/ bind' = [bind EXCEPT ![x] = NoBind]
    BY <1>4 DEF BindExhausted
  <2> QED BY <1>0, <2>1, <2>2, CallerMoves
<1>5. CASE BindWrite(x)
  <2> DEFINE b == [bind[x] EXCEPT !.at = "publish"]
  <2>1. b \in BindType /\ Held(b)
    BY <1>0, <1>5 DEF BindType, Held, BindWrite
  <2>2. bind' = [bind EXCEPT ![x] = b]
    BY <1>5 DEF BindWrite
  <2> QED BY <2>1, <2>2, CallerMoves
<1>6. CASE BindPublish(x) \/ RelinkScan(x)
  <2>1. bind' = [bind EXCEPT ![x] = NoBind]
    BY <1>6 DEF BindPublish, RelinkScan
  <2> QED BY <1>0, <2>1, CallerMoves
<1> QED BY <1>1, <1>2, <1>3, <1>4, <1>5, <1>6 DEF BindStep

\* Failures, administrators and callers who hang up.
LEMMA OperationMoves ==
  ASSUME CallersOK, Schema, Operation
  PROVE  CallersOK'
<1>0. NoBind \in BindType /\ Held(NoBind)
  BY NothingHeld
<1>1. CASE UNCHANGED bind
  BY <1>1 DEF CallersOK
<1>2. ASSUME NEW x \in Callers, NEW b \in BindType, Held(b), bind' = [bind EXCEPT ![x] = b]
      PROVE  CallersOK'
  BY <1>2, CallerMoves
<1>3. ASSUME NEW b \in Binders, NEW S, Relink(b, S) PROVE CallersOK'
  <2> DEFINE v == [NoBind EXCEPT !.at = "rescan"]
  <2>1. v \in BindType /\ Held(v)
    BY DEF NoBind, BindType, Held, MaybeProxy
  <2> QED BY <1>2, <1>3, <2>1 DEF Relink, Callers
<1>4. ASSUME NEW b \in Binders, NEW a \in Accounts, NEW p \in Proxies, Pin(b, a, p)
      PROVE  CallersOK'
  <2> DEFINE v == [NoBind EXCEPT !.at = "publish", !.acct = a, !.pick = p]
  <2>1. v \in BindType /\ Held(v)
    BY DEF NoBind, BindType, Held, MaybeProxy
  <2> QED BY <1>2, <1>4, <2>1 DEF Pin, Callers
<1>5. ASSUME NEW x \in Callers, NEW g \in Groups, BindQueryFails(x, g) PROVE CallersOK'
  <2> DEFINE v == [bind[x] EXCEPT !.todo = @ \ {g}]
  <2>1. v \in BindType /\ Held(v)
    BY <1>5 DEF CallersOK, BindType, Held, BindQueryFails, Querying
  <2> QED BY <1>2, <1>5, <2>1 DEF BindQueryFails
<1>6. ASSUME NEW x \in Callers, BindWriteFails(x) PROVE CallersOK'
  <2> DEFINE v == [bind[x] EXCEPT !.at = "publish"]
  <2>1. v \in BindType /\ Held(v)
    BY <1>6 DEF CallersOK, BindType, Held, BindWriteFails
  <2> QED BY <1>2, <1>6, <2>1 DEF BindWriteFails
<1>7. ASSUME NEW x \in Callers, HangUp(x) PROVE CallersOK'
  BY <1>0, <1>2, <1>7 DEF HangUp
<1>8. ASSUME NEW b \in Binders, NEW a \in Accounts, BindAgain(b, a) PROVE UNCHANGED bind
  BY <1>8 DEF BindAgain
<1>9. ASSUME NEW p \in Proxies, NEW st \in Status, SwitchDb(p, st) PROVE UNCHANGED bind
  BY <1>9 DEF SwitchDb
<1>10. ASSUME NEW g \in Groups, DeleteGroupDb(g) \/ CreateGroup(g) \/ PatchGroup(g)
       PROVE  UNCHANGED bind
  BY <1>10 DEF DeleteGroupDb, CreateGroup, PatchGroup
<1>11. ASSUME NEW g \in Groups, NEW V \in SUBSET Servers, FeedChanges(g, V) PROVE UNCHANGED bind
  BY <1>11 DEF FeedChanges
<1>12. ASSUME NEW s \in Syncers,
              SyncFails(s) \/ ReadFails(s) \/ RebindScanFails(s) \/ \E p \in Proxies : PruneFails(s, p)
       PROVE  UNCHANGED bind
  BY <1>12 DEF SyncFails, ReadFails, RebindScanFails, PruneFails
<1>13. ASSUME NEW x \in Callers, NEW a \in Accounts, LinksUnread(x, a) PROVE UNCHANGED bind
  BY <1>13 DEF LinksUnread
<1>14. AdminHangsUp => UNCHANGED bind
  BY DEF AdminHangsUp
<1> QED
  BY <1>1, <1>3, <1>4, <1>5, <1>6, <1>7, <1>8, <1>9, <1>10, <1>11, <1>12, <1>13, <1>14 DEF Operation

-----------------------------------------------------------------------------
(* Type correctness.                                                        *)

\* Steps that leave the tables alone.
LEMMA QuietSchema == Schema /\ UNCHANGED database => Schema'
BY DEF database, Schema, Tables, Keys, Unique, groups, InRow

\* One more operation or failure.
LEMMA ChurnType == churn \in 0 .. MaxChurn /\ Churn => churn' \in 0 .. MaxChurn
BY BindingAssumption DEF Churn

\* The queue of one caller is replaced, or loses an account.
LEMMA QueueType ==
  ASSUME Rest, NEW x, NEW Q \in SUBSET Accounts,
         queue' = queue \/ queue' = [queue EXCEPT ![x] = Q]
  PROVE  queue' \in [Callers -> SUBSET Accounts]
BY DEF Rest

\* What a write adds to the history, or takes from it, is an account.
LEMMA HistoryType ==
  ASSUME Rest, NEW a \in Accounts, NEW failed, Writes(a, failed)
  PROVE  torn' \subseteq Accounts
BY DEF Rest, Writes

\* A subscription is fetched.
LEMMA FetchTypes ==
  ASSUME Schema, Copies, Rest, CallersOK, NEW s \in Syncers, NEW g \in Groups, Fetch(s, g)
  PROVE  Schema' /\ Copies' /\ Rest' /\ CallersOK'
BY QuietSchema DEF Fetch, memory, failures, Copies, Rest, CallersOK

\* A sync and the worker's rounds.
LEMMA SyncTypes ==
  ASSUME Schema, Copies, Rest, CallersOK,
         \/ StartRound \/ (\E g \in Groups : FetchFails(g))
         \/ \E s \in Syncers : SyncStep(s) \/ \E g \in Groups : Fetch(s, g)
  PROVE  Schema' /\ Copies' /\ Rest' /\ CallersOK'
<1>1. CASE StartRound
  BY <1>1, QuietSchema DEF StartRound, Enabled, memory, failures, Copies, Rest, CallersOK
<1>2. ASSUME NEW g \in Groups, FetchFails(g) PROVE Schema' /\ Copies' /\ Rest' /\ CallersOK'
  BY <1>2, QuietSchema DEF FetchFails, memory, failures, Copies, Rest, CallersOK
<1>3. ASSUME NEW s \in Syncers, NEW g \in Groups, Fetch(s, g)
      PROVE  Schema' /\ Copies' /\ Rest' /\ CallersOK'
  BY <1>3, FetchTypes
<1>4. ASSUME NEW s \in Syncers, SyncStep(s) PROVE Schema' /\ Copies' /\ Rest' /\ CallersOK'
  <2>1. ASSUME NEW v \in Servers, Upsert(s, v) PROVE Schema' /\ Copies' /\ Rest' /\ CallersOK'
    BY <2>1, UpsertKeepsSchema DEF Upsert, memory, sources, failures, Copies, Rest, CallersOK
  <2>2. CASE UpsertRefused(s) \/ PruneScan(s) \/ ReadRows(s) \/ SyncDone(s)
    <3>1. UNCHANGED <<database, memory, sources, bind, queue, failures>>
      BY <2>2 DEF UpsertRefused, PruneScan, ReadRows, SyncDone
    <3> QED BY <3>1, QuietSchema DEF memory, sources, failures, Copies, Rest, CallersOK
  <2>3. ASSUME NEW p \in Proxies, Prune(s, p) PROVE Schema' /\ Copies' /\ Rest' /\ CallersOK'
    <3>1. groups' = groups /\ linked' \subseteq groups'
      BY <2>3 DEF Prune, groups, Schema, Keys
    <3>2. Schema'
      BY <2>3, <3>1, WithoutKeepsSchema DEF Prune
    <3> QED BY <2>3, <3>2 DEF Prune, memory, sources, failures, Copies, Rest, CallersOK
  <2>4. CASE Clear(s)
    BY <2>4, QuietSchema DEF Clear, sources, failures, Copies, Rest, CallersOK
  <2>5. CASE Insert(s)
    <3>1. entry' \in [Proxies -> Status \cup {"absent"}]
      BY <2>5 DEF Insert, Copies
    <3> QED BY <2>5, <3>1, QuietSchema DEF Insert, sources, failures, Copies, Rest, CallersOK
  <2>6. CASE RebindScan(s)
    <3>1. queue' \in [Callers -> SUBSET Accounts]
      BY <2>6 DEF RebindScan, Unbound, Rest
    <3> QED BY <2>6, <3>1, QuietSchema DEF RebindScan, memory, sources, failures, Copies, Rest, CallersOK
  <2> QED BY <1>4, <2>1, <2>2, <2>3, <2>4, <2>5, <2>6 DEF SyncStep
<1> QED BY <1>1, <1>2, <1>3, <1>4

\* A binding under way, and the memory half of an administrator's operation.
LEMMA BindTypes ==
  ASSUME Schema, Copies, Rest, CallersOK,
         AdminStep \/ \E x \in Callers : BindStep(x)
  PROVE  Schema' /\ Copies' /\ Rest' /\ CallersOK'
<1>1. ASSUME NEW x \in Callers, BindStep(x) PROVE Schema' /\ Copies' /\ Rest' /\ CallersOK'
  <2>0. CallersOK'
    BY <1>1, BindingMoves
  <2>1. ASSUME NEW a \in Accounts, BindNext(x, a) PROVE Schema' /\ Copies' /\ Rest'
    BY <2>1, QuietSchema, QueueType DEF BindNext, memory, sources, failures, Copies, Rest
  <2>2. ASSUME NEW g \in Groups, BindPick(x, g) \/ BindSkip(x, g)
        PROVE  Schema' /\ Copies' /\ Rest'
    <3>1. UNCHANGED <<database, memory, sources, queue, failures>>
      BY <2>2 DEF BindPick, BindSkip
    <3> QED BY <3>1, QuietSchema DEF memory, sources, failures, Copies, Rest
  <2>3. ASSUME BindExhausted(x) PROVE Schema' /\ Copies' /\ Rest'
    BY <2>3, QuietSchema DEF BindExhausted, memory, sources, failures, Copies, Rest
  <2>4. ASSUME BindWrite(x) PROVE Schema' /\ Copies' /\ Rest'
    <3>1. bind[x].pick \in Proxies /\ bind[x].acct \in Accounts
      BY <2>4 DEF BindWrite, CallersOK, Held
    <3>2. Schema'
      <4>1. CASE InRow(bind[x].pick)
        BY <2>4, <3>1, <4>1, BoundKeepsSchema DEF BindWrite
      <4>2. CASE ~InRow(bind[x].pick)
        BY <2>4, <4>2, QuietSchema DEF BindWrite, database
      <4> QED BY <4>1, <4>2
    <3>3. torn' \subseteq Accounts
      BY <2>4, <3>1, HistoryType DEF BindWrite
    <3> QED BY <2>4, <3>2, <3>3 DEF BindWrite, memory, sources, Copies, Rest
  <2>5. ASSUME BindPublish(x) PROVE Schema' /\ Copies' /\ Rest'
    <3>1. bind[x].pick \in MaybeProxy
      BY <2>5 DEF BindPublish, CallersOK, Held, MaybeProxy
    <3> QED BY <2>5, <3>1, QuietSchema DEF BindPublish, sources, failures, Copies, Rest
  <2>6. ASSUME RelinkScan(x) PROVE Schema' /\ Copies' /\ Rest'
    <3>1. Unbound \in SUBSET Accounts
      BY DEF Unbound
    <3> QED BY <2>6, <3>1, QuietSchema, QueueType DEF RelinkScan, memory, sources, failures, Copies, Rest
  <2> QED BY <1>1, <2>0, <2>1, <2>2, <2>3, <2>4, <2>5, <2>6 DEF BindStep
<1>2. CASE SwitchMem
  BY <1>2, QuietSchema DEF SwitchMem, sources, failures, Copies, Rest, CallersOK
<1>3. CASE DeleteGroupMem
  BY <1>3, QuietSchema DEF DeleteGroupMem, sources, failures, Copies, Rest, CallersOK
<1> QED BY <1>1, <1>2, <1>3 DEF AdminStep

\* Administrators, failures, hang-ups and changing subscriptions.
LEMMA OperationTypes ==
  ASSUME Schema, Copies, Rest, CallersOK, Operation
  PROVE  Schema' /\ Copies' /\ Rest'
<1>1. ASSUME NEW b \in Binders, NEW a \in Accounts, BindAgain(b, a) PROVE Schema' /\ Copies' /\ Rest'
  BY <1>1, QuietSchema, QueueType, ChurnType DEF BindAgain, memory, sources, Copies, Rest
<1>2. ASSUME NEW b \in Binders, NEW S \in SUBSET Groups, Relink(b, S) PROVE Schema' /\ Copies' /\ Rest'
  <2>1. group' = group /\ groups' = groups
    BY <1>2 DEF Relink, groups
  <2>2. Schema'
    BY <1>2, <2>1, LinksKeepSchema DEF Relink, Schema, Tables
  <2> QED BY <1>2, <2>2, ChurnType DEF Relink, memory, sources, Copies, Rest
<1>3. ASSUME NEW b \in Binders, NEW a \in Accounts, NEW p \in Proxies, Pin(b, a, p)
      PROVE  Schema' /\ Copies' /\ Rest'
  <2>1. Schema'
    BY <1>3, BoundKeepsSchema DEF Pin
  <2>2. torn' \subseteq Accounts
    BY <1>3, HistoryType DEF Pin
  <2> QED BY <1>3, <2>1, <2>2, ChurnType DEF Pin, memory, sources, Copies, Rest
<1>4. ASSUME NEW p \in Proxies, NEW st \in Status, SwitchDb(p, st) PROVE Schema' /\ Copies' /\ Rest'
  BY <1>4, SwitchKeepsSchema, ChurnType DEF SwitchDb, memory, sources, Copies, Rest
<1>5. ASSUME NEW g \in Groups, DeleteGroupDb(g) PROVE Schema' /\ Copies' /\ Rest'
  BY <1>5, DeletionKeepsSchema, ChurnType DEF DeleteGroupDb, memory, sources, Copies, Rest
<1>6. ASSUME NEW g \in Groups, CreateGroup(g) \/ PatchGroup(g) PROVE Schema' /\ Copies' /\ Rest'
  <2>1. /\ group' \in [Groups -> {"unused", "enabled", "disabled", "deleted"}]
        /\ groups \subseteq groups'
    BY <1>6 DEF CreateGroup, PatchGroup, Schema, Tables, groups
  <2>2. UNCHANGED <<row, bound, linked, memory, sources, queue, torn>> /\ Churn
    BY <1>6 DEF CreateGroup, PatchGroup
  <2>3. Schema'
    BY <2>1, <2>2, LinksKeepSchema DEF Schema, Keys
  <2> QED BY <2>2, <2>3, ChurnType DEF memory, sources, Copies, Rest
<1>7. ASSUME NEW g \in Groups, NEW V \in SUBSET Servers, FeedChanges(g, V)
      PROVE  Schema' /\ Copies' /\ Rest'
  BY <1>7, QuietSchema, ChurnType DEF FeedChanges, memory, Copies, Rest
<1>8. ASSUME UNCHANGED <<database, memory, sources, queue, torn>>, Churn
      PROVE  Schema' /\ Copies' /\ Rest'
  BY <1>8, QuietSchema, ChurnType DEF memory, sources, Copies, Rest
<1>9. ASSUME NEW s \in Syncers,
             SyncFails(s) \/ ReadFails(s) \/ RebindScanFails(s) \/ \E p \in Proxies : PruneFails(s, p)
      PROVE  Schema' /\ Copies' /\ Rest'
  BY <1>8, <1>9 DEF SyncFails, ReadFails, RebindScanFails, PruneFails
<1>10. ASSUME NEW x \in Callers, NEW a \in Accounts, LinksUnread(x, a) PROVE Schema' /\ Copies' /\ Rest'
  BY <1>10, QuietSchema, QueueType, ChurnType DEF LinksUnread, memory, sources, Copies, Rest
<1>11. ASSUME NEW x \in Callers, NEW g \in Groups, BindQueryFails(x, g)
       PROVE  Schema' /\ Copies' /\ Rest'
  BY <1>8, <1>11 DEF BindQueryFails
<1>12. ASSUME NEW x \in Callers, BindWriteFails(x) PROVE Schema' /\ Copies' /\ Rest'
  <2>1. bind[x].acct \in Accounts
    BY <1>12 DEF BindWriteFails, CallersOK, Held
  <2>2. torn' \subseteq Accounts
    BY <1>12, <2>1, HistoryType DEF BindWriteFails
  <2> QED BY <1>12, <2>1, <2>2, QuietSchema, ChurnType DEF BindWriteFails, memory, sources, Copies, Rest
<1>13. ASSUME NEW x \in Callers, HangUp(x) PROVE Schema' /\ Copies' /\ Rest'
  <2>1. torn' \subseteq Accounts
    BY <1>13 DEF HangUp, CallersOK, Held, Rest
  <2> QED BY <1>13, <2>1, QuietSchema, QueueType, ChurnType DEF HangUp, memory, sources, Copies, Rest
<1>14. CASE AdminHangsUp
  BY <1>8, <1>14 DEF AdminHangsUp
<1> QED
  BY <1>1, <1>2, <1>3, <1>4, <1>5, <1>6, <1>7, <1>9, <1>10, <1>11, <1>12, <1>13, <1>14 DEF Operation

\* At the start every bound proxy is there and no server has two rows.
LEMMA InitSchema == Init => Schema /\ Copies /\ Rest /\ CallersOK
<1> SUFFICES ASSUME Init PROVE Schema /\ Copies /\ Rest /\ CallersOK
  OBVIOUS
<1>1. PICK S \in SUBSET Proxies :
        /\ \A a \in Accounts : InitBound[a] # NoProxy => InitBound[a] \in S
        /\ \A p, q \in S : p # q => <<GroupOf[p], ServerOf[p]>> # <<GroupOf[q], ServerOf[q]>>
        /\ \A p \in S : GroupOf[p] \in InitGroups /\ ServerOf[p] \in InitFeed[GroupOf[p]]
        /\ row = [p \in Proxies |-> IF p \in S THEN "available" ELSE "unused"]
        /\ entry = [p \in Proxies |-> IF p \in S THEN "available" ELSE "absent"]
  BY DEF Init
<1>2. \A p \in Proxies : InRow(p) <=> p \in S
  BY <1>1 DEF InRow, Status
<1>3. groups = InitGroups
  BY BindingAssumption DEF Init, groups
<1>4. Tables
  BY <1>1, BindingAssumption DEF Init, Tables, RowStatus
<1>5. Keys
  BY <1>1, <1>2, <1>3, BindingAssumption DEF Init, Keys
<1>6. Unique
  BY <1>1, <1>2 DEF Unique
<1>7. Copies
  BY <1>1, BindingAssumption DEF Init, Copies, Status
<1>8. Rest
  BY BindingAssumption DEF Init, Rest
<1>9. CallersOK
  BY NothingHeld DEF Init, CallersOK
<1> QED BY <1>4, <1>5, <1>6, <1>7, <1>8, <1>9 DEF Schema

\* Every step keeps the schema, the types and what callers hold.
LEMMA NextTypes ==
  ASSUME Schema, Copies, Rest, CallersOK, [Next]_vars
  PROVE  Schema' /\ Copies' /\ Rest' /\ CallersOK'
<1>1. CASE UNCHANGED vars
  BY <1>1, QuietSchema DEF vars, memory, sources, failures, Copies, Rest, CallersOK
<1>2. CASE Operation
  BY <1>2, OperationTypes, OperationMoves
<1> QED BY <1>1, <1>2, SyncTypes, BindTypes DEF Next

(***************************************************************************)
(* The types of ProxyBinding and the constraints of the schema             *)
(* (UNIQUE(group_id,host,port) and the three foreign keys) hold for any    *)
(* number of syncers, binders, groups, proxies, failures and operations.   *)
(***************************************************************************)
THEOREM BindingTypeCorrect == Spec => []TypeOK
<1>1. Init => Schema /\ Copies /\ Rest /\ CallersOK
  BY InitSchema
<1>2. (Schema /\ Copies /\ Rest /\ CallersOK) /\ [Next]_vars
      => (Schema /\ Copies /\ Rest /\ CallersOK)'
  BY NextTypes
<1>3. Schema /\ Copies /\ Rest /\ CallersOK => TypeOK
  BY Parts
<1> QED BY <1>1, <1>2, <1>3, PTL DEF Spec

-----------------------------------------------------------------------------
(* Any number of callers: where the copies of a binding agree.              *)

Typed == Schema /\ Copies /\ Rest /\ CallersOK

\* A proxy about to be written has had a row; ids are not used again.
Picked == \A x \in Callers : bind[x].at = "write" => row[bind[x].pick] # "unused"

\* What may be published for an account, and what its slot may hold.
Matching(a, p) == bound[a] = p \/ (bound[a] = NoProxy /\ p \in Proxies /\ row[p] = "deleted")

\* At most one caller has the slot still to set, to what the row says; else it is set.
Whole(a) ==
  /\ \A x, y \in Publishers(a) : x = y
  /\ \A x \in Publishers(a) : Matching(a, bind[x].pick)
  /\ Publishers(a) = {} => Matching(a, slot[a])

InStep == Picked /\ \A a \in Accounts \ torn : Whole(a)

\* The strengthening says what the property says.
LEMMA InStepAgrees == InStep => BindingsAgree
BY DEF InStep, Whole, Matching, BindingsAgree, InRow, Status

\* At the start nothing is under way and both copies were loaded from the same rows.
LEMMA InitInStep == Init => InStep
<1> SUFFICES ASSUME Init PROVE InStep
  OBVIOUS
<1>1. \A x \in Callers : bind[x].at = "idle"
  BY DEF Init, NoBind
<1>2. \A a \in Accounts : Publishers(a) = {} /\ slot[a] = bound[a]
  BY <1>1 DEF Publishers, Init
<1> QED BY <1>1, <1>2 DEF InStep, Picked, Whole, Matching

\* Rows are inserted or switched; the bindings and their callers rest.
LEMMA RowsKeepStep ==
  ASSUME Typed, InStep, UNCHANGED <<bound, slot, bind, torn>>,
         \A p \in Proxies : row[p] # "unused" => row'[p] # "unused",
         \A p \in Proxies : row[p] = "deleted" => row'[p] = "deleted"
  PROVE  InStep'
<1>1. Picked'
  BY DEF InStep, Picked, Typed, CallersOK, Held
<1>2. \A a \in Accounts : Publishers(a)' = Publishers(a)
  BY DEF Publishers
<1>3. \A a, p : Matching(a, p) => Matching(a, p)'
  BY DEF Matching
<1>4. \A a \in Accounts : Whole(a) => Whole(a)'
  BY <1>2, <1>3 DEF Whole
<1> QED BY <1>1, <1>4 DEF InStep

\* Rows go: their accounts are unbound, and slots and picks that name them name deleted rows.
LEMMA WithoutKeepsStep ==
  ASSUME Typed, InStep, NEW S \in SUBSET Proxies, Without(S), UNCHANGED <<slot, bind, torn>>
  PROVE  InStep'
<1>1. \A p \in Proxies : /\ row[p] # "unused" => row'[p] # "unused"
                         /\ row[p] = "deleted" => row'[p] = "deleted"
                         /\ p \in S /\ InRow(p) => row'[p] = "deleted"
  BY DEF Without, Typed, Schema, Tables
<1>2. \A a \in Accounts : bound'[a] = IF bound[a] \in S THEN NoProxy ELSE bound[a]
  BY DEF Without
<1>3. Picked'
  BY <1>1 DEF InStep, Picked, Typed, CallersOK, Held
<1>4. ASSUME NEW a \in Accounts, NEW p, Matching(a, p) PROVE Matching(a, p)'
  <2>1. CASE bound[a] = p /\ p \in S
    <3>1. InRow(p)
      BY <2>1, BindingAssumption DEF Typed, Schema, Keys
    <3> QED BY <1>1, <1>2, <2>1, <3>1 DEF Matching
  <2>2. CASE bound[a] = p /\ p \notin S
    BY <1>2, <2>2 DEF Matching
  <2>3. CASE bound[a] = NoProxy /\ p \in Proxies /\ row[p] = "deleted"
    BY <1>1, <1>2, <2>3 DEF Matching
  <2> QED BY <1>4, <2>1, <2>2, <2>3 DEF Matching
<1>5. \A a \in Accounts : Publishers(a)' = Publishers(a)
  BY DEF Publishers
<1>6. \A a \in Accounts : Whole(a) => Whole(a)'
  BY <1>4, <1>5 DEF Whole
<1> QED BY <1>3, <1>6 DEF InStep

\* A caller that has nothing to publish moves to where it has not either.
LEMMA ChoosingKeepsStep ==
  ASSUME Typed, InStep, NEW x \in Callers, NEW b, bind' = [bind EXCEPT ![x] = b],
         bind[x].at # "publish", b.at # "publish", b.at = "write" => row[b.pick] # "unused",
         UNCHANGED <<row, bound, slot, torn>>
  PROVE  InStep'
<1>1. bind'[x] = b /\ \A y \in Callers \ {x} : bind'[y] = bind[y]
  BY DEF Typed, CallersOK
<1>2. Picked'
  BY <1>1 DEF InStep, Picked
<1>3. \A a \in Accounts : Publishers(a)' = Publishers(a) /\ x \notin Publishers(a)
  BY <1>1 DEF Publishers
<1>4. \A a \in Accounts : Whole(a) => Whole(a)'
  BY <1>1, <1>3 DEF Whole, Matching, Publishers
<1> QED BY <1>2, <1>4 DEF InStep

\* A row is written, or was to be, and the slot comes next.
LEMMA WriteKeepsStep ==
  ASSUME Typed, InStep, NEW x \in Callers, NEW b, bind' = [bind EXCEPT ![x] = b],
         bind[x].at # "publish", b.at = "publish",
         NEW a \in Accounts, b.acct = a,
         NEW failed \in BOOLEAN, Writes(a, failed),
         \/ failed \/ bound'[a] = b.pick
         \/ bound'[a] = NoProxy /\ b.pick \in Proxies /\ row'[b.pick] = "deleted",
         \A c \in Accounts \ {a} : bound'[c] = bound[c],
         UNCHANGED <<row, slot>>
  PROVE  InStep'
<1>1. bind'[x] = b /\ \A y \in Callers \ {x} : bind'[y] = bind[y]
  BY DEF Typed, CallersOK
<1>2. Picked'
  BY <1>1 DEF InStep, Picked
<1>3. /\ Publishers(a)' = Publishers(a) \cup {x}
      /\ \A c \in Accounts \ {a} : Publishers(c)' = Publishers(c)
  BY <1>1 DEF Publishers
<1>4. a \notin torn' => Whole(a)'
  <2> SUFFICES ASSUME a \notin torn' PROVE Whole(a)'
    OBVIOUS
  <2>1. ~failed /\ Publishers(a) = {}
    BY DEF Writes
  <2> QED BY <1>1, <1>3, <2>1 DEF Whole, Matching
<1>5. ASSUME NEW c \in Accounts \ {a}, c \notin torn' PROVE Whole(c)'
  <2>1. Whole(c) /\ x \notin Publishers(c)
    BY <1>5 DEF InStep, Writes, Publishers
  <2>2. \A p : Matching(c, p) => Matching(c, p)'
    BY DEF Matching
  <2> QED BY <1>1, <1>3, <2>1, <2>2 DEF Whole, Publishers
<1> QED BY <1>2, <1>4, <1>5 DEF InStep

\* The slot is set, or the handler that was to set it is dropped.
LEMMA PublishKeepsStep ==
  ASSUME Typed, InStep, NEW x \in Callers, bind[x].at = "publish",
         bind' = [bind EXCEPT ![x] = NoBind], UNCHANGED <<row, bound>>,
         \/ slot' = [slot EXCEPT ![bind[x].acct] = bind[x].pick] /\ UNCHANGED torn
         \/ UNCHANGED slot /\ torn' = torn \cup {bind[x].acct}
  PROVE  InStep'
<1>0. bind[x].acct \in Accounts /\ NoBind.at = "idle"
  BY DEF Typed, CallersOK, Held, NoBind
<1> PICK a \in Accounts : a = bind[x].acct
  BY <1>0
<1>1. bind'[x] = NoBind /\ \A y \in Callers \ {x} : bind'[y] = bind[y]
  BY DEF Typed, CallersOK
<1>2. Picked'
  BY <1>0, <1>1 DEF InStep, Picked
<1>3. x \in Publishers(a) /\ \A c \in Accounts \ {a} : x \notin Publishers(c)
  BY DEF Publishers
<1>4. Publishers(a)' = Publishers(a) \ {x} /\ \A c \in Accounts \ {a} : Publishers(c)' = Publishers(c)
  BY <1>0, <1>1, <1>3 DEF Publishers
<1>5. \A c \in Accounts \ {a} : slot'[c] = slot[c]
  BY DEF Typed, Copies
<1>6. \A c, p : Matching(c, p)' <=> Matching(c, p)
  BY DEF Matching
<1>7. a \notin torn' => Whole(a)'
  <2> SUFFICES ASSUME a \notin torn' PROVE Whole(a)'
    OBVIOUS
  <2>1. Whole(a) /\ slot'[a] = bind[x].pick
    BY DEF InStep, Typed, Copies
  <2>2. Publishers(a)' = {} /\ Matching(a, bind[x].pick)
    BY <1>3, <1>4, <2>1 DEF Whole
  <2>3. Matching(a, slot[a])'
    BY <2>1, <2>2 DEF Matching
  <2> QED BY <2>2, <2>3 DEF Whole
<1>8. ASSUME NEW c \in Accounts \ {a}, c \notin torn' PROVE Whole(c)'
  <2>1. Whole(c)
    BY <1>8 DEF InStep
  <2>2. \A y \in Publishers(c) : bind'[y] = bind[y]
    BY <1>1, <1>3 DEF Publishers
  <2>3. \A y \in Publishers(c)' : Matching(c, bind[y].pick)'
    BY <1>4, <2>1, <2>2 DEF Whole, Matching
  <2>4. Publishers(c) = {} => Matching(c, slot[c])'
    BY <1>5, <2>1 DEF Whole, Matching
  <2> QED BY <1>4, <2>1, <2>3, <2>4 DEF Whole
<1> QED BY <1>2, <1>7, <1>8 DEF InStep

\* Nothing the agreement is about changes.
LEMMA QuietStep ==
  ASSUME Typed, InStep, UNCHANGED <<row, bound, slot, bind, torn>>
  PROVE  InStep'
BY RowsKeepStep

-----------------------------------------------------------------------------
\* The steps of a sync.
LEMMA SyncKeepsStep ==
  ASSUME Typed, InStep, NEW s \in Syncers, SyncStep(s)
  PROVE  InStep'
<1>1. ASSUME NEW v \in Servers, Upsert(s, v) PROVE InStep'
  <2>1. \A p \in Proxies : (row[p] # "unused" => row'[p] # "unused")
                           /\ (row[p] = "deleted" => row'[p] = "deleted")
    BY <1>1 DEF Upsert, Typed, Schema, Tables
  <2>2. UNCHANGED <<bound, slot, bind, torn>>
    BY <1>1 DEF Upsert, memory, failures
  <2> QED BY <2>1, <2>2, RowsKeepStep
<1>2. ASSUME NEW p \in Proxies, Prune(s, p) PROVE InStep'
  BY <1>2, WithoutKeepsStep DEF Prune, memory, failures
<1>3. CASE UpsertRefused(s) \/ PruneScan(s) \/ ReadRows(s) \/ RebindScan(s) \/ SyncDone(s)
  <2>1. UNCHANGED <<database, memory, bind, failures>>
    BY <1>3 DEF UpsertRefused, PruneScan, ReadRows, RebindScan, SyncDone
  <2> QED BY <2>1, QuietStep DEF database, memory, failures
<1>4. CASE Clear(s) \/ Insert(s)
  <2>1. UNCHANGED <<database, slot, bind, failures>>
    BY <1>4 DEF Clear, Insert
  <2> QED BY <2>1, QuietStep DEF database, failures
<1> QED BY <1>1, <1>2, <1>3, <1>4 DEF SyncStep

\* The steps of bind_account.
LEMMA BindKeepsStep ==
  ASSUME Typed, InStep, NEW x \in Callers, BindStep(x)
  PROVE  InStep'
<1>0. /\ bind[x] \in BindType /\ Held(bind[x]) /\ NoBind.at = "idle"
      /\ DOMAIN bind = Callers /\ DOMAIN bound = Accounts
  BY DEF Typed, Schema, Tables, CallersOK, NoBind
<1>1. ASSUME NEW a \in Accounts, BindNext(x, a) PROVE InStep'
  <2> DEFINE b == [at |-> IF x \in Syncers /\ Affine[a] # {} THEN "affine" ELSE "balance",
                   acct |-> a, groups |-> linked, todo |-> linked, pick |-> NoProxy]
  <2>1. /\ bind[x] = NoBind /\ (bind' = bind \/ bind' = [bind EXCEPT ![x] = b])
        /\ UNCHANGED <<row, bound, slot, torn>>
    BY <1>1 DEF BindNext, database, memory, failures
  <2>2. b.at \in {"affine", "balance"}
    OBVIOUS
  <2> QED BY <1>0, <2>1, <2>2, QuietStep, ChoosingKeepsStep
<1>2. ASSUME NEW g \in Groups, BindPick(x, g) PROVE InStep'
  <2>1. PICK p \in Matches(x, g) : bind' = [bind EXCEPT ![x].at = "write", ![x].pick = p]
    BY <1>2 DEF BindPick
  <2>2. row[p] = "available" /\ bind[x].at # "publish"
    BY <1>2 DEF BindPick, Querying, Matches, Usable
  <2> DEFINE b == [bind[x] EXCEPT !.at = "write", !.pick = p]
  <2>3. b.at = "write" /\ b.pick = p /\ bind' = [bind EXCEPT ![x] = b]
    BY <1>0, <2>1 DEF BindType
  <2>4. UNCHANGED <<row, bound, slot, torn>>
    BY <1>2 DEF BindPick, database, memory, failures
  <2> QED BY <2>2, <2>3, <2>4, ChoosingKeepsStep
<1>3. ASSUME NEW g \in Groups, BindSkip(x, g) PROVE InStep'
  <2> DEFINE b == [bind[x] EXCEPT !.todo = @ \ {g}]
  <2>1. bind[x].at \in {"affine", "balance"} /\ b.at = bind[x].at /\ bind' = [bind EXCEPT ![x] = b]
    BY <1>0, <1>3 DEF BindType, BindSkip, Querying
  <2>2. UNCHANGED <<row, bound, slot, torn>>
    BY <1>3 DEF BindSkip, database, memory, failures
  <2> QED BY <2>1, <2>2, ChoosingKeepsStep
<1>4. CASE BindExhausted(x) \/ RelinkScan(x)
  <2> DEFINE b == [bind[x] EXCEPT !.at = "balance", !.todo = bind[x].groups]
  <2>1. /\ bind[x].at # "publish" /\ UNCHANGED <<row, bound, slot, torn>>
        /\ bind' = [bind EXCEPT ![x] = b] \/ bind' = [bind EXCEPT ![x] = NoBind]
    BY <1>4 DEF BindExhausted, RelinkScan, database, memory, failures
  <2>2. b.at = "balance"
    BY <1>0 DEF BindType
  <2> QED BY <1>0, <2>1, <2>2, ChoosingKeepsStep
<1>5. CASE BindWrite(x)
  <2> DEFINE a == bind[x].acct
             p == bind[x].pick
             b == [bind[x] EXCEPT !.at = "publish"]
             failed == ~InRow(p) /\ bound[a] # NoProxy
  <2>1. /\ bind[x].at = "write" /\ bind' = [bind EXCEPT ![x] = b]
        /\ bound' = IF InRow(p) THEN [bound EXCEPT ![a] = p] ELSE bound
        /\ Writes(a, failed) /\ UNCHANGED <<row, slot>>
    BY <1>5 DEF BindWrite, memory
  <2>2. a \in Accounts /\ p \in Proxies /\ row[p] # "unused" /\ row[p] \in RowStatus
    BY <1>0, <2>1 DEF Held, InStep, Picked, Typed, Schema, Tables
  <2>3. b.at = "publish" /\ b.acct = a /\ b.pick = p
    BY <1>0 DEF BindType
  <2>4. \/ failed \/ bound'[a] = p
        \/ bound'[a] = NoProxy /\ p \in Proxies /\ row'[p] = "deleted"
    <3>1. CASE InRow(p)
      BY <1>0, <2>1, <2>2, <3>1
    <3>2. CASE ~InRow(p) /\ bound[a] = NoProxy
      BY <2>1, <2>2, <3>2 DEF InRow, Status, RowStatus
    <3> QED BY <3>1, <3>2
  <2>5. \A c \in Accounts \ {a} : bound'[c] = bound[c]
    BY <1>0, <2>1
  <2>6. PICK c \in Accounts, q \in Proxies, f \in BOOLEAN : c = a /\ q = p /\ f = failed
    BY <2>2
  <2>7. /\ Writes(c, f)
        /\ f \/ bound'[c] = q \/ (bound'[c] = NoProxy /\ row'[q] = "deleted")
        /\ \A d \in Accounts \ {c} : bound'[d] = bound[d]
        /\ b.at = "publish" /\ b.acct = c /\ b.pick = q
        /\ bind[x].at # "publish" /\ bind' = [bind EXCEPT ![x] = b] /\ UNCHANGED <<row, slot>>
    BY <2>1, <2>3, <2>4, <2>5, <2>6
  <2> HIDE DEF a, p, b, failed
  <2> QED BY <2>7, WriteKeepsStep
<1>6. CASE BindPublish(x)
  <2>1. UNCHANGED <<row, bound, torn>>
    BY <1>6 DEF BindPublish, database, failures
  <2> QED BY <1>6, <2>1, PublishKeepsStep DEF BindPublish
<1> QED BY <1>1, <1>2, <1>3, <1>4, <1>5, <1>6 DEF BindStep

\* Administrators, other callers, failures and handlers that are dropped.
LEMMA OperationKeepsStep ==
  ASSUME Typed, InStep, Operation
  PROVE  InStep'
<1>0. /\ \A x \in Callers : bind[x] \in BindType /\ Held(bind[x])
      /\ DOMAIN bind = Callers /\ DOMAIN bound = Accounts /\ NoBind.at = "idle"
      /\ Binders \subseteq Callers
  BY DEF Typed, Schema, Tables, CallersOK, NoBind, Callers
<1>1. ASSUME NEW b \in Binders, NEW a \in Accounts, BindAgain(b, a) PROVE InStep'
  BY <1>1, QuietStep DEF BindAgain, database, memory
<1>2. ASSUME NEW b \in Binders, NEW S \in SUBSET Groups, Relink(b, S) PROVE InStep'
  <2> DEFINE v == [NoBind EXCEPT !.at = "rescan"]
  <2>1. v.at = "rescan" /\ bind[b] = NoBind /\ bind' = [bind EXCEPT ![b] = v]
    BY <1>2 DEF Relink, Free, NoBind
  <2>2. UNCHANGED <<row, bound, slot, torn>>
    BY <1>2 DEF Relink, memory
  <2> QED BY <1>0, <2>1, <2>2, ChoosingKeepsStep
<1>3. ASSUME NEW b \in Binders, NEW a \in Accounts, NEW p \in Proxies, Pin(b, a, p) PROVE InStep'
  <2> DEFINE v == [NoBind EXCEPT !.at = "publish", !.acct = a, !.pick = p]
  <2>1. v.at = "publish" /\ v.acct = a /\ v.pick = p
    BY DEF NoBind
  <2>2. /\ bind[b] = NoBind /\ bind' = [bind EXCEPT ![b] = v]
        /\ bound' = [bound EXCEPT ![a] = p] /\ Writes(a, FALSE) /\ UNCHANGED <<row, slot>>
    BY <1>3 DEF Pin, Free, memory
  <2>3. bound'[a] = p /\ \A c \in Accounts \ {a} : bound'[c] = bound[c]
    BY <1>0, <2>2
  <2> HIDE DEF v
  <2>4. bind[b].at # "publish" /\ b \in Callers
    BY <1>0, <2>2
  <2> QED BY <2>1, <2>2, <2>3, <2>4, WriteKeepsStep
<1>4. ASSUME NEW p \in Proxies, NEW st \in Status, SwitchDb(p, st) PROVE InStep'
  <2>1. /\ row' = [row EXCEPT ![p] = st] /\ row[p] \in Status /\ st \in Status
        /\ UNCHANGED <<bound, slot, bind, torn>>
    BY <1>4 DEF SwitchDb, InRow, memory
  <2>2. \A q \in Proxies : (row[q] # "unused" => row'[q] # "unused")
                           /\ (row[q] = "deleted" => row'[q] = "deleted")
    BY <2>1 DEF Typed, Schema, Tables, Status
  <2> QED BY <2>1, <2>2, RowsKeepStep
<1>5. ASSUME NEW g \in Groups, DeleteGroupDb(g) PROVE InStep'
  <2>1. RowsOf(g) \in SUBSET Proxies
    BY DEF RowsOf
  <2> QED BY <1>5, <2>1, WithoutKeepsStep DEF DeleteGroupDb, memory
<1>6. ASSUME NEW g \in Groups, CreateGroup(g) \/ PatchGroup(g) PROVE InStep'
  BY <1>6, QuietStep DEF CreateGroup, PatchGroup, memory
<1>7. ASSUME NEW g \in Groups, NEW V \in SUBSET Servers, FeedChanges(g, V) PROVE InStep'
  BY <1>7, QuietStep DEF FeedChanges, database, memory
<1>8. ASSUME NEW s \in Syncers,
             SyncFails(s) \/ ReadFails(s) \/ RebindScanFails(s) \/ \E p \in Proxies : PruneFails(s, p)
      PROVE  InStep'
  <2>1. UNCHANGED <<database, memory, bind, torn>>
    BY <1>8 DEF SyncFails, ReadFails, RebindScanFails, PruneFails
  <2> QED BY <2>1, QuietStep DEF database, memory
<1>9. ASSUME NEW x \in Callers, NEW a \in Accounts, LinksUnread(x, a) PROVE InStep'
  BY <1>9, QuietStep DEF LinksUnread, database, memory
<1>10. ASSUME NEW x \in Callers, NEW g \in Groups, BindQueryFails(x, g) PROVE InStep'
  <2> DEFINE b == [bind[x] EXCEPT !.todo = @ \ {g}]
  <2>1. bind[x].at \in {"affine", "balance"} /\ b.at = bind[x].at /\ bind' = [bind EXCEPT ![x] = b]
    BY <1>0, <1>10 DEF BindType, BindQueryFails, Querying
  <2>2. UNCHANGED <<row, bound, slot, torn>>
    BY <1>10 DEF BindQueryFails, database, memory
  <2> QED BY <2>1, <2>2, ChoosingKeepsStep
<1>11. ASSUME NEW x \in Callers, BindWriteFails(x) PROVE InStep'
  <2> DEFINE b == [bind[x] EXCEPT !.at = "publish"]
  <2>1. b.at = "publish" /\ b.acct = bind[x].acct /\ bind[x].at = "write" /\ bind[x].acct \in Accounts
    BY <1>0, <1>11 DEF BindWriteFails, BindType, Held
  <2>2. /\ bind' = [bind EXCEPT ![x] = b] /\ Writes(bind[x].acct, TRUE)
        /\ UNCHANGED <<row, bound, slot>>
    BY <1>11 DEF BindWriteFails, database, memory
  <2> HIDE DEF b
  <2> QED BY <2>1, <2>2, WriteKeepsStep
<1>12. ASSUME NEW x \in Callers, HangUp(x) PROVE InStep'
  <2>1. /\ bind' = [bind EXCEPT ![x] = NoBind] /\ UNCHANGED <<row, bound, slot>>
        /\ torn' = IF bind[x].at = "publish" THEN torn \cup {bind[x].acct} ELSE torn
    BY <1>12 DEF HangUp, database, memory
  <2> QED BY <1>0, <2>1, ChoosingKeepsStep, PublishKeepsStep
<1>13. AdminHangsUp => InStep'
  BY QuietStep DEF AdminHangsUp, database, memory
<1> QED
  BY <1>1, <1>2, <1>3, <1>4, <1>5, <1>6, <1>7, <1>8, <1>9, <1>10, <1>11, <1>12, <1>13 DEF Operation

\* Every step keeps the strengthening.
LEMMA NextInStep ==
  ASSUME Typed, InStep, [Next]_vars
  PROVE  InStep'
<1>1. CASE UNCHANGED vars
  BY <1>1, QuietStep DEF vars, database, memory, failures
<1>2. CASE StartRound \/ (\E g \in Groups : FetchFails(g)) \/ AdminStep
  <2>1. UNCHANGED <<row, bound, slot, bind, torn>>
    BY <1>2 DEF StartRound, FetchFails, AdminStep, SwitchMem, DeleteGroupMem, database, memory, failures
  <2> QED BY <2>1, QuietStep
<1>3. ASSUME NEW s \in Syncers, NEW g \in Groups, Fetch(s, g) PROVE InStep'
  BY <1>3, QuietStep DEF Fetch, database, memory, failures
<1> QED BY <1>1, <1>2, <1>3, SyncKeepsStep, BindKeepsStep, OperationKeepsStep DEF Next

(***************************************************************************)
(* For any number of syncs, error arms, probes, patches, accounts, groups, *)
(* proxies, changing subscriptions and failures, memory and database agree *)
(* on every binding but those being published, those of proxies that are   *)
(* gone and those whose two writes a failed UPDATE, a dropped handler or   *)
(* another caller between its own two writes took apart.                   *)
(***************************************************************************)
THEOREM BindingsStayTogether == Spec => []BindingsAgree
<1>1. Init => Typed /\ InStep
  BY InitSchema, InitInStep DEF Typed
<1>2. (Typed /\ InStep) /\ [Next]_vars => (Typed /\ InStep)'
  BY NextTypes, NextInStep DEF Typed
<1>3. Typed /\ InStep => BindingsAgree
  BY InStepAgrees
<1> QED BY <1>1, <1>2, <1>3, PTL DEF Spec

-----------------------------------------------------------------------------
(* Syncs alone spread the accounts evenly.                                  *)

OneSyncer    == Syncers = {Worker}
NoPreference == \A a \in Accounts : Affine[a] = {}

SyncType ==
  [at : {"idle", "upsert", "prune", "cleared", "read", "inserted", "rebind"},
   group : Groups \cup {0}, present : SUBSET Servers, todo : SUBSET (Servers \cup Proxies),
   read : SUBSET (Proxies \X Status)]
SyncersOK == sync \in [Syncers -> SyncType]

\* Bindings are made at the end of a sync only.
OnlyThen == sync[Worker].at # "rebind" => queue[Worker] = {} /\ bind[Worker] = NoBind

\* The worker is at work on an account it will write, or has written, the proxy of.
Choosing == bind[Worker].at \in {"affine", "balance", "write"}
Written  == bind[Worker].at = "publish"
mine     == bind[Worker].acct
pick     == bind[Worker].pick

\* Accounts wait to be bound as they were read: unbound, each once.
Waiting ==
  /\ bind[Worker].at # "rescan"
  /\ \A a \in queue[Worker] : bound[a] = NoProxy
  /\ Choosing => bound[mine] = NoProxy
  /\ Choosing \/ Written => mine \notin queue[Worker]

\* Nobody else binds.
OthersRest == \A x \in Callers \ {Worker} : bind[x] = NoBind /\ queue[x] = {}

\* Every group has the rows of the servers it lists, so a sync finds nothing to change.
Listing ==
  \A g \in groups, v \in Servers : v \in feed[g] <=> \E p \in RowsOf(g) : ServerOf[p] = v
Fetched ==
  /\ sync[Worker].at \in {"upsert", "prune"} =>
       sync[Worker].group \in groups /\ sync[Worker].present = feed[sync[Worker].group]
  /\ sync[Worker].at = "upsert" => sync[Worker].todo \subseteq feed[sync[Worker].group]
  /\ sync[Worker].at = "prune" => sync[Worker].todo = {}

\* The proxy picked is still a least loaded one of its group when it is written.
Least ==
  /\ bind[Worker].at # "affine"
  /\ bind[Worker].at = "write" => \A q \in Usable(GroupOf[pick]) : Load(pick) <= Load(q)
Even == \A g \in Groups : \A p, q \in Usable(g) : Load(p) <= Load(q) + 1

Spread == OthersRest /\ Listing /\ Fetched /\ OnlyThen /\ Waiting /\ Least /\ Even
Undisturbed == churn = 0 => SyncersOK /\ Spread

\* Whatever is not a sync or a binding of a sync counts as churn.
LEMMA OperationChurns == Typed /\ Operation => churn' # 0
<1>0. ASSUME NEW b \in Binders, NEW a \in Accounts, BindAgain(b, a) PROVE Churn
  BY <1>0 DEF BindAgain
<1>1. ASSUME NEW b \in Binders, NEW a \in Accounts, NEW p \in Proxies, Pin(b, a, p) PROVE Churn
  BY <1>1 DEF Pin
<1>2. ASSUME NEW b \in Binders, NEW S \in SUBSET Groups, Relink(b, S) PROVE Churn
  BY <1>2 DEF Relink
<1>3. ASSUME NEW p \in Proxies, NEW st \in Status, SwitchDb(p, st) PROVE Churn
  BY <1>3 DEF SwitchDb
<1>4. ASSUME NEW g \in Groups, DeleteGroupDb(g) \/ CreateGroup(g) \/ PatchGroup(g) PROVE Churn
  BY <1>4 DEF DeleteGroupDb, CreateGroup, PatchGroup
<1>5. ASSUME NEW g \in Groups, NEW V \in SUBSET Servers, FeedChanges(g, V) PROVE Churn
  BY <1>5 DEF FeedChanges
<1>6. ASSUME NEW s \in Syncers,
             SyncFails(s) \/ ReadFails(s) \/ RebindScanFails(s) \/ \E p \in Proxies : PruneFails(s, p)
      PROVE  Churn
  BY <1>6 DEF SyncFails, ReadFails, RebindScanFails, PruneFails
<1>7. ASSUME NEW x \in Callers, NEW a \in Accounts, LinksUnread(x, a) PROVE Churn
  BY <1>7 DEF LinksUnread
<1>8. ASSUME NEW x \in Callers, NEW g \in Groups, BindQueryFails(x, g) PROVE Churn
  BY <1>8 DEF BindQueryFails
<1>9. ASSUME NEW x \in Callers, BindWriteFails(x) \/ HangUp(x) PROVE Churn
  BY <1>9 DEF BindWriteFails, HangUp
<1>10. AdminHangsUp => Churn
  BY DEF AdminHangsUp
<1>11. Operation => Churn
  BY <1>0, <1>1, <1>2, <1>3, <1>4, <1>5, <1>6, <1>7, <1>8, <1>9, <1>10 DEF Operation
<1> QED BY <1>11 DEF Churn, Typed, Rest

\* What loads and groups rest on.
LEMMA SameLoads ==
  ASSUME UNCHANGED <<row, bound, group, feed>>
  PROVE  /\ groups' = groups /\ Unbound' = Unbound
         /\ \A g : RowsOf(g)' = RowsOf(g) /\ Usable(g)' = Usable(g)
         /\ \A p : Load(p)' = Load(p)
         /\ Listing => Listing'
         /\ Even => Even'
BY DEF groups, Unbound, RowsOf, Usable, InRow, Load, Listing, Even

\* A sync's local state moves, or nothing does.
LEMMA SyncKeepsSpread ==
  ASSUME SyncersOK, Spread, NEW v \in SyncType, Worker \in Syncers,
         \/ sync' = [sync EXCEPT ![Worker] = v] /\ (v.at = "rebind" <=> sync[Worker].at = "rebind")
         \/ UNCHANGED sync,
         UNCHANGED <<row, bound, group, feed, bind, queue>>,
         Fetched'
  PROVE  SyncersOK' /\ Spread'
<1>1. SyncersOK' /\ (sync'[Worker].at = "rebind" <=> sync[Worker].at = "rebind")
  BY DEF SyncersOK
<1>2. Listing' /\ Even' /\ (\A g : Usable(g)' = Usable(g)) /\ (\A p : Load(p)' = Load(p))
  BY SameLoads DEF Spread
<1>3. OthersRest' /\ OnlyThen' /\ Waiting'
  BY <1>1 DEF Spread, OthersRest, OnlyThen, Waiting, Choosing, Written, mine
<1>4. Least'
  BY <1>2 DEF Spread, Least, pick
<1> QED BY <1>1, <1>2, <1>3, <1>4 DEF Spread

\* The group's subscription is fetched.
LEMMA FetchKeepsSpread ==
  ASSUME Typed, SyncersOK, Spread, OneSyncer, NEW s \in Syncers, NEW g \in Groups, Fetch(s, g)
  PROVE  SyncersOK' /\ Spread'
<1>0. s = Worker /\ sync \in [Syncers -> SyncType]
  BY DEF OneSyncer, SyncersOK
<1> DEFINE v == [NoSync EXCEPT !.at = "upsert", !.group = g, !.present = feed[g], !.todo = feed[g]]
<1>1. /\ v \in SyncType /\ v.at = "upsert" /\ v.group = g /\ v.present = feed[g] /\ v.todo = feed[g]
      /\ g \in groups /\ sync[s].at # "rebind"
  BY DEF NoSync, SyncType, Fetch, Idle, Typed, Rest
<1>2. sync' = [sync EXCEPT ![s] = v] /\ UNCHANGED <<row, bound, group, feed, bind, queue>>
  BY DEF Fetch, database
<1> HIDE DEF v
<1>3. sync'[Worker] = v
  BY <1>0, <1>2
<1>4. Fetched'
  BY <1>1, <1>2, <1>3, SameLoads DEF Fetched
<1> QED BY <1>0, <1>1, <1>2, <1>4, SyncKeepsSpread

\* The worker's rounds and the steps of a sync before it binds.
LEMMA RoundKeepsSpread ==
  ASSUME Typed, SyncersOK, Spread, OneSyncer, NEW s \in Syncers,
         \/ StartRound \/ AdminStep
         \/ \E g \in Groups : FetchFails(g)
         \/ SyncStep(s) /\ ~RebindScan(s) /\ ~SyncDone(s)
  PROVE  SyncersOK' /\ Spread'
<1>0. s = Worker /\ sync[s] \in SyncType /\ sync \in [Syncers -> SyncType]
  BY DEF OneSyncer, SyncersOK
<1>1. ASSUME UNCHANGED <<sync, row, bound, group, feed, bind, queue>> PROVE SyncersOK' /\ Spread'
  <2>1. Fetched'
    BY <1>1, SameLoads DEF Spread, Fetched
  <2> QED BY <1>0, <1>1, <2>1, SyncKeepsSpread
<1>2. ASSUME NEW v \in SyncType, v.at \notin {"upsert", "prune", "rebind"},
             sync[s].at # "rebind", sync' = [sync EXCEPT ![s] = v],
             UNCHANGED <<row, bound, group, feed, bind, queue>>
      PROVE  SyncersOK' /\ Spread'
  <2>1. Fetched'
    BY <1>0, <1>2 DEF Fetched
  <2> QED BY <1>0, <1>2, <2>1, SyncKeepsSpread
<1>3. CASE StartRound \/ AdminStep \/ \E g \in Groups : FetchFails(g)
  BY <1>1, <1>3 DEF StartRound, FetchFails, AdminStep, SwitchMem, DeleteGroupMem, database, sources
<1>5. ASSUME NEW w \in Servers, Upsert(s, w) PROVE SyncersOK' /\ Spread'
  <2> DEFINE g == sync[s].group
             v == [sync[s] EXCEPT !.todo = @ \ {w}]
  <2>1. /\ v \in SyncType /\ v.at = "upsert" /\ v.group = g /\ v.present = sync[s].present
        /\ v.todo \subseteq sync[s].todo /\ sync[s].at = "upsert" /\ w \in sync[s].todo
        /\ g \in groups
    BY <1>0, <1>5 DEF Upsert, SyncType
  <2>2. \E p \in RowsOf(g) : ServerOf[p] = w
    BY <1>0, <2>1 DEF Spread, Fetched, Listing
  <2>3. row' = row
    BY <1>5, <2>2 DEF Upsert
  <2>4. sync' = [sync EXCEPT ![s] = v] /\ UNCHANGED <<row, bound, group, feed, bind, queue>>
    BY <1>5, <2>3 DEF Upsert, sources
  <2>5. sync'[Worker] = v
    BY <1>0, <2>4
  <2>6. Fetched'
    BY <1>0, <2>1, <2>4, <2>5, SameLoads DEF Fetched, Spread
  <2> QED BY <1>0, <2>1, <2>4, <2>6, SyncKeepsSpread
<1>6. ~UpsertRefused(s)
  BY <1>0 DEF UpsertRefused, Spread, Fetched
<1>7. CASE PruneScan(s)
  <2> DEFINE g == sync[s].group
             stale == {p \in RowsOf(g) : ServerOf[p] \notin sync[s].present}
             v == [sync[s] EXCEPT !.at = "prune", !.todo = stale]
  <2>1. sync[s].at = "upsert" /\ g \in groups /\ sync[s].present = feed[g]
    BY <1>0, <1>7 DEF PruneScan, Spread, Fetched
  <2>2. stale = {}
    BY <2>1, BindingAssumption DEF Spread, Listing, RowsOf
  <2> HIDE DEF stale
  <2>3. v \in SyncType /\ v.at = "prune" /\ v.group = g /\ v.present = sync[s].present /\ v.todo = {}
    BY <1>0, <2>2 DEF SyncType
  <2>4. sync' = [sync EXCEPT ![s] = v] /\ UNCHANGED <<row, bound, group, feed, bind, queue>>
    BY <1>7 DEF PruneScan, database, sources, stale
  <2> HIDE DEF v
  <2>5. sync'[Worker] = v
    BY <1>0, <2>4
  <2>6. Fetched'
    BY <1>0, <2>1, <2>3, <2>4, <2>5, SameLoads DEF Fetched
  <2> QED BY <1>0, <2>1, <2>3, <2>4, <2>6, SyncKeepsSpread
<1>8. ASSUME NEW p \in Proxies PROVE ~Prune(s, p)
  BY <1>0 DEF Prune, Spread, Fetched
<1>9. CASE Clear(s)
  <2> DEFINE v == [sync[s] EXCEPT !.at = "cleared"]
  <2>1. v \in SyncType /\ v.at = "cleared" /\ sync[s].at # "rebind"
    BY <1>0, <1>9 DEF SyncType, Clear
  <2> QED BY <1>2, <1>9, <2>1 DEF Clear, database, sources
<1>10. CASE ReadRows(s)
  <2> DEFINE found == {<<p, row[p]>> : p \in RowsOf(sync[s].group)}
             v == [sync[s] EXCEPT !.at = "read", !.read = found]
  <2>1. found \subseteq Proxies \X Status
    BY DEF RowsOf, InRow
  <2>2. sync' = [sync EXCEPT ![s] = v] /\ sync[s].at # "rebind"
    BY <1>10 DEF ReadRows
  <2> HIDE DEF found
  <2>3. v \in SyncType /\ v.at = "read"
    BY <1>0, <2>1 DEF SyncType
  <2> QED BY <1>2, <1>10, <2>2, <2>3 DEF ReadRows, database, sources
<1>11. CASE Insert(s)
  <2> DEFINE v == [sync[s] EXCEPT !.at = "inserted", !.read = {}]
  <2>1. v \in SyncType /\ v.at = "inserted" /\ sync[s].at # "rebind"
    BY <1>0, <1>11 DEF SyncType, Insert
  <2> QED BY <1>2, <1>11, <2>1 DEF Insert, database, sources
<1> QED BY <1>3, <1>5, <1>6, <1>7, <1>8, <1>9, <1>10, <1>11 DEF SyncStep

\* A sync takes up the unbound accounts, and ends when they are dealt with.
LEMMA ScanKeepsSpread ==
  ASSUME Typed, SyncersOK, Spread, OneSyncer, RebindScan(Worker) \/ SyncDone(Worker)
  PROVE  SyncersOK' /\ Spread'
<1>0. /\ Worker \in Syncers /\ Worker \in Callers /\ sync \in [Syncers -> SyncType]
      /\ NoBind.at = "idle" /\ NoSync.at = "idle" /\ NoSync \in SyncType
  BY BindingAssumption DEF OneSyncer, Callers, SyncersOK, NoBind, NoSync, SyncType
<1>1. UNCHANGED <<row, bound, group, feed, bind>>
  BY DEF RebindScan, SyncDone, database, sources
<1>2. /\ bind[Worker] = NoBind /\ SyncersOK'
      /\ \/ sync'[Worker].at = "rebind"
         \/ sync'[Worker].at = "idle" /\ queue'[Worker] = {}
      /\ queue'[Worker] \subseteq Unbound
      /\ \A x \in Callers \ {Worker} : queue'[x] = queue[x]
  <2>1. CASE RebindScan(Worker)
    <3>1. sync[Worker].at = "inserted" /\ sync' = [sync EXCEPT ![Worker].at = "rebind"]
      BY <2>1 DEF RebindScan
    <3>2. SyncersOK' /\ sync'[Worker].at = "rebind"
      BY <1>0, <3>1 DEF SyncersOK, SyncType
    <3>3. bind[Worker] = NoBind
      BY <3>1 DEF Spread, OnlyThen
    <3>4. queue'[Worker] \subseteq Unbound /\ \A x \in Callers \ {Worker} : queue'[x] = queue[x]
      BY <1>0, <2>1 DEF RebindScan, Typed, Rest
    <3> QED BY <3>2, <3>3, <3>4
  <2>2. CASE SyncDone(Worker)
    BY <1>0, <2>2 DEF SyncDone, SyncersOK
  <2> QED BY <2>1, <2>2
<1>3. Listing' /\ Even'
  BY <1>1, SameLoads DEF Spread
<1>4. OthersRest' /\ Fetched' /\ OnlyThen'
  BY <1>1, <1>2 DEF Spread, OthersRest, Fetched, OnlyThen
<1>5. Waiting' /\ Least'
  BY <1>0, <1>1, <1>2 DEF Waiting, Choosing, Written, Least, Unbound
<1> QED BY <1>2, <1>3, <1>4, <1>5 DEF Spread

\* The worker's binding moves on without touching the tables.
LEMMA BinderKeepsSpread ==
  ASSUME Typed, SyncersOK, Spread, Worker \in Callers, sync[Worker].at = "rebind", NEW b,
         bind' = [bind EXCEPT ![Worker] = b],
         queue' = queue \/ \E a : queue' = [queue EXCEPT ![Worker] = @ \ {a}],
         UNCHANGED <<sync, row, bound, group, feed>>,
         b.at \notin {"affine", "rescan"},
         b.at \in {"balance", "write"} => bound[b.acct] = NoProxy,
         b.at \in {"balance", "write", "publish"} => b.acct \notin queue'[Worker],
         b.at = "write" => \A q \in Usable(GroupOf[b.pick]) : Load(b.pick) <= Load(q)
  PROVE  SyncersOK' /\ Spread'
<1>1. /\ bind'[Worker] = b /\ queue'[Worker] \subseteq queue[Worker]
      /\ \A x \in Callers \ {Worker} : bind'[x] = bind[x] /\ queue'[x] = queue[x]
  BY DEF Typed, CallersOK, Rest
<1>2. /\ Listing' /\ Even' /\ (\A g : Usable(g)' = Usable(g)) /\ (\A p : Load(p)' = Load(p))
      /\ groups' = groups
  BY SameLoads DEF Spread
<1>3. SyncersOK' /\ OthersRest' /\ Fetched' /\ OnlyThen'
  BY <1>1, <1>2 DEF Spread, SyncersOK, OthersRest, Fetched, OnlyThen
<1>4. Waiting'
  BY <1>1 DEF Spread, Waiting, Choosing, Written, mine
<1>5. Least'
  BY <1>1, <1>2 DEF Least, pick
<1> QED BY <1>2, <1>3, <1>4, <1>5 DEF Spread

\* The UPDATE: a least loaded proxy of its group gets one account more.
LEMMA WriteKeepsSpread ==
  ASSUME Typed, SyncersOK, Spread, Worker \in Callers, sync[Worker].at = "rebind",
         BindWrite(Worker)
  PROVE  SyncersOK' /\ Spread'
<1>1. /\ bind[Worker] \in BindType /\ mine \in Accounts /\ pick \in Proxies
      /\ bind[Worker].at = "write" /\ bound[mine] = NoProxy /\ mine \notin queue[Worker]
      /\ UNCHANGED <<sync, row, group, feed, queue>> /\ pick # NoProxy
  BY BindingAssumption
     DEF Typed, CallersOK, Held, BindWrite, mine, pick, Spread, Waiting, Choosing, sources
<1>2. /\ bind'[Worker].at = "publish" /\ mine' = mine
      /\ \A x \in Callers \ {Worker} : bind'[x] = bind[x]
  BY <1>1 DEF BindWrite, Typed, CallersOK, BindType, mine
<1>3. /\ groups' = groups /\ \A g : RowsOf(g)' = RowsOf(g) /\ Usable(g)' = Usable(g)
  BY <1>1 DEF groups, RowsOf, Usable, InRow
<1>4. SyncersOK' /\ OthersRest' /\ Listing' /\ Fetched' /\ OnlyThen' /\ Least'
  BY <1>1, <1>2, <1>3 DEF Spread, SyncersOK, OthersRest, Listing, Fetched, OnlyThen, Least
<1>5. \A a \in Accounts \ {mine} : bound'[a] = bound[a]
  BY DEF BindWrite, Typed, Schema, Tables, mine
<1>6. Waiting'
  BY <1>1, <1>2, <1>5 DEF Spread, Waiting, Choosing, Written, Typed, Rest
<1>7. CASE ~InRow(pick)
  <2>1. bound' = bound
    BY <1>7 DEF BindWrite, pick
  <2>2. Even'
    BY <1>3, <2>1 DEF Spread, Even, Load
  <2> QED BY <1>4, <1>6, <2>2 DEF Spread
<1>8. CASE InRow(pick)
  <2>1. bound'[mine] = pick
    BY <1>1, <1>8 DEF BindWrite, pick, mine, Typed, Schema, Tables
  <2>2. ASSUME NEW p \in Proxies
        PROVE  Load(p) \in Nat /\ Load(p)' = Load(p) + One(p = pick)
    <3> DEFINE S == {a \in Accounts : bound[a] = p}
               T == {a \in Accounts : bound'[a] = p}
    <3>1. IsFiniteSet(S) /\ T \ {mine} = S \ {mine}
      <4>1. S \subseteq Accounts
        OBVIOUS
      <4> QED BY <4>1, <1>5, FS_Subset, BindingAssumption
    <3>2. mine \notin S /\ (mine \in T <=> p = pick)
      BY <1>1, <2>1, BindingAssumption
    <3>3. Cardinality(S) \in Nat /\ Cardinality(T) = Cardinality(S) - One(mine \in S) + One(mine \in T)
      BY <3>1, CountMoves
    <3>4. One(mine \in S) = 0 /\ One(mine \in T) = One(p = pick)
      BY <3>2 DEF One
    <3>5. Load(p) = Cardinality(S) /\ Load(p)' = Cardinality(T)
      BY DEF Load
    <3> QED BY <3>3, <3>4, <3>5 DEF One
  <2>3. \A p \in Proxies : Load(p) \in Nat /\ Load(p)' = Load(p) + (IF p = pick THEN 1 ELSE 0)
    BY <2>2 DEF One
  <2>4. ASSUME NEW g \in Groups, NEW p \in Usable(g), NEW q \in Usable(g)
        PROVE  Load(p)' <= Load(q)' + 1
    <3>1. p \in Proxies /\ q \in Proxies /\ GroupOf[p] = g
      BY DEF Usable, RowsOf
    <3>2. Load(p) <= Load(q) + 1
      BY DEF Spread, Even
    <3>3. p = pick => Load(p) <= Load(q)
      BY <1>1, <3>1 DEF Spread, Least
    <3> QED BY <2>3, <3>1, <3>2, <3>3
  <2>5. Even'
    BY <1>3, <2>4 DEF Even
  <2> QED BY <1>4, <1>6, <2>5 DEF Spread
<1> QED BY <1>7, <1>8

\* bind_account, called by a sync.
LEMMA BindKeepsSpread ==
  ASSUME Typed, SyncersOK, Spread, OneSyncer, NoPreference, BindStep(Worker)
  PROVE  SyncersOK' /\ Spread'
<1>0. /\ Worker \in Callers /\ Worker \in Syncers
      /\ bind[Worker] \in BindType /\ Held(bind[Worker]) /\ NoBind.at = "idle"
      /\ queue[Worker] \in SUBSET Accounts /\ queue \in [Callers -> SUBSET Accounts]
      /\ bind \in [Callers -> BindType]
  BY BindingAssumption DEF Callers, Typed, CallersOK, Rest, NoBind
<1>1. bind[Worker].at \notin {"affine", "rescan"}
  BY DEF Spread, Least, Waiting
<1>2. ASSUME NEW a \in Accounts, BindNext(Worker, a) PROVE SyncersOK' /\ Spread'
  <2> DEFINE c == [at |-> IF Worker \in Syncers /\ Affine[a] # {} THEN "affine" ELSE "balance",
                   acct |-> a, groups |-> linked, todo |-> linked, pick |-> NoProxy]
  <2>1. /\ bind[Worker] = NoBind /\ a \in queue[Worker] /\ queue' = [queue EXCEPT ![Worker] = @ \ {a}]
        /\ bind' = bind \/ bind' = [bind EXCEPT ![Worker] = c]
        /\ UNCHANGED <<sync, row, bound, group, feed>>
    BY <1>2 DEF BindNext, database, sources
  <2>2. sync[Worker].at = "rebind" /\ bound[a] = NoProxy /\ a \notin queue'[Worker]
    BY <1>0, <2>1 DEF Spread, OnlyThen, Waiting
  <2>3. c.at = "balance" /\ c.acct = a
    BY DEF NoPreference
  <2>4. CASE bind' = [bind EXCEPT ![Worker] = c]
    BY <1>0, <2>1, <2>2, <2>3, <2>4, BinderKeepsSpread
  <2>5. CASE bind' = bind
    <3>1. bind' = [bind EXCEPT ![Worker] = NoBind]
      BY <1>0, <2>1, <2>5
    <3> QED BY <1>0, <2>1, <2>2, <3>1, BinderKeepsSpread
  <2> QED BY <2>1, <2>4, <2>5
<1>3. ASSUME bind[Worker] # NoBind
      PROVE  /\ sync[Worker].at = "rebind"
             /\ Choosing => bound[mine] = NoProxy
             /\ Choosing \/ Written => mine \notin queue[Worker]
  BY <1>3 DEF Spread, OnlyThen, Waiting
<1>4. ASSUME NEW g \in Groups, BindPick(Worker, g) PROVE SyncersOK' /\ Spread'
  <2>1. PICK p \in Matches(Worker, g) : bind' = [bind EXCEPT ![Worker].at = "write", ![Worker].pick = p]
    BY <1>4 DEF BindPick
  <2> DEFINE b == [bind[Worker] EXCEPT !.at = "write", !.pick = p]
  <2>2. bind[Worker].at = "balance" /\ bind[Worker] # NoBind
    BY <1>0, <1>1, <1>4 DEF BindPick, Querying
  <2>3. p \in Usable(g) /\ \A q \in Usable(g) : Load(p) <= Load(q)
    BY <2>2 DEF Matches
  <2>4. GroupOf[p] = g
    BY <2>3 DEF Usable, RowsOf
  <2>5. bind' = [bind EXCEPT ![Worker] = b]
    BY <2>1
  <2>6. b.at = "write" /\ b.acct = mine /\ b.pick = p
    BY <1>0 DEF BindType, mine
  <2>7. UNCHANGED <<sync, row, bound, group, feed, queue>>
    BY <1>4 DEF BindPick, database, sources
  <2>8. sync[Worker].at = "rebind" /\ bound[mine] = NoProxy /\ mine \notin queue'[Worker]
    BY <1>3, <2>2, <2>7 DEF Choosing
  <2>9. \A q \in Usable(GroupOf[b.pick]) : Load(b.pick) <= Load(q)
    BY <2>3, <2>4, <2>6
  <2> HIDE DEF b
  <2> QED BY <1>0, <2>5, <2>6, <2>7, <2>8, <2>9, BinderKeepsSpread
<1>5. ASSUME NEW g \in Groups, BindSkip(Worker, g) PROVE SyncersOK' /\ Spread'
  <2> DEFINE b == [bind[Worker] EXCEPT !.todo = @ \ {g}]
  <2>1. bind[Worker].at = "balance" /\ bind[Worker] # NoBind
    BY <1>0, <1>1, <1>5 DEF BindSkip, Querying
  <2>2. b.at = "balance" /\ b.acct = mine
    BY <1>0, <2>1 DEF BindType, mine
  <2>3. bind' = [bind EXCEPT ![Worker] = b] /\ UNCHANGED <<sync, row, bound, group, feed, queue>>
    BY <1>5 DEF BindSkip, database, sources
  <2>4. sync[Worker].at = "rebind" /\ bound[mine] = NoProxy /\ mine \notin queue'[Worker]
    BY <1>3, <2>1, <2>3 DEF Choosing
  <2> HIDE DEF b
  <2> QED BY <1>0, <2>2, <2>3, <2>4, BinderKeepsSpread
<1>6. CASE BindExhausted(Worker) \/ BindPublish(Worker)
  <2>1. bind[Worker] # NoBind /\ bind' = [bind EXCEPT ![Worker] = NoBind]
    BY <1>0, <1>1, <1>6 DEF BindExhausted, BindPublish
  <2>2. UNCHANGED <<sync, row, bound, group, feed, queue>>
    BY <1>6 DEF BindExhausted, BindPublish, database, sources
  <2> QED BY <1>0, <1>3, <2>1, <2>2, BinderKeepsSpread
<1>7. CASE BindWrite(Worker)
  BY <1>0, <1>3, <1>7, WriteKeepsSpread DEF BindWrite
<1>8. ~RelinkScan(Worker)
  BY <1>1 DEF RelinkScan
<1> QED BY <1>2, <1>4, <1>5, <1>6, <1>7, <1>8 DEF BindStep

\* As long as nothing disturbs the syncs, every step keeps the spread.
LEMMA NextUndisturbed ==
  ASSUME Typed, Undisturbed, OneSyncer, NoPreference, [Next]_vars
  PROVE  Undisturbed'
<1> SUFFICES ASSUME churn' = 0 PROVE SyncersOK' /\ Spread'
  BY DEF Undisturbed
<1>1. ~Operation
  BY OperationChurns
<1>2. churn' = churn
  <2>1. ASSUME NEW s \in Syncers, SyncStep(s) PROVE churn' = churn
    BY <2>1 DEF SyncStep, Upsert, UpsertRefused, PruneScan, Prune, Clear, ReadRows, Insert, RebindScan,
                SyncDone, failures
  <2>2. ASSUME NEW x \in Callers, BindStep(x) PROVE churn' = churn
    BY <2>2 DEF BindStep, BindNext, BindPick, BindSkip, BindExhausted, BindWrite, BindPublish,
                RelinkScan, failures
  <2>3. CASE StartRound \/ AdminStep \/ \E g \in Groups : FetchFails(g)
    BY <2>3 DEF StartRound, AdminStep, SwitchMem, DeleteGroupMem, FetchFails, failures
  <2>5. ASSUME NEW s \in Syncers, NEW g \in Groups, Fetch(s, g) PROVE churn' = churn
    BY <2>5 DEF Fetch, failures
  <2>4. UNCHANGED vars => churn' = churn
    BY DEF vars, failures
  <2> QED BY <1>1, <2>1, <2>2, <2>3, <2>4, <2>5 DEF Next
<1>3. SyncersOK /\ Spread /\ Worker \in Syncers
  BY <1>2, BindingAssumption DEF Undisturbed
<1>4. CASE UNCHANGED vars
  <2>1. UNCHANGED <<sync, row, bound, group, feed, bind, queue>>
    BY <1>4 DEF vars, database, sources
  <2>2. Fetched' /\ sync[Worker] \in SyncType
    BY <1>3, <2>1, SameLoads DEF Spread, Fetched, SyncersOK
  <2> QED BY <1>3, <2>1, <2>2, SyncKeepsSpread
<1>5. CASE StartRound \/ AdminStep \/ \E g \in Groups : FetchFails(g)
  BY <1>3, <1>5, RoundKeepsSpread
<1>6. ASSUME NEW s \in Syncers, NEW g \in Groups, Fetch(s, g) PROVE SyncersOK' /\ Spread'
  BY <1>3, <1>6, FetchKeepsSpread
<1>7. ASSUME NEW s \in Syncers, SyncStep(s) PROVE SyncersOK' /\ Spread'
  BY <1>3, <1>7, RoundKeepsSpread, ScanKeepsSpread DEF OneSyncer
<1>8. ASSUME NEW x \in Callers, BindStep(x) PROVE SyncersOK' /\ Spread'
  <2>1. x = Worker
    <3>1. CASE bind[x] = NoBind /\ queue[x] = {}
      BY <1>8, <3>1 DEF BindStep, BindNext, BindPick, BindSkip, Querying, BindExhausted, BindWrite,
                        BindPublish, RelinkScan, NoBind
    <3> QED BY <1>3, <3>1 DEF Spread, OthersRest
  <2> QED BY <1>3, <1>8, <2>1, BindKeepsSpread
<1> QED BY <1>1, <1>4, <1>5, <1>6, <1>7, <1>8 DEF Next

\* At the start every group has the rows of the servers its subscription lists.
LEMMA InitUndisturbed == ASSUME Init, OneSyncer, Even PROVE Undisturbed
<1>0. Worker \in Syncers /\ Worker \in Callers /\ NoBind.at = "idle" /\ NoSync.at = "idle"
  BY BindingAssumption DEF Callers, NoBind, NoSync
<1>1. SyncersOK /\ Fetched
  BY <1>0 DEF Init, SyncersOK, Fetched, NoSync, SyncType
<1>2. OthersRest /\ OnlyThen /\ Waiting /\ Least
  BY <1>0 DEF Init, OthersRest, OnlyThen, Waiting, Least, Choosing, Written
<1>3. PICK S \in SUBSET Proxies :
        /\ \A p \in S : GroupOf[p] \in InitGroups /\ ServerOf[p] \in InitFeed[GroupOf[p]]
        /\ \A g \in InitGroups : \A v \in InitFeed[g] : \E p \in S : GroupOf[p] = g /\ ServerOf[p] = v
        /\ row = [p \in Proxies |-> IF p \in S THEN "available" ELSE "unused"]
  BY DEF Init
<1>4. \A p \in Proxies : InRow(p) <=> p \in S
  BY <1>3 DEF InRow, Status
<1>5. groups = InitGroups /\ feed = InitFeed
  <2>1. group = [g \in Groups |-> IF g \in InitGroups THEN "enabled" ELSE "unused"] /\ feed = InitFeed
    BY DEF Init
  <2> QED BY <2>1, BindingAssumption DEF groups
<1>6. Listing
  BY <1>3, <1>4, <1>5 DEF Listing, RowsOf
<1> QED BY <1>1, <1>2, <1>6 DEF Undisturbed, Spread

(***************************************************************************)
(* bind_account's choice spreads accounts evenly over each group: where    *)
(* the worker alone syncs and no account asks for servers near its         *)
(* registration IP, loads that differ by at most one at the start never    *)
(* differ by more, for any number of accounts, proxies, groups and         *)
(* syncs, until an operation, a failure or another subscription            *)
(* interferes.                                                             *)
(***************************************************************************)
THEOREM SyncsSpreadEvenly ==
  ASSUME OneSyncer, NoPreference PROVE Balanced /\ Spec => []Balanced
<1>1. Init /\ Balanced => Typed /\ Undisturbed
  <2>1. Init /\ Balanced => Even
    BY DEF Init, Balanced, Even
  <2> QED BY <2>1, InitSchema, InitUndisturbed DEF Typed
<1>2. (Typed /\ Undisturbed) /\ [Next]_vars => (Typed /\ Undisturbed)'
  BY NextTypes, NextUndisturbed DEF Typed
<1>3. Undisturbed => Balanced
  BY DEF Undisturbed, Spread, Even, Balanced
<1> QED BY <1>1, <1>2, <1>3, PTL DEF Spec
=============================================================================
