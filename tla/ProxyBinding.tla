---------------------------- MODULE ProxyBinding ----------------------------
(***************************************************************************)
(* The proxies of the groups a platform is linked to, and the binding of   *)
(* its accounts to them: sync.rs (sync_group, reload_group_proxies,        *)
(* rebind_null_accounts, bind_account) and the admin handlers that touch   *)
(* the same data.  Proxies and bindings live in the database and, as a     *)
(* copy, in memory; every handler awaits its statements one by one, so     *)
(* syncs, rebindings and admin operations interleave between any two.      *)
(* A proxy is an id; ids are never reused (AUTOINCREMENT).                 *)
(***************************************************************************)
EXTENDS Integers, FiniteSets

CONSTANTS
  Accounts,            \* the accounts of the platform; their rows and slots stay
  Proxies, NoProxy,    \* proxy ids, and NULL
  Groups,              \* proxy group ids, numbers: linked groups are read in this order
  Servers,             \* host:port pairs a subscription lists
  GroupOf, ServerOf,   \* what a proxy id, once inserted, stands for
  Affine,              \* servers whose exit IP is an account's registration IP
  InitGroups, InitFeed, InitLinked, InitBound,
  Syncers, Worker,     \* who runs sync_group: the worker, the admin's sync button
  Binders,             \* other callers of bind_account, and patch_account
  MaxChurn             \* bound on admin operations, failed calls, feed changes and errors

VARIABLES
  row,       \* the proxies table: status of each row
  entry,     \* Pools.proxies: status of each entry
  bound,     \* accounts.bound_proxy_id
  slot,      \* AccountSlot.bound_proxy_id in Pools.accounts
  group,     \* the proxy_groups table: the life of each id, and its enabled flag
  linked,    \* the platform's rows of platform_proxy_groups
  feed,      \* what each group's subscription URL returns
  round,     \* groups the worker has still to sync in this round
  sync,      \* sync_group, per caller
  bind,      \* bind_account, per caller
  queue,     \* accounts a caller has still to pass to bind_account
  admin,     \* the admin operation between its database and its memory half
  churn,     \* operations and failures so far
  torn       \* history: accounts whose last binding was not written to both copies in one go

database == <<row, bound, group, linked>>
memory   == <<entry, slot>>
sources  == <<feed, round>>
failures == <<churn, torn>>
vars == <<database, memory, sources, sync, bind, queue, admin, failures>>

Callers   == Syncers \cup Binders
RowStatus == {"unused", "available", "manual_disabled", "deleted"}
Status    == {"available", "manual_disabled"}
MaybeProxy == Proxies \cup {NoProxy}

ASSUME BindingAssumption ==
  /\ NoProxy \notin Proxies
  /\ Groups \subseteq Nat /\ IsFiniteSet(Accounts)
  /\ GroupOf \in [Proxies -> Groups] /\ ServerOf \in [Proxies -> Servers]
  /\ Affine \in [Accounts -> SUBSET Servers]
  /\ InitFeed \in [Groups -> SUBSET Servers]
  /\ InitLinked \subseteq InitGroups /\ InitGroups \subseteq Groups
  /\ InitBound \in [Accounts -> MaybeProxy]
  /\ Worker \in Syncers /\ Syncers \cap Binders = {} /\ MaxChurn \in Nat

NoSync == [at |-> "idle", group |-> 0, present |-> {}, todo |-> {}, read |-> {}]
NoBind == [at |-> "idle", acct |-> "none", groups |-> {}, todo |-> {},
           pick |-> NoProxy]
NoAdmin == [op |-> "none", target |-> "none"]

groups     == {g \in Groups : group[g] \in {"enabled", "disabled"}}
Enabled    == {g \in Groups : group[g] = "enabled"}
InRow(p)   == row[p] \in Status
RowsOf(g)  == {p \in Proxies : GroupOf[p] = g /\ InRow(p)}
Usable(g)  == {p \in RowsOf(g) : row[p] = "available"}
Load(p)    == Cardinality({a \in Accounts : bound[a] = p})
Unbound    == {a \in Accounts : bound[a] = NoProxy}

\* Callers that have still to set the slot of account a.
Publishers(a) == {x \in Callers : bind[x].at = "publish" /\ bind[x].acct = a}

\* How account a's row is written (or, if that failed, was to be) as to its history.
Writes(a, failed) ==
  torn' = IF failed \/ Publishers(a) # {} THEN torn \cup {a} ELSE torn \ {a}

\* Every proxy bound at the start is there, and so is the first id of every server in a feed.
Init ==
  /\ \E S \in SUBSET Proxies :
       /\ \A a \in Accounts : InitBound[a] # NoProxy => InitBound[a] \in S
       /\ \A p, q \in S : p # q => <<GroupOf[p], ServerOf[p]>> # <<GroupOf[q], ServerOf[q]>>
       /\ \A p \in S : GroupOf[p] \in InitGroups /\ ServerOf[p] \in InitFeed[GroupOf[p]]
       /\ \A g \in InitGroups : \A v \in InitFeed[g] : \E p \in S : GroupOf[p] = g /\ ServerOf[p] = v
       /\ row = [p \in Proxies |-> IF p \in S THEN "available" ELSE "unused"]
       /\ entry = [p \in Proxies |-> IF p \in S THEN "available" ELSE "absent"]
  /\ bound = InitBound /\ slot = InitBound
  /\ group = [g \in Groups |-> IF g \in InitGroups THEN "enabled" ELSE "unused"]
  /\ linked = InitLinked
  /\ feed = InitFeed /\ round = {}
  /\ sync = [s \in Syncers |-> NoSync]
  /\ bind = [x \in Callers |-> NoBind]
  /\ queue = [x \in Callers |-> {}]
  /\ admin = NoAdmin
  /\ churn = 0 /\ torn = {}

Churn == churn < MaxChurn /\ churn' = churn + 1

-----------------------------------------------------------------------------
(* sync_all_groups and sync_group.                                          *)

Idle(s) == sync[s].at = "idle"

\* The worker lists the groups that are enabled, then syncs one after the other.
StartRound ==
  /\ Idle(Worker) /\ round = {}
  /\ round' = Enabled
  /\ UNCHANGED <<database, memory, feed, sync, bind, queue, admin, failures>>

\* The admin's button takes any group, enabled or not.
Fetch(s, g) ==
  /\ Idle(s) /\ g \in groups
  /\ s = Worker => g \in round
  /\ round' = IF s = Worker THEN round \ {g} ELSE round
  /\ sync' = [sync EXCEPT ![s] = [NoSync EXCEPT !.at = "upsert", !.group = g,
                                                !.present = feed[g], !.todo = feed[g]]]
  /\ UNCHANGED <<database, memory, feed, bind, queue, admin, failures>>

\* The group is gone or the subscription does not answer: the next one's turn.
FetchFails(g) ==
  /\ Idle(Worker) /\ g \in round
  /\ round' = round \ {g}
  /\ UNCHANGED <<database, memory, feed, sync, bind, queue, admin, failures>>

\* Mutant of Upsert: without PRAGMA foreign_keys the group may be gone.
UpsertOrphan(s, v) ==
  LET g == sync[s].group
      known == {p \in RowsOf(g) : ServerOf[p] = v}
  IN
  /\ sync[s].at = "upsert" /\ v \in sync[s].todo
  /\ \/ known # {} /\ UNCHANGED row
     \/ /\ known = {}
        /\ \E p \in Proxies : /\ row[p] = "unused" /\ GroupOf[p] = g /\ ServerOf[p] = v
                              /\ row' = [row EXCEPT ![p] = "available"]
  /\ sync' = [sync EXCEPT ![s].todo = @ \ {v}]
  /\ UNCHANGED <<bound, group, linked, memory, sources, bind, queue, admin, failures>>

\* A server already in the table keeps its row, its id and its status.
Upsert(s, v) ==
  LET g == sync[s].group
      known == {p \in RowsOf(g) : ServerOf[p] = v}
  IN
  /\ sync[s].at = "upsert" /\ v \in sync[s].todo
  /\ g \in groups
  /\ \/ known # {} /\ UNCHANGED row
     \/ /\ known = {}
        /\ \E p \in Proxies : /\ row[p] = "unused" /\ GroupOf[p] = g /\ ServerOf[p] = v
                              /\ row' = [row EXCEPT ![p] = "available"]
  /\ sync' = [sync EXCEPT ![s].todo = @ \ {v}]
  /\ UNCHANGED <<bound, group, linked, memory, sources, bind, queue, admin, failures>>

\* The group was deleted meanwhile: the foreign key fails and `?` ends the sync.
UpsertRefused(s) ==
  /\ sync[s].at = "upsert" /\ sync[s].todo # {}
  /\ sync[s].group \notin groups
  /\ sync' = [sync EXCEPT ![s] = NoSync]
  /\ UNCHANGED <<database, memory, sources, bind, queue, admin, failures>>

\* A statement fails: the sync ends where it stands, before memory is reloaded.
SyncFails(s) ==
  /\ Churn
  /\ sync[s].at \in {"upsert", "prune"}
  /\ sync' = [sync EXCEPT ![s] = NoSync]
  /\ UNCHANGED <<database, memory, sources, bind, queue, admin, torn>>

PruneScan(s) ==
  /\ sync[s].at = "upsert" /\ sync[s].todo = {}
  /\ sync' = [sync EXCEPT ![s].at = "prune",
                ![s].todo = {p \in RowsOf(sync[s].group) : ServerOf[p] \notin sync[s].present}]
  /\ UNCHANGED <<database, memory, sources, bind, queue, admin, failures>>

\* Rows gone, with ON DELETE SET NULL on accounts.bound_proxy_id.
Without(gone) ==
  /\ row' = [p \in Proxies |-> IF p \in gone /\ InRow(p) THEN "deleted" ELSE row[p]]
  /\ bound' = [a \in Accounts |-> IF bound[a] \in gone THEN NoProxy ELSE bound[a]]

Prune(s, p) ==
  /\ sync[s].at = "prune" /\ p \in sync[s].todo
  /\ Without({p})
  /\ sync' = [sync EXCEPT ![s].todo = @ \ {p}]
  /\ UNCHANGED <<group, linked, memory, sources, bind, queue, admin, failures>>

\* The DELETE fails: its error is discarded.
PruneFails(s, p) ==
  /\ Churn
  /\ sync[s].at = "prune" /\ p \in sync[s].todo
  /\ sync' = [sync EXCEPT ![s].todo = @ \ {p}]
  /\ UNCHANGED <<database, memory, sources, bind, queue, admin, torn>>

\* Mutant of Clear: the entries of the group are kept.
ClearNothing(s) ==
  /\ sync[s].at = "prune" /\ sync[s].todo = {}
  /\ sync' = [sync EXCEPT ![s].at = "cleared"]
  /\ UNCHANGED <<database, memory, sources, bind, queue, admin, failures>>

\* reload_group_proxies: retain, then SELECT, then the inserts.
Clear(s) ==
  /\ sync[s].at = "prune" /\ sync[s].todo = {}
  /\ entry' = [p \in Proxies |-> IF GroupOf[p] = sync[s].group THEN "absent" ELSE entry[p]]
  /\ sync' = [sync EXCEPT ![s].at = "cleared"]
  /\ UNCHANGED <<database, slot, sources, bind, queue, admin, failures>>

ReadRows(s) ==
  /\ sync[s].at = "cleared"
  /\ sync' = [sync EXCEPT ![s].at = "read",
                          ![s].read = {<<p, row[p]>> : p \in RowsOf(sync[s].group)}]
  /\ UNCHANGED <<database, memory, sources, bind, queue, admin, failures>>

\* The SELECT fails: unwrap_or_default makes it an empty result.
ReadFails(s) ==
  /\ Churn
  /\ sync[s].at = "cleared"
  /\ sync' = [sync EXCEPT ![s].at = "read"]
  /\ UNCHANGED <<database, memory, sources, bind, queue, admin, torn>>

Insert(s) ==
  /\ sync[s].at = "read"
  /\ entry' = [p \in Proxies |->
                 IF \E st \in Status : <<p, st>> \in sync[s].read
                 THEN CHOOSE st \in Status : <<p, st>> \in sync[s].read ELSE entry[p]]
  /\ sync' = [sync EXCEPT ![s].at = "inserted", ![s].read = {}]
  /\ UNCHANGED <<database, slot, sources, bind, queue, admin, failures>>

\* Mutant of RebindScan: the unbound accounts are looked up in memory.
RebindScanMemory(s) ==
  /\ sync[s].at = "inserted"
  /\ queue' = [queue EXCEPT ![s] = IF sync[s].group \in linked
                                   THEN {a \in Accounts : slot[a] = NoProxy} ELSE {}]
  /\ sync' = [sync EXCEPT ![s].at = "rebind"]
  /\ UNCHANGED <<database, memory, sources, bind, admin, failures>>

\* rebind_null_accounts: the accounts are read once, then bound one after the other.
RebindScan(s) ==
  /\ sync[s].at = "inserted"
  /\ queue' = [queue EXCEPT ![s] = IF sync[s].group \in linked THEN Unbound ELSE {}]
  /\ sync' = [sync EXCEPT ![s].at = "rebind"]
  /\ UNCHANGED <<database, memory, sources, bind, admin, failures>>

RebindScanFails(s) ==
  /\ Churn
  /\ sync[s].at = "inserted"
  /\ sync' = [sync EXCEPT ![s].at = "rebind"]
  /\ UNCHANGED <<database, memory, sources, bind, queue, admin, torn>>

SyncDone(s) ==
  /\ sync[s].at = "rebind" /\ queue[s] = {} /\ bind[s] = NoBind
  /\ sync' = [sync EXCEPT ![s] = NoSync]
  /\ UNCHANGED <<database, memory, sources, bind, queue, admin, failures>>

-----------------------------------------------------------------------------
(* bind_account.                                                            *)

\* The linked groups are read; without any the call returns.  Only rebind_null_accounts
\* (and upload_accounts, for accounts that are new) passes the registration IP on.
BindNext(x, a) ==
  /\ bind[x] = NoBind /\ a \in queue[x]
  /\ queue' = [queue EXCEPT ![x] = @ \ {a}]
  /\ bind' = IF linked = {} THEN bind
             ELSE [bind EXCEPT ![x] =
                     [at |-> IF x \in Syncers /\ Affine[a] # {} THEN "affine" ELSE "balance",
                      acct |-> a, groups |-> linked,
                      todo |-> linked, pick |-> NoProxy]]
  /\ UNCHANGED <<database, memory, sources, sync, admin, failures>>

\* The query of the account's platform or of its links fails: the call returns.
LinksUnread(x, a) ==
  /\ Churn
  /\ bind[x] = NoBind /\ a \in queue[x]
  /\ queue' = [queue EXCEPT ![x] = @ \ {a}]
  /\ UNCHANGED <<database, memory, sources, sync, bind, admin, torn>>

\* Mutant of Matches: the query loses its ORDER BY.
MatchesUnordered(x, g) ==
  IF bind[x].at = "affine"
  THEN {p \in Usable(g) : ServerOf[p] \in Affine[bind[x].acct]}
  ELSE Usable(g)

\* What the query of one group may return.
Matches(x, g) ==
  IF bind[x].at = "affine"
  THEN {p \in Usable(g) : ServerOf[p] \in Affine[bind[x].acct]}
  ELSE {p \in Usable(g) : \A q \in Usable(g) : Load(p) <= Load(q)}

Querying(x, g) ==
  /\ bind[x].at \in {"affine", "balance"}
  /\ g \in bind[x].todo /\ \A h \in bind[x].todo : g <= h

BindPick(x, g) ==
  /\ Querying(x, g)
  /\ \E p \in Matches(x, g) : bind' = [bind EXCEPT ![x].at = "write", ![x].pick = p]
  /\ UNCHANGED <<database, memory, sources, sync, queue, admin, failures>>

BindSkip(x, g) ==
  /\ Querying(x, g) /\ Matches(x, g) = {}
  /\ bind' = [bind EXCEPT ![x].todo = @ \ {g}]
  /\ UNCHANGED <<database, memory, sources, sync, queue, admin, failures>>

\* A query that fails counts as one without result.
BindQueryFails(x, g) ==
  /\ Churn
  /\ Querying(x, g)
  /\ bind' = [bind EXCEPT ![x].todo = @ \ {g}]
  /\ UNCHANGED <<database, memory, sources, sync, queue, admin, torn>>

\* No group had a match: fall back to the least bound one, or give up.
BindExhausted(x) ==
  /\ bind[x].at \in {"affine", "balance"} /\ bind[x].todo = {}
  /\ bind' = IF bind[x].at = "affine"
             THEN [bind EXCEPT ![x].at = "balance", ![x].todo = bind[x].groups]
             ELSE [bind EXCEPT ![x] = NoBind]
  /\ UNCHANGED <<database, memory, sources, sync, queue, admin, failures>>

\* The UPDATE; the error of a foreign key that fails is discarded.  A row that is NULL
\* then stays so, one that names a proxy keeps it.
BindWrite(x) ==
  LET a == bind[x].acct
      p == bind[x].pick
  IN
  /\ bind[x].at = "write"
  /\ bound' = IF InRow(p) THEN [bound EXCEPT ![a] = p] ELSE bound
  /\ Writes(a, ~InRow(p) /\ bound[a] # NoProxy)
  /\ bind' = [bind EXCEPT ![x].at = "publish"]
  /\ UNCHANGED <<row, group, linked, memory, sources, sync, queue, admin, churn>>

\* So is any other error.
BindWriteFails(x) ==
  /\ Churn
  /\ bind[x].at = "write"
  /\ Writes(bind[x].acct, TRUE)
  /\ bind' = [bind EXCEPT ![x].at = "publish"]
  /\ UNCHANGED <<database, memory, sources, sync, queue, admin>>

\* Mutant of BindPublish: only an empty slot is filled.
BindPublishIfEmpty(x) ==
  /\ bind[x].at = "publish"
  /\ slot' = IF slot[bind[x].acct] = NoProxy THEN [slot EXCEPT ![bind[x].acct] = bind[x].pick]
                                             ELSE slot
  /\ bind' = [bind EXCEPT ![x] = NoBind]
  /\ UNCHANGED <<database, entry, sources, sync, queue, admin, failures>>

BindPublish(x) ==
  /\ bind[x].at = "publish"
  /\ slot' = [slot EXCEPT ![bind[x].acct] = bind[x].pick]
  /\ bind' = [bind EXCEPT ![x] = NoBind]
  /\ UNCHANGED <<database, entry, sources, sync, queue, admin, failures>>

-----------------------------------------------------------------------------
(* The other callers.                                                       *)

Free(b) == bind[b] = NoBind /\ queue[b] = {}

\* forward()'s error arm, when a call through the account's proxy failed; probe_account,
\* when the row has no proxy.
BindAgain(b, a) ==
  /\ Churn /\ Free(b)
  /\ slot[a] # NoProxy \/ bound[a] = NoProxy
  /\ queue' = [queue EXCEPT ![b] = {a}]
  /\ UNCHANGED <<database, memory, sources, sync, bind, admin, torn>>

\* patch_platform: the links are replaced in a transaction, then the unbound accounts
\* are read and bound (without their registration IP).
Relink(b, S) ==
  /\ Churn /\ Free(b)
  /\ S \subseteq groups /\ linked' = S
  /\ bind' = [bind EXCEPT ![b] = [NoBind EXCEPT !.at = "rescan"]]
  /\ UNCHANGED <<row, bound, group, memory, sources, sync, queue, admin, torn>>

RelinkScan(b) ==
  /\ bind[b].at = "rescan"
  /\ queue' = [queue EXCEPT ![b] = Unbound]
  /\ bind' = [bind EXCEPT ![b] = NoBind]
  /\ UNCHANGED <<database, memory, sources, sync, admin, failures>>

\* Mutant of Pin: the slot is left to the next reload.
PinRowOnly(b, a, p) ==
  /\ Churn /\ Free(b)
  /\ InRow(p)
  /\ bound' = [bound EXCEPT ![a] = p] /\ Writes(a, FALSE)
  /\ UNCHANGED <<row, group, linked, memory, sources, sync, bind, queue, admin>>

\* patch_account: an UPDATE that may fail on the foreign key (then nothing happens), and
\* the slot.
Pin(b, a, p) ==
  /\ Churn /\ Free(b)
  /\ InRow(p)
  /\ bound' = [bound EXCEPT ![a] = p] /\ Writes(a, FALSE)
  /\ bind' = [bind EXCEPT ![b] = [NoBind EXCEPT !.at = "publish", !.acct = a, !.pick = p]]
  /\ UNCHANGED <<row, group, linked, memory, sources, sync, queue, admin>>

\* disable_proxy, enable_proxy: the UPDATE, then the entry if there is one.
SwitchDb(p, st) ==
  /\ Churn /\ admin = NoAdmin
  /\ InRow(p)
  /\ row' = [row EXCEPT ![p] = st]
  /\ admin' = [op |-> st, target |-> p]
  /\ UNCHANGED <<bound, group, linked, memory, sources, sync, bind, queue, torn>>

SwitchMem ==
  /\ admin.op \in Status
  /\ entry' = IF entry[admin.target] # "absent" THEN [entry EXCEPT ![admin.target] = admin.op]
                                                ELSE entry
  /\ admin' = NoAdmin
  /\ UNCHANGED <<database, slot, sources, sync, bind, queue, failures>>

\* delete_proxy_group: the row, with its cascades, then the entries.
DeleteGroupDb(g) ==
  /\ Churn /\ admin = NoAdmin
  /\ g \in groups
  /\ group' = [group EXCEPT ![g] = "deleted"] /\ linked' = linked \ {g}
  /\ Without(RowsOf(g))
  /\ admin' = [op |-> "delete_group", target |-> g]
  /\ UNCHANGED <<memory, sources, sync, bind, queue, torn>>

DeleteGroupMem ==
  /\ admin.op = "delete_group"
  /\ entry' = [p \in Proxies |-> IF GroupOf[p] = admin.target THEN "absent" ELSE entry[p]]
  /\ admin' = NoAdmin
  /\ UNCHANGED <<database, slot, sources, sync, bind, queue, failures>>

\* create_proxy_group; patch_proxy_group with an enabled flag.
CreateGroup(g) ==
  /\ Churn
  /\ group[g] = "unused" /\ group' = [group EXCEPT ![g] = "enabled"]
  /\ UNCHANGED <<row, bound, linked, memory, sources, sync, bind, queue, admin, torn>>

PatchGroup(g) ==
  /\ Churn
  /\ g \in groups
  /\ group' = [group EXCEPT ![g] = IF @ = "enabled" THEN "disabled" ELSE "enabled"]
  /\ UNCHANGED <<row, bound, linked, memory, sources, sync, bind, queue, admin, torn>>

\* Whoever made a request hangs up: its handler is dropped at an await.
HangUp(x) ==
  /\ Churn
  /\ x # Worker /\ ~(bind[x] = NoBind /\ queue[x] = {} /\ (x \in Syncers => Idle(x)))
  /\ sync' = [s \in Syncers |-> IF s = x THEN NoSync ELSE sync[s]]
  /\ bind' = [bind EXCEPT ![x] = NoBind] /\ queue' = [queue EXCEPT ![x] = {}]
  /\ torn' = IF bind[x].at = "publish" THEN torn \cup {bind[x].acct} ELSE torn
  /\ UNCHANGED <<database, memory, sources, admin>>

AdminHangsUp ==
  /\ Churn
  /\ admin # NoAdmin /\ admin' = NoAdmin
  /\ UNCHANGED <<database, memory, sources, sync, bind, queue, torn>>

\* The subscription lists other servers (as long as ids are left for those that return).
FeedChanges(g, V) ==
  /\ Churn
  /\ feed[g] # V
  /\ \A v \in V \ feed[g] : \E p \in Proxies : /\ GroupOf[p] = g /\ ServerOf[p] = v
                                               /\ row[p] = "unused"
  /\ feed' = [feed EXCEPT ![g] = V]
  /\ UNCHANGED <<database, memory, round, sync, bind, queue, admin, torn>>

-----------------------------------------------------------------------------
SyncStep(s) ==
  \/ \E v \in Servers : Upsert(s, v)
  \/ UpsertRefused(s) \/ PruneScan(s)
  \/ \E p \in Proxies : Prune(s, p)
  \/ Clear(s) \/ ReadRows(s) \/ Insert(s) \/ RebindScan(s) \/ SyncDone(s)

BindStep(x) ==
  \/ \E a \in Accounts : BindNext(x, a)
  \/ \E g \in Groups : BindPick(x, g) \/ BindSkip(x, g)
  \/ BindExhausted(x) \/ BindWrite(x) \/ BindPublish(x) \/ RelinkScan(x)

AdminStep == SwitchMem \/ DeleteGroupMem

\* Nothing is under way.
AtRest ==
  /\ \A s \in Syncers : sync[s] = NoSync
  /\ \A x \in Callers : bind[x] = NoBind /\ queue[x] = {}
  /\ admin = NoAdmin

Operation ==
  \/ \E b \in Binders :
       \/ \E a \in Accounts : BindAgain(b, a)
       \/ \E S \in SUBSET Groups : Relink(b, S)
       \/ \E a \in Accounts, p \in Proxies : Pin(b, a, p)
  \/ \E p \in Proxies, st \in Status : SwitchDb(p, st)
  \/ \E g \in Groups : DeleteGroupDb(g) \/ CreateGroup(g) \/ PatchGroup(g)
  \/ \E g \in Groups, V \in SUBSET Servers : FeedChanges(g, V)
  \/ \E s \in Syncers :
       SyncFails(s) \/ ReadFails(s) \/ RebindScanFails(s) \/ \E p \in Proxies : PruneFails(s, p)
  \/ \E x \in Callers :
       \/ \E a \in Accounts : LinksUnread(x, a)
       \/ \E g \in Groups : BindQueryFails(x, g)
       \/ BindWriteFails(x) \/ HangUp(x)
  \/ AdminHangsUp

Next ==
  \/ StartRound
  \/ \E s \in Syncers : SyncStep(s) \/ \E g \in Groups : Fetch(s, g)
  \/ \E g \in Groups : FetchFails(g)
  \/ \E x \in Callers : BindStep(x)
  \/ AdminStep
  \/ Operation
  \/ AtRest /\ UNCHANGED vars

Spec == Init /\ [][Next]_vars
(* The worker goes round the enabled groups for ever and each subscription  *)
(* answers again and again; what has been started goes on.  Nobody has to   *)
(* press the sync button.                                                   *)
FairSpec ==
  /\ Spec
  /\ WF_vars(StartRound) /\ WF_vars(\E g \in Groups : FetchFails(g))
  /\ \A g \in Groups : SF_vars(Fetch(Worker, g))
  /\ \A s \in Syncers : WF_vars(SyncStep(s))
  /\ \A x \in Callers : WF_vars(BindStep(x))
  /\ WF_vars(AdminStep)

-----------------------------------------------------------------------------
(* Types, and the constraints of the schema: UNIQUE(group_id,host,port) and *)
(* the three foreign keys.                                                  *)
TypeOK ==
  /\ row \in [Proxies -> RowStatus]
  /\ entry \in [Proxies -> Status \cup {"absent"}]
  /\ bound \in [Accounts -> MaybeProxy] /\ slot \in [Accounts -> MaybeProxy]
  /\ group \in [Groups -> {"unused", "enabled", "disabled", "deleted"}]
  /\ linked \subseteq groups /\ round \subseteq Groups
  /\ feed \in [Groups -> SUBSET Servers]
  /\ queue \in [Callers -> SUBSET Accounts]
  /\ churn \in 0 .. MaxChurn /\ torn \subseteq Accounts
  /\ \A p \in Proxies : InRow(p) => GroupOf[p] \in groups
  /\ \A a \in Accounts : bound[a] # NoProxy => InRow(bound[a])
  /\ \A p, q \in Proxies :
       InRow(p) /\ InRow(q) /\ GroupOf[p] = GroupOf[q] /\ ServerOf[p] = ServerOf[q] => p = q

(***************************************************************************)
(* Whoever binds, the copies of a binding part in three ways only: an      *)
(* UPDATE failed (for a row that is NULL: other than on a proxy that is    *)
(* gone), a handler was dropped between the UPDATE and the slot, or two    *)
(* callers stood between the two at once.  Whatever else happens (syncs    *)
(* that drop and return proxies, deletions, failures, other callers), the  *)
(* slot is right, or the row is NULL and the slot names a proxy that is    *)
(* gone: select() passes it over and the next sync binds the account anew. *)
(***************************************************************************)
BindingsAgree ==
  \A a \in Accounts \ torn :
    \/ Publishers(a) # {}
    \/ slot[a] = bound[a]
    \/ bound[a] = NoProxy /\ ~InRow(slot[a])

(***************************************************************************)
(* Accounts bound by one syncer alone (churn = 0) are spread evenly over   *)
(* each group: the loads of two of its usable proxies never differ by more *)
(* than one.  Across groups the code promises nothing, for the first one   *)
(* with a usable proxy is taken.                                           *)
(***************************************************************************)
Balanced ==
  churn = 0 => \A g \in Groups : \A p, q \in Usable(g) : Load(p) <= Load(q) + 1

(***************************************************************************)
(* Whatever a race, a failure or a change of subscription leaves behind in *)
(* memory, the next syncs repair it: again and again the index holds       *)
(* exactly the rows of every group that is enabled.                        *)
(***************************************************************************)
IndexHeals ==
  []<>(\A p \in Proxies : GroupOf[p] \in Enabled =>
         entry[p] = IF InRow(p) THEN row[p] ELSE "absent")

(***************************************************************************)
(* No account stays unbound in the database while a linked group has a     *)
(* usable proxy and one (not necessarily the same) is synced.              *)
(***************************************************************************)
EveryAccountBinds ==
  \A a \in Accounts : 
    []<>(bound[a] # NoProxy \/ linked \cap Enabled = {} \/ \A g \in linked : Usable(g) = {})

-----------------------------------------------------------------------------
(* A claim of the repository that the code does not keep.                   *)

\* pools.rs: what the hot path reads in memory is synchronised with SQLite.  When nothing
\* is under way, an account bound in the database has the same proxy in memory.
BindingMirrored ==
  AtRest => \A a \in Accounts : bound[a] # NoProxy => slot[a] = bound[a]
=============================================================================
