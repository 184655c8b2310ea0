----------------------------- MODULE TokenGate -----------------------------
(***************************************************************************)
(* What stands between a caller and forward(): the middleware              *)
(* require_forward looks the token up, forward_handler looks the platform  *)
(* up, then the token's right to it, and the platform's semaphore admits   *)
(* the call.  These are four separate moments.  Meanwhile administrators   *)
(* create, edit and delete tokens statement by statement, outside of any   *)
(* transaction, and change platforms; and the process restarts, which is   *)
(* the only time the semaphores are built.                                 *)
(***************************************************************************)
EXTENDS Integers, FiniteSets

CONSTANTS
  Tokens, Platforms, Requests,
  ReqPlatform,     \* the platform in a request's path
  Editors,         \* administrators' requests on tokens that can run at once
  Issued,          \* tokens in the database at the start
  InitRights,      \* their platforms
  InitLimit,       \* platforms.max_concurrency at the start
  Limits,          \* values administrators set it to
  Tuned,           \* platforms they change in this instance
  MaxEdits,        \* bound on administrators' operations and their failures
  MaxRestarts      \* bound on restarts

VARIABLES
  token,      \* issued_tokens: the life of each id (ids are never reused)
  rights,     \* token_platforms, per token
  enabled,    \* platforms.enabled
  limit,      \* platforms.max_concurrency
  permit,     \* Pools.plat_permits: size and free permits of each semaphore
  req,        \* per request: where it stands, its token, and the max_concurrency it read
  edit,       \* create_token or patch_token under way, and the INSERTs it has still to do
  server,     \* "up", or "down" when startup panicked
  edits, restarts,
  wish,       \* history: what the edits of a token leave it with, and whether exactly that
  booted      \* history: platforms.max_concurrency at the last start

tables  == <<token, rights, enabled, limit>>
history == <<wish, booted>>
bounds  == <<edits, restarts>>
vars == <<tables, permit, req, edit, server, bounds, history>>

ASSUME GateAssumption ==
  /\ IsFiniteSet(Requests) /\ "none" \notin Tokens
  /\ ReqPlatform \in [Requests -> Platforms]
  /\ Issued \subseteq Tokens
  /\ InitRights \in [Tokens -> SUBSET Platforms]
  /\ \A t \in Tokens \ Issued : InitRights[t] = {}
  /\ InitLimit \in [Platforms -> Nat] /\ Limits \subseteq Int
  /\ Tuned \subseteq Platforms
  /\ MaxEdits \in Nat /\ MaxRestarts \in Nat

\* Positions of a request: past the gate it waits for the platform, then is in forward();
\* it is gone once it has been answered, refused or given up by its caller.
Checking == {"authenticated", "enabled"}
Past     == {"queued", "inside"}
Request  == [at : {"new", "gone"} \cup Checking \cup Past,
             token : Tokens \cup {"none"}, max : Int]
Edit     == [token : Tokens \cup {"none"}, todo : SUBSET Platforms]
Semaphore == [size : Nat, free : Nat]

New    == [at |-> "new", token |-> "none", max |-> 0]
Gone   == [at |-> "gone", token |-> "none", max |-> 0]
NoEdit == [token |-> "none", todo |-> {}]
\* The handler returns after its last INSERT.
Editing(t, S) == IF S = {} THEN NoEdit ELSE [token |-> t, todo |-> S]
Busy(e) == edit[e].token # "none"
EditorsOf(t) == {e \in Editors : edit[e].token = t}
Up == server = "up"

\* Mutant of NewSemaphore: the limit as it is.
NewSemaphoreAsIs(n) == [size |-> n, free |-> n]

\* Semaphore::new(max.max(1)); a negative limit, cast to usize, is more than it takes.
NewSemaphore(n) == LET size == IF n < 1 THEN 1 ELSE n IN [size |-> size, free |-> size]

Init ==
  /\ token = [t \in Tokens |-> IF t \in Issued THEN "active" ELSE "unused"]
  /\ rights = InitRights
  /\ enabled = [pl \in Platforms |-> TRUE]
  /\ limit = InitLimit
  /\ permit = [pl \in Platforms |-> NewSemaphore(InitLimit[pl])]
  /\ req = [r \in Requests |-> New]
  /\ edit = [e \in Editors |-> NoEdit]
  /\ server = "up"
  /\ edits = 0 /\ restarts = 0
  /\ wish = [t \in Tokens |-> [set |-> InitRights[t], exact |-> TRUE]]
  /\ booted = InitLimit

-----------------------------------------------------------------------------
(* A request.  A query that fails answers like a refusal.                   *)

Leaves(r) == req' = [req EXCEPT ![r] = Gone]

\* Mutant of Ensure: the semaphore is replaced when the limit has changed.
EnsureReplaces(pl, n) ==
  permit' = IF permit[pl].size = n THEN permit ELSE [permit EXCEPT ![pl] = NewSemaphore(n)]

\* ensure_platform_permit: startup has built the semaphore of every platform.
Ensure(pl, n) ==
  permit' = IF permit[pl].size > 0 THEN permit ELSE [permit EXCEPT ![pl] = NewSemaphore(n)]

\* require_forward.
Authenticate(r, t) ==
  /\ Up /\ req[r].at = "new"
  /\ req' = [req EXCEPT ![r] = IF token[t] = "active"
                                THEN [at |-> "authenticated", token |-> t, max |-> 0] ELSE Gone]
  /\ UNCHANGED <<tables, permit, edit, server, bounds, history>>

\* forward_handler, once the body has arrived.
LookUpPlatform(r) ==
  /\ req[r].at = "authenticated"
  /\ IF enabled[ReqPlatform[r]]
     THEN req' = [req EXCEPT ![r] = [at |-> "enabled", token |-> @.token,
                                     max |-> limit[ReqPlatform[r]]]]
     ELSE Leaves(r)
  /\ UNCHANGED <<tables, permit, edit, server, bounds, history>>

Pass(r) ==
  LET pl == ReqPlatform[r] IN
  /\ req[r].at = "enabled" /\ pl \in rights[req[r].token]
  /\ Ensure(pl, req[r].max)
  /\ req' = [req EXCEPT ![r] = [at |-> "queued", token |-> @.token, max |-> 0]]
  /\ UNCHANGED <<tables, edit, server, bounds, history>>

TurnAway(r) ==
  /\ req[r].at = "enabled" /\ ReqPlatform[r] \notin rights[req[r].token]
  /\ Leaves(r)
  /\ UNCHANGED <<tables, permit, edit, server, bounds, history>>

\* forward() takes a permit of the platform and gives it back on every way out.
Enter(r) ==
  LET pl == ReqPlatform[r] IN
  /\ req[r].at = "queued" /\ permit[pl].free > 0
  /\ permit' = [permit EXCEPT ![pl].free = @ - 1]
  /\ req' = [req EXCEPT ![r].at = "inside"]
  /\ UNCHANGED <<tables, edit, server, bounds, history>>

Return(r) ==
  /\ req[r].at = "inside"
  /\ permit' = [permit EXCEPT ![ReqPlatform[r]].free = @ + 1]
  /\ Leaves(r)
  /\ UNCHANGED <<tables, edit, server, bounds, history>>

\* The body does not arrive, a query fails, or the caller hangs up at an await.
Abandon(r) ==
  /\ req[r].at \in Checking \cup {"queued"}
  /\ Leaves(r)
  /\ UNCHANGED <<tables, permit, edit, server, bounds, history>>

-----------------------------------------------------------------------------
(* Administrators.                                                          *)

Operation == Up /\ edits < MaxEdits /\ edits' = edits + 1

\* create_token: the row, then the platforms one by one.
CreateToken(e, t, S) ==
  /\ Operation /\ ~Busy(e)
  /\ token[t] = "unused" /\ token' = [token EXCEPT ![t] = "active"]
  /\ edit' = [edit EXCEPT ![e] = Editing(t, S)]
  /\ wish' = [wish EXCEPT ![t] = [set |-> S, exact |-> TRUE]]
  /\ UNCHANGED <<rights, enabled, limit, permit, req, server, restarts, booted>>

\* Mutant of PatchToken: the new platforms are added to the old ones.
PatchTokenAdds(e, t, S) ==
  /\ Operation /\ ~Busy(e)
  /\ token[t] # "unused"
  /\ edit' = [edit EXCEPT ![e] = Editing(t, S)]
  /\ wish' = [wish EXCEPT ![t] =
       [set |-> S \cup UNION {edit[f].todo : f \in EditorsOf(t)}, exact |-> EditorsOf(t) = {}]]
  /\ UNCHANGED <<tables, permit, req, server, restarts, booted>>

\* patch_token: all platforms go, then the new ones are inserted one by one.  Edits of the
\* same token that are still inserting add to the result.
PatchToken(e, t, S) ==
  /\ Operation /\ ~Busy(e)
  /\ token[t] # "unused"
  /\ rights' = [rights EXCEPT ![t] = {}]
  /\ edit' = [edit EXCEPT ![e] = Editing(t, S)]
  /\ wish' = [wish EXCEPT ![t] =
       [set |-> S \cup UNION {edit[f].todo : f \in EditorsOf(t)}, exact |-> EditorsOf(t) = {}]]
  /\ UNCHANGED <<token, enabled, limit, permit, req, server, restarts, booted>>

\* Mutant of InsertRight: the foreign key is not enforced.
InsertRightOrphan(e, pl) ==
  LET t == edit[e].token IN
  /\ pl \in edit[e].todo
  /\ rights' = [rights EXCEPT ![t] = @ \cup {pl}]
  /\ edit' = [edit EXCEPT ![e] = Editing(t, @.todo \ {pl})]
  /\ UNCHANGED <<token, enabled, limit, permit, req, server, bounds, history>>

InsertRight(e, pl) ==
  LET t == edit[e].token IN
  /\ pl \in edit[e].todo /\ token[t] = "active"
  /\ rights' = [rights EXCEPT ![t] = @ \cup {pl}]
  /\ edit' = [edit EXCEPT ![e] = Editing(t, @.todo \ {pl})]
  /\ UNCHANGED <<token, enabled, limit, permit, req, server, bounds, history>>

\* The token is gone: the foreign key fails and `?` ends the handler.
InsertRefused(e) ==
  /\ Busy(e) /\ token[edit[e].token] # "active"
  /\ wish' = [wish EXCEPT ![edit[e].token].exact = FALSE]
  /\ edit' = [edit EXCEPT ![e] = NoEdit]
  /\ UNCHANGED <<tables, permit, req, server, bounds, booted>>

\* A slug that does not exist, another error, or the administrator hangs up: what has
\* been done stays.
EditFails(e) ==
  /\ Operation /\ Busy(e)
  /\ wish' = [wish EXCEPT ![edit[e].token].exact = FALSE]
  /\ edit' = [edit EXCEPT ![e] = NoEdit]
  /\ UNCHANGED <<tables, permit, req, server, restarts, booted>>

\* delete_token, with ON DELETE CASCADE on token_platforms.
DeleteToken(t) ==
  /\ Operation
  /\ token[t] = "active" /\ token' = [token EXCEPT ![t] = "deleted"]
  /\ rights' = [rights EXCEPT ![t] = {}]
  /\ wish' = [wish EXCEPT ![t] = [set |-> {}, exact |-> TRUE]]
  /\ UNCHANGED <<enabled, limit, permit, req, edit, server, restarts, booted>>

\* enable_platform, disable_platform.
SwitchPlatform(pl) ==
  /\ Operation
  /\ enabled' = [enabled EXCEPT ![pl] = ~@]
  /\ UNCHANGED <<token, rights, limit, permit, req, edit, server, restarts, history>>

\* patch_platform with a max_concurrency: any i32 is accepted.
PatchLimit(pl, n) ==
  /\ Operation
  /\ limit' = [limit EXCEPT ![pl] = n]
  /\ Ensure(pl, n)
  /\ UNCHANGED <<token, rights, enabled, req, edit, server, restarts, history>>

-----------------------------------------------------------------------------
(* The process dies and starts again.  What was under way is gone; main     *)
(* builds the semaphores, or panics on a limit Semaphore::new refuses.      *)
Restart ==
  /\ Up /\ restarts < MaxRestarts /\ restarts' = restarts + 1
  /\ req' = [r \in Requests |-> IF req[r].at = "new" THEN New ELSE Gone]
  /\ edit' = [e \in Editors |-> NoEdit]
  /\ wish' = [t \in Tokens |-> [wish[t] EXCEPT !.exact = @ /\ EditorsOf(t) = {}]]
  /\ server' = IF \A pl \in Platforms : limit[pl] >= 0 THEN "up" ELSE "down"
  /\ permit' = [pl \in Platforms |-> NewSemaphore(limit[pl])]
  /\ booted' = limit
  /\ UNCHANGED <<tables, edits>>

-----------------------------------------------------------------------------
RequestStep(r) == LookUpPlatform(r) \/ Pass(r) \/ TurnAway(r) \/ Enter(r) \/ Return(r)

EditStep(e) == (\E pl \in Platforms : InsertRight(e, pl)) \/ InsertRefused(e)

AdminStarts ==
  \/ \E e \in Editors, t \in Tokens, S \in SUBSET Platforms :
       CreateToken(e, t, S) \/ PatchToken(e, t, S)
  \/ \E e \in Editors : EditFails(e)
  \/ \E t \in Tokens : DeleteToken(t)
  \/ \E pl \in Tuned : SwitchPlatform(pl) \/ \E n \in Limits : PatchLimit(pl, n)

\* Nobody is in the middle of anything.
AtRest ==
  /\ \A r \in Requests : req[r] \in {New, Gone}
  /\ \A e \in Editors : ~Busy(e)

Next ==
  \/ \E r \in Requests :
       \/ \E t \in Tokens : Authenticate(r, t)
       \/ RequestStep(r) \/ Abandon(r)
  \/ \E e \in Editors : EditStep(e)
  \/ AdminStarts
  \/ Restart
  \/ AtRest /\ UNCHANGED vars

Spec == Init /\ [][Next]_vars
(* A request that can run is polled, SQLite answers, and forward() returns  *)
(* (Forward's EveryRequestEnds).  Administrators and callers owe nothing.   *)
FairSpec == Spec /\ \A r \in Requests : WF_vars(RequestStep(r))

-----------------------------------------------------------------------------
Inside(pl) == {r \in Requests : req[r].at = "inside" /\ ReqPlatform[r] = pl}

(* Types, and the foreign key of token_platforms: only tokens that exist    *)
(* have rights.                                                             *)
TypeOK ==
  /\ token \in [Tokens -> {"unused", "active", "deleted"}]
  /\ rights \in [Tokens -> SUBSET Platforms]
  /\ enabled \in [Platforms -> BOOLEAN] /\ limit \in [Platforms -> Int]
  /\ permit \in [Platforms -> Semaphore]
  /\ req \in [Requests -> Request]
  /\ edit \in [Editors -> Edit]
  /\ server \in {"up", "down"}
  /\ edits \in 0 .. MaxEdits /\ restarts \in 0 .. MaxRestarts
  /\ wish \in [Tokens -> [set : SUBSET Platforms, exact : BOOLEAN]]
  /\ booted \in [Platforms -> Int]
  /\ \A t \in Tokens : rights[t] # {} => token[t] = "active"

(***************************************************************************)
(* Deleting a token is final although the gate looks it up once and edits  *)
(* of its platforms may still be running: no request passes the gate with  *)
(* it any more, not even one that had been authenticated before and finds  *)
(* its rights only now.                                                    *)
(***************************************************************************)
DeletionIsFinal ==
  [][\A r \in Requests :
       req[r].at \notin Past /\ req'[r].at \in Past => token[req'[r].token] # "deleted"]_vars

(***************************************************************************)
(* Edits of a token made statement by statement never give it a platform   *)
(* none of them asked for, whatever they overlap with; and one that ran    *)
(* alone and did not fail leaves exactly the platforms it asked for.       *)
(***************************************************************************)
RightsAsAsked ==
  \A t \in Tokens :
    /\ rights[t] \subseteq wish[t].set
    /\ wish[t].exact /\ EditorsOf(t) = {} => rights[t] = wish[t].set

(***************************************************************************)
(* Whatever limits administrators set and requests bring along, a platform *)
(* works with the permits built at the last start: none is lost, none      *)
(* comes in addition, and the calls inside never exceed that limit.        *)
(***************************************************************************)
PermitsMatch ==
  \A pl \in Platforms :
    /\ permit[pl].size = IF booted[pl] < 1 THEN 1 ELSE booted[pl]
    /\ permit[pl].free + Cardinality(Inside(pl)) = permit[pl].size

(***************************************************************************)
(* Every request that arrived gets an answer, even on a platform that was  *)
(* started with a limit of zero.                                           *)
(***************************************************************************)
EveryRequestLeaves ==
  \A r \in Requests : req[r] # New ~> req[r] = Gone
=============================================================================
