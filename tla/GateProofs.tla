----------------------------- MODULE GateProofs -----------------------------
(***************************************************************************)
(* Theorems about the token gate, for any number of tokens, platforms,     *)
(* requests, administrators' edits and restarts.                           *)
(***************************************************************************)
EXTENDS TokenGate, Counting

\* The initial tables and semaphores are well-typed.
LEMMA InitType == Init => TypeOK
BY GateAssumption
DEF Init, TypeOK, Semaphore, NewSemaphore, Request, New, Edit, NoEdit

\* A step that touches only semaphores and requests keeps the types if those two do.
LEMMA RequestFrame ==
  ASSUME TypeOK, UNCHANGED <<tables, edit, server, bounds, history>>,
         permit' \in [Platforms -> Semaphore], req' \in [Requests -> Request]
  PROVE  TypeOK'
BY DEF TypeOK, tables, bounds, history

\* Steps of a request keep the types.
LEMMA RequestType ==
  ASSUME TypeOK, NEW r \in Requests,
         RequestStep(r) \/ Abandon(r) \/ \E t \in Tokens : Authenticate(r, t)
  PROVE  TypeOK'
<1> USE GateAssumption DEF Request, Checking, Past
<1>0. /\ permit \in [Platforms -> Semaphore] /\ req \in [Requests -> Request]
      /\ limit \in [Platforms -> Int] /\ ReqPlatform[r] \in Platforms
  BY DEF TypeOK
<1>1. Gone \in Request
  BY DEF Gone
<1>2. UNCHANGED permit => permit' \in [Platforms -> Semaphore]
  BY <1>0
<1>3. Leaves(r) => req' \in [Requests -> Request]
  BY <1>0, <1>1 DEF Leaves
<1>4. ASSUME NEW t \in Tokens, Authenticate(r, t) PROVE TypeOK'
  <2>1. req' \in [Requests -> Request]
    BY <1>4, <1>0, <1>1 DEF Authenticate
  <2> QED BY <1>4, <2>1, <1>2, RequestFrame DEF Authenticate
<1>5. CASE LookUpPlatform(r)
  <2>1. req' \in [Requests -> Request]
    BY <1>5, <1>0, <1>3 DEF LookUpPlatform
  <2> QED BY <1>5, <2>1, <1>2, RequestFrame DEF LookUpPlatform
<1>6. CASE Pass(r)
  <2>1. permit' \in [Platforms -> Semaphore]
    <3>1. NewSemaphore(req[r].max) \in Semaphore
      BY <1>0 DEF NewSemaphore, Semaphore
    <3> QED BY <1>6, <1>0, <3>1 DEF Pass, Ensure
  <2>2. req' \in [Requests -> Request]
    BY <1>6, <1>0 DEF Pass
  <2> QED BY <1>6, <2>1, <2>2, RequestFrame DEF Pass
<1>7. CASE TurnAway(r)
  BY <1>7, <1>2, <1>3, RequestFrame DEF TurnAway
<1>8. CASE Enter(r)
  <2> DEFINE s == permit[ReqPlatform[r]]
  <2>1. s \in Semaphore /\ s.free > 0
    BY <1>8, <1>0 DEF Enter
  <2>2. [s EXCEPT !.free = @ - 1] \in Semaphore
    BY <2>1 DEF Semaphore
  <2>3. permit' \in [Platforms -> Semaphore] /\ req' \in [Requests -> Request]
    BY <1>8, <1>0, <2>2 DEF Enter
  <2> QED BY <1>8, <2>3, RequestFrame DEF Enter
<1>9. CASE Return(r)
  <2> DEFINE s == permit[ReqPlatform[r]]
  <2>1. s \in Semaphore
    BY <1>0
  <2>2. [s EXCEPT !.free = @ + 1] \in Semaphore
    BY <2>1 DEF Semaphore
  <2>3. permit' \in [Platforms -> Semaphore] /\ req' \in [Requests -> Request]
    BY <1>9, <1>0, <1>3, <2>2 DEF Return
  <2> QED BY <1>9, <2>3, RequestFrame DEF Return
<1>10. CASE Abandon(r)
  BY <1>10, <1>2, <1>3, RequestFrame DEF Abandon
<1> QED BY <1>4, <1>5, <1>6, <1>7, <1>8, <1>9, <1>10 DEF RequestStep

\* Steps of administrators' edits keep the types; a token that gets a platform exists.
LEMMA EditType ==
  ASSUME TypeOK, (\E e \in Editors : EditStep(e)) \/ AdminStarts
  PROVE  TypeOK'
<1> USE GateAssumption DEF Edit, NoEdit, Editing, Operation
<1>1. ASSUME NEW e \in Editors, NEW pl \in Platforms, InsertRight(e, pl) PROVE TypeOK'
  BY <1>1 DEF InsertRight, TypeOK, bounds, history
<1>2. ASSUME NEW e \in Editors, InsertRefused(e) PROVE TypeOK'
  <2>1. edit \in [Editors -> Edit] /\ wish \in [Tokens -> [set : SUBSET Platforms, exact : BOOLEAN]]
    BY DEF TypeOK
  <2>2. edit' \in [Editors -> Edit]
    BY <1>2, <2>1 DEF InsertRefused
  <2>3. wish' \in [Tokens -> [set : SUBSET Platforms, exact : BOOLEAN]]
    BY <1>2, <2>1 DEF InsertRefused
  <2> QED BY <1>2, <2>2, <2>3 DEF InsertRefused, TypeOK, tables, bounds
<1>3. ASSUME NEW e \in Editors, NEW t \in Tokens, NEW S \in SUBSET Platforms,
             CreateToken(e, t, S)
      PROVE TypeOK'
  BY <1>3 DEF CreateToken, TypeOK
<1>4. ASSUME NEW e \in Editors, NEW t \in Tokens, NEW S \in SUBSET Platforms,
             PatchToken(e, t, S)
      PROVE TypeOK'
  BY <1>4 DEF PatchToken, TypeOK, EditorsOf
<1>5. ASSUME NEW e \in Editors, EditFails(e) PROVE TypeOK'
  <2>1. edit \in [Editors -> Edit] /\ wish \in [Tokens -> [set : SUBSET Platforms, exact : BOOLEAN]]
    BY DEF TypeOK
  <2>2. edit' \in [Editors -> Edit]
    BY <1>5, <2>1 DEF EditFails
  <2>3. wish' \in [Tokens -> [set : SUBSET Platforms, exact : BOOLEAN]]
    BY <1>5, <2>1 DEF EditFails
  <2>4. edits' \in 0 .. MaxEdits
    BY <1>5 DEF EditFails, TypeOK
  <2> QED BY <1>5, <2>2, <2>3, <2>4 DEF EditFails, TypeOK, tables
<1>6. ASSUME NEW t \in Tokens, DeleteToken(t) PROVE TypeOK'
  BY <1>6 DEF DeleteToken, TypeOK
<1>7. ASSUME NEW pl \in Tuned, SwitchPlatform(pl) PROVE TypeOK'
  BY <1>7 DEF SwitchPlatform, TypeOK, history
<1>8. ASSUME NEW pl \in Tuned, NEW n \in Limits, PatchLimit(pl, n) PROVE TypeOK'
  <2>1. n \in Int /\ pl \in Platforms
    OBVIOUS
  <2>2. permit' \in [Platforms -> Semaphore]
    <3>1. NewSemaphore(n) \in Semaphore
      BY <2>1 DEF NewSemaphore, Semaphore
    <3> QED BY <1>8, <3>1 DEF PatchLimit, Ensure, TypeOK
  <2>3. limit' \in [Platforms -> Int] /\ edits' \in 0 .. MaxEdits
    BY <1>8, <2>1 DEF PatchLimit, TypeOK
  <2> QED BY <1>8, <2>2, <2>3 DEF PatchLimit, TypeOK, history
<1> QED BY <1>1, <1>2, <1>3, <1>4, <1>5, <1>6, <1>7, <1>8 DEF EditStep, AdminStarts

\* A restart keeps the types: whatever the limit, a semaphore has at least one permit.
LEMMA RestartType ==
  ASSUME TypeOK, Restart
  PROVE  TypeOK'
<1>1. \A pl \in Platforms : NewSemaphore(limit[pl]) \in Semaphore
  BY DEF TypeOK, NewSemaphore, Semaphore
<1>2. permit' \in [Platforms -> Semaphore]
  BY <1>1 DEF Restart
<1>3. req' \in [Requests -> Request]
  BY DEF Restart, Request, New, Gone
<1>4. edit' \in [Editors -> Edit]
  BY DEF Restart, Edit, NoEdit
<1>5. wish' \in [Tokens -> [set : SUBSET Platforms, exact : BOOLEAN]]
  <2>1. ASSUME NEW t \in Tokens
        PROVE  [wish[t] EXCEPT !.exact = @ /\ EditorsOf(t) = {}] \in [set : SUBSET Platforms, exact : BOOLEAN]
    BY DEF TypeOK
  <2> QED BY <2>1 DEF Restart
<1>6. /\ server' \in {"up", "down"} /\ restarts' \in 0 .. MaxRestarts
      /\ booted' \in [Platforms -> Int]
  BY GateAssumption DEF Restart, TypeOK
<1>7. UNCHANGED <<token, rights, enabled, limit, edits>>
  BY DEF Restart, tables
<1> QED BY <1>2, <1>3, <1>4, <1>5, <1>6, <1>7 DEF TypeOK

\* Types, and the foreign key of token_platforms.
THEOREM GateTypeCorrect == Spec => []TypeOK
<1>1. ASSUME TypeOK, UNCHANGED vars PROVE TypeOK'
  BY <1>1 DEF TypeOK, vars, tables, bounds, history
<1>2. TypeOK /\ [Next]_vars => TypeOK'
  BY <1>1, RequestType, EditType, RestartType DEF Next
<1> QED BY InitType, <1>2, PTL DEF Spec

-----------------------------------------------------------------------------
(* Deleting a token is final.  The foreign key carries the argument: a      *)
(* request passes the gate only with a right its token has, and a token     *)
(* that has one exists.                                                     *)

\* The statement of DeletionIsFinal for one request.
PassesAlive(r) ==
  req[r].at \notin Past /\ req'[r].at \in Past => token[req'[r].token] # "deleted"

\* A request the gate is checking carries the token it was authenticated with.
Identified == \A r \in Requests : req[r].at \in Checking => req[r].token \in Tokens

\* A request under check has one of the tokens issued.
LEMMA RequestsIdentified == Spec => []Identified
<1> USE DEF Identified, Checking
<1>1. Init => Identified
  BY DEF Init, New
<1>2. ASSUME TypeOK, Identified, [Next]_vars PROVE Identified'
  <2>1. req \in [Requests -> Request]
    BY <1>2 DEF TypeOK
  <2>2. CASE UNCHANGED req
    BY <2>2, <1>2
  <2>3. ASSUME NEW r \in Requests, RequestStep(r) \/ Abandon(r) PROVE Identified'
    <3>1. Leaves(r) => Identified'
      BY <2>1, <1>2 DEF Leaves, Gone
    <3>2. LookUpPlatform(r) => Identified'
      <4>1. CASE Leaves(r)
        BY <4>1, <3>1
      <4>2. ASSUME LookUpPlatform(r), ~Leaves(r)
            PROVE  /\ req[r].at \in Checking /\ req'[r].token = req[r].token
                   /\ \A q \in Requests : q # r => req'[q] = req[q]
        BY <4>2, <2>1 DEF LookUpPlatform
      <4> QED BY <4>1, <4>2, <1>2
    <3>3. Pass(r) \/ Enter(r) => Identified'
      <4>1. ASSUME Pass(r) \/ Enter(r)
            PROVE  /\ req'[r].at \notin Checking
                   /\ \A q \in Requests : q # r => req'[q] = req[q]
        <5>1. CASE Pass(r)
          BY <5>1, <2>1 DEF Pass
        <5>2. CASE Enter(r)
          BY <5>2, <2>1 DEF Enter, Request
        <5> QED BY <4>1, <5>1, <5>2
      <4> QED BY <4>1, <1>2
    <3> QED BY <2>3, <3>1, <3>2, <3>3 DEF RequestStep, TurnAway, Return, Abandon
  <2>4. ASSUME NEW r \in Requests, NEW t \in Tokens, Authenticate(r, t) PROVE Identified'
    BY <2>4, <2>1, <1>2 DEF Authenticate, Gone
  <2>5. CASE (\E e \in Editors : EditStep(e)) \/ AdminStarts
    BY <2>5, <2>2 DEF EditStep, InsertRight, InsertRefused, AdminStarts, CreateToken, PatchToken,
       EditFails, DeleteToken, SwitchPlatform, PatchLimit
  <2>6. CASE Restart
    BY <2>6 DEF Restart, New, Gone
  <2>7. CASE UNCHANGED vars
    BY <2>7, <2>2 DEF vars
  <2> QED BY <1>2, <2>3, <2>4, <2>5, <2>6, <2>7 DEF Next
<1> QED BY <1>1, <1>2, GateTypeCorrect, PTL DEF Spec

\* The property DeletionIsFinal: no request passes the gate with a token already deleted.
THEOREM DeletionFinal == Spec => DeletionIsFinal
<1>1. ASSUME TypeOK, Identified, [Next]_vars, NEW r \in Requests PROVE PassesAlive(r)
  <2> USE DEF PassesAlive, Past
  <2>1. req \in [Requests -> Request]
    BY <1>1 DEF TypeOK
  <2>2. CASE req'[r] = req[r] \/ req'[r] = Gone \/ req'[r] = New
    BY <2>2 DEF Gone, New
  <2>3. ASSUME NEW q \in Requests, RequestStep(q) \/ Abandon(q) \/ \E t \in Tokens : Authenticate(q, t),
               q # r
        PROVE  req'[r] = req[r]
    BY <2>3, <2>1 DEF RequestStep, LookUpPlatform, Pass, TurnAway, Enter, Return, Abandon,
       Authenticate, Leaves
  <2>4. CASE LookUpPlatform(r) \/ TurnAway(r) \/ Enter(r) \/ Return(r) \/ Abandon(r)
    BY <2>4, <2>1, <1>1
       DEF LookUpPlatform, TurnAway, Enter, Return, Abandon, Leaves, Gone, Request
  <2>5. ASSUME NEW t \in Tokens, Authenticate(r, t) PROVE PassesAlive(r)
    BY <2>5, <2>1, <1>1 DEF Authenticate, Gone
  <2>6. CASE Pass(r)
    <3>1. req'[r].token = req[r].token
      BY <2>6, <2>1 DEF Pass
    <3>2. req[r].token \in Tokens /\ rights[req[r].token] # {}
      BY <2>6, <1>1 DEF Pass, Identified, Checking
    <3> QED BY <3>1, <3>2, <1>1 DEF TypeOK
  <2>7. CASE (\E e \in Editors : EditStep(e)) \/ AdminStarts
    BY <2>7, <2>2 DEF EditStep, InsertRight, InsertRefused, AdminStarts, CreateToken, PatchToken,
       EditFails, DeleteToken, SwitchPlatform, PatchLimit
  <2>8. CASE Restart
    BY <2>8, <2>2 DEF Restart
  <2>9. CASE UNCHANGED vars
    BY <2>9, <2>2 DEF vars
  <2> QED BY <1>1, <2>2, <2>3, <2>4, <2>5, <2>6, <2>7, <2>8, <2>9 DEF Next, RequestStep
<1>2. TypeOK /\ Identified /\ [Next]_vars => [\A r \in Requests :
       req[r].at \notin Past /\ req'[r].at \in Past => token[req'[r].token] # "deleted"]_vars
  BY <1>1 DEF PassesAlive
<1> QED BY GateTypeCorrect, RequestsIdentified, <1>2, PTL DEF Spec, DeletionIsFinal

-----------------------------------------------------------------------------
(* Rights.  What an edit has still to insert belongs to the wish of its     *)
(* token, as long as that token exists; and an exact wish is complete once  *)
(* the edits under way have finished.                                       *)

RightsOf(t) ==
  /\ rights[t] \subseteq wish[t].set
  /\ \A e \in EditorsOf(t) : token[t] = "active" => edit[e].todo \subseteq wish[t].set
  /\ wish[t].exact => \A pl \in wish[t].set \ rights[t] : \E e \in EditorsOf(t) : pl \in edit[e].todo
  /\ token[t] = "unused" => EditorsOf(t) = {}

RightsInv == \A t \in Tokens : RightsOf(t)

\* The invariant gives the property RightsAsAsked.
LEMMA RightsFollow == TypeOK /\ RightsInv => RightsAsAsked
BY DEF RightsInv, RightsOf, RightsAsAsked, TypeOK

\* Nothing but what concerns the token can disturb its invariant.
LEMMA RightsFrame ==
  ASSUME NEW t, RightsOf(t), EditorsOf(t)' = EditorsOf(t),
         \A e \in EditorsOf(t) : edit'[e] = edit[e],
         token'[t] = token[t], rights'[t] = rights[t], wish'[t] = wish[t]
  PROVE  RightsOf(t)'
BY DEF RightsOf

\* Each step keeps the invariant of every token.
LEMMA RightsStep ==
  ASSUME TypeOK, RightsInv, [Next]_vars, NEW u \in Tokens
  PROVE  RightsOf(u)'
<1>0. /\ edit \in [Editors -> Edit] /\ rights \in [Tokens -> SUBSET Platforms]
      /\ wish \in [Tokens -> [set : SUBSET Platforms, exact : BOOLEAN]]
      /\ token \in [Tokens -> {"unused", "active", "deleted"}]
      /\ \A t \in Tokens : rights[t] # {} => token[t] = "active"
      /\ RightsOf(u) /\ "none" \notin Tokens
  BY GateAssumption DEF TypeOK, RightsInv
<1>1. ASSUME NEW e \in Editors, NEW pl \in Platforms, InsertRight(e, pl) PROVE RightsOf(u)'
  <2> DEFINE t == edit[e].token
  <2>1. /\ pl \in edit[e].todo /\ token[t] = "active"
        /\ rights' = [rights EXCEPT ![t] = @ \cup {pl}]
        /\ edit' = [edit EXCEPT ![e] = Editing(t, edit[e].todo \ {pl})]
        /\ token' = token /\ wish' = wish
    BY <1>1, <1>0 DEF InsertRight, history
  <2>2. \A f \in Editors : f # e => edit'[f] = edit[f]
    BY <2>1, <1>0
  <2>3. edit'[e] = NoEdit \/ edit'[e] = [token |-> t, todo |-> edit[e].todo \ {pl}]
    BY <2>1, <1>0 DEF Editing
  <2>4. edit[e].todo = {pl} \/ edit'[e] = [token |-> t, todo |-> edit[e].todo \ {pl}]
    BY <2>1, <1>0 DEF Editing
  <2>5. CASE u # t
    <3>1. EditorsOf(u)' = EditorsOf(u)
      BY <2>2, <2>3, <2>5, <1>0 DEF EditorsOf, NoEdit
    <3> QED BY <3>1, <2>1, <2>2, <2>5, <1>0, RightsFrame DEF EditorsOf
  <2>6. CASE u = t
    <3>1. \A f \in Editors : /\ edit'[f].todo \subseteq edit[f].todo
                             /\ f \in EditorsOf(u)' => f \in EditorsOf(u)
      BY <2>2, <2>3, <2>6, <1>0 DEF EditorsOf, NoEdit
    <3>2. \A f \in EditorsOf(u) : \A q \in edit[f].todo \ {pl} :
            f \in EditorsOf(u)' /\ q \in edit'[f].todo
      BY <2>2, <2>4, <2>6, <1>0 DEF EditorsOf
    <3>3. e \in EditorsOf(u)
      BY <2>6 DEF EditorsOf
    <3>4. EditorsOf(u) \subseteq Editors /\ EditorsOf(u)' \subseteq Editors
      BY DEF EditorsOf
    <3>5. rights'[u] = rights[u] \cup {pl}
      BY <2>1, <2>6, <1>0
    <3>6. pl \in wish[u].set /\ wish'[u] = wish[u] /\ token'[u] = "active"
      BY <3>3, <2>1, <2>6, <1>0 DEF RightsOf
    <3>7. /\ rights'[u] \subseteq wish'[u].set
          /\ \A f \in EditorsOf(u)' : edit'[f].todo \subseteq wish'[u].set
      <4>1. \A f \in EditorsOf(u) : edit[f].todo \subseteq wish[u].set
        BY <2>1, <2>6, <1>0 DEF RightsOf
      <4>2. ASSUME NEW f \in EditorsOf(u)' PROVE edit'[f].todo \subseteq wish[u].set
        <5>1. f \in Editors
          BY <3>4
        <5>2. edit'[f].todo \subseteq edit[f].todo
          BY <5>1, <3>1
        <5>3. f \in EditorsOf(u)
          BY <5>1, <3>1, <4>2
        <5> QED BY <5>2, <5>3, <4>1
      <4> QED BY <4>2, <3>5, <3>6, <1>0 DEF RightsOf
    <3>8. ASSUME wish'[u].exact, NEW q \in wish'[u].set \ rights'[u]
          PROVE  \E f \in EditorsOf(u)' : q \in edit'[f].todo
      <4>1. q \in wish[u].set \ rights[u] /\ q # pl /\ wish[u].exact
        BY <3>8, <3>5, <3>6
      <4>2. PICK f \in EditorsOf(u) : q \in edit[f].todo
        BY <4>1, <1>0 DEF RightsOf
      <4> QED BY <4>1, <4>2, <3>2
    <3> QED BY <3>6, <3>7, <3>8 DEF RightsOf
  <2> QED BY <2>5, <2>6
<1>2. ASSUME NEW e \in Editors, InsertRefused(e) \/ EditFails(e) PROVE RightsOf(u)'
  <2> DEFINE t == edit[e].token
  <2>1. /\ edit' = [edit EXCEPT ![e] = NoEdit] /\ wish' = [wish EXCEPT ![t].exact = FALSE]
        /\ token' = token /\ rights' = rights
    BY <1>2 DEF InsertRefused, EditFails, tables
  <2>2. EditorsOf(u)' \subseteq EditorsOf(u) /\ \A f \in EditorsOf(u)' : edit'[f] = edit[f]
    BY <2>1, <1>0 DEF EditorsOf, NoEdit
  <2>3. CASE u # t
    <3>1. EditorsOf(u)' = EditorsOf(u)
      BY <2>1, <2>3, <1>0 DEF EditorsOf, NoEdit
    <3> QED BY <3>1, <2>1, <2>2, <2>3, <1>0, RightsFrame
  <2>4. CASE u = t
    <3>1. wish'[u].exact = FALSE /\ wish'[u].set = wish[u].set
      BY <2>1, <2>4, <1>0
    <3> QED BY <3>1, <2>1, <2>2, <1>0 DEF RightsOf
  <2> QED BY <2>3, <2>4
<1>3. ASSUME NEW e \in Editors, NEW t \in Tokens, NEW S \in SUBSET Platforms, CreateToken(e, t, S)
      PROVE RightsOf(u)'
  <2>1. /\ token[t] = "unused" /\ token' = [token EXCEPT ![t] = "active"] /\ rights' = rights
        /\ edit' = [edit EXCEPT ![e] = Editing(t, S)] /\ edit[e].token = "none"
        /\ wish' = [wish EXCEPT ![t] = [set |-> S, exact |-> TRUE]]
    BY <1>3 DEF CreateToken, Busy
  <2>2. edit'[e] = Editing(t, S) /\ \A f \in Editors : f # e => edit'[f] = edit[f]
    BY <2>1, <1>0
  <2>3. CASE u # t
    <3>1. EditorsOf(u)' = EditorsOf(u) /\ e \notin EditorsOf(u)
      BY <2>1, <2>2, <2>3, <1>0 DEF EditorsOf, Editing, NoEdit
    <3> QED BY <3>1, <2>1, <2>2, <2>3, <1>0, RightsFrame DEF EditorsOf
  <2>4. CASE u = t
    <3>1. EditorsOf(u) = {} /\ rights[u] = {}
      BY <2>1, <2>4, <1>0 DEF RightsOf
    <3>2. EditorsOf(u)' \subseteq {e} /\ (S # {} => e \in EditorsOf(u)' /\ edit'[e].todo = S)
      BY <3>1, <2>2, <2>4, <1>0 DEF EditorsOf, Editing
    <3>3. edit'[e].todo = S
      BY <2>2 DEF Editing, NoEdit
    <3> QED BY <3>1, <3>2, <3>3, <2>1, <2>4, <1>0 DEF RightsOf
  <2> QED BY <2>3, <2>4
<1>4. ASSUME NEW e \in Editors, NEW t \in Tokens, NEW S \in SUBSET Platforms, PatchToken(e, t, S)
      PROVE RightsOf(u)'
  <2> DEFINE others == UNION {edit[f].todo : f \in EditorsOf(t)}
  <2>1. /\ token[t] # "unused" /\ token' = token /\ rights' = [rights EXCEPT ![t] = {}]
        /\ edit' = [edit EXCEPT ![e] = Editing(t, S)] /\ edit[e].token = "none"
        /\ wish' = [wish EXCEPT ![t] = [set |-> S \cup others, exact |-> EditorsOf(t) = {}]]
    BY <1>4 DEF PatchToken, Busy
  <2>2. edit'[e] = Editing(t, S) /\ \A f \in Editors : f # e => edit'[f] = edit[f]
    BY <2>1, <1>0
  <2>3. CASE u # t
    <3>1. EditorsOf(u)' = EditorsOf(u) /\ e \notin EditorsOf(u)
      BY <2>1, <2>2, <2>3, <1>0 DEF EditorsOf, Editing, NoEdit
    <3> QED BY <3>1, <2>1, <2>2, <2>3, <1>0, RightsFrame DEF EditorsOf
  <2>4. CASE u = t
    <3>1. /\ wish'[u].set = S \cup others /\ wish'[u].exact = (EditorsOf(t) = {})
          /\ rights'[u] = {} /\ token'[u] # "unused"
      BY <2>1, <2>4, <1>0
    <3>2. EditorsOf(u)' \subseteq EditorsOf(t) \cup {e}
      BY <2>2, <2>4 DEF EditorsOf
    <3>3. S # {} => e \in EditorsOf(u)'
      BY <2>2, <2>4 DEF EditorsOf, Editing
    <3>4. edit'[e].todo = S
      BY <2>2 DEF Editing, NoEdit
    <3>5. \A f \in EditorsOf(t) : edit'[f].todo \subseteq others \cup S
      BY <2>2, <3>4 DEF EditorsOf
    <3>6. EditorsOf(t) = {} => others = {}
      OBVIOUS
    <3> HIDE DEF others
    <3> QED BY <3>1, <3>2, <3>3, <3>4, <3>5, <3>6 DEF RightsOf
  <2> QED BY <2>3, <2>4
<1>5. ASSUME NEW t \in Tokens, DeleteToken(t) PROVE RightsOf(u)'
  <2>1. EditorsOf(u)' = EditorsOf(u) /\ edit' = edit
    BY <1>5 DEF DeleteToken, EditorsOf
  <2> QED BY <1>5, <2>1, <1>0 DEF DeleteToken, RightsOf
<1>6. CASE Restart
  <2>1. EditorsOf(u)' = {} /\ token' = token /\ rights' = rights
    BY <1>6, <1>0 DEF Restart, EditorsOf, NoEdit, tables
  <2>2. wish'[u].set = wish[u].set /\ (wish'[u].exact => wish[u].exact /\ EditorsOf(u) = {})
    BY <1>6, <1>0 DEF Restart
  <2> QED BY <2>1, <2>2, <1>0 DEF RightsOf
<1>7. CASE UNCHANGED <<token, rights, wish, edit>>
  BY <1>7, <1>0 DEF RightsOf, EditorsOf
<1>8. ASSUME NEW pl, SwitchPlatform(pl) \/ \E n \in Limits : PatchLimit(pl, n) PROVE RightsOf(u)'
  BY <1>8, <1>7 DEF SwitchPlatform, PatchLimit, history
<1>9. ASSUME NEW r \in Requests, RequestStep(r) \/ Abandon(r) \/ \E t \in Tokens : Authenticate(r, t)
      PROVE RightsOf(u)'
  BY <1>9, <1>7 DEF RequestStep, LookUpPlatform, Pass, TurnAway, Enter, Return, Abandon,
     Authenticate, tables, history
<1>10. CASE UNCHANGED vars
  BY <1>10, <1>7 DEF vars, tables, history
<1> QED BY <1>1, <1>2, <1>3, <1>4, <1>5, <1>6, <1>8, <1>9, <1>10 DEF Next, EditStep, AdminStarts

\* The property RightsAsAsked: overlapping edits never give a token more than was asked for.
THEOREM RightsKept == Spec => []RightsAsAsked
<1>1. Init => RightsInv
  BY GateAssumption DEF Init, RightsInv, RightsOf, EditorsOf, NoEdit
<1>2. TypeOK /\ RightsInv /\ [Next]_vars => RightsInv'
  BY RightsStep DEF RightsInv
<1> QED BY <1>1, <1>2, RightsFollow, GateTypeCorrect, PTL DEF Spec

-----------------------------------------------------------------------------
(* Permits.  ensure_platform_permit never replaces a semaphore, so the one  *)
(* built at the start counts the requests that go in and come out.          *)

\* The statement of PermitsMatch for one platform.
PermitsOf(pl) ==
  /\ permit[pl].size = IF booted[pl] < 1 THEN 1 ELSE booted[pl]
  /\ permit[pl].free + Cardinality(Inside(pl)) = permit[pl].size

\* What leaves a platform's semaphore and the requests inside alone keeps the balance.
LEMMA PermitsFrame ==
  ASSUME NEW pl, PermitsOf(pl), permit'[pl] = permit[pl], booted'[pl] = booted[pl],
         Inside(pl)' = Inside(pl)
  PROVE  PermitsOf(pl)'
BY DEF PermitsOf

\* A semaphore that was built is kept.
LEMMA EnsureKeeps ==
  ASSUME TypeOK, PermitsMatch, NEW p \in Platforms, NEW n, Ensure(p, n)
  PROVE  permit' = permit
BY DEF Ensure, PermitsMatch, TypeOK

\* A step of request r moves only r, in or out of its platform.
LEMMA InsideMoves ==
  ASSUME TypeOK, NEW r \in Requests, NEW pl \in Platforms,
         \A q \in Requests : q # r => req'[q] = req[q]
  PROVE  /\ IsFiniteSet(Inside(pl)) /\ Cardinality(Inside(pl)) \in Nat
         /\ Cardinality(Inside(pl))' \in Nat
         /\ Cardinality(Inside(pl))' =
              Cardinality(Inside(pl)) - One(r \in Inside(pl)) + One(r \in Inside(pl)')
<1>1. IsFiniteSet(Inside(pl))
  BY GateAssumption, FS_Subset DEF Inside
<1>2. Inside(pl)' \ {r} = Inside(pl) \ {r}
  BY DEF Inside
<1> QED BY <1>1, <1>2, CountMoves

\* Each step keeps the semaphore of every platform in balance.
LEMMA PermitsStep ==
  ASSUME TypeOK, PermitsMatch, [Next]_vars, NEW pl \in Platforms
  PROVE  PermitsOf(pl)'
<1>0. /\ permit \in [Platforms -> Semaphore] /\ req \in [Requests -> Request]
      /\ booted \in [Platforms -> Int] /\ limit \in [Platforms -> Int]
      /\ ReqPlatform \in [Requests -> Platforms] /\ PermitsOf(pl)
  BY GateAssumption DEF TypeOK, PermitsMatch, PermitsOf
<1>1. CASE UNCHANGED <<permit, booted, req>>
  <2>1. Inside(pl)' = Inside(pl)
    BY <1>1 DEF Inside
  <2> QED BY <1>1, <2>1, <1>0, PermitsFrame
<1>2. ASSUME NEW r \in Requests, UNCHANGED <<permit, booted>>,
             req[r].at # "inside", req'[r].at # "inside", \A q \in Requests : q # r => req'[q] = req[q]
      PROVE  PermitsOf(pl)'
  <2>1. Inside(pl)' = Inside(pl)
    BY <1>2 DEF Inside
  <2> QED BY <1>2, <2>1, <1>0, PermitsFrame
<1>3. ASSUME NEW r \in Requests,
             LookUpPlatform(r) \/ TurnAway(r) \/ Abandon(r) \/ \E t \in Tokens : Authenticate(r, t)
      PROVE  PermitsOf(pl)'
  <2>1. UNCHANGED <<permit, booted>>
    BY <1>3 DEF LookUpPlatform, TurnAway, Abandon, Authenticate, history
  <2>2. req[r].at # "inside"
    BY <1>3 DEF LookUpPlatform, TurnAway, Abandon, Authenticate, Checking
  <2>3. req'[r].at # "inside" /\ \A q \in Requests : q # r => req'[q] = req[q]
    BY <1>3, <1>0 DEF LookUpPlatform, TurnAway, Abandon, Authenticate, Leaves, Gone
  <2> QED BY <2>1, <2>2, <2>3, <1>2
<1>4. ASSUME NEW r \in Requests, Pass(r) PROVE PermitsOf(pl)'
  <2>1. permit' = permit
    BY <1>4, <1>0, EnsureKeeps DEF Pass
  <2>2. req[r].at # "inside" /\ req'[r].at # "inside" /\ \A q \in Requests : q # r => req'[q] = req[q]
    BY <1>4, <1>0 DEF Pass
  <2> QED BY <1>4, <2>1, <2>2, <1>2 DEF Pass, history
<1>5. ASSUME NEW r \in Requests, Enter(r) PROVE PermitsOf(pl)'
  <2> DEFINE p == ReqPlatform[r]
  <2>1. /\ req[r].at = "inside" <=> FALSE
        /\ req'[r].at = "inside" /\ \A q \in Requests : q # r => req'[q] = req[q]
    BY <1>5, <1>0 DEF Enter, Request
  <2>2. r \notin Inside(pl) /\ (r \in Inside(pl)' <=> p = pl)
    BY <2>1 DEF Inside
  <2>3. /\ Cardinality(Inside(pl)) \in Nat /\ Cardinality(Inside(pl))' \in Nat
        /\ Cardinality(Inside(pl))' = Cardinality(Inside(pl)) + One(p = pl)
    BY <2>1, <2>2, InsideMoves DEF One
  <2>4. permit[pl].free \in Nat /\ permit[pl].size \in Nat
    BY <1>0 DEF Semaphore
  <2>5. /\ permit'[pl].size = permit[pl].size
        /\ permit'[pl].free = permit[pl].free - One(p = pl)
    BY <1>5, <1>0, <2>4 DEF Enter, Semaphore, One
  <2>6. booted' = booted
    BY <1>5 DEF Enter, history
  <2> QED BY <2>3, <2>4, <2>5, <2>6, <1>0 DEF PermitsOf, One
<1>6. ASSUME NEW r \in Requests, Return(r) PROVE PermitsOf(pl)'
  <2> DEFINE p == ReqPlatform[r]
  <2>1. /\ req[r].at = "inside"
        /\ req'[r].at # "inside" /\ \A q \in Requests : q # r => req'[q] = req[q]
    BY <1>6, <1>0 DEF Return, Leaves, Gone
  <2>2. r \notin Inside(pl)' /\ (r \in Inside(pl) <=> p = pl)
    BY <2>1 DEF Inside
  <2>3. /\ Cardinality(Inside(pl)) \in Nat /\ Cardinality(Inside(pl))' \in Nat
        /\ Cardinality(Inside(pl))' = Cardinality(Inside(pl)) - One(p = pl)
    BY <2>1, <2>2, InsideMoves DEF One
  <2>4. permit[pl].free \in Nat /\ permit[pl].size \in Nat
    BY <1>0 DEF Semaphore
  <2>5. /\ permit'[pl].size = permit[pl].size
        /\ permit'[pl].free = permit[pl].free + One(p = pl)
    BY <1>6, <1>0, <2>4 DEF Return, Semaphore, One
  <2>6. booted' = booted
    BY <1>6 DEF Return, history
  <2> QED BY <2>3, <2>4, <2>5, <2>6, <1>0 DEF PermitsOf, One
<1>7. ASSUME NEW p \in Tuned, NEW n \in Limits, PatchLimit(p, n) PROVE PermitsOf(pl)'
  <2>1. permit' = permit
    BY <1>7, GateAssumption, EnsureKeeps DEF PatchLimit
  <2> QED BY <1>7, <2>1, <1>1 DEF PatchLimit, history
<1>8. CASE (\E e \in Editors : EditStep(e)) \/ (AdminStarts /\ UNCHANGED <<permit, booted>>)
  BY <1>8, <1>1 DEF EditStep, InsertRight, InsertRefused, AdminStarts, CreateToken, PatchToken,
     EditFails, DeleteToken, SwitchPlatform, PatchLimit, history
<1>9. CASE AdminStarts
  <2>1. (\E p \in Tuned, n \in Limits : PatchLimit(p, n)) \/ UNCHANGED <<permit, booted>>
    BY <1>9 DEF AdminStarts, CreateToken, PatchToken, EditFails, DeleteToken, SwitchPlatform, history
  <2> QED BY <1>7, <1>8, <1>9, <2>1
<1>10. CASE Restart
  <2>1. Inside(pl)' = {}
    BY <1>10 DEF Restart, Inside, New, Gone
  <2>2. Cardinality(Inside(pl))' = 0
    BY <2>1, FS_EmptySet
  <2>3. permit'[pl] = NewSemaphore(limit[pl]) /\ booted'[pl] = limit[pl]
    BY <1>10 DEF Restart
  <2> QED BY <2>2, <2>3, <1>0 DEF NewSemaphore, PermitsOf
<1>11. CASE UNCHANGED vars
  BY <1>11, <1>1 DEF vars, history
<1> QED BY <1>3, <1>4, <1>5, <1>6, <1>8, <1>9, <1>10, <1>11 DEF Next, RequestStep

\* The property PermitsMatch: no change of a limit adds, loses or resizes a permit before
\* the next start.
THEOREM PermitsConserved == Spec => []PermitsMatch
<1>1. ASSUME Init PROVE PermitsMatch
  <2>1. \A pl \in Platforms : Inside(pl) = {}
    BY <1>1 DEF Init, Inside, New
  <2>2. \A pl \in Platforms : Cardinality(Inside(pl)) = 0
    BY <2>1, FS_EmptySet
  <2> QED BY <1>1, <2>2, GateAssumption DEF Init, PermitsMatch, NewSemaphore
<1>2. TypeOK /\ PermitsMatch /\ [Next]_vars => PermitsMatch'
  BY PermitsStep DEF PermitsMatch, PermitsOf
<1> QED BY <1>1, <1>2, GateTypeCorrect, PTL DEF Spec
=============================================================================
