------------------------ MODULE ManagementApi_proofs ------------------------
(***************************************************************************)
(* For any customers, pipelines, agents, updates and bounds, a handler     *)
(* acts within rights its caller held at one moment (ActsWithinRights).    *)
(* The inductive invariant says, stage by stage, which pair of role and    *)
(* scope is known to be held: before the grants are read it is the role    *)
(* read and whatever grants the table has now.  And DeleteAgent deletes no *)
(* agent that had been connected since the handler looked (LiveAgentKept), *)
(* a request is answered with a status that is listed (AnswersListed), and *)
(* one that is let through has a scope (TypeOK).                           *)
(***************************************************************************)
EXTENDS ManagementApi, TLAPS

Bodies ==
    [role : Roles \cup {None}, disabled : BOOLEAN \cup {None},
     grants : (SUBSET Customers) \cup {None}]

Requests ==
    [op : Operations, target : Customers \cup Pipelines \cup Agents \cup {None},
     cred : {"session"} \cup TokenRoles, stage : {"guard", "scope", "handle", "act"},
     role : Roles \cup {None}, scope : SUBSET All,
     held : SUBSET [role : Roles, scope : SUBSET All],
     overlap : Nat, orphan : BOOLEAN, blind : BOOLEAN, late : BOOLEAN]

\* The rows and the request have the shape the actions rely on, and an update
\* that is under way has been counted.
Shape ==
    /\ account \in AccountRows \cup {None}
    /\ update \in Bodies \cup {None}
    /\ update # None => account # None
    /\ Running => req \in Requests /\ (req.overlap = 0 => update = None)

\* The role has been read, the grants have not: with the grants of now it is
\* held, and no commit that changes them can come after one that changed it.
Scoping ==
    /\ req.role \in Roles \ {"admin"} /\ ~Forbidden(req.op, req.role)
    /\ account # None
    /\ [role |-> req.role, scope |-> ScopeOf(account.grants)] \in req.held
    /\ (req.overlap = 0 \/ (update # None /\ update.grants # None)) =>
         account.role = req.role /\ ~account.disabled

Counted == Running /\ PathOf(req.op) \notin publicPaths /\ req.overlap <= 1 /\ ~req.orphan

\* What the caller holds is in held, and so is the principal.
Holding ==
    Counted =>
        /\ req.cred = "session" => Rights(account) \subseteq req.held
        /\ req.cred # "session" => [role |-> req.cred, scope |-> All] \in req.held
        /\ req.stage = "scope" => req.cred = "session" /\ Scoping
        /\ req.stage \in {"handle", "act"} =>
             [role |-> req.role, scope |-> req.scope] \in req.held /\ ~Forbidden(req.op, req.role)

\* The scope check that the work relies on.
Checked ==
    Running /\ req.stage = "act" /\ ~req.blind =>
        /\ Check = "unscoped" => req.scope = All
        /\ Check = "customer" => req.target \in req.scope
        /\ Check = "owner" => Owner[req.target] \in req.scope
        /\ Check = "pipeline" =>
             req.target \notin rows \/ req.scope = All \/ Owner[req.target] \in req.scope

IInv == Shape /\ Holding /\ Checked

USE DEF Roles, Running, At

\* No request is under way at first.
LEMMA InitHolds == Init => IInv
  BY ApiConstants DEF Init, IInv, Shape, Holding, Counted, Checked, AccountRows

\* Once the request is answered there is nothing left to show about it.
LEMMA AnswerKeeps ==
  ASSUME IInv, NEW code, Answer(code), UNCHANGED <<account, update>>
  PROVE  IInv'
  BY DEF IInv, Shape, Holding, Counted, Checked, Answer

\* A request that arrives takes what its caller holds at that moment as held.
LEMMA ArriveKeeps ==
  ASSUME IInv, NEW op \in Operations, NEW t \in Targets(op),
         NEW cred \in {"session"} \cup TokenRoles, Arrive(op, t, cred)
  PROVE  IInv'
<1>1. t \in Customers \cup Pipelines \cup Agents \cup {None}
  BY DEF Targets
<1>2. Rights(account) \subseteq [role : Roles, scope : SUBSET All]
  BY DEF IInv, Shape, Rights, AccountRows, ScopeOf, All
<1>3. cred # "session" => [role |-> cred, scope |-> All] \in [role : Roles, scope : SUBSET All]
  BY ApiConstants
<1>4. req' \in Requests /\ (req'.overlap = 0 => update' = None)
  BY <1>1, <1>2, <1>3 DEF Arrive, Requests
<1>5. Shape'
  BY <1>4 DEF IInv, Shape, Arrive
<1>6. Holding' /\ Checked'
  BY <1>4 DEF Arrive, Holding, Checked, Requests
<1> QED BY <1>5, <1>6 DEF IInv

\* Public paths are not counted: their handlers touch no customer's data.
LEMMA GuardPublicKeeps == IInv /\ GuardPublic => IInv'
  BY DEF GuardPublic, Quiet, IInv, Shape, Requests, Holding, Counted, Checked, All

\* A token's role and the whole fleet are its principal's.
LEMMA GuardTokenKeeps == IInv /\ GuardToken => IInv'
<1> SUFFICES ASSUME IInv, GuardToken PROVE IInv' OBVIOUS
<1>1. CASE Answer(401) \/ Answer(403)
  BY <1>1, AnswerKeeps DEF GuardToken, Quiet
<1>2. CASE /\ ~Forbidden(req.op, req.cred)
           /\ req' = [req EXCEPT !.stage = "handle", !.role = req.cred, !.scope = All]
  <2>1. Shape'
    BY <1>2, ApiConstants DEF GuardToken, Quiet, IInv, Shape, Requests
  <2>2. req'.op = req.op /\ req'.role = req.cred /\ req'.cred = req.cred /\ req'.scope = All
        /\ req'.held = req.held /\ req'.stage = "handle"
        /\ req'.overlap = req.overlap /\ req'.orphan = req.orphan
    BY <1>2 DEF GuardToken, IInv, Shape, Requests
  <2>3. Holding'
    BY <1>2, <2>2 DEF GuardToken, IInv, Holding, Counted
  <2>4. Checked'
    BY <2>2 DEF Checked
  <2> QED BY <2>1, <2>3, <2>4 DEF IInv
<1> QED BY <1>1, <1>2 DEF GuardToken

\* The account's role is held with the grants it has now.
LEMMA GuardSessionKeeps == IInv /\ GuardSession => IInv'
<1> SUFFICES ASSUME IInv, GuardSession PROVE IInv' OBVIOUS
<1>0. UNCHANGED <<account, update, rows>> /\ Running /\ req \in Requests
      /\ req.stage = "guard" /\ req.cred = "session"
  BY DEF GuardSession, Quiet, IInv, Shape
<1>1. CASE Answer(401) \/ Answer(500) \/ Answer(403)
  BY <1>0, <1>1, AnswerKeeps
<1>2. CASE /\ account # None /\ ~account.disabled /\ ~Forbidden(req.op, account.role)
           /\ account.role = "admin"
           /\ req' = [req EXCEPT !.stage = "handle", !.role = "admin", !.scope = All]
  <2>1. req' \in Requests /\ req'.op = req.op /\ req'.role = "admin" /\ req'.scope = All
        /\ req'.cred = req.cred /\ req'.held = req.held /\ req'.stage = "handle"
        /\ req'.overlap = req.overlap /\ req'.orphan = req.orphan
    BY <1>0, <1>2 DEF Requests
  <2>2. Rights(account) = {[role |-> "admin", scope |-> All]}
    BY <1>2 DEF Rights
  <2>3. Holding'
    BY <1>0, <1>2, <2>1, <2>2 DEF IInv, Holding, Counted, Rights
  <2> QED BY <1>0, <2>1, <2>3 DEF IInv, Shape, Checked
<1>3. CASE /\ account # None /\ ~account.disabled /\ ~Forbidden(req.op, account.role)
           /\ account.role # "admin"
           /\ req' = [req EXCEPT !.stage = "scope", !.role = account.role]
  <2>1. account \in AccountRows
    BY <1>3 DEF IInv, Shape
  <2>2. req' \in Requests /\ req'.op = req.op /\ req'.role = account.role
        /\ req'.cred = req.cred /\ req'.held = req.held /\ req'.stage = "scope"
        /\ req'.overlap = req.overlap /\ req'.orphan = req.orphan
    BY <1>0, <1>3, <2>1 DEF Requests, AccountRows
  <2>3. Rights(account) = {[role |-> account.role, scope |-> ScopeOf(account.grants)]}
    BY <1>3 DEF Rights
  <2>4. Holding'
    BY <1>0, <1>3, <2>1, <2>2, <2>3
    DEF IInv, Holding, Counted, Rights, Scoping, ScopeOf, AccountRows, All
  <2> QED BY <1>0, <2>2, <2>4 DEF IInv, Shape, Checked
<1> QED BY <1>1, <1>2, <1>3 DEF GuardSession

\* The Guard reads the grants: with the role it has, a pair that is held.
LEMMA GuardScopeKeeps == IInv /\ GuardScope => IInv'
<1> SUFFICES ASSUME IInv, GuardScope PROVE IInv' OBVIOUS
<1>0. UNCHANGED <<account, update, rows>> /\ Running /\ req \in Requests /\ req.stage = "scope"
  BY DEF GuardScope, Quiet, IInv, Shape
<1>1. CASE Answer(500)
  BY <1>0, <1>1, AnswerKeeps
<1>2. CASE req' = [req EXCEPT !.stage = "handle",
                     !.scope = ScopeOf(IF account = None THEN {} ELSE account.grants)]
  <2> DEFINE scope == ScopeOf(IF account = None THEN {} ELSE account.grants)
  <2>1. scope \in SUBSET All
    BY DEF IInv, Shape, AccountRows, ScopeOf, All
  <2> HIDE DEF scope
  <2>2. req' \in Requests /\ req'.op = req.op /\ req'.role = req.role /\ req'.scope = scope
        /\ req'.cred = req.cred /\ req'.held = req.held /\ req'.stage = "handle"
        /\ req'.overlap = req.overlap /\ req'.orphan = req.orphan
    BY <1>0, <1>2, <2>1 DEF Requests, scope
  <2>3. Counted => Scoping /\ Counted
    BY <1>0 DEF IInv, Holding
  <2>4. Counted => [role |-> req.role, scope |-> scope] \in req.held
    BY <2>3 DEF Scoping, scope
  <2>5. Holding'
    BY <1>0, <2>2, <2>3, <2>4 DEF IInv, Holding, Counted, Scoping, Rights
  <2> QED BY <1>0, <2>2, <2>5 DEF IInv, Shape, Checked
<1> QED BY <1>1, <1>2 DEF GuardScope

\* Going on to the work: what the check has established is all that is new.
LEMMA ProceedKeeps ==
  ASSUME IInv, At("handle"), UNCHANGED <<account, update, rows>>,
         NEW b \in BOOLEAN, req' = [req EXCEPT !.stage = "act", !.blind = b],
         ~b => /\ Check = "unscoped" => req.scope = All
               /\ Check = "customer" => req.target \in req.scope
               /\ Check = "owner" => Owner[req.target] \in req.scope
               /\ Check = "pipeline" =>
                    req.target \notin rows \/ req.scope = All \/ Owner[req.target] \in req.scope
  PROVE  IInv'
<1>1. req \in Requests /\ Running
  BY DEF IInv, Shape
<1>2. req' \in Requests /\ req'.op = req.op /\ req'.role = req.role /\ req'.scope = req.scope
      /\ req'.cred = req.cred /\ req'.held = req.held /\ req'.stage = "act" /\ req'.blind = b
      /\ req'.overlap = req.overlap /\ req'.orphan = req.orphan /\ req'.target = req.target
  BY <1>1 DEF Requests
<1>3. Holding'
  BY <1>1, <1>2 DEF IInv, Holding, Counted, Rights
<1>4. Checked'
  BY <1>1, <1>2 DEF Checked, Check
<1> QED BY <1>1, <1>2, <1>3, <1>4 DEF IInv, Shape

\* Marking a request blind changes nothing else of it.
LEMMA SameBlind ==
  ASSUME IInv, At("handle"), Proceed("act")
  PROVE  req.blind \in BOOLEAN /\ req' = [req EXCEPT !.stage = "act", !.blind = req.blind]
  BY DEF IInv, Shape, Requests, Proceed

\* A request that does not bind is answered (the generated wrapper's 400).
LEMMA BindFailsKeeps == IInv /\ BindFails => IInv'
  BY AnswerKeeps DEF BindFails, Quiet

\* requireUnscoped and requireCustomerAccess establish what the work relies on.
LEMMA CheckScopeKeeps == IInv /\ CheckScope => IInv'
<1> SUFFICES ASSUME IInv, CheckScope PROVE IInv' OBVIOUS
<1>1. CASE Answer(403)
  BY <1>1, AnswerKeeps DEF CheckScope, Quiet
<1>2. CASE ~Answer(403)
  <2>1. /\ At("handle") /\ Proceed("act") /\ UNCHANGED <<account, update, rows>>
        /\ Check = "unscoped" => req.scope = All
        /\ Check = "customer" => req.target \in req.scope
        /\ Check \notin {"owner", "pipeline"}
    BY <1>2 DEF CheckScope, Quiet, requireUnscoped, requireCustomerAccess
  <2> QED BY <2>1, SameBlind, ProceedKeeps
<1> QED BY <1>1, <1>2

\* requirePipelineAccess does so for a pipeline that it can read.
LEMMA requirePipelineAccessKeeps == IInv /\ requirePipelineAccess => IInv'
<1> SUFFICES ASSUME IInv, requirePipelineAccess PROVE IInv' OBVIOUS
<1>0. At("handle") /\ Check = "pipeline" /\ UNCHANGED <<account, update, rows>>
  BY DEF requirePipelineAccess, Quiet
<1>1. CASE Answer(403)
  BY <1>0, <1>1, AnswerKeeps
<1>2. CASE req' = [req EXCEPT !.stage = "act", !.blind = TRUE]
  BY <1>0, <1>2, ProceedKeeps
<1>3. CASE /\ requireUnscoped \/ req.target \notin rows
              \/ requireCustomerAccess(Owner[req.target])
           /\ Proceed("act")
  BY <1>0, <1>3, SameBlind, ProceedKeeps DEF requireUnscoped, requireCustomerAccess
<1> QED BY <1>1, <1>2, <1>3 DEF requirePipelineAccess

\* A handler that reads the row first checks the row's customer.
LEMMA LoadOwnerKeeps == IInv /\ LoadOwner => IInv'
<1> SUFFICES ASSUME IInv, LoadOwner PROVE IInv' OBVIOUS
<1>0. At("handle") /\ Check = "owner" /\ UNCHANGED <<account, update, rows>>
  BY DEF LoadOwner, Quiet
<1>1. CASE \E code \in {400, 403, 404, 409, 500} : Answer(code)
  BY <1>0, <1>1, AnswerKeeps
<1>2. CASE requireCustomerAccess(Owner[req.target]) /\ Proceed("act")
  BY <1>0, <1>2, SameBlind, ProceedKeeps DEF requireCustomerAccess
<1> QED BY <1>1, <1>2 DEF LoadOwner

\* Refuse, NotFound, Succeed and Finish end the request.
LEMMA EndKeeps == IInv /\ (Refuse \/ NotFound \/ Succeed \/ Finish) => IInv'
<1>1. IInv /\ (Refuse \/ NotFound \/ Succeed) => IInv'
  BY AnswerKeeps DEF Refuse, NotFound, Succeed, Quiet
<1>2. IInv /\ Finish => IInv'
  BY DEF Finish, Quiet, IInv, Shape, Holding, Counted, Checked
<1> QED BY <1>1, <1>2

\* The request and the scope it was checked against stay as they are.
SameRequest ==
    /\ req' \in Requests /\ req'.op = req.op /\ req'.target = req.target
    /\ req'.cred = req.cred /\ req'.stage = req.stage /\ req'.role = req.role
    /\ req'.scope = req.scope /\ req.held \subseteq req'.held
    /\ req.overlap <= req'.overlap /\ req'.blind = req.blind

\* What was checked depends on the request and the rows only.
LEMMA SameChecked ==
  ASSUME IInv, Running, SameRequest, rows' \subseteq rows
  PROVE  Checked'
  BY DEF IInv, Checked, Check, SameRequest

\* A second update is one too many; a first finds the account unchanged.
LEMMA UpdateUserKeeps == ASSUME IInv, NEW b \in Updates, UpdateUser(b) PROVE IInv'
<1>1. b \in Bodies
  BY ApiConstants DEF Bodies
<1>2. account # None /\ account' = account /\ update = None /\ update' = b /\ rows' = rows
  BY DEF UpdateUser
<1>3. CASE ~Running
  BY <1>1, <1>2, <1>3 DEF UpdateUser, IInv, Shape, Holding, Counted, Checked
<1>4. CASE Running
  <2>1. req \in Requests /\ req' = [req EXCEPT !.overlap = @ + 1]
    BY <1>4 DEF UpdateUser, IInv, Shape
  <2>2. SameRequest /\ req'.overlap = req.overlap + 1 /\ req'.held = req.held
        /\ req'.orphan = req.orphan
    BY <2>1 DEF Requests, SameRequest
  <2>3. Shape'
    BY <1>1, <1>2, <2>1, <2>2 DEF IInv, Shape, SameRequest, Requests
  <2>4. Holding'
    <3>1. Counted' => Counted /\ req.overlap = 0
      BY <1>4, <2>1, <2>2 DEF Counted, SameRequest, Requests
    <3>2. Counted' /\ req'.stage = "scope" => Scoping'
      BY <1>2, <1>4, <2>2, <3>1 DEF IInv, Holding, Scoping, SameRequest
    <3> QED BY <1>2, <1>4, <2>2, <3>1, <3>2 DEF IInv, Holding, SameRequest, Rights
  <2>5. Checked'
    BY <1>2, <1>4, <2>2, SameChecked
  <2> QED BY <2>3, <2>4, <2>5 DEF IInv
<1> QED BY <1>3, <1>4

\* The rights of the changed account are added to what was held.
LEMMA SinceIsSame ==
  ASSUME IInv, Running, account' \in AccountRows, req' = Since(account')
  PROVE  /\ SameRequest /\ req'.overlap = req.overlap /\ req'.orphan = req.orphan
         /\ req.cred = "session" => Rights(account') \subseteq req'.held
<1>1. req \in Requests
  BY DEF IInv, Shape
<1>2. Rights(account') \subseteq [role : Roles, scope : SUBSET All]
  BY DEF Rights, AccountRows, ScopeOf, All
<1>3. CASE req.cred = "session"
  <2>1. req' = [req EXCEPT !.held = @ \cup Rights(account')]
    BY <1>3 DEF Since
  <2> QED BY <1>1, <1>2, <2>1 DEF Requests, SameRequest
<1>4. CASE req.cred # "session"
  BY <1>1, <1>4 DEF Since, Requests, SameRequest
<1> QED BY <1>3, <1>4

\* The grants change while the role that was read is still the account's.
LEMMA SetUserCustomerGrantsKeeps == IInv /\ SetUserCustomerGrants => IInv'
<1> SUFFICES ASSUME IInv, SetUserCustomerGrants PROVE IInv' OBVIOUS
<1>1. /\ update # None /\ update \in Bodies /\ update.grants # None
      /\ account # None /\ account \in AccountRows
      /\ account' = [account EXCEPT !.grants = update.grants] /\ rows' = rows
  BY DEF SetUserCustomerGrants, NextCommit, IInv, Shape
<1>2. account' \in AccountRows /\ account'.role = account.role
      /\ account'.disabled = account.disabled
  BY <1>1 DEF AccountRows, Bodies
<1>3. update' \in Bodies \cup {None} /\ (update' # None => update'.grants = None)
  BY <1>1 DEF SetUserCustomerGrants, Rest, Bodies
<1>4. account' # None
  BY <1>2, ApiConstants
<1>5. CASE ~Running
  BY <1>2, <1>3, <1>4, <1>5
  DEF SetUserCustomerGrants, Since, IInv, Shape, Holding, Counted, Checked
<1>6. CASE Running
  <2>1. /\ SameRequest /\ req'.overlap = req.overlap /\ req'.orphan = req.orphan
        /\ req.cred = "session" => Rights(account') \subseteq req'.held
    BY <1>2, <1>6, SinceIsSame DEF SetUserCustomerGrants
  <2>2. req.overlap # 0
    BY <1>1, <1>6 DEF IInv, Shape
  <2>3. Shape'
    BY <1>2, <1>3, <1>4, <2>1, <2>2 DEF Shape, SameRequest
  <2>4. Counted' => Counted
    BY <1>6, <2>1 DEF Counted, SameRequest
  <2>5. Counted' /\ req'.stage = "scope" => Scoping'
    <3> SUFFICES ASSUME Counted', req'.stage = "scope" PROVE Scoping' OBVIOUS
    <3>1. Counted /\ req.stage = "scope" /\ req.cred = "session" /\ Scoping
      BY <2>1, <2>4 DEF SameRequest, IInv, Holding
    <3>2. account.role = req.role /\ ~account.disabled
      BY <1>1, <3>1 DEF Scoping
    <3>3. Rights(account') = {[role |-> req.role, scope |-> ScopeOf(account'.grants)]}
      BY <1>2, <1>4, <3>1, <3>2 DEF Rights, Scoping
    <3>4. [role |-> req'.role, scope |-> ScopeOf(account'.grants)] \in req'.held
      BY <2>1, <3>1, <3>3 DEF SameRequest
    <3> QED BY <1>3, <1>4, <2>1, <2>2, <3>1, <3>4 DEF Scoping, SameRequest, ScopeOf, All
  <2>6. Holding'
    BY <2>1, <2>4, <2>5 DEF IInv, Holding, SameRequest, Rights, ScopeOf, All
  <2>7. Checked'
    BY <1>1, <1>6, <2>1, SameChecked
  <2> QED BY <2>3, <2>6, <2>7 DEF IInv
<1> QED BY <1>5, <1>6

\* The role changes when no grants are left to commit: the grants stay, and
\* the update is over.
LEMMA UpdateUserAdminKeeps == IInv /\ UpdateUserAdmin => IInv'
<1> SUFFICES ASSUME IInv, UpdateUserAdmin PROVE IInv' OBVIOUS
<1>1. /\ update # None /\ update \in Bodies /\ update.grants = None
      /\ account # None /\ account \in AccountRows /\ rows' = rows
  BY DEF UpdateUserAdmin, NextCommit, IInv, Shape
<1>2. account' \in AccountRows /\ account'.grants = account.grants
  BY <1>1 DEF UpdateUserAdmin, AccountRows, Bodies
<1>3. update' = None
  <2>1. [update EXCEPT !.role = None, !.disabled = None]
          = [role |-> None, disabled |-> None, grants |-> None]
    <3> DEFINE u == [update EXCEPT !.role = None, !.disabled = None]
               r == [role |-> None, disabled |-> None, grants |-> None]
    <3>1. u \in Bodies /\ u.role = None /\ u.disabled = None /\ u.grants = None
      BY <1>1 DEF Bodies
    <3>2. r \in Bodies /\ r.role = None /\ r.disabled = None /\ r.grants = None
      BY DEF Bodies
    <3> HIDE DEF u, r
    <3>3. u = r
      BY <3>1, <3>2 DEF Bodies
    <3> QED BY <3>3 DEF u, r
  <2> QED BY <2>1 DEF UpdateUserAdmin, Rest
<1>4. account' # None
  BY <1>2, ApiConstants
<1>5. CASE ~Running
  BY <1>2, <1>3, <1>4, <1>5
  DEF UpdateUserAdmin, Since, IInv, Shape, Holding, Counted, Checked
<1>6. CASE Running
  <2>1. /\ SameRequest /\ req'.overlap = req.overlap /\ req'.orphan = req.orphan
        /\ req.cred = "session" => Rights(account') \subseteq req'.held
    BY <1>2, <1>6, SinceIsSame DEF UpdateUserAdmin
  <2>2. req.overlap # 0
    BY <1>1, <1>6 DEF IInv, Shape
  <2>3. Shape'
    BY <1>2, <1>3, <1>4, <2>1, <2>2 DEF Shape, SameRequest
  <2>4. Counted' => Counted
    BY <1>6, <2>1 DEF Counted, SameRequest
  <2>5. Counted' /\ req'.stage = "scope" => Scoping'
    BY <1>2, <1>3, <1>4, <2>1, <2>2, <2>4
    DEF IInv, Holding, Scoping, SameRequest, ScopeOf, All
  <2>6. Holding'
    BY <2>1, <2>4, <2>5 DEF IInv, Holding, SameRequest, Rights, ScopeOf, All
  <2>7. Checked'
    BY <1>1, <1>6, <2>1, SameChecked
  <2> QED BY <2>3, <2>6, <2>7 DEF IInv
<1> QED BY <1>5, <1>6

\* An update that fails leaves the account as it is.
LEMMA UpdateFailsKeeps == IInv /\ UpdateFails => IInv'
<1> SUFFICES ASSUME IInv, UpdateFails PROVE IInv' OBVIOUS
<1>1. update' = None /\ UNCHANGED <<account, rows, connected, req>>
  BY DEF UpdateFails
<1>2. Shape' /\ Checked'
  BY <1>1 DEF IInv, Shape, Checked, Check
<1>3. Scoping => Scoping'
  BY <1>1 DEF Scoping
<1> QED BY <1>1, <1>2, <1>3 DEF IInv, Holding, Counted, Rights

\* A request whose account is deleted is not counted any more.
LEMMA DeleteUserKeeps == IInv /\ DeleteUser => IInv'
<1> SUFFICES ASSUME IInv, DeleteUser PROVE IInv' OBVIOUS
<1>1. CASE ~Running
  BY <1>1 DEF DeleteUser, IInv, Shape, Holding, Counted, Checked
<1>2. CASE Running
  <2>1. req \in Requests /\ req' = [req EXCEPT !.orphan = TRUE] /\ rows' = rows
        /\ account' = None /\ update' = None
    BY <1>2 DEF DeleteUser, IInv, Shape
  <2>2. SameRequest /\ req'.orphan
    <3>1. req' \in Requests
      BY <2>1 DEF Requests
    <3>2. /\ req'.op = req.op /\ req'.target = req.target /\ req'.cred = req.cred
          /\ req'.stage = req.stage /\ req'.role = req.role /\ req'.scope = req.scope
          /\ req'.held = req.held /\ req'.overlap = req.overlap /\ req.overlap \in Nat
      BY <2>1 DEF Requests
    <3>3. req'.blind = req.blind /\ req'.orphan = TRUE
      BY <2>1 DEF Requests
    <3> QED BY <3>1, <3>2, <3>3 DEF SameRequest
  <2> QED BY <1>2, <2>1, <2>2, SameChecked DEF IInv, Shape, Holding, Counted, SameRequest
<1> QED BY <1>1, <1>2

\* A row that is deleted meanwhile weakens what was checked, never what was held.
LEMMA DeleteRowKeeps == ASSUME IInv, NEW x, DeleteRow(x) PROVE IInv'
<1>1. rows' \subseteq rows /\ UNCHANGED <<account, update, req>>
  BY DEF DeleteRow
<1>2. Checked'
  BY <1>1 DEF IInv, Checked, Check
<1> QED BY <1>1, <1>2 DEF IInv, Shape, Holding, Counted, Scoping, Rights

\* An agent that connects marks a late deletion and nothing else.
LEMMA SetAgentConnectedKeeps == ASSUME IInv, NEW a, SetAgentConnected(a) PROVE IInv'
<1>1. UNCHANGED <<account, update, rows>>
  BY DEF SetAgentConnected
<1>2. CASE req' = req
  BY <1>1, <1>2 DEF IInv, Shape, Holding, Counted, Scoping, Rights, Checked, Check
<1>3. CASE At("act") /\ req' = [req EXCEPT !.late = TRUE]
  <2>1. req \in Requests /\ Running
    BY <1>3 DEF IInv, Shape
  <2>2. SameRequest /\ req'.overlap = req.overlap /\ req'.orphan = req.orphan
        /\ req'.held = req.held /\ req'.stage = "act"
    <3>1. req' \in Requests
      BY <1>3, <2>1 DEF Requests
    <3>2. /\ req'.op = req.op /\ req'.target = req.target /\ req'.cred = req.cred
          /\ req'.stage = req.stage /\ req'.role = req.role /\ req'.scope = req.scope
          /\ req'.held = req.held /\ req'.overlap = req.overlap /\ req.overlap \in Nat
      BY <1>3, <2>1 DEF Requests
    <3>3. req'.blind = req.blind /\ req'.orphan = req.orphan
      BY <1>3, <2>1 DEF Requests
    <3> QED BY <1>3, <3>1, <3>2, <3>3 DEF SameRequest
  <2>3. Shape' /\ Holding'
    BY <1>1, <2>1, <2>2 DEF IInv, Shape, Holding, Counted, SameRequest, Rights
  <2> QED BY <1>1, <2>1, <2>2, <2>3, SameChecked DEF IInv
<1> QED BY <1>2, <1>3 DEF SetAgentConnected

\* Every step keeps the invariant.
LEMMA NextKeeps == IInv /\ [Next]_vars => IInv'
<1>1. IInv /\ UNCHANGED vars => IInv'
  BY DEF vars, IInv, Shape, Holding, Counted, Scoping, Rights, Checked, Check
<1>2. ASSUME IInv, NEW a \in Agents, SetAgentDisconnected(a) PROVE IInv'
  BY <1>2 DEF SetAgentDisconnected, IInv, Shape, Holding, Counted, Scoping, Rights, Checked, Check
<1>3. IInv /\ Next => IInv'
  BY <1>2, ArriveKeeps, GuardPublicKeeps, GuardTokenKeeps, GuardSessionKeeps, GuardScopeKeeps,
     BindFailsKeeps, CheckScopeKeeps, requirePipelineAccessKeeps, LoadOwnerKeeps, EndKeeps,
     UpdateUserKeeps, SetUserCustomerGrantsKeeps, UpdateUserAdminKeeps, UpdateFailsKeeps,
     DeleteUserKeeps, DeleteRowKeeps, SetAgentConnectedKeeps
  DEF Next
<1> QED BY <1>1, <1>3

\* Rows are only ever deleted.
RowsOwned == rows \subseteq Pipelines \cup Agents

\* No step adds a row, so a row always has an owner.
LEMMA RowsStayOwned == Spec => []RowsOwned
<1>1. Init => RowsOwned
  BY DEF Init, RowsOwned
<1>2. RowsOwned /\ [Next]_vars => RowsOwned'
  BY DEF RowsOwned, Next, vars, Quiet, Arrive, GuardPublic, GuardToken, GuardSession, GuardScope,
         BindFails, CheckScope, requirePipelineAccess, LoadOwner, Refuse, NotFound, Succeed, Finish,
         UpdateUser, SetUserCustomerGrants, UpdateUserAdmin, UpdateFails, DeleteUser, DeleteRow,
         SetAgentConnected, SetAgentDisconnected
<1> QED BY <1>1, <1>2, PTL DEF Spec

\* The methods and paths that the Guard looks at tell what the handler does.
LEMMA RoleSuffices ==
  ASSUME NEW op \in Operations, PathOf(op) \notin publicPaths, NEW role, ~Forbidden(op, role)
  PROVE  /\ Handlers[op].writes /\ Handlers[op].table # "sessions" =>
              role \in {"operator", "admin"}
         /\ Handlers[op].table \in AdminTables => role = "admin"
  BY RoutesAgree DEF Forbidden, CanMutate

\* The invariant is strong enough.
LEMMA InvSuffices == IInv /\ RowsOwned => ActsWithinRights
<1> SUFFICES ASSUME IInv, RowsOwned, At("act"), PathOf(req.op) \notin publicPaths,
                    req.overlap <= 1, ~req.orphan, ~req.blind
             PROVE  \E r \in req.held :
                      /\ (NeedsRow => req.target \in rows) => Touched \subseteq r.scope
                      /\ Handlers[req.op].writes /\ Handlers[req.op].table # "sessions" =>
                           r.role \in {"operator", "admin"}
                      /\ Handlers[req.op].table \in AdminTables => r.role = "admin"
  BY DEF ActsWithinRights
<1>1. req \in Requests /\ req.op \in Operations /\ Counted
  BY DEF IInv, Shape, Counted, Requests
<1>2. [role |-> req.role, scope |-> req.scope] \in req.held /\ ~Forbidden(req.op, req.role)
  BY <1>1 DEF IInv, Holding
<1>3. (NeedsRow => req.target \in rows) => Touched \subseteq req.scope
  <2>1. Checked
    BY DEF IInv
  <2>2. CASE Check \in {"none", "unscoped", "filter"}
    BY <1>1, <2>1, <2>2 DEF Touched, Checked, Requests
  <2>3. CASE Check \in {"customer", "owner"}
    BY <1>1, <2>1, <2>3 DEF Touched, Checked
  <2>4. CASE Check = "pipeline"
    BY <1>1, <2>1, <2>4, ApiConstants DEF Touched, Checked, NeedsRow, RowsOwned
  <2> QED BY <2>2, <2>3, <2>4, HandlersTotal, <1>1 DEF Check
<1> QED BY <1>1, <1>2, <1>3, RoleSuffices

\* A handler that sets to work stays within a role and scope that its caller
\* held together at one moment since the request arrived (Guard and UpdateUser).
THEOREM RightsWereHeld == Spec => []ActsWithinRights
<1>1. Spec => []IInv
  BY InitHolds, NextKeeps, PTL DEF Spec
<1> QED BY <1>1, RowsStayOwned, InvSuffices, PTL

-----------------------------------------------------------------------------
(* Deletions.                                                              *)

\* A deletion that has been let through names a pipeline, or an agent that is
\* not connected unless it connected since.
Deletions ==
    /\ connected \subseteq rows \cap Agents
    /\ Running /\ req.op = "DeletePipeline" => req.target \in Pipelines
    /\ Running /\ req.stage = "act" /\ req.op = "DeleteAgent" /\ ~req.late
         => req.target \notin connected

\* A request that stays, goes on before it works, or is answered.
LEMMA DeletionsFrame ==
  ASSUME Deletions, connected' \subseteq connected, connected' \subseteq rows',
         \/ req' = None
         \/ req'.stage = "answered"
         \/ /\ Running /\ req'.op = req.op /\ req'.target = req.target
            /\ \/ req'.stage # "act" \/ req.op # "DeleteAgent"
               \/ req.stage = "act" /\ (req.late => req'.late)
         \/ req' = req
  PROVE  Deletions'
  BY DEF Deletions

\* A request arrives.
LEMMA ArriveDeletes ==
  ASSUME Deletions, NEW op \in Operations, NEW t \in Targets(op), NEW cred, Arrive(op, t, cred)
  PROVE  Deletions'
<1>1. UNCHANGED <<rows, connected>> /\ req'.stage = "guard" /\ req'.op = op /\ req'.target = t
  BY DEF Arrive
<1>2. op = "DeletePipeline" => t \in Pipelines
  BY DeletionsChecked DEF Targets
<1> QED BY <1>1, <1>2 DEF Deletions

\* The Guard, the generated code and the scope checks; only LoadOwner lets a
\* DeleteAgent through, after it looked at the agent's row.
LEMMA ServeDeletes ==
  ASSUME IInv, Deletions,
         \/ GuardPublic \/ GuardToken \/ GuardSession \/ GuardScope \/ BindFails
         \/ CheckScope \/ requirePipelineAccess \/ LoadOwner
         \/ Refuse \/ NotFound \/ Finish
  PROVE  Deletions'
<1>1. UNCHANGED <<rows, connected>> /\ connected \subseteq rows
  BY DEF GuardPublic, GuardToken, GuardSession, GuardScope, BindFails, CheckScope,
         requirePipelineAccess, LoadOwner, Refuse, NotFound, Finish, Quiet, Deletions
<1>2. CASE req' = None \/ \E code : Answer(code)
  BY <1>1, <1>2, DeletionsFrame DEF Answer
<1>3. ASSUME Running, NEW stage \in {"scope", "handle", "act"}, NEW role, NEW scope, NEW blind,
             \/ req' = [req EXCEPT !.stage = stage]
             \/ req' = [req EXCEPT !.stage = stage, !.scope = scope]
             \/ req' = [req EXCEPT !.stage = stage, !.role = role]
             \/ req' = [req EXCEPT !.stage = stage, !.role = role, !.scope = scope]
             \/ req' = [req EXCEPT !.stage = stage, !.blind = blind]
      PROVE  req'.op = req.op /\ req'.target = req.target /\ req'.stage = stage
  <2>1. req \in Requests
    BY <1>3 DEF IInv, Shape
  <2> QED BY <1>3, <2>1 DEF Requests
<1>4. CASE GuardPublic \/ GuardToken \/ GuardSession \/ GuardScope
  <2>1. Running
    BY <1>4 DEF GuardPublic, GuardToken, GuardSession, GuardScope
  <2>2. CASE \E code : Answer(code)
    BY <1>2, <2>2
  <2>3. CASE ~\E code : Answer(code)
    <3>1. req'.op = req.op /\ req'.target = req.target /\ req'.stage \in {"scope", "handle"}
      <4>1. CASE GuardPublic
        BY <1>3, <2>1, <4>1 DEF GuardPublic
      <4>2. CASE GuardToken
        <5>1. req' = [req EXCEPT !.stage = "handle", !.role = req.cred, !.scope = All]
          BY <2>3, <4>2 DEF GuardToken
        <5> QED BY <1>3, <2>1, <5>1
      <4>3. CASE GuardSession
        <5>1. \/ req' = [req EXCEPT !.stage = "handle", !.role = "admin", !.scope = All]
              \/ req' = [req EXCEPT !.stage = "scope", !.role = account.role]
          BY <2>3, <4>3 DEF GuardSession
        <5> QED BY <1>3, <2>1, <5>1
      <4>4. CASE GuardScope
        BY <1>3, <2>1, <2>3, <4>4 DEF GuardScope
      <4> QED BY <1>4, <4>1, <4>2, <4>3, <4>4
    <3> QED BY <1>1, <2>1, <3>1, DeletionsFrame
  <2> QED BY <2>2, <2>3
<1>5. CASE CheckScope \/ requirePipelineAccess
  <2>1. Running /\ req.op # "DeleteAgent"
    BY <1>5, DeletionsChecked DEF CheckScope, requirePipelineAccess, Check
  <2>2. CASE \E code : Answer(code)
    BY <1>2, <2>2
  <2>3. CASE ~\E code : Answer(code)
    <3>1. req'.op = req.op /\ req'.target = req.target
      BY <1>3, <1>5, <2>1, <2>3 DEF CheckScope, requirePipelineAccess, Proceed
    <3> QED BY <1>1, <2>1, <3>1, DeletionsFrame
  <2> QED BY <2>2, <2>3
<1>6. CASE LoadOwner
  <2>1. CASE \E code : Answer(code)
    BY <1>2, <2>1
  <2>2. CASE ~\E code : Answer(code)
    <3>1. Running /\ Proceed("act") /\ (req.op = "DeleteAgent" => req.target \notin connected)
      BY <1>6, <2>2 DEF LoadOwner
    <3>2. req'.op = req.op /\ req'.target = req.target
      BY <1>3, <3>1 DEF Proceed
    <3> QED BY <1>1, <3>1, <3>2 DEF Deletions
  <2> QED BY <2>1, <2>2
<1>7. CASE BindFails \/ Refuse \/ NotFound \/ Finish
  BY <1>2, <1>7 DEF BindFails, Refuse, NotFound, Finish
<1> QED BY <1>4, <1>5, <1>6, <1>7

\* The work itself takes a deleted agent from both sets.
LEMMA SucceedDeletes == Deletions /\ Succeed => Deletions'
<1> SUFFICES ASSUME Deletions, Succeed PROVE Deletions'
  OBVIOUS
<1>1. connected' \subseteq connected /\ connected' \subseteq rows'
  BY DEF Succeed, Deletions
<1>2. req'.stage = "answered"
  BY DEF Succeed, Answer
<1> QED BY <1>1, <1>2, DeletionsFrame

\* What other requests and the agents do meanwhile.
LEMMA MeanwhileDeletes ==
  ASSUME IInv, Deletions,
         \/ \E b \in Updates : UpdateUser(b)
         \/ SetUserCustomerGrants \/ UpdateUserAdmin \/ UpdateFails \/ DeleteUser
         \/ \E x \in Pipelines \cup Agents : DeleteRow(x)
         \/ \E a \in Agents : SetAgentConnected(a) \/ SetAgentDisconnected(a)
  PROVE  Deletions'
<1>1. ASSUME Running, NEW overlap, NEW held, NEW orphan,
             \/ req' = [req EXCEPT !.overlap = overlap]
             \/ req' = [req EXCEPT !.held = held]
             \/ req' = [req EXCEPT !.orphan = orphan]
      PROVE  /\ req'.op = req.op /\ req'.target = req.target
             /\ req'.stage = req.stage /\ req'.late = req.late
  <2>1. req \in Requests
    BY <1>1 DEF IInv, Shape
  <2> QED BY <1>1, <2>1 DEF Requests
<1>2. CASE \/ \E b \in Updates : UpdateUser(b)
           \/ SetUserCustomerGrants \/ UpdateUserAdmin \/ DeleteUser
  <2>1. UNCHANGED <<rows, connected>> /\ connected \subseteq rows
    BY <1>2 DEF UpdateUser, SetUserCustomerGrants, UpdateUserAdmin, DeleteUser, Deletions
  <2>2. CASE req' = req
    BY <2>1, <2>2, DeletionsFrame
  <2>3. CASE req' # req
    <3>1. Running /\ \E v : \/ req' = [req EXCEPT !.overlap = v]
                           \/ req' = [req EXCEPT !.held = v]
                           \/ req' = [req EXCEPT !.orphan = v]
      BY <1>2, <2>3 DEF UpdateUser, SetUserCustomerGrants, UpdateUserAdmin, DeleteUser, Since
    <3> QED BY <1>1, <2>1, <3>1, DeletionsFrame
  <2> QED BY <2>2, <2>3
<1>3. CASE UpdateFails
  BY <1>3, DeletionsFrame DEF UpdateFails, Deletions
<1>4. ASSUME NEW x, DeleteRow(x) PROVE Deletions'
  BY <1>4, DeletionsFrame DEF DeleteRow, Deletions
<1>5. ASSUME NEW a \in Agents, SetAgentDisconnected(a) PROVE Deletions'
  BY <1>5, DeletionsFrame DEF SetAgentDisconnected, Deletions
<1>6. ASSUME NEW a \in Agents, SetAgentConnected(a) PROVE Deletions'
  <2>1. connected' = connected \cup {a} /\ rows' = rows /\ a \in rows
    BY <1>6 DEF SetAgentConnected
  <2>2. CASE At("act") /\ req.target = a
    <3>1. req \in Requests
      BY <2>2 DEF IInv, Shape
    <3>2. req' = [req EXCEPT !.late = TRUE]
      BY <1>6, <2>2 DEF SetAgentConnected
    <3>3. req'.late /\ req'.op = req.op /\ req'.target = req.target
      BY <3>1, <3>2 DEF Requests
    <3> QED BY <2>1, <2>2, <3>3 DEF Deletions
  <2>3. CASE ~(At("act") /\ req.target = a)
    BY <1>6, <2>1, <2>3 DEF SetAgentConnected, Deletions
  <2> QED BY <2>2, <2>3
<1> QED BY <1>2, <1>3, <1>4, <1>5, <1>6

\* Deletions in every reachable state.
LEMMA DeletionsInvariant == Spec => [](IInv /\ Deletions)
<1>1. Init => Deletions
  BY DEF Init, Deletions
<1>2. IInv /\ Deletions /\ [Next]_vars => Deletions'
  <2>1. Deletions /\ UNCHANGED vars => Deletions'
    BY DEF vars, Deletions
  <2> QED BY <2>1, ArriveDeletes, ServeDeletes, SucceedDeletes, MeanwhileDeletes DEF Next
<1>3. Spec => []IInv
  BY InitHolds, NextKeeps, PTL DEF Spec
<1> QED BY <1>1, <1>2, <1>3, PTL DEF Spec

\* DeleteAgent removes the row of an agent that is connected only when the agent
\* connected between the handler's look at the row and its deletion.
THEOREM ConnectedAgentsAreKept == Spec => LiveAgentKept
<1>1. IInv /\ Deletions /\ [Next]_vars =>
        [\A a \in Agents : a \in connected /\ a \notin rows' =>
           At("act") /\ req.op = "DeleteAgent" /\ req.late]_vars
  <2> SUFFICES ASSUME IInv, Deletions, Next, NEW a \in Agents, a \in connected, a \notin rows'
               PROVE  At("act") /\ req.op = "DeleteAgent" /\ req.late
    OBVIOUS
  <2>1. a \in rows
    BY DEF Deletions
  <2>2. Succeed
    BY <2>1 DEF Next, Quiet, Arrive, GuardPublic, GuardToken, GuardSession, GuardScope, BindFails,
           CheckScope, requirePipelineAccess, LoadOwner, Refuse, NotFound, Finish, UpdateUser,
           SetUserCustomerGrants, UpdateUserAdmin, UpdateFails, DeleteUser, DeleteRow,
           SetAgentConnected, SetAgentDisconnected
  <2>3. At("act") /\ req.op \in {"DeleteAgent", "DeletePipeline"} /\ req.target = a
    BY <2>1, <2>2 DEF Succeed
  <2> QED BY <2>3, DeletionsChecked DEF Deletions
<1> QED BY <1>1, DeletionsInvariant, PTL DEF Spec, LiveAgentKept

-----------------------------------------------------------------------------
(* Types and answers.                                                      *)

\* A request is about something its operation can be about, and one that the
\* Guard let through has a scope.
Targeted ==
    Running => /\ req.target \in Targets(req.op)
               /\ req.stage \in {"handle", "act"} => req.scope # {}

\* A step of the request: it is answered with something that is listed, or goes
\* on with the same target.
GoesOn ==
    \/ \E code : Answer(code) /\ Listed(req.op, code)
    \/ /\ Running /\ req'.op = req.op /\ req'.target = req.target
       /\ req'.stage # "answered"
       /\ req'.stage \in {"handle", "act"} => req'.scope # {}

\* Either way the types and the answers are kept.
LEMMA GoesOnKeeps ==
  ASSUME Targeted, AnswersListed, GoesOn
  PROVE  Targeted' /\ AnswersListed'
<1>1. ASSUME NEW code, Answer(code), Listed(req.op, code) PROVE Targeted' /\ AnswersListed'
  <2>1. req'.op = req.op /\ req'.stage = "answered" /\ req'.code = code
    BY <1>1 DEF Answer
  <2> QED BY <1>1, <2>1 DEF Targeted, AnswersListed
<1>2. ASSUME Running, req'.op = req.op, req'.target = req.target,
             req'.stage # "answered", req'.stage \in {"handle", "act"} => req'.scope # {}
      PROVE  Targeted' /\ AnswersListed'
  BY <1>2 DEF Targeted, AnswersListed, Targets
<1> QED BY <1>1, <1>2 DEF GoesOn

\* The answers that any operation may give.
LEMMA CommonListed == \A op : \A code \in {400, 403, 500, 503} : Listed(op, code)
  BY DEF Listed

\* A scope is never empty: no grants means all customers.
LEMMA ScopeNotEmpty == All # {} /\ \A g : ScopeOf(g) # {}
  BY DEF All, ScopeOf

\* The Guard.
LEMMA GuardGoesOn ==
  ASSUME IInv, GuardPublic \/ GuardToken \/ GuardSession \/ GuardScope PROVE GoesOn
<1>1. Running /\ req \in Requests /\ req.op \in Operations
  BY DEF GuardPublic, GuardToken, GuardSession, GuardScope, IInv, Shape, Requests
<1>2. ASSUME NEW role, NEW scope, scope # {},
             \/ req' = [req EXCEPT !.stage = "handle", !.scope = scope]
             \/ req' = [req EXCEPT !.stage = "handle", !.role = role, !.scope = scope]
             \/ req' = [req EXCEPT !.stage = "scope", !.role = role]
      PROVE  GoesOn
  <2>1. /\ req'.op = req.op /\ req'.target = req.target /\ req'.stage \in {"handle", "scope"}
        /\ req'.stage = "handle" => req'.scope = scope
    BY <1>1, <1>2 DEF Requests
  <2> QED BY <1>1, <1>2, <2>1 DEF GoesOn
<1>3. PathOf(req.op) \notin publicPaths => Listed(req.op, 401)
  BY <1>1, AnswersAgree
<1>4. CASE GuardPublic
  BY <1>2, <1>4, ScopeNotEmpty DEF GuardPublic
<1>5. CASE GuardToken
  <2>1. CASE Answer(401) \/ Answer(403)
    BY <1>3, <1>5, <2>1, CommonListed DEF GuardToken, GoesOn
  <2>2. CASE req' = [req EXCEPT !.stage = "handle", !.role = req.cred, !.scope = All]
    BY <1>2, <2>2, ScopeNotEmpty
  <2> QED BY <1>5, <2>1, <2>2 DEF GuardToken
<1>6. CASE GuardSession
  <2>1. CASE Answer(401) \/ Answer(500) \/ Answer(403)
    BY <1>3, <1>6, <2>1, CommonListed DEF GuardSession, GoesOn
  <2>2. CASE \/ req' = [req EXCEPT !.stage = "handle", !.role = "admin", !.scope = All]
             \/ req' = [req EXCEPT !.stage = "scope", !.role = account.role]
    BY <1>2, <2>2, ScopeNotEmpty
  <2> QED BY <1>6, <2>1, <2>2 DEF GuardSession
<1>7. CASE GuardScope
  <2>1. CASE Answer(500)
    BY <2>1, CommonListed DEF GoesOn
  <2>2. CASE \E g : req' = [req EXCEPT !.stage = "handle", !.scope = ScopeOf(g)]
    BY <1>2, <2>2, ScopeNotEmpty
  <2> QED BY <1>7, <2>1, <2>2 DEF GuardScope
<1> QED BY <1>4, <1>5, <1>6, <1>7

\* The handler.
LEMMA HandlerGoesOn ==
  ASSUME IInv, Targeted,
         \/ BindFails \/ CheckScope \/ requirePipelineAccess \/ LoadOwner
         \/ Refuse \/ NotFound \/ Succeed
  PROVE  GoesOn
<1>1. /\ Running /\ req \in Requests /\ req.op \in Operations /\ req.scope # {}
  BY DEF BindFails, CheckScope, requirePipelineAccess, LoadOwner, Refuse, NotFound, Succeed,
         IInv, Shape, Requests, Targeted
<1>2. ASSUME NEW blind, \/ Proceed("act")
                        \/ req' = [req EXCEPT !.stage = "act", !.blind = blind]
      PROVE  GoesOn
  <2>1. /\ req'.op = req.op /\ req'.target = req.target /\ req'.stage = "act"
        /\ req'.scope = req.scope
    BY <1>1, <1>2 DEF Requests, Proceed
  <2> QED BY <1>1, <2>1 DEF GoesOn
<1>3. ASSUME NEW code \in {400, 403, 500}, Answer(code) PROVE GoesOn
  BY <1>3, CommonListed DEF GoesOn
<1>4. ASSUME Check \in {"pipeline", "owner"}, Answer(404) PROVE GoesOn
  BY <1>1, <1>4, AnswersAgree DEF GoesOn, Check
<1>5. CASE BindFails
  BY <1>3, <1>5 DEF BindFails
<1>6. CASE CheckScope
  BY <1>2, <1>3, <1>6 DEF CheckScope
<1>7. CASE requirePipelineAccess
  BY <1>2, <1>3, <1>7 DEF requirePipelineAccess
<1>8. CASE LoadOwner
  <2>1. ASSUME req.op = "DeleteAgent", Answer(409) PROVE GoesOn
    BY <1>1, <2>1, AnswersAgree DEF GoesOn
  <2>2. \/ \E code \in {400, 403, 500} : Answer(code)
        \/ Check \in {"pipeline", "owner"} /\ Answer(404)
        \/ req.op = "DeleteAgent" /\ Answer(409)
        \/ Proceed("act")
    BY <1>8 DEF LoadOwner
  <2>3. CASE \E code \in {400, 403, 500} : Answer(code)
    BY <1>3, <2>3
  <2>4. CASE Check \in {"pipeline", "owner"} /\ Answer(404)
    BY <1>4, <2>4
  <2>5. CASE Proceed("act")
    BY <1>2, <2>5
  <2> QED BY <2>1, <2>2, <2>3, <2>4, <2>5
<1>9. CASE Refuse
  <2>1. ASSUME NEW code \in Handlers[req.op].refusals, Answer(code) PROVE GoesOn
    BY <1>1, <2>1, AnswersAgree DEF GoesOn
  <2> QED BY <1>3, <1>9, <2>1 DEF Refuse
<1>10. CASE NotFound
  BY <1>4, <1>10 DEF NotFound, NeedsRow
<1>11. CASE Succeed
  BY <1>1, <1>11, AnswersAgree DEF Succeed, GoesOn
<1> QED BY <1>5, <1>6, <1>7, <1>8, <1>9, <1>10, <1>11

\* What happens meanwhile adds to the history of a request and nothing else.
LEMMA MeanwhileGoesOn ==
  ASSUME IInv, Targeted,
         \/ \E b \in Updates : UpdateUser(b)
         \/ SetUserCustomerGrants \/ UpdateUserAdmin \/ UpdateFails \/ DeleteUser
         \/ \E x \in Pipelines \cup Agents : DeleteRow(x)
         \/ \E a \in Agents : SetAgentConnected(a) \/ SetAgentDisconnected(a)
  PROVE  req' = req \/ GoesOn
<1>1. ASSUME Running, NEW v,
             \/ req' = [req EXCEPT !.overlap = v] \/ req' = [req EXCEPT !.held = v]
             \/ req' = [req EXCEPT !.orphan = v] \/ req' = [req EXCEPT !.late = v]
      PROVE  GoesOn
  <2>1. req \in Requests
    BY <1>1 DEF IInv, Shape
  <2>2. /\ req'.op = req.op /\ req'.target = req.target /\ req'.stage = req.stage
        /\ req'.scope = req.scope
    BY <1>1, <2>1 DEF Requests
  <2> QED BY <1>1, <2>2 DEF GoesOn, Targeted
<1>2. \/ req' = req
      \/ Running /\ \E v : \/ req' = [req EXCEPT !.overlap = v] \/ req' = [req EXCEPT !.held = v]
                           \/ req' = [req EXCEPT !.orphan = v] \/ req' = [req EXCEPT !.late = v]
  BY DEF UpdateUser, SetUserCustomerGrants, UpdateUserAdmin, UpdateFails, DeleteUser, DeleteRow,
         SetAgentConnected, SetAgentDisconnected, Since
<1> QED BY <1>1, <1>2

\* Every step keeps the targets and the answers.
LEMMA AnswersKeep ==
  ASSUME IInv, Targeted, AnswersListed, [Next]_vars PROVE Targeted' /\ AnswersListed'
<1>1. ASSUME NEW op \in Operations, NEW t \in Targets(op),
             NEW cred \in {"session"} \cup TokenRoles, Arrive(op, t, cred)
      PROVE  Targeted' /\ AnswersListed'
  <2>1. req'.op = op /\ req'.target = t /\ req'.stage = "guard"
    BY <1>1 DEF Arrive
  <2> QED BY <2>1 DEF Targeted, AnswersListed, Targets
<1>2. CASE Finish
  BY <1>2 DEF Finish, Targeted, AnswersListed
<1>3. CASE req' = req
  BY <1>3 DEF Targeted, AnswersListed, Targets
<1>4. CASE UNCHANGED vars
  BY <1>3, <1>4 DEF vars
<1> QED BY <1>1, <1>2, <1>3, <1>4, GuardGoesOn, HandlerGoesOn, MeanwhileGoesOn, GoesOnKeeps
        DEF Next

\* Targets and answers in every reachable state.
LEMMA AnswersInvariant == Spec => [](IInv /\ Targeted /\ AnswersListed)
<1>1. Init => Targeted /\ AnswersListed
  BY DEF Init, Targeted, AnswersListed
<1>2. IInv /\ Targeted /\ AnswersListed /\ [Next]_vars => Targeted' /\ AnswersListed'
  BY AnswersKeep
<1>3. Spec => []IInv
  BY InitHolds, NextKeeps, PTL DEF Spec
<1> QED BY <1>1, <1>2, <1>3, PTL DEF Spec

\* Whatever happens meanwhile, a request is answered with what the contract lists
\* for its operation, what any operation may give, or one of two exceptions.
THEOREM AnswersAreListed == Spec => []AnswersListed
  BY AnswersInvariant, PTL

\* The type invariant: a request that the Guard let through has a scope that is
\* not empty.
THEOREM TypeCorrect == Spec => []TypeOK
<1>1. IInv /\ RowsOwned /\ Deletions /\ Targeted => TypeOK
  BY DEF IInv, Shape, Bodies, Requests, RowsOwned, Deletions, Targeted, TypeOK
<1> QED BY <1>1, AnswersInvariant, RowsStayOwned, DeletionsInvariant, PTL

=============================================================================
