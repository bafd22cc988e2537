------------------------------- MODULE Users -------------------------------
(***************************************************************************)
(* Accounts: the users table, its customer grants, the browser sessions,   *)
(* and the requests that change them: invitations, updates and deletions   *)
(* by an admin (internal/api/handlers_admin.go), SCIM provisioning         *)
(* (internal/scim/scim.go) and logins (internal/auth/login.go).  A request *)
(* is a sequence of transactions (internal/store/pg_users.go, pg.go) that  *)
(* run under READ COMMITTED: a statement sees what others have committed,  *)
(* a row that is locked is waited for, and nothing else is.                *)
(***************************************************************************)
EXTENDS Naturals, Sequences, FiniteSets, Functions

CONSTANTS
    Ids, Emails,    \* account ids, never used twice, and addresses
    First,          \* the first admins, signed in: their ids and addresses
    AdminEmails,    \* OTELFLEET_ADMIN_EMAILS
    CustomerIds,    \* customer ids that a request may name
    Customers,      \* those that exist
    ExternalIds,
    DefaultRole,    \* the role of an account that SCIM creates
    Invites, Updates, Creates, Puts, Patches,   \* request bodies
    Slots,          \* bound: requests in flight
    MaxCalls,       \* bound: requests in all
    None

Roles == {"admin", "operator", "viewer"}

\* What a request may carry; attrs tells that it writes SCIM attributes.
Bodies ==
    [email : Emails \cup {None}, role : Roles \cup {None},
     disabled : BOOLEAN \cup {None}, grants : (SUBSET CustomerIds) \cup {None},
     ext : ExternalIds \cup {None}, attrs : BOOLEAN]

NoBody == [email |-> None, role |-> None, disabled |-> None, grants |-> None,
           ext |-> None, attrs |-> FALSE]

ASSUME ConstantsTyped ==
    /\ AdminEmails \subseteq Emails /\ Customers \subseteq CustomerIds /\ MaxCalls \in Nat
    /\ DOMAIN First \subseteq Ids /\ DOMAIN First # {}
    /\ First \in [DOMAIN First -> Emails] /\ IsInjective(First)
    /\ Cardinality(Ids \ DOMAIN First) >= MaxCalls
    /\ {NoBody} \cup Invites \cup Updates \cup Creates \cup Puts \cup Patches \subseteq Bodies

\* What the handlers have validated (InviteUser, scim.New, createUser), and what
\* SCIM writes: a PUT always writes its attributes, and no request a role.
ASSUME RequestsValid ==
    /\ DefaultRole \in Roles
    /\ \A b \in Invites : b.email \in Emails /\ b.role \in Roles
    /\ \A b \in Creates : b.email \in Emails
    /\ \A b \in Puts : b.attrs
    /\ \A b \in Puts \cup Patches : b.role = None

ASSUME NoneIsNoValue ==
    /\ None \notin Ids
    /\ \A A \in SUBSET Ids : A # None
    /\ \A x \in ExternalIds \cup {None} : [ext |-> x] # None
    /\ \A r \in Roles \cup {None}, l \in BOOLEAN : [role |-> r, linked |-> l] # None

VARIABLES
    user,     \* the rows of users, with identity and customer grants
    fresh,    \* ids not used yet
    session,  \* the accounts that have a row in sessions
    token,    \* the accounts that created an API token
    req,      \* the request a slot runs
    late,     \* history: sessions saved after their account was disabled
    skew,     \* history: an account changed between a check and its commit
    calls

vars == <<user, fresh, session, token, req, late, skew, calls>>

Row(email, role, ext, linked) ==
    [email |-> email, role |-> role, disabled |-> FALSE, ext |-> ext,
     linked |-> linked, grants |-> {}]

EnabledAdmin(rows, u) == rows[u].role = "admin" /\ ~rows[u].disabled

\* Mutant: disabled admins count.
AnyAdminRemains(rows) == \E u \in DOMAIN rows : rows[u].role = "admin"

ensureEnabledAdminRemains(rows) == \E u \in DOMAIN rows : EnabledAdmin(rows, u)

AccountOf(email) == {u \in DOMAIN user : user[u].email = email}

At(s, step) == req[s] # None /\ req[s].todo # <<>> /\ Head(req[s].todo) = step

\* Transactions between their last statement and their commit that hold the
\* row lock of u; those that have deleted the row.
Holds(s, step, u) == At(s, step) /\ req[s].snap # None /\ req[s].id = u

Locked(u) == \E s \in Slots, step \in {"admin", "remove"} : Holds(s, step, u)

Removing(email) == \E s \in Slots, u \in AccountOf(email) : Holds(s, "remove", u)

(***************************************************************************)
(* A request: what is left to do, what the open step has read (snap),      *)
(* which accounts others have changed since then, what it has committed    *)
(* and its answer.                                                         *)
(***************************************************************************)
Request(op, id, body, todo, code) ==
    [op |-> op, id |-> id, body |-> body, todo |-> todo, snap |-> None,
     since |-> {}, wrote |-> {}, code |-> code]

Init ==
    /\ user = [u \in DOMAIN First |-> Row(First[u], "admin", None, TRUE)]
    /\ fresh = Ids \ DOMAIN First /\ session = DOMAIN First
    /\ token = {} /\ req = [s \in Slots |-> None]
    /\ late = {} /\ skew = FALSE /\ calls = 0

Begin(s, request) ==
    /\ req[s] = None /\ calls < MaxCalls
    /\ req' = [req EXCEPT ![s] = request] /\ calls' = calls + 1
    /\ UNCHANGED <<user, fresh, session, token, late, skew>>

\* Who the guard lets through to the accounts: an enabled admin with a session,
\* or an API token, which acts in the name of the account that created it.
Caller(c) ==
    \/ c \in session /\ c \in DOMAIN user /\ EnabledAdmin(user, c)
    \/ c \in token

\* The steps of the optional parts of a body.
Optional(step, present) == IF present THEN <<step>> ELSE <<>>

InviteUser(s, b) ==
    Begin(s, Request("invite", None, b,
        <<"insert">> \o Optional("grants", b.role # "admin" /\ b.grants \notin {None, {}}), 201))

\* Mutant: role and disabled first, grants second.
UpdateAccessFirst(s, c, u, b) ==
    Begin(s, Request("update", u, b,
        IF c = u THEN <<>>
        ELSE Optional("admin", b.role # None \/ b.disabled # None)
             \o Optional("grants", b.grants # None), IF c = u THEN 409 ELSE 200))

\* Admins never demote or disable themselves; the rest is grants first.
UpdateUser(s, c, u, b) ==
    LET refused ==
          IF b.role = None /\ b.disabled = None /\ b.grants = None THEN 400
          ELSE IF c = u /\ (b.role \notin {None, "admin"} \/ b.disabled = TRUE) THEN 409
          ELSE 200
    IN Begin(s, Request("update", u, b,
           IF refused # 200 THEN <<>>
           ELSE Optional("grants", b.grants # None)
                \o Optional("admin", b.role # None \/ b.disabled # None), refused))

DeleteUser(s, c, u) ==
    Begin(s, IF c = u THEN Request("delete", u, NoBody, <<>>, 409)
             ELSE Request("delete", u, NoBody, <<"get", "remove">>, 204))

\* SCIM, with an admin's token.
createUser(s, b) == Begin(s, Request("create", None, b, <<"insert">>, 201))

putUser(s, u, b) ==
    Begin(s, Request("put", u, b,
        <<"load", "attrs">> \o Optional("admin", b.disabled # None), 200))

\* patchUser, and deleteUser as a patch that only sets active to false.
patchUser(s, u, b) ==
    Begin(s, Request("patch", u, b,
        <<"load">> \o Optional("attrs", b.attrs)
                   \o Optional("admin", b.disabled # None), 200))

\* A verified external login (finish) or DevLogin.
finish(s, email) ==
    Begin(s, Request("login", None, [NoBody EXCEPT !.email = email],
                     <<"read", "stamp", "save">>, 302))

(***************************************************************************)
(* Progress of a request.  Done moves to its next transaction; others that *)
(* have read the same part of an account, and not committed, are told.     *)
(***************************************************************************)
Done(s, what) ==
    [req[s] EXCEPT !.todo = Tail(@), !.snap = None, !.wrote = @ \cup what]

Answer(s, code) ==
    /\ req' = [req EXCEPT ![s].todo = <<>>, ![s].snap = None, ![s].code = code]
    /\ UNCHANGED <<user, fresh, session, token, late, skew, calls>>

Watching(t, steps) == \E step \in steps : At(t, step) /\ (req[t].snap # None \/ step = "save")

Commit(s, u, steps, r) ==
    req' = [t \in Slots |->
              IF t = s THEN r
              ELSE IF Watching(t, steps) THEN [req[t] EXCEPT !.since = @ \cup {u}]
              ELSE req[t]]

AccessSteps == {"admin", "remove", "stamp", "save"}

\* uuid.New(); there is always one, as no more requests begin than ids are left.
NewId == CHOOSE u \in fresh : TRUE

Inserted(u, row) == [v \in DOMAIN user \cup {u} |-> IF v = u THEN row ELSE user[v]]

\* CreateInvitedUser and CreateSCIMUser: one INSERT, under unique indexes on
\* the address and on the external id.
Insert(s) ==
    LET b == req[s].body
        taken == \/ AccountOf(b.email) # {}
                 \/ b.ext # None /\ \E u \in DOMAIN user : user[u].ext = b.ext
        role == IF req[s].op = "create" THEN DefaultRole ELSE b.role
    IN /\ At(s, "insert") /\ ~Removing(b.email)
       /\ \/ taken /\ Answer(s, 409)
          \/ /\ ~taken /\ fresh # {}
             /\ user' = Inserted(NewId, Row(b.email, role, b.ext, FALSE))
             /\ fresh' = fresh \ {NewId}
             /\ req' = [req EXCEPT ![s] = [Done(s, {"account"}) EXCEPT !.id = NewId]]
             /\ UNCHANGED <<session, token, late, skew, calls>>

\* SetUserCustomerGrants: the DELETE removes the rows it sees ...
ClearGrants(s) ==
    LET u == req[s].id
    IN /\ At(s, "grants") /\ req[s].snap = None
       /\ \/ u \notin DOMAIN user /\ Answer(s, 400)
          \/ /\ u \in DOMAIN user
             /\ req' = [req EXCEPT ![s].snap = user[u].grants, ![s].since = {}]
             /\ UNCHANGED <<user, fresh, session, token, late, skew, calls>>

\* Mutant: an unknown customer is not an error.
InsertAnyGrants(s) ==
    /\ At(s, "grants") /\ req[s].snap # None /\ req[s].id \in DOMAIN user
    /\ user' = [user EXCEPT ![req[s].id].grants = (@ \ req[s].snap) \cup req[s].body.grants]
    /\ req' = [req EXCEPT ![s] = Done(s, {"grants"})]
    /\ UNCHANGED <<fresh, session, token, late, skew, calls>>

\* ... and the INSERTs, which need the rows they refer to, add to the others.
InsertGrants(s) ==
    LET u == req[s].id
        new == req[s].body.grants
    IN /\ At(s, "grants") /\ req[s].snap # None /\ (new = {} \/ ~Locked(u))
       /\ \/ new \subseteq Customers /\ new # {} /\ u \notin DOMAIN user /\ Answer(s, 500)
          \/ ~(new \subseteq Customers) /\ Answer(s, 400)
          \/ /\ new \subseteq Customers /\ (new = {} \/ u \in DOMAIN user)
             /\ user' = IF u \in DOMAIN user
                        THEN [user EXCEPT ![u].grants = (@ \ req[s].snap) \cup new]
                        ELSE user
             /\ req' = [t \in Slots |->
                          IF t = s THEN Done(s, {"grants"})
                          ELSE IF Holds(t, "grants", u)
                          THEN [req[t] EXCEPT !.snap = @ \ req[s].snap, !.since = @ \cup {u}]
                          ELSE req[t]]
             /\ UNCHANGED <<fresh, session, token, late, skew, calls>>

\* UpdateUserAdmin: the row is locked and changed, the sessions it sees are
\* deleted, the enabled admins are counted ...
Changed(u, b) ==
    [user EXCEPT ![u].role = IF b.role = None THEN @ ELSE b.role,
                 ![u].disabled = IF b.disabled = None THEN @ ELSE b.disabled]

\* Mutant: disabling leaves the sessions.
UpdateKeepsSessions(s) ==
    /\ At(s, "admin") /\ req[s].snap = None /\ ~Locked(req[s].id)
    /\ req[s].id \in DOMAIN user
    /\ ensureEnabledAdminRemains(Changed(req[s].id, req[s].body))
    /\ req' = [req EXCEPT ![s].snap = {}, ![s].since = {}]
    /\ UNCHANGED <<user, fresh, session, token, late, skew, calls>>

UpdateUserAdmin(s) ==
    LET u == req[s].id
        b == req[s].body
        doomed == IF b.disabled = TRUE THEN session \cap {u} ELSE {}
    IN /\ At(s, "admin") /\ req[s].snap = None /\ ~Locked(u)
       /\ \/ u \notin DOMAIN user /\ Answer(s, 404)
          \/ /\ u \in DOMAIN user
             /\ ~ensureEnabledAdminRemains(Changed(u, b))
             /\ Answer(s, 409)
          \/ /\ u \in DOMAIN user
             /\ ensureEnabledAdminRemains(Changed(u, b))
             /\ req' = [req EXCEPT ![s].snap = doomed, ![s].since = {}]
             /\ UNCHANGED <<user, fresh, session, token, late, skew, calls>>

\* ... and the transaction commits.
CommitUpdate(s) ==
    LET u == req[s].id
    IN /\ At(s, "admin") /\ req[s].snap # None
       /\ user' = Changed(u, req[s].body)
       /\ session' = session \ req[s].snap /\ late' = late \ req[s].snap
       /\ skew' = (skew \/ req[s].since # {})
       /\ Commit(s, u, AccessSteps, Done(s, {"access"}))
       /\ UNCHANGED <<fresh, token, calls>>

\* Mutant: waits for the account to appear.
GetUserWaits(s) ==
    /\ At(s, "get")
    /\ req' = IF req[s].id \in DOMAIN user THEN [req EXCEPT ![s] = Done(s, {})] ELSE req
    /\ UNCHANGED <<user, fresh, session, token, late, skew, calls>>

\* handlers_admin.go looks the account up for the audit entry.
GetUser(s) ==
    /\ At(s, "get")
    /\ \/ req[s].id \notin DOMAIN user /\ Answer(s, 404)
       \/ /\ req[s].id \in DOMAIN user
          /\ req' = [req EXCEPT ![s] = Done(s, {})]
          /\ UNCHANGED <<user, fresh, session, token, late, skew, calls>>

\* store.DeleteUser.  The rows that keep api_tokens.created_by are not
\* detached, so that the foreign key refuses the deletion.
RemoveUser(s) ==
    LET u == req[s].id
        rest == Restrict(user, DOMAIN user \ {u})
    IN /\ At(s, "remove") /\ req[s].snap = None /\ ~Locked(u)
       /\ \/ u \notin DOMAIN user /\ Answer(s, 404)
          \/ u \in DOMAIN user /\ u \in token /\ Answer(s, 500)
          \/ /\ u \in DOMAIN user \ token /\ ~ensureEnabledAdminRemains(rest)
             /\ Answer(s, 409)
          \/ /\ u \in DOMAIN user \ token /\ ensureEnabledAdminRemains(rest)
             /\ req' = [req EXCEPT ![s].snap = session \cap {u}, ![s].since = {}]
             /\ UNCHANGED <<user, fresh, session, token, late, skew, calls>>

CommitRemove(s) ==
    LET u == req[s].id
    IN /\ At(s, "remove") /\ req[s].snap # None
       /\ user' = Restrict(user, DOMAIN user \ {u})
       /\ session' = session \ req[s].snap /\ late' = late \ req[s].snap
       /\ skew' = (skew \/ req[s].since # {})
       /\ Commit(s, u, AccessSteps, Done(s, {"access"}))
       /\ UNCHANGED <<fresh, token, calls>>

\* SCIM's GetUserWithIdentities, whose external id a patch writes back.
load(s) ==
    LET u == req[s].id
    IN /\ At(s, "load")
       /\ \/ u \notin DOMAIN user /\ Answer(s, 404)
          \/ /\ u \in DOMAIN user
             /\ req' = [req EXCEPT ![s] = [Done(s, {}) EXCEPT
                          !.snap = IF req[s].body.attrs THEN [ext |-> user[u].ext] ELSE None,
                          !.since = {}]]
             /\ UNCHANGED <<user, fresh, session, token, late, skew, calls>>

\* UpdateSCIMUser: one UPDATE; every error is a 500.
UpdateSCIMUser(s) ==
    LET u == req[s].id
        ext == IF req[s].op = "put" THEN req[s].body.ext ELSE req[s].snap.ext
        taken == ext # None /\ \E v \in DOMAIN user \ {u} : user[v].ext = ext
    IN /\ At(s, "attrs") /\ ~Locked(u)
       /\ \/ (u \notin DOMAIN user \/ taken) /\ Answer(s, 500)
          \/ /\ u \in DOMAIN user /\ ~taken
             /\ user' = [user EXCEPT ![u].ext = ext]
             /\ Commit(s, u, {"attrs"}, Done(s, {"attrs"}))
             /\ UNCHANGED <<fresh, session, token, late, skew, calls>>

\* UpsertUserByIdentity: the account is read by identity or by address, and
\* not locked ...
ReadIdentity(s) ==
    LET found == AccountOf(req[s].body.email)
        u == IF found = {} THEN None ELSE CHOOSE v \in found : TRUE
    IN /\ At(s, "read")
       /\ req' = [req EXCEPT ![s] = [Done(s, {}) EXCEPT
                    !.id = u, !.since = {},
                    !.snap = IF u = None THEN [role |-> None, linked |-> FALSE]
                             ELSE [role |-> user[u].role, linked |-> user[u].linked]]]
       /\ UNCHANGED <<user, fresh, session, token, late, skew, calls>>

\* ... a missing account is inserted, with the role of its address ...
InsertLogin(s) ==
    LET email == req[s].body.email
        role == IF email \in AdminEmails THEN "admin" ELSE "viewer"
    IN /\ At(s, "stamp") /\ req[s].id = None /\ ~Removing(email)
       /\ \/ AccountOf(email) # {} /\ Answer(s, 500)
          \/ /\ AccountOf(email) = {} /\ fresh # {}
             /\ user' = Inserted(NewId, Row(email, role, None, TRUE))
             /\ fresh' = fresh \ {NewId}
             /\ req' = [req EXCEPT ![s] = [Done(s, {"account"}) EXCEPT !.id = NewId]]
             /\ UNCHANGED <<session, token, late, skew, calls>>

\* Mutant: every login writes the role of a new account.
StampRoleIfNew(s) ==
    /\ At(s, "stamp") /\ req[s].id \in DOMAIN user /\ ~Locked(req[s].id)
    /\ user' = [user EXCEPT ![req[s].id].role =
                  IF req[s].body.email \in AdminEmails THEN "admin" ELSE "viewer"]
    /\ req' = [req EXCEPT ![s] = [Done(s, {"login"}) EXCEPT !.since = {}]]
    /\ UNCHANGED <<fresh, session, token, late, skew, calls>>

\* ... and the role that was read is written back.  finish then refuses a
\* disabled account.
StampLogin(s) ==
    LET u == req[s].id
        role == IF req[s].body.email \in AdminEmails THEN "admin" ELSE req[s].snap.role
        valid == u \in DOMAIN user /\ (user[u].linked => req[s].snap.linked)
        next == [Done(s, {"login"}) EXCEPT !.since = {}]
    IN /\ At(s, "stamp") /\ u # None /\ ~Locked(u)
       /\ \/ ~valid /\ Answer(s, 500)
          \/ /\ valid
             /\ user' = [user EXCEPT ![u].role = role, ![u].linked = TRUE]
             /\ skew' = (skew \/ u \in req[s].since)
             /\ Commit(s, u, IF role = user[u].role THEN {} ELSE AccessSteps,
                       IF user[u].disabled THEN [next EXCEPT !.todo = <<>>, !.code = 403]
                       ELSE next)
             /\ UNCHANGED <<fresh, session, token, late, calls>>

\* sessions.Login; the session middleware writes the row after the handler.
SaveSession(s) ==
    LET u == req[s].id
    IN /\ At(s, "save")
       /\ session' = session \cup {u}
       /\ late' = IF u \in req[s].since \/ Locked(u) THEN late \cup {u} ELSE late
       /\ req' = [req EXCEPT ![s] = Done(s, {"session"})]
       /\ UNCHANGED <<user, fresh, token, skew, calls>>

Return(s) ==
    /\ req[s] # None /\ req[s].todo = <<>>
    /\ req' = [req EXCEPT ![s] = None]
    /\ UNCHANGED <<user, fresh, session, token, late, skew, calls>>

Logout(u) ==
    /\ u \in session /\ calls < MaxCalls /\ calls' = calls + 1
    /\ session' = session \ {u} /\ late' = late \ {u}
    /\ UNCHANGED <<user, fresh, token, req, skew>>

\* An admin creates an API token; its row refers to the account from now on.
CreateAPIToken(u) ==
    /\ u \in session \cap DOMAIN user /\ EnabledAdmin(user, u) /\ ~Locked(u)
    /\ u \notin token /\ calls < MaxCalls /\ calls' = calls + 1
    /\ token' = token \cup {u}
    /\ UNCHANGED <<user, fresh, session, req, late, skew>>

\* The bound is reached and every request has been answered.
Rest ==
    /\ calls = MaxCalls /\ \A s \in Slots : req[s] = None
    /\ UNCHANGED vars

Known == Ids \ fresh

Step(s) ==
    \/ Insert(s) \/ ClearGrants(s) \/ InsertGrants(s)
    \/ UpdateUserAdmin(s) \/ CommitUpdate(s)
    \/ GetUser(s) \/ RemoveUser(s) \/ CommitRemove(s)
    \/ load(s) \/ UpdateSCIMUser(s)
    \/ ReadIdentity(s) \/ InsertLogin(s) \/ StampLogin(s) \/ SaveSession(s)
    \/ Return(s)

Next ==
    \/ \E s \in Slots :
          \/ Step(s)
          \/ \E e \in Emails : finish(s, e)
          \/ /\ \E c \in Known : Caller(c)
             /\ \E b \in Invites : InviteUser(s, b)
          \/ \E c \in Known, u \in Known :
                /\ Caller(c)
                /\ DeleteUser(s, c, u) \/ \E b \in Updates : UpdateUser(s, c, u, b)
          \/ /\ token # {}
             /\ \/ \E b \in Creates : createUser(s, b)
                \/ \E u \in Known, b \in Puts : putUser(s, u, b)
                \/ \E u \in Known, b \in Patches : patchUser(s, u, b)
    \/ \E u \in Ids : Logout(u) \/ CreateAPIToken(u)
    \/ Rest

Spec == Init /\ [][Next]_vars

\* A request that is being served gets its next statement, or the lock it
\* waits for, and its answer.
FairSpec == Spec /\ \A s \in Slots : WF_vars(Step(s))

(***************************************************************************)
(* Properties.                                                             *)
(***************************************************************************)

\* The tables and the requests hold what their declarations allow, and the
\* unique indexes on address and external id hold.
TypeOK ==
    /\ DOMAIN user \subseteq Ids \ fresh /\ fresh \subseteq Ids
    /\ session \cup token \subseteq Ids \ fresh /\ late \subseteq session
    /\ token \subseteq DOMAIN user
    /\ \A u \in DOMAIN user :
          /\ user[u].email \in Emails /\ user[u].role \in Roles
          /\ user[u].disabled \in BOOLEAN /\ user[u].grants \subseteq Customers
    /\ \A u, v \in DOMAIN user :
          u # v => /\ user[u].email # user[v].email
                   /\ user[u].ext = user[v].ext => user[u].ext = None

\* ErrLastAdmin: an enabled admin is always left, as long as no account changed
\* between the count of a transaction and its commit and no login wrote back
\* the role of an account that had changed since it was read.
EnabledAdminRemains == skew \/ \E u \in DOMAIN user : EnabledAdmin(user, u)

\* Disabling or deleting an account ends its sessions (deleteSessionsByUser),
\* but for a login that had been let in and saved its session too late.
DisabledHasNoSession ==
    \A u \in session \ late : u \in DOMAIN user /\ ~user[u].disabled

\* A request that is refused has changed nobody's role, enabled no one, removed
\* no account and opened no session.  What it may leave behind is the invited
\* account without its grants (InviteUser), the grants of an update whose
\* second transaction is refused (UpdateUser), the attributes of a SCIM
\* request (putUser, patchUser) and the stamp of a login of a disabled account.
RefusedKeepsAccess ==
    \A s \in Slots : req[s] # None /\ req[s].todo = <<>> /\ req[s].code >= 400 =>
        req[s].wrote \subseteq CASE req[s].op = "invite" -> {"account"}
                                 [] req[s].op = "update" -> {"grants"}
                                 [] req[s].op \in {"put", "patch"} -> {"attrs"}
                                 [] req[s].op = "login" -> {"login"}
                                 [] OTHER -> {}

\* The role, the grants and the external id of an account only become what an
\* open request asks for, or admin for an address of OTELFLEET_ADMIN_EMAILS,
\* unless another request wrote the same part of the account since the open
\* one read it (pg.go's write-back of the role, scim.go's of the external id,
\* the DELETE and INSERTs of SetUserCustomerGrants).
ChangesAsAsked ==
    [][\A u \in DOMAIN user : u \in DOMAIN user' =>
         LET asks(field, step) == \E s \in Slots :
                 /\ Holds(s, step, u)
                 /\ \/ u \in req[s].since
                    \/ req[s].body[field] = user'[u][field] /\ req[s].op # "patch"
         IN /\ user'[u].role = user[u].role \/ asks("role", "admin") \/ asks("role", "stamp")
               \/ (user[u].email \in AdminEmails /\ user'[u].role = "admin")
            /\ user'[u].grants = user[u].grants \/ asks("grants", "grants")
            /\ user'[u].ext = user[u].ext \/ asks("ext", "attrs")]_vars

\* Every request is answered: the row locks of two requests never make each
\* wait for the other.
Answered == \A s \in Slots : req[s] # None ~> req[s] = None

====
