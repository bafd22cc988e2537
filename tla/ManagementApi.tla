--------------------------- MODULE ManagementApi ---------------------------
(***************************************************************************)
(* The life of one request to the REST API (internal/api): the Guard       *)
(* authenticates and scopes it, the generated wrapper and strict handler   *)
(* bind and decode it, the handler checks the customer it concerns, reads  *)
(* and writes, and the request is answered.  The Guard reads the account   *)
(* and its customer grants in two queries, and the handler uses what they  *)
(* returned to its end.  Meanwhile an admin changes the account in two     *)
(* transactions, others delete rows, and agents connect and disconnect.    *)
(* What the writes do to the data is in the modules of the components.     *)
(***************************************************************************)
EXTENDS ApiContract, SequencesExt

CONSTANTS
    Customers,      \* customer ids
    Pipelines, Agents,
    Owner,          \* the customer of a pipeline or agent; None: a gateway
    TokenRoles,     \* the roles of the caller's API tokens
    Accounts,       \* what the caller's account may be at first
    Updates,        \* the bodies of UpdateUser
    MaxOverlap,     \* bound: updates of the account during one request
    None

Roles == {"viewer", "operator", "admin"}

All == Customers \cup {None}    \* what an unscoped principal may touch

AccountRows == [role : Roles, disabled : BOOLEAN, grants : SUBSET Customers]

ASSUME ApiConstants ==
    /\ Owner \in [Pipelines \cup Agents -> All]
    /\ \A p \in Pipelines : Owner[p] # None
    /\ TokenRoles \subseteq Roles /\ None \notin Customers /\ MaxOverlap \in Nat
    /\ Accounts \subseteq AccountRows /\ None \notin AccountRows
    /\ Updates \subseteq [role : Roles \cup {None}, disabled : BOOLEAN \cup {None},
                          grants : (SUBSET Customers) \cup {None}]

(***************************************************************************)
(* The handlers: how they check the scope, the table they work on, whether *)
(* they write it, the status of success and the statuses of their          *)
(* refusals.  The checks are                                               *)
(*   none      no check                                                    *)
(*   unscoped  requireUnscoped                                             *)
(*   filter    rows outside the scope are left out of the answer           *)
(*   customer  requireCustomerAccess of the customer in the path           *)
(*   pipeline  requirePipelineAccess                                       *)
(*   owner     the row is read first, then requireCustomerAccess           *)
(***************************************************************************)
Reads(check, table, ok, refusals) ==
    [check |-> check, table |-> table, writes |-> FALSE, ok |-> ok, refusals |-> refusals]

Writes(check, table, ok, refusals) ==
    [check |-> check, table |-> table, writes |-> TRUE, ok |-> ok, refusals |-> refusals]

SessionHandlers ==
    [GetMe             |-> Reads("none", "nothing", 200, {}),
     ListAuthProviders |-> Reads("none", "auth_providers", 200, {}),
     DevLogin          |-> Writes("none", "sessions", 204, {400, 403}),
     Logout            |-> Writes("none", "sessions", 204, {})]

CustomerHandlers ==
    [ListCustomers  |-> Reads("filter", "customers", 200, {}),
     CreateCustomer |-> Writes("unscoped", "customers", 201, {400, 409}),
     GetCustomer    |-> Reads("customer", "customers", 200, {404}),
     UpdateCustomer |-> Writes("customer", "customers", 200, {400, 404}),
     DeleteCustomer |-> Writes("customer", "customers", 204, {404})]

ApiKeyHandlers ==
    [ListApiKeys  |-> Reads("customer", "api_keys", 200, {404}),
     CreateApiKey |-> Writes("customer", "api_keys", 201, {400, 404}),
     RevokeApiKey |-> Writes("customer", "api_keys", 204, {404})]

StatsHandlers ==
    [GetStatsOverview      |-> Reads("filter", "customers", 200, {400, 503}),
     GetCostStats          |-> Reads("filter", "customers", 200, {400, 503}),
     GetCustomerThroughput |-> Reads("customer", "telemetry", 200, {400, 404, 503})]

PipelineHandlers ==
    [GetComponentCatalog   |-> Reads("none", "nothing", 200, {}),
     ListPipelines         |-> Reads("filter", "pipelines", 200, {}),
     ListCustomerPipelines |-> Reads("customer", "pipelines", 200, {404}),
     CreatePipeline        |-> Writes("customer", "pipelines", 201, {400, 404, 409}),
     GetPipeline           |-> Reads("owner", "pipelines", 200, {}),
     DeletePipeline        |-> Writes("pipeline", "pipelines", 204, {})]

VersionHandlers ==
    [ValidatePipeline        |-> Reads("none", "nothing", 200, {}),
     CreatePipelineVersion   |-> Writes("pipeline", "pipelines", 201, {400}),
     GetPipelineVersion      |-> Reads("pipeline", "pipelines", 200, {404}),
     ActivatePipelineVersion |-> Writes("pipeline", "pipelines", 200, {400, 404})]

StageHandlers ==
    [GetPipelineStageStats |-> Reads("owner", "pipelines", 200, {400, 503})]

AgentHandlers ==
    [ListAgents  |-> Reads("filter", "agents", 200, {}),
     GetAgent    |-> Reads("owner", "agents", 200, {}),
     DeleteAgent |-> Writes("owner", "agents", 204, {})]

AgentStateHandlers ==
    [UpdateAgent    |-> Writes("owner", "agents", 200, {400}),
     SyncAgent      |-> Writes("owner", "agents", 202, {}),
     GetAgentConfig |-> Reads("owner", "agents", 200, {})]

EnrollmentHandlers ==
    [ListAgentEvents      |-> Reads("owner", "agents", 200, {404}),
     ListBootstrapTokens  |-> Reads("customer", "bootstrap_tokens", 200, {404}),
     CreateBootstrapToken |-> Writes("customer", "bootstrap_tokens", 201, {400, 404}),
     RevokeBootstrapToken |-> Writes("customer", "bootstrap_tokens", 204, {404})]

ExploreHandlers ==
    [QueryLogs   |-> Reads("customer", "telemetry", 200, {400, 404, 503}),
     QueryTraces |-> Reads("customer", "telemetry", 200, {400, 404, 503}),
     GetTrace    |-> Reads("customer", "telemetry", 200, {404, 503})]

WebhookHandlers ==
    [ListWebhooks  |-> Reads("none", "webhooks", 200, {}),
     CreateWebhook |-> Writes("none", "webhooks", 201, {400}),
     UpdateWebhook |-> Writes("none", "webhooks", 200, {400, 404}),
     DeleteWebhook |-> Writes("none", "webhooks", 204, {404}),
     TestWebhook   |-> Reads("none", "webhooks", 200, {404})]

BillingHandlers ==
    [GetBillingSettings    |-> Reads("none", "billing_settings", 200, {}),
     UpdateBillingSettings |-> Writes("none", "billing_settings", 200, {400}),
     GetBillingStatement   |-> Reads("none", "billing_settings", 200, {400})]

ApiTokenHandlers ==
    [ListApiTokens  |-> Reads("none", "api_tokens", 200, {}),
     CreateApiToken |-> Writes("none", "api_tokens", 201, {400}),
     RevokeApiToken |-> Writes("none", "api_tokens", 204, {404})]

UserHandlers ==
    [ListUsers  |-> Reads("none", "users", 200, {}),
     InviteUser |-> Writes("none", "users", 201, {400, 409}),
     UpdateUser |-> Writes("none", "users", 200, {400, 404, 409}),
     DeleteUser |-> Writes("none", "users", 204, {404, 409})]

ProviderListHandlers ==
    [ListAuthProviderConfigs  |-> Reads("none", "auth_providers", 200, {}),
     CreateAuthProviderConfig |-> Writes("none", "auth_providers", 201, {400, 409})]

ProviderHandlers ==
    [UpdateAuthProviderConfig |-> Writes("none", "auth_providers", 200, {400, 404}),
     DeleteAuthProviderConfig |-> Writes("none", "auth_providers", 204, {404}),
     TestAuthProviderConfig   |-> Reads("none", "auth_providers", 200, {404})]

AuditHandlers ==
    [ListAuditLog |-> Reads("none", "audit_log", 200, {})]

Handlers ==
    SessionHandlers @@ CustomerHandlers @@ ApiKeyHandlers @@ StatsHandlers @@
    PipelineHandlers @@ VersionHandlers @@ StageHandlers @@ AgentHandlers @@
    AgentStateHandlers @@ EnrollmentHandlers @@ ExploreHandlers @@
    WebhookHandlers @@ BillingHandlers @@ ApiTokenHandlers @@ UserHandlers @@
    ProviderListHandlers @@ ProviderHandlers @@ AuditHandlers

ASSUME HandlersTotal ==
    Handlers \in [Operations ->
        [check : {"none", "unscoped", "filter", "customer", "pipeline", "owner"},
         table : STRING, writes : BOOLEAN, ok : 200..204, refusals : SUBSET (400..599)]]

\* What the deletions go by.
ASSUME DeletionsChecked ==
    /\ Handlers["DeleteAgent"].check = "owner" /\ Handlers["DeletePipeline"].check = "pipeline"
    /\ Handlers["DeletePipeline"].table = "pipelines" /\ Pipelines \cap Agents = {}

VARIABLES
    account,    \* the caller's row of users and its customer grants, or None
    update,     \* the rest of an UpdateUser of the account that is under way
    rows,       \* the pipelines and agents that exist
    connected,  \* the agents whose row says connected
    req         \* the request, or None

vars == <<account, update, rows, connected, req>>

(***************************************************************************)
(* authz: admin > operator > viewer.                                       *)
(***************************************************************************)
CanMutate(role) == role \in {"operator", "admin"}

publicPaths == {<<"auth", "providers">>, <<"auth", "dev-login">>}

logoutPath == <<"auth", "logout">>

adminPathPrefixes ==
    {<<"users">>, <<"settings", "auth-providers">>, <<"settings", "api-tokens">>,
     <<"settings", "billing">>, <<"billing">>, <<"audit">>}

isAdminOnlyPath(path) == \E p \in adminPathPrefixes : IsPrefix(p, path)

isMutating(method) == method \in {"POST", "PUT", "PATCH", "DELETE"}

\* The tables that only admins work on.
AdminTables == {"users", "auth_providers", "api_tokens", "billing_settings", "audit_log"}

\* The Guard knows methods and paths only: they agree with what the handlers do.
ASSUME RoutesAgree ==
    \A op \in Operations : PathOf(op) \notin publicPaths =>
        /\ Handlers[op].writes /\ Handlers[op].table # "sessions" =>
             isMutating(Method(op)) /\ PathOf(op) # logoutPath
        /\ Handlers[op].table \in AdminTables => isAdminOnlyPath(PathOf(op))

\* An answer that the contract lists, that any operation may give, or that is
\* one of two exceptions.
Listed(op, code) ==
    \/ code \in Answers[op] \cup {400, 403, 500, 503}
    \/ op = "CreatePipeline" /\ code = 404
    \/ op = "Logout" /\ code = 401

\* What the handlers and their checks answer is listed.
ASSUME AnswersAgree ==
    \A op \in Operations :
        /\ \A code \in Handlers[op].refusals \cup {Handlers[op].ok} : Listed(op, code)
        /\ PathOf(op) \notin publicPaths => Listed(op, 401)
        /\ Handlers[op].check \in {"pipeline", "owner"} => Listed(op, 404)
        /\ op = "DeleteAgent" => Listed(op, 409)

\* Mutant: no grants, no customers.
GrantedOnly(grants) == grants

\* A non-admin with no grants stays unscoped.
ScopeOf(grants) == IF grants = {} THEN All ELSE grants

\* What the account could do at one moment: nothing when it is disabled.
Rights(a) ==
    IF a = None \/ a.disabled THEN {}
    ELSE {[role |-> a.role, scope |-> IF a.role = "admin" THEN All ELSE ScopeOf(a.grants)]}

Targets(op) ==
    CASE Handlers[op].check = "customer" -> Customers
      [] Handlers[op].check \in {"pipeline", "owner"} ->
            IF Handlers[op].table = "agents" THEN Agents ELSE Pipelines
      [] OTHER -> {None}

Init ==
    /\ account \in Accounts
    /\ update = None
    /\ rows = Pipelines \cup Agents /\ connected \in SUBSET Agents
    /\ req = None

(***************************************************************************)
(* A request comes with a session or with an API token of some role.  It   *)
(* has a stage and the principal the Guard made of it; once answered, it   *)
(* is down to its operation and status.  The other fields are history:     *)
(* the rights the caller held since it arrived, the updates that ran       *)
(* meanwhile, that the account was deleted (orphan), that                  *)
(* requirePipelineAccess could not read the pipeline (blind) and that the  *)
(* agent connected after the handler had looked (late).                    *)
(***************************************************************************)
Arrive(op, target, cred) ==
    /\ req = None
    /\ req' = [op |-> op, target |-> target, cred |-> cred, stage |-> "guard",
               role |-> None, scope |-> {},
               held |-> IF cred = "session" THEN Rights(account)
                        ELSE {[role |-> cred, scope |-> All]},
               overlap |-> IF update = None THEN 0 ELSE 1,
               orphan |-> FALSE, blind |-> FALSE, late |-> FALSE]
    /\ UNCHANGED <<account, update, rows, connected>>

At(stage) == req # None /\ req.stage = stage

Answer(code) == req' = [op |-> req.op, stage |-> "answered", code |-> code]

Proceed(stage) == req' = [req EXCEPT !.stage = stage]

Quiet == UNCHANGED <<account, update, rows, connected>>

GuardPublic ==
    /\ At("guard") /\ PathOf(req.op) \in publicPaths
    /\ req' = [req EXCEPT !.stage = "handle", !.scope = All]
    /\ Quiet

\* The role check that sessions and tokens have in common.
Forbidden(op, role) ==
    \/ isAdminOnlyPath(PathOf(op)) /\ role # "admin"
    \/ isMutating(Method(op)) /\ PathOf(op) # logoutPath /\ ~CanMutate(role)

\* A token that is revoked, expired or cannot be read is not let through.
GuardToken ==
    /\ At("guard") /\ PathOf(req.op) \notin publicPaths /\ req.cred # "session"
    /\ \/ Answer(401)
       \/ Forbidden(req.op, req.cred) /\ Answer(403)
       \/ /\ ~Forbidden(req.op, req.cred)
          /\ req' = [req EXCEPT !.stage = "handle", !.role = req.cred, !.scope = All]
    /\ Quiet

\* The session, which may have ended, and its account; a mutating request also
\* needs the session's CSRF token, which it may not have.
GuardSession ==
    /\ At("guard") /\ PathOf(req.op) \notin publicPaths /\ req.cred = "session"
    /\ \/ Answer(401)
       \/ Answer(500)
       \/ /\ account # None
          /\ ~account.disabled
          /\ \/ /\ Forbidden(req.op, account.role) \/ isMutating(Method(req.op))
                /\ Answer(403)
             \/ /\ ~Forbidden(req.op, account.role)
                /\ req' = IF account.role = "admin"
                          THEN [req EXCEPT !.stage = "handle", !.role = "admin", !.scope = All]
                          ELSE [req EXCEPT !.stage = "scope", !.role = account.role]
    /\ Quiet

\* ListUserCustomerIDs, a query of its own.
GuardScope ==
    /\ At("scope")
    /\ \/ Answer(500)
       \/ req' = [req EXCEPT !.stage = "handle",
                  !.scope = ScopeOf(IF account = None THEN {} ELSE account.grants)]
    /\ Quiet

\* The generated code binds the parameters and decodes the body; when it
\* cannot, the handler does not run.
BindFails ==
    /\ At("handle") /\ (MayNotBind(req.op) \/ Decodes[req.op])
    /\ Answer(400) /\ Quiet

(***************************************************************************)
(* The handler: the scope check, then the work.                            *)
(***************************************************************************)
Check == Handlers[req.op].check

requireCustomerAccess(owner) == owner \in req.scope

requireUnscoped == req.scope = All

CheckScope ==
    /\ At("handle") /\ Check \in {"none", "filter", "unscoped", "customer"}
    /\ IF \/ Check = "unscoped" /\ ~requireUnscoped
          \/ Check = "customer" /\ ~requireCustomerAccess(req.target)
       THEN Answer(403) ELSE Proceed("act")
    /\ Quiet

\* A pipeline that is missing, or cannot be read, is left to the work.
requirePipelineAccess ==
    /\ At("handle") /\ Check = "pipeline"
    /\ \/ /\ requireUnscoped \/ req.target \notin rows
             \/ requireCustomerAccess(Owner[req.target])
          /\ Proceed("act")
       \/ ~requireUnscoped /\ req' = [req EXCEPT !.stage = "act", !.blind = TRUE]
       \/ /\ req.target \in rows /\ ~requireUnscoped
          /\ ~requireCustomerAccess(Owner[req.target]) /\ Answer(403)
    /\ Quiet

\* Mutant: an agent that is connected is deleted like any other.
LoadOwnerOnly ==
    /\ At("handle") /\ Check = "owner"
    /\ \/ req.target \notin rows /\ Answer(404)
       \/ Answer(500)
       \/ /\ req.target \in rows
          /\ IF requireCustomerAccess(Owner[req.target]) THEN Proceed("act") ELSE Answer(403)
    /\ Quiet

\* Mutant: no operation on a connected agent is let through.
LoadOwnerRefusing ==
    /\ At("handle") /\ Check = "owner"
    /\ \/ req.target \notin rows /\ Answer(404)
       \/ Answer(500)
       \/ /\ req.target \in rows
          /\ IF ~requireCustomerAccess(Owner[req.target]) THEN Answer(403)
             ELSE IF req.target \in connected THEN Answer(409)
             ELSE IF req.op = "SyncAgent" /\ Owner[req.target] = None THEN Answer(400)
             ELSE Proceed("act")
    /\ Quiet

\* GetAgent or GetPipeline, requireCustomerAccess and what the handler makes of
\* the row: a connected agent is not deleted, a gateway is not synced.
LoadOwner ==
    /\ At("handle") /\ Check = "owner"
    /\ \/ req.target \notin rows /\ Answer(404)
       \/ Answer(500)
       \/ /\ req.target \in rows
          /\ IF ~requireCustomerAccess(Owner[req.target]) THEN Answer(403)
             ELSE IF req.op = "DeleteAgent" /\ req.target \in connected THEN Answer(409)
             ELSE IF req.op = "SyncAgent" /\ Owner[req.target] = None THEN Answer(400)
             ELSE Proceed("act")
    /\ Quiet

Refuse ==
    /\ At("act")
    /\ \/ \E code \in Handlers[req.op].refusals : Answer(code)
       \/ Handlers[req.op].table # "nothing" /\ Answer(500)
    /\ Quiet

\* The statement that does the work needs the row to be there still.
NeedsRow ==
    \/ Check = "pipeline"
    \/ Check = "owner" /\ Handlers[req.op].writes /\ req.op # "SyncAgent"

NotFound ==
    /\ At("act") /\ NeedsRow /\ req.target \notin rows
    /\ Answer(404) /\ Quiet

Owners(table) ==
    CASE table = "agents" -> {Owner[a] : a \in Agents \cap rows}
      [] table = "pipelines" -> {Owner[p] : p \in Pipelines \cap rows}
      [] OTHER -> Customers

Touched ==
    CASE Check = "none" -> {}
      [] Check = "unscoped" -> All
      [] Check = "filter" -> Owners(Handlers[req.op].table) \cap req.scope
      [] Check = "customer" -> {req.target}
      [] OTHER -> {Owner[req.target]}

Succeed ==
    /\ At("act") /\ (NeedsRow => req.target \in rows)
    /\ Answer(Handlers[req.op].ok)
    /\ LET gone == IF req.op \in {"DeleteAgent", "DeletePipeline"} THEN {req.target} ELSE {}
       IN rows' = rows \ gone /\ connected' = connected \ gone
    /\ UNCHANGED <<account, update>>

Finish ==
    /\ At("answered") /\ req' = None /\ Quiet

(***************************************************************************)
(* What happens meanwhile.                                                 *)
(***************************************************************************)
Running == req # None /\ req.stage # "answered"

Since(a) ==
    IF Running /\ req.cred = "session" THEN [req EXCEPT !.held = @ \cup Rights(a)]
    ELSE req

\* An admin's UpdateUser of the account passes its checks.
UpdateUser(b) ==
    /\ update = None /\ account # None
    /\ b # [role |-> None, disabled |-> None, grants |-> None]
    /\ Running => req.overlap < MaxOverlap
    /\ update' = b
    /\ req' = IF Running THEN [req EXCEPT !.overlap = @ + 1] ELSE req
    /\ UNCHANGED <<account, rows, connected>>

\* Mutant: role and disabled first.
AccessFirst(b) == IF b.role # None \/ b.disabled # None THEN "access" ELSE "grants"

\* Grants first, so a subsequent read reflects the new scope.
NextCommit(b) == IF b.grants # None THEN "grants" ELSE "access"

Rest(b) == IF b = [role |-> None, disabled |-> None, grants |-> None] THEN None ELSE b

SetUserCustomerGrants ==
    /\ update # None /\ NextCommit(update) = "grants"
    /\ account' = [account EXCEPT !.grants = update.grants]
    /\ update' = Rest([update EXCEPT !.grants = None])
    /\ req' = Since(account')
    /\ UNCHANGED <<rows, connected>>

UpdateUserAdmin ==
    /\ update # None /\ NextCommit(update) = "access"
    /\ account' = [account EXCEPT !.role = IF update.role = None THEN @ ELSE update.role,
                                  !.disabled = IF update.disabled = None THEN @
                                               ELSE update.disabled]
    /\ update' = Rest([update EXCEPT !.role = None, !.disabled = None])
    /\ req' = Since(account')
    /\ UNCHANGED <<rows, connected>>

\* A transaction of the update is refused or fails: the rest is not tried.
UpdateFails ==
    /\ update # None /\ update' = None
    /\ UNCHANGED <<account, rows, connected, req>>

\* The account is deleted, and its grants with it.
DeleteUser ==
    /\ account # None /\ account' = None /\ update' = None
    /\ req' = IF Running THEN [req EXCEPT !.orphan = TRUE] ELSE req
    /\ UNCHANGED <<rows, connected>>

\* Another request deletes a pipeline, or an agent that is not connected.
DeleteRow(x) ==
    /\ x \in rows \ connected /\ rows' = rows \ {x}
    /\ UNCHANGED <<account, update, connected, req>>

SetAgentConnected(a) ==
    /\ a \in rows \ connected /\ connected' = connected \cup {a}
    /\ req' = IF At("act") /\ req.target = a THEN [req EXCEPT !.late = TRUE] ELSE req
    /\ UNCHANGED <<account, update, rows>>

SetAgentDisconnected(a) ==
    /\ a \in connected /\ connected' = connected \ {a}
    /\ UNCHANGED <<account, update, rows, req>>

Next ==
    \/ \E op \in Operations : \E t \in Targets(op), cred \in {"session"} \cup TokenRoles :
          Arrive(op, t, cred)
    \/ GuardPublic \/ GuardToken \/ GuardSession \/ GuardScope \/ BindFails
    \/ CheckScope \/ requirePipelineAccess \/ LoadOwner
    \/ Refuse \/ NotFound \/ Succeed \/ Finish
    \/ \E b \in Updates : UpdateUser(b)
    \/ SetUserCustomerGrants \/ UpdateUserAdmin \/ UpdateFails
    \/ DeleteUser
    \/ \E x \in Pipelines \cup Agents : DeleteRow(x)
    \/ \E a \in Agents : SetAgentConnected(a) \/ SetAgentDisconnected(a)

Spec == Init /\ [][Next]_vars

(***************************************************************************)
(* Properties.                                                             *)
(***************************************************************************)
\* Types: a request that the Guard let through has a scope, and it is never
\* empty: an account without grants is unscoped.
TypeOK ==
    /\ account \in AccountRows \cup {None}
    /\ update \in [role : Roles \cup {None}, disabled : BOOLEAN \cup {None},
                  grants : (SUBSET Customers) \cup {None}] \cup {None}
    /\ rows \subseteq Pipelines \cup Agents /\ connected \subseteq rows \cap Agents
    /\ Running =>
         /\ req.op \in Operations /\ req.target \in Targets(req.op)
         /\ req.scope \subseteq All
         /\ req.stage \in {"handle", "act"} => req.scope # {}

\* A handler that sets to work stays within rights that its caller held, role and
\* scope together, at one moment since the request arrived: the customers whose
\* data it touches, the tables it writes or, for the admins' tables, works on.  The
\* Guard takes role and grants from two queries and UpdateUser commits them
\* in two transactions, grants first; with the two in these orders one update
\* never lends a request a mixture nobody granted.  Two updates in a row may,
\* as may the deletion of the account between the queries (no grants means
\* all customers) and a pipeline that requirePipelineAccess cannot read.
ActsWithinRights ==
    (/\ At("act") /\ PathOf(req.op) \notin publicPaths
     /\ req.overlap <= 1 /\ ~req.orphan /\ ~req.blind) =>
    \E r \in req.held :
        /\ (NeedsRow => req.target \in rows) => Touched \subseteq r.scope
        /\ Handlers[req.op].writes /\ Handlers[req.op].table # "sessions" =>
             r.role \in {"operator", "admin"}
        /\ Handlers[req.op].table \in AdminTables => r.role = "admin"

\* An answer that the contract does not list is one of the errors any operation
\* may give: a request that does not bind or that a handler refuses (400), one
\* outside the caller's role or scope (403), an internal error (500) or an
\* unavailable backend (503).  Two operations are exceptions: CreatePipeline
\* answers 404 for a missing customer, and the Guard answers 401 for Logout.
AnswersListed == At("answered") => Listed(req.op, req.code)

\* DeleteAgent removes the row of a connected agent only when the agent
\* connected after the handler had read the row.
LiveAgentKept ==
    [][\A a \in Agents : a \in connected /\ a \notin rows' =>
          At("act") /\ req.op = "DeleteAgent" /\ req.late]_vars

=============================================================================
