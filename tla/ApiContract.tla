---------------------------- MODULE ApiContract ----------------------------
(***************************************************************************)
(* The REST contract as the generated server code enforces it              *)
(* (internal/api/apigen/api.gen.go): the route of every operation, the     *)
(* parameters its wrapper binds before the handler runs, whether the       *)
(* strict handler decodes a JSON body, and the statuses it has a response  *)
(* type for.  Text, payload schemas and headers are left out.              *)
(***************************************************************************)
EXTENDS Naturals, Sequences, TLC

(***************************************************************************)
(* Routes: the method and the path below /api/v1, segment by segment.      *)
(***************************************************************************)
ID == "{id}"    \* a path parameter

FleetRoutes ==
    [ListAgents            |-> <<"GET", <<"agents">>>>,
     DeleteAgent           |-> <<"DELETE", <<"agents", ID>>>>,
     GetAgent              |-> <<"GET", <<"agents", ID>>>>,
     UpdateAgent           |-> <<"PATCH", <<"agents", ID>>>>,
     GetAgentConfig        |-> <<"GET", <<"agents", ID, "config">>>>,
     ListAgentEvents       |-> <<"GET", <<"agents", ID, "events">>>>,
     SyncAgent             |-> <<"POST", <<"agents", ID, "sync">>>>,
     ListAuditLog          |-> <<"GET", <<"audit">>>>,
     DevLogin              |-> <<"POST", <<"auth", "dev-login">>>>,
     Logout                |-> <<"POST", <<"auth", "logout">>>>,
     ListAuthProviders     |-> <<"GET", <<"auth", "providers">>>>,
     GetBillingStatement   |-> <<"GET", <<"billing", "statement">>>>,
     GetComponentCatalog   |-> <<"GET", <<"catalog", "components">>>>,
     ListCustomers         |-> <<"GET", <<"customers">>>>,
     CreateCustomer        |-> <<"POST", <<"customers">>>>,
     DeleteCustomer        |-> <<"DELETE", <<"customers", ID>>>>,
     GetCustomer           |-> <<"GET", <<"customers", ID>>>>,
     UpdateCustomer        |-> <<"PATCH", <<"customers", ID>>>>,
     ListApiKeys           |-> <<"GET", <<"customers", ID, "api-keys">>>>,
     CreateApiKey          |-> <<"POST", <<"customers", ID, "api-keys">>>>,
     RevokeApiKey          |-> <<"DELETE", <<"customers", ID, "api-keys", ID>>>>,
     ListBootstrapTokens   |-> <<"GET", <<"customers", ID, "bootstrap-tokens">>>>,
     CreateBootstrapToken  |-> <<"POST", <<"customers", ID, "bootstrap-tokens">>>>,
     RevokeBootstrapToken  |-> <<"DELETE", <<"customers", ID, "bootstrap-tokens", ID>>>>,
     QueryLogs             |-> <<"GET", <<"customers", ID, "logs">>>>,
     ListCustomerPipelines |-> <<"GET", <<"customers", ID, "pipelines">>>>,
     CreatePipeline        |-> <<"POST", <<"customers", ID, "pipelines">>>>,
     GetCustomerThroughput |-> <<"GET", <<"customers", ID, "stats", "throughput">>>>,
     QueryTraces           |-> <<"GET", <<"customers", ID, "traces">>>>,
     GetTrace              |-> <<"GET", <<"customers", ID, "traces", ID>>>>]

SettingsRoutes ==
    [GetMe                    |-> <<"GET", <<"me">>>>,
     ListPipelines            |-> <<"GET", <<"pipelines">>>>,
     ValidatePipeline         |-> <<"POST", <<"pipelines", "validate">>>>,
     DeletePipeline           |-> <<"DELETE", <<"pipelines", ID>>>>,
     GetPipeline              |-> <<"GET", <<"pipelines", ID>>>>,
     GetPipelineStageStats    |-> <<"GET", <<"pipelines", ID, "stats", "stages">>>>,
     CreatePipelineVersion    |-> <<"POST", <<"pipelines", ID, "versions">>>>,
     GetPipelineVersion       |-> <<"GET", <<"pipelines", ID, "versions", ID>>>>,
     ActivatePipelineVersion  |-> <<"POST", <<"pipelines", ID, "versions", ID, "activate">>>>,
     ListApiTokens            |-> <<"GET", <<"settings", "api-tokens">>>>,
     CreateApiToken           |-> <<"POST", <<"settings", "api-tokens">>>>,
     RevokeApiToken           |-> <<"DELETE", <<"settings", "api-tokens", ID>>>>,
     ListAuthProviderConfigs  |-> <<"GET", <<"settings", "auth-providers">>>>,
     CreateAuthProviderConfig |-> <<"POST", <<"settings", "auth-providers">>>>,
     DeleteAuthProviderConfig |-> <<"DELETE", <<"settings", "auth-providers", ID>>>>,
     UpdateAuthProviderConfig |-> <<"PATCH", <<"settings", "auth-providers", ID>>>>,
     TestAuthProviderConfig   |-> <<"POST", <<"settings", "auth-providers", ID, "test">>>>,
     GetBillingSettings       |-> <<"GET", <<"settings", "billing">>>>,
     UpdateBillingSettings    |-> <<"PUT", <<"settings", "billing">>>>,
     ListWebhooks             |-> <<"GET", <<"settings", "webhooks">>>>,
     CreateWebhook            |-> <<"POST", <<"settings", "webhooks">>>>,
     DeleteWebhook            |-> <<"DELETE", <<"settings", "webhooks", ID>>>>,
     UpdateWebhook            |-> <<"PATCH", <<"settings", "webhooks", ID>>>>,
     TestWebhook              |-> <<"POST", <<"settings", "webhooks", ID, "test">>>>,
     GetCostStats             |-> <<"GET", <<"stats", "cost">>>>,
     GetStatsOverview         |-> <<"GET", <<"stats", "overview">>>>,
     ListUsers                |-> <<"GET", <<"users">>>>,
     InviteUser               |-> <<"POST", <<"users">>>>,
     DeleteUser               |-> <<"DELETE", <<"users", ID>>>>,
     UpdateUser               |-> <<"PATCH", <<"users", ID>>>>]

Routes == FleetRoutes @@ SettingsRoutes

Operations == DOMAIN Routes

Method(op) == Routes[op][1]

PathOf(op) == Routes[op][2]

(***************************************************************************)
(* Parameters by name, with their types: those of the path, and the        *)
(* optional and required ones of the query.  A wrapper refuses the request *)
(* when one does not parse as its type, or when a required one is missing; *)
(* any text is a string.                                                   *)
(***************************************************************************)
Params(path, optional, required) ==
    [path |-> path, optional |-> optional, required |-> required]

NoParams == Params(<<>>, <<>>, <<>>)

Path(path) == Params(path, <<>>, <<>>)

AgentParams ==
    [ListAgents  |-> Params(<<>>,
                            [class |-> "string", customerId |-> "uuid",
                             connected |-> "boolean"],
                            <<>>),
     DeleteAgent |-> Path([agentId |-> "uuid"]),
     GetAgent    |-> Path([agentId |-> "uuid"]),
     UpdateAgent |-> Path([agentId |-> "uuid"])]

AgentStateParams ==
    [GetAgentConfig  |-> Path([agentId |-> "uuid"]),
     ListAgentEvents |-> Params([agentId |-> "uuid"], [limit |-> "integer"], <<>>),
     SyncAgent       |-> Path([agentId |-> "uuid"])]

AuditParams ==
    [ListAuditLog |-> Params(<<>>,
                             [action |-> "string", entityType |-> "string",
                              customerId |-> "uuid", actorUserId |-> "uuid",
                              from |-> "date-time", to |-> "date-time",
                              limit |-> "integer", beforeId |-> "int64"],
                             <<>>),
     DevLogin     |-> NoParams]

CustomerListParams ==
    [Logout              |-> NoParams,
     ListAuthProviders   |-> NoParams,
     GetBillingStatement |-> Params(<<>>, <<>>, [month |-> "string"]),
     GetComponentCatalog |-> NoParams,
     ListCustomers       |-> Params(<<>>, [status |-> "string"], <<>>),
     CreateCustomer      |-> NoParams,
     DeleteCustomer      |-> Path([customerId |-> "uuid"])]

CustomerParams ==
    [GetCustomer    |-> Path([customerId |-> "uuid"]),
     UpdateCustomer |-> Path([customerId |-> "uuid"]),
     ListApiKeys    |-> Path([customerId |-> "uuid"]),
     CreateApiKey   |-> Path([customerId |-> "uuid"]),
     RevokeApiKey   |-> Path([customerId |-> "uuid", keyId |-> "uuid"])]

BootstrapTokenParams ==
    [ListBootstrapTokens  |-> Path([customerId |-> "uuid"]),
     CreateBootstrapToken |-> Path([customerId |-> "uuid"]),
     RevokeBootstrapToken |-> Path([customerId |-> "uuid", tokenId |-> "uuid"])]

LogParams ==
    [QueryLogs             |-> Params([customerId |-> "uuid"],
                                      [q |-> "string", service |-> "string",
                                       minSeverity |-> "integer", limit |-> "integer",
                                       before |-> "date-time"],
                                      [from |-> "date-time", to |-> "date-time"]),
     ListCustomerPipelines |-> Path([customerId |-> "uuid"])]

ThroughputParams ==
    [CreatePipeline        |-> Path([customerId |-> "uuid"]),
     GetCustomerThroughput |-> Params([customerId |-> "uuid"],
                                      [signal |-> "string", step |-> "string"],
                                      [from |-> "date-time", to |-> "date-time"])]

TraceParams ==
    [QueryTraces |-> Params([customerId |-> "uuid"],
                            [service |-> "string", name |-> "string",
                             minDurationMs |-> "number", errorsOnly |-> "boolean",
                             limit |-> "integer", before |-> "date-time"],
                            [from |-> "date-time", to |-> "date-time"])]

PipelineParams ==
    [GetTrace         |-> Path([customerId |-> "uuid", traceId |-> "string"]),
     GetMe            |-> NoParams,
     ListPipelines    |-> NoParams,
     ValidatePipeline |-> NoParams,
     DeletePipeline   |-> Path([pipelineId |-> "uuid"]),
     GetPipeline      |-> Path([pipelineId |-> "uuid"])]

PipelineVersionParams ==
    [GetPipelineStageStats |-> Params([pipelineId |-> "uuid"],
                                      <<>>,
                                      [from |-> "date-time", to |-> "date-time"]),
     CreatePipelineVersion |-> Path([pipelineId |-> "uuid"]),
     GetPipelineVersion    |-> Path([pipelineId |-> "uuid", version |-> "integer"])]

SettingsParams ==
    [ActivatePipelineVersion  |-> Path([pipelineId |-> "uuid", version |-> "integer"]),
     ListApiTokens            |-> NoParams,
     CreateApiToken           |-> NoParams,
     RevokeApiToken           |-> Path([tokenId |-> "uuid"]),
     ListAuthProviderConfigs  |-> NoParams,
     CreateAuthProviderConfig |-> NoParams,
     DeleteAuthProviderConfig |-> Path([providerId |-> "uuid"])]

ProviderParams ==
    [UpdateAuthProviderConfig |-> Path([providerId |-> "uuid"]),
     TestAuthProviderConfig   |-> Path([providerId |-> "uuid"]),
     GetBillingSettings       |-> NoParams,
     UpdateBillingSettings    |-> NoParams,
     ListWebhooks             |-> NoParams,
     CreateWebhook            |-> NoParams,
     DeleteWebhook            |-> Path([webhookId |-> "uuid"])]

StatsParams ==
    [UpdateWebhook    |-> Path([webhookId |-> "uuid"]),
     TestWebhook      |-> Path([webhookId |-> "uuid"]),
     GetCostStats     |-> Params(<<>>, <<>>, [from |-> "date-time", to |-> "date-time"]),
     GetStatsOverview |-> Params(<<>>, <<>>, [from |-> "date-time", to |-> "date-time"])]

UserParams ==
    [ListUsers  |-> NoParams,
     InviteUser |-> NoParams,
     DeleteUser |-> Path([userId |-> "uuid"]),
     UpdateUser |-> Path([userId |-> "uuid"])]

Parameters ==
    AgentParams @@ AgentStateParams @@ AuditParams @@ CustomerListParams @@
    CustomerParams @@ BootstrapTokenParams @@ LogParams @@
    ThroughputParams @@ TraceParams @@ PipelineParams @@
    PipelineVersionParams @@ SettingsParams @@ ProviderParams @@
    StatsParams @@ UserParams

Typed(types) == \E p \in DOMAIN types : types[p] # "string"

\* Some request for the operation fails to bind.
MayNotBind(op) ==
    \/ Typed(Parameters[op].path) \/ Typed(Parameters[op].optional)
    \/ DOMAIN Parameters[op].required # {}

(***************************************************************************)
(* Bodies: the strict handlers that decode one refuse what is not JSON of  *)
(* the expected shape; the others ignore the body.                         *)
(***************************************************************************)
Decoding(plain, json) == [op \in plain \cup json |-> op \in json]

AgentBodies ==
    Decoding({"ListAgents", "DeleteAgent", "GetAgent", "GetAgentConfig"},
             {"UpdateAgent"})

LoginBodies ==
    Decoding({"ListAgentEvents", "SyncAgent", "ListAuditLog", "Logout"},
             {"DevLogin"})

CustomerListBodies ==
    Decoding({"ListAuthProviders", "GetBillingStatement", "GetComponentCatalog", "ListCustomers"},
             {"CreateCustomer"})

CustomerBodies ==
    Decoding({"DeleteCustomer", "GetCustomer", "ListApiKeys"},
             {"UpdateCustomer", "CreateApiKey"})

TokenBodies ==
    Decoding({"RevokeApiKey", "ListBootstrapTokens", "RevokeBootstrapToken", "QueryLogs"},
             {"CreateBootstrapToken"})

CustomerPipelineBodies ==
    Decoding({"ListCustomerPipelines", "GetCustomerThroughput", "QueryTraces", "GetTrace"},
             {"CreatePipeline"})

PipelineBodies ==
    Decoding({"GetMe", "ListPipelines", "DeletePipeline", "GetPipeline"},
             {"ValidatePipeline"})

VersionBodies ==
    Decoding({"GetPipelineStageStats", "GetPipelineVersion", "ActivatePipelineVersion", "ListApiTokens"},
             {"CreatePipelineVersion"})

ProviderListBodies ==
    Decoding({"RevokeApiToken", "ListAuthProviderConfigs", "DeleteAuthProviderConfig"},
             {"CreateApiToken", "CreateAuthProviderConfig"})

SettingsBodies ==
    Decoding({"TestAuthProviderConfig", "GetBillingSettings", "ListWebhooks"},
             {"UpdateAuthProviderConfig", "UpdateBillingSettings"})

WebhookBodies ==
    Decoding({"DeleteWebhook", "TestWebhook", "GetCostStats"},
             {"CreateWebhook", "UpdateWebhook"})

UserBodies ==
    Decoding({"GetStatsOverview", "ListUsers", "DeleteUser"},
             {"InviteUser", "UpdateUser"})

Decodes ==
    AgentBodies @@ LoginBodies @@ CustomerListBodies @@ CustomerBodies @@
    TokenBodies @@ CustomerPipelineBodies @@ PipelineBodies @@
    VersionBodies @@ ProviderListBodies @@ SettingsBodies @@ WebhookBodies @@
    UserBodies

(***************************************************************************)
(* Answers: the statuses that have a response type, which are those that   *)
(* the OpenAPI document lists.                                             *)
(***************************************************************************)
AgentListAnswers ==
    [ListAgents  |-> {200, 401},
     DeleteAgent |-> {204, 401, 403, 404, 409}]

AgentAnswers ==
    [GetAgent    |-> {200, 401, 404},
     UpdateAgent |-> {200, 400, 401, 403, 404}]

AgentStateAnswers ==
    [GetAgentConfig  |-> {200, 401, 404},
     ListAgentEvents |-> {200, 401, 404}]

AgentSyncAnswers ==
    [SyncAgent    |-> {202, 400, 401, 403, 404},
     ListAuditLog |-> {200, 401, 403}]

LoginAnswers ==
    [DevLogin            |-> {204, 403},
     Logout              |-> {204},
     ListAuthProviders   |-> {200},
     GetBillingStatement |-> {200, 400, 401, 403}]

CatalogAnswers ==
    [GetComponentCatalog |-> {200, 401},
     ListCustomers       |-> {200, 401}]

CustomerListAnswers ==
    [CreateCustomer |-> {201, 400, 401, 403, 409},
     DeleteCustomer |-> {204, 401, 403, 404}]

CustomerAnswers ==
    [GetCustomer    |-> {200, 401, 404},
     UpdateCustomer |-> {200, 401, 403, 404}]

ApiKeyAnswers ==
    [ListApiKeys  |-> {200, 401, 404},
     CreateApiKey |-> {201, 401, 403, 404}]

ApiKeyRevokeAnswers ==
    [RevokeApiKey        |-> {204, 401, 403, 404},
     ListBootstrapTokens |-> {200, 401, 404}]

BootstrapTokenAnswers ==
    [CreateBootstrapToken |-> {201, 401, 403, 404},
     RevokeBootstrapToken |-> {204, 401, 403, 404}]

LogAnswers ==
    [QueryLogs             |-> {200, 401, 404, 503},
     ListCustomerPipelines |-> {200, 401, 404}]

ThroughputAnswers ==
    [CreatePipeline        |-> {201, 400, 401, 403, 409},
     GetCustomerThroughput |-> {200, 401, 404}]

TraceAnswers ==
    [QueryTraces |-> {200, 401, 404},
     GetTrace    |-> {200, 401, 404},
     GetMe       |-> {200, 401}]

PipelineListAnswers ==
    [ListPipelines    |-> {200, 401},
     ValidatePipeline |-> {200, 401},
     DeletePipeline   |-> {204, 401, 403, 404}]

PipelineAnswers ==
    [GetPipeline           |-> {200, 401, 404},
     GetPipelineStageStats |-> {200, 401, 404}]

VersionAnswers ==
    [CreatePipelineVersion |-> {201, 400, 401, 403, 404},
     GetPipelineVersion    |-> {200, 401, 404}]

ActivationAnswers ==
    [ActivatePipelineVersion |-> {200, 400, 401, 403, 404},
     ListApiTokens           |-> {200, 401, 403}]

ApiTokenAnswers ==
    [CreateApiToken |-> {201, 400, 401, 403},
     RevokeApiToken |-> {204, 401, 403, 404}]

ProviderListAnswers ==
    [ListAuthProviderConfigs  |-> {200, 401, 403},
     CreateAuthProviderConfig |-> {201, 400, 401, 403, 409}]

ProviderAnswers ==
    [DeleteAuthProviderConfig |-> {204, 401, 403, 404},
     UpdateAuthProviderConfig |-> {200, 400, 401, 403, 404}]

ProviderTestAnswers ==
    [TestAuthProviderConfig |-> {200, 401, 403, 404},
     GetBillingSettings     |-> {200, 401, 403}]

BillingAnswers ==
    [UpdateBillingSettings |-> {200, 400, 401, 403},
     ListWebhooks          |-> {200, 401, 403}]

WebhookListAnswers ==
    [CreateWebhook |-> {201, 400, 401, 403},
     DeleteWebhook |-> {204, 401, 403, 404}]

WebhookAnswers ==
    [UpdateWebhook |-> {200, 400, 401, 403, 404},
     TestWebhook   |-> {200, 401, 403, 404}]

StatsAnswers ==
    [GetCostStats     |-> {200, 401},
     GetStatsOverview |-> {200, 401},
     ListUsers        |-> {200, 401, 403}]

UserListAnswers ==
    [InviteUser |-> {201, 401, 403, 409},
     DeleteUser |-> {204, 401, 403, 404, 409}]

UserAnswers ==
    [UpdateUser |-> {200, 400, 401, 403, 404, 409}]

Answers ==
    AgentListAnswers @@ AgentAnswers @@ AgentStateAnswers @@
    AgentSyncAnswers @@ LoginAnswers @@ CatalogAnswers @@
    CustomerListAnswers @@ CustomerAnswers @@ ApiKeyAnswers @@
    ApiKeyRevokeAnswers @@ BootstrapTokenAnswers @@ LogAnswers @@
    ThroughputAnswers @@ TraceAnswers @@ PipelineListAnswers @@
    PipelineAnswers @@ VersionAnswers @@ ActivationAnswers @@
    ApiTokenAnswers @@ ProviderListAnswers @@ ProviderAnswers @@
    ProviderTestAnswers @@ BillingAnswers @@ WebhookListAnswers @@
    WebhookAnswers @@ StatsAnswers @@ UserListAnswers @@ UserAnswers

ASSUME ContractTotal ==
    /\ DOMAIN Parameters = Operations
    /\ Decodes \in [Operations -> BOOLEAN]
    /\ Answers \in [Operations -> SUBSET (200..599)]
    /\ \A op \in Operations : \E code \in Answers[op] : code < 300

=============================================================================
