------------------------------ MODULE Pipelines ------------------------------
(***************************************************************************)
(* Forwarding pipelines: creating them, appending versions, activating and *)
(* deleting, and distributing the rendered configuration to the            *)
(* OpenTelemetryCollector resource that the forwarding tier runs from      *)
(* (pipelines/service.go, pg_pipelines.go, render.go, secrets.go, k8s.go). *)
(*                                                                         *)
(* Requests run concurrently; each is split at its database transactions   *)
(* and at the patch of the resource.  A graph is its list of exporters,    *)
(* named nodes with one secret each; one signal is modelled.  Edge         *)
(* pipelines share all but the distribution, which is in EdgeRollout.      *)
(***************************************************************************)
EXTENDS Naturals, Sequences, FiniteSets

CONSTANTS
    Customers, Pids, Names, Nodes, Secrets, Requests,
    Owner,        \* [Pids -> Customers]: whom a pipeline id is minted for
    Slug,         \* [Names -> slugs]: PipelineSlug, not injective
    Submitted,    \* the graphs clients send, with Redacted for kept secrets
    Redacted,     \* RedactedSentinel
    None, Gone,   \* a pipeline id not used yet, and one whose pipeline was deleted
    MaxRequests,  \* bound: requests
    MaxUpdates,   \* bound: status changes of customers
    MaxFaults     \* bound: failing renders and patches

Graph == {g \in Seq([node : Nodes, secret : Secrets]) : g # <<>>}
Pipeline == [name : Names, versions : Seq(Graph), active : Nat]

ASSUME ConstantsTyped ==
    /\ Owner \in [Pids -> Customers] /\ Names \subseteq DOMAIN Slug
    /\ Redacted \notin Secrets /\ None \notin Pipeline /\ Gone \notin Pipeline
    /\ Submitted \subseteq Seq([node : Nodes, secret : Secrets \cup {Redacted}])
    /\ MaxRequests \in Nat /\ MaxUpdates \in Nat /\ MaxFaults \in Nat

VARIABLES
    pipe,    \* rows: None before, Gone after, a Pipeline while it exists
    status,  \* customers.status
    cr,      \* spec.config of the OpenTelemetryCollector
    pc, pid, name, graph, conf,  \* a request and its locals
    given,   \* history: <<p, node, secret>> that clients sent in plain
    lost,    \* history: the last distribution failed
    restated,    \* history: customers whose status changed since the last render
    overlapped,  \* history: a request arrived before another had finished
    count    \* how much of each bound is used

locals == <<pid, name, graph, conf>>
vars == <<pipe, status, cr, pc, locals, given, lost, restated, overlapped, count>>

Keys == Customers \X {Slug[n] : n \in Names}

Exists(p) == pipe[p] \notin {None, Gone}

\* pipelineKey, the part all component ids of a pipeline share.
pipelineKey(p, n) == <<Owner[p], Slug[n]>>
Key(p) == pipelineKey(p, pipe[p].name)

\* A partial function, f before g.
Over(f, g) ==
    [x \in DOMAIN f \cup DOMAIN g |-> IF x \in DOMAIN f THEN f[x] ELSE g[x]]

NoConfig == [chains |-> <<>>, components |-> <<>>, routes |-> {}]

Init ==
    /\ pipe = [p \in Pids |-> None]
    /\ status = [c \in Customers |-> "active"]
    /\ cr = NoConfig
    /\ pc = [r \in Requests |-> "idle"]
    /\ pid = [r \in Requests |-> None] /\ name = [r \in Requests |-> None]
    /\ graph = [r \in Requests |-> <<>>] /\ conf = [r \in Requests |-> NoConfig]
    /\ given = {} /\ lost = FALSE /\ restated = {} /\ overlapped = FALSE
    /\ count = [requests |-> 0, updates |-> 0, faults |-> 0]

Spend(b, max) == count[b] < max /\ count' = [count EXCEPT ![b] = @ + 1]
Answers == UNCHANGED count
Fails == Spend("faults", MaxFaults)

\* A request arrives.
Arrive(r) ==
    /\ pc[r] = "idle" /\ Spend("requests", MaxRequests)
    /\ overlapped' = (overlapped \/ \E q \in Requests : pc[q] # "idle")

\* A request is over; its locals go.
Finish(r) ==
    /\ pc' = [pc EXCEPT ![r] = "idle"] /\ pid' = [pid EXCEPT ![r] = None]
    /\ name' = [name EXCEPT ![r] = None] /\ graph' = [graph EXCEPT ![r] = <<>>]
    /\ conf' = [conf EXCEPT ![r] = NoConfig]

-----------------------------------------------------------------------------
(* Secrets and validation.                                                 *)

\* Sentinels that have no secret of the latest version at their path.
SecretIssues(g, prev) ==
    {i \in DOMAIN g : g[i].secret = Redacted /\ i \notin DOMAIN prev}

\* Mutant: sentinels are stored as they are.
EncryptKeepsSentinel(g, prev) == g

\* EncryptGraphSecrets: a sentinel takes the secret at its path, which names
\* the node by its index.
EncryptGraphSecrets(g, prev) ==
    [i \in DOMAIN g |-> [node |-> g[i].node,
        secret |-> IF g[i].secret = Redacted THEN prev[i].secret ELSE g[i].secret]]

Plain(p, g) ==
    {<<p, g[i].node, g[i].secret>> : i \in {j \in DOMAIN g : g[j].secret # Redacted}}

\* ValidateStructural: an exporter, and no duplicate component ids.
ValidateStructural(g) ==
    /\ g # <<>>
    /\ \A i, j \in DOMAIN g : g[i].node = g[j].node => i = j

\* ListActivePipelines: pipelines with an active version of active customers.
ListActive == {p \in Pids : Exists(p) /\ pipe[p].active > 0
                            /\ status[Owner[p]] = "active"}

\* Validate: the candidate renders together with the other active pipelines,
\* which is an error when two keys are equal.
Validate(p, n, g) ==
    /\ ValidateStructural(g)
    /\ \A q \in ListActive \ {p} :
          /\ Key(q) # pipelineKey(p, n)
          /\ \A s \in ListActive \ {p} : Key(q) = Key(s) => q = s

-----------------------------------------------------------------------------
(* Create and CreateVersion.                                               *)

\* Mutant: only the name is compared, as the unique index does.
CreateByName(r, p, n, g) ==
    /\ Arrive(r)
    /\ pipe[p] = None /\ \A q \in Requests : pid[q] # p
    /\ status[Owner[p]] # "deleted"
    /\ \A q \in Pids : Exists(q) /\ Owner[q] = Owner[p] => pipe[q].name # n
    /\ SecretIssues(g, <<>>) = {}
    /\ pc' = [pc EXCEPT ![r] = "validate"] /\ pid' = [pid EXCEPT ![r] = p]
    /\ name' = [name EXCEPT ![r] = n] /\ graph' = [graph EXCEPT ![r] = g]
    /\ given' = given \cup Plain(p, g)
    /\ UNCHANGED <<pipe, status, cr, conf, lost, restated>>

\* Create: the customer, the slug, the secrets.  A refusal changes nothing.
Create(r, p, n, g) ==
    /\ Arrive(r)
    /\ pipe[p] = None /\ \A q \in Requests : pid[q] # p
    /\ status[Owner[p]] # "deleted"
    /\ \A q \in Pids : Exists(q) /\ Owner[q] = Owner[p]
                       => Slug[pipe[q].name] # Slug[n]
    /\ SecretIssues(g, <<>>) = {}
    /\ pc' = [pc EXCEPT ![r] = "validate"] /\ pid' = [pid EXCEPT ![r] = p]
    /\ name' = [name EXCEPT ![r] = n]
    /\ graph' = [graph EXCEPT ![r] = EncryptGraphSecrets(g, <<>>)]
    /\ given' = given \cup Plain(p, g)
    /\ UNCHANGED <<pipe, status, cr, conf, lost, restated>>

\* CreateVersion: the latest version, for the secrets.
CreateVersion(r, p, g) ==
    LET prev == pipe[p].versions[Len(pipe[p].versions)] IN
    /\ Arrive(r)
    /\ Exists(p)
    /\ SecretIssues(g, prev) = {}
    /\ pc' = [pc EXCEPT ![r] = "validate"] /\ pid' = [pid EXCEPT ![r] = p]
    /\ name' = [name EXCEPT ![r] = pipe[p].name]
    /\ graph' = [graph EXCEPT ![r] = EncryptGraphSecrets(g, prev)]
    /\ given' = given \cup Plain(p, g)
    /\ UNCHANGED <<pipe, status, cr, conf, lost, restated>>

\* prepare: the active pipelines are read and the candidate is validated.
Prepare(r) ==
    /\ pc[r] = "validate"
    /\ \/ /\ Validate(pid[r], name[r], graph[r])
          /\ pc' = [pc EXCEPT ![r] = "insert"] /\ UNCHANGED locals
       \/ ~Validate(pid[r], name[r], graph[r]) /\ Finish(r)
    /\ UNCHANGED <<pipe, status, cr, given, lost, restated, overlapped, count>>

\* CreatePipeline: a deleted customer or a taken name refuse.
CreatePipeline(r) ==
    LET p == pid[r]
        free == /\ status[Owner[p]] # "deleted"
                /\ \A q \in Pids : Exists(q) /\ Owner[q] = Owner[p]
                                   => pipe[q].name # name[r] IN
    /\ pc[r] = "insert" /\ pipe[p] = None /\ Finish(r)
    /\ \/ free /\ pipe' = [pipe EXCEPT ![p] =
             [name |-> name[r], versions |-> <<graph[r]>>, active |-> 0]]
       \/ ~free /\ UNCHANGED pipe
    /\ UNCHANGED <<status, cr, given, lost, restated, overlapped, count>>

\* Mutant: the number of the new version is the one after the active version.
VersionAfterActive(r) ==
    LET p == pid[r] IN
    /\ pc[r] = "insert" /\ Exists(p) /\ Finish(r)
    /\ pipe' = [pipe EXCEPT ![p].versions =
                   SubSeq(@, 1, pipe[p].active) \o <<graph[r]>>]
    /\ UNCHANGED <<status, cr, given, lost, restated, overlapped, count>>

\* CreatePipelineVersion: the row lock makes max+1 the next number.  A deleted
\* pipeline refuses.
CreatePipelineVersion(r) ==
    LET p == pid[r] IN
    /\ pc[r] = "insert" /\ pipe[p] # None /\ Finish(r)
    /\ \/ Exists(p) /\ pipe' = [pipe EXCEPT ![p].versions = Append(@, graph[r])]
       \/ pipe[p] = Gone /\ UNCHANGED pipe
    /\ UNCHANGED <<status, cr, given, lost, restated, overlapped, count>>

-----------------------------------------------------------------------------
(* Activate, Delete, and the distribution that follows.                    *)

Activate(r, p, v) ==
    /\ Arrive(r)
    /\ Exists(p) /\ v \in DOMAIN pipe[p].versions
    /\ pipe' = [pipe EXCEPT ![p].active = v]
    /\ pc' = [pc EXCEPT ![r] = "render"]
    /\ UNCHANGED <<status, cr, locals, given, lost, restated>>

\* Delete reads whether the pipeline is active before it deletes.
Delete(r, p) ==
    /\ Arrive(r)
    /\ Exists(p)
    /\ pc' = [pc EXCEPT ![r] = IF pipe[p].active > 0 THEN "deleteActive" ELSE "delete"]
    /\ pid' = [pid EXCEPT ![r] = p]
    /\ UNCHANGED <<pipe, status, cr, name, graph, conf, given, lost, restated>>

DeletePipeline(r) ==
    /\ pc[r] \in {"delete", "deleteActive"}
    /\ pipe' = [pipe EXCEPT ![pid[r]] = Gone]
    /\ \/ /\ Exists(pid[r]) /\ pc[r] = "deleteActive"
          /\ pc' = [pc EXCEPT ![r] = "render"] /\ pid' = [pid EXCEPT ![r] = None]
          /\ UNCHANGED <<name, graph, conf>>
       \/ (~Exists(pid[r]) \/ pc[r] = "delete") /\ Finish(r)
    /\ UNCHANGED <<status, cr, given, lost, restated, overlapped, count>>

\* Mutant: exporters are taken from the latest version, pipelines from the
\* active one.
RenderLatest ==
    LET live == ListActive
        latest(p) == pipe[p].versions[Len(pipe[p].versions)]
        active(p) == pipe[p].versions[pipe[p].active]
        of(k) == CHOOSE p \in live : Key(p) = k
        keys == {Key(p) : p \in live}
        ids == UNION {{<<k, latest(of(k))[i].node>> : i \in DOMAIN latest(of(k))}
                      : k \in keys} IN
    [chains |-> [k \in keys |-> {active(of(k))[i].node : i \in DOMAIN active(of(k))}],
     components |-> [x \in ids |-> CHOOSE s \in Secrets : TRUE],
     routes |-> keys]

\* RenderForwardingConfig of the active pipelines: the exporters each collector
\* pipeline lists, the exporters, and the routing table.
RenderForwardingConfig ==
    LET live == ListActive
        active(p) == pipe[p].versions[pipe[p].active]
        of(k) == CHOOSE p \in live : Key(p) = k
        keys == {Key(p) : p \in live}
        nodes(k) == {active(of(k))[i].node : i \in DOMAIN active(of(k))}
        secret(k, n) == LET g == active(of(k))
                        IN g[CHOOSE i \in DOMAIN g : g[i].node = n].secret IN
    [chains |-> [k \in keys |-> nodes(k)],
     components |-> [x \in {y \in keys \X Nodes : y[2] \in nodes(y[1])} |->
                        secret(x[1], x[2])],
     routes |-> keys]

\* Two active pipelines of one key are an error.
Renders == \A p, q \in ListActive : Key(p) = Key(q) => p = q

\* distribute, first half: RenderCurrent.
RenderCurrent(r) ==
    /\ pc[r] = "render"
    /\ \/ /\ Renders /\ Answers
          /\ conf' = [conf EXCEPT ![r] = RenderForwardingConfig]
          /\ pc' = [pc EXCEPT ![r] = "patch"] /\ restated' = {}
          /\ UNCHANGED <<pid, name, graph, lost>>
       \/ ~Renders /\ Answers /\ Finish(r) /\ lost' = TRUE /\ UNCHANGED restated
       \/ Fails /\ Finish(r) /\ lost' = TRUE /\ UNCHANGED restated
    /\ UNCHANGED <<pipe, status, cr, given, overlapped>>

\* Mutant: arrays are added to as well.
MergeArrays(old, new) ==
    [chains |-> Over(new.chains, old.chains),
     components |-> Over(new.components, old.components),
     routes |-> old.routes \cup new.routes]

\* Mutant: what the resource holds already stays.
MergeKeepsOld(old, new) ==
    [chains |-> Over(old.chains, new.chains),
     components |-> Over(old.components, new.components),
     routes |-> new.routes]

\* A JSON merge patch replaces arrays and adds to objects.
MergePatch(old, new) ==
    [chains |-> Over(new.chains, old.chains),
     components |-> Over(new.components, old.components),
     routes |-> new.routes]

\* distribute, second half: K8sDistributor.Distribute.
Distribute(r) ==
    /\ pc[r] = "patch" /\ Finish(r)
    /\ \/ Answers /\ cr' = MergePatch(cr, conf[r]) /\ lost' = FALSE
       \/ Fails /\ lost' = TRUE /\ UNCHANGED cr
    /\ UNCHANGED <<pipe, status, given, restated, overlapped>>

\* UpdateCustomer and SoftDeleteCustomer; nothing is distributed.
UpdateCustomer(c, s) ==
    /\ Spend("updates", MaxUpdates)
    /\ status[c] # "deleted" /\ s # status[c]
    /\ status' = [status EXCEPT ![c] = s] /\ restated' = restated \cup {c}
    /\ UNCHANGED <<pipe, cr, pc, locals, given, lost, overlapped>>

Next ==
    \/ \E r \in Requests :
          \/ \E p \in Pids, g \in Submitted :
                \/ \E n \in Names : Create(r, p, n, g)
                \/ CreateVersion(r, p, g)
          \/ \E p \in Pids : \/ Exists(p) /\ \E v \in DOMAIN pipe[p].versions :
                                                Activate(r, p, v)
                             \/ Delete(r, p)
          \/ Prepare(r) \/ CreatePipeline(r) \/ CreatePipelineVersion(r)
          \/ DeletePipeline(r)
          \/ RenderCurrent(r) \/ Distribute(r)
    \/ \E c \in Customers, s \in {"active", "suspended", "deleted"} :
          UpdateCustomer(c, s)

Spec == Init /\ [][Next]_vars

-----------------------------------------------------------------------------
(* Properties.                                                             *)

\* Type invariant; the sentinel is never stored, and the active version is one
\* of the pipeline's versions.
TypeOK ==
    /\ \A p \in Pids : \/ pipe[p] \in {None, Gone}
                       \/ /\ pipe[p] \in Pipeline /\ pipe[p].versions # <<>>
                          /\ pipe[p].active <= Len(pipe[p].versions)
    /\ status \in [Customers -> {"active", "suspended", "deleted"}]
    /\ pc \in [Requests -> {"idle", "validate", "insert", "delete",
                            "deleteActive", "render", "patch"}]
    /\ pid \in [Requests -> Pids \cup {None}]
    /\ name \in [Requests -> Names \cup {None}]
    /\ \A r \in Requests : graph[r] = <<>> \/ graph[r] \in Graph
    /\ DOMAIN cr.chains \subseteq Keys /\ cr.routes \subseteq Keys
    /\ \A k \in DOMAIN cr.chains : cr.chains[k] \subseteq Nodes
    /\ DOMAIN cr.components \subseteq Keys \X Nodes
    /\ \A x \in DOMAIN cr.components : cr.components[x] \in Secrets

\* A stored version is immutable: whatever requests overlap, a pipeline's
\* versions only ever grow at the end, and its name stays.
VersionsImmutable ==
    [][\A p \in Pids : Exists(p) /\ pipe'[p] # Gone =>
          /\ pipe'[p].name = pipe[p].name
          /\ Len(pipe'[p].versions) >= Len(pipe[p].versions)
          /\ SubSeq(pipe'[p].versions, 1, Len(pipe[p].versions))
                = pipe[p].versions]_vars

\* The collector can load what the resource holds: every pipeline in it, stale
\* ones included, only lists exporters that are in it too, and every pipeline
\* in the routing table is there.
CollectorLoads ==
    /\ cr.routes \subseteq DOMAIN cr.chains
    /\ \A k \in DOMAIN cr.chains :
          \A n \in cr.chains[k] : <<k, n>> \in DOMAIN cr.components

Idle == \A r \in Requests : pc[r] = "idle"

\* Every request has finished, none overlapped another, and the last
\* distribution went through.
DoneInTurn == Idle /\ ~lost /\ ~overlapped

\* After requests that did not overlap, exactly the active pipelines of active
\* customers are deployed: the resource routes to them and to no others, with
\* the exporters and secrets of the active version, whatever was activated,
\* rolled back and deleted before.  A change of a customer's status distributes
\* nothing (tenants/service.go 152), so this is of the customers that have not
\* changed since the last render; the others are behind until the next one.
\* (Overlapping requests may patch in another order than they rendered.)
ActiveIsDeployed ==
    DoneInTurn =>
        LET now == RenderForwardingConfig
            current == {k \in Keys : k[1] \notin restated} IN
        /\ now.routes \cap current = cr.routes \cap current
        /\ \A k \in now.routes \cap current : cr.chains[k] = now.chains[k]
        /\ \A x \in DOMAIN now.components :
              x[1] \in current => cr.components[x] = now.components[x]

\* After requests that did not overlap, nothing is routed to a pipeline that was
\* deleted.  (Delete distributes only when the row it read before was active.)
DeletedNotRouted ==
    DoneInTurn => \A k \in cr.routes : \E p \in Pids : Exists(p) /\ Key(p) = k

\* Unless requests overlapped, no two pipelines of a customer share a slug, so
\* that component ids never collide (service.go 254).
SlugsDistinct ==
    ~overlapped =>
        \A p, q \in Pids : Exists(p) /\ Exists(q) /\ Key(p) = Key(q) => p = q

\* A sentinel keeps the node's stored secret: no version pairs a node with a
\* secret that was never entered for it (secrets.go 10-12).
SecretsStayWithNodes ==
    \A p \in Pids : Exists(p) =>
        \A v \in DOMAIN pipe[p].versions : \A i \in DOMAIN pipe[p].versions[v] :
            LET e == pipe[p].versions[v][i] IN <<p, e.node, e.secret>> \in given

=============================================================================
