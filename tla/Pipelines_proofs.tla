------------------------- MODULE Pipelines_proofs -------------------------
(***************************************************************************)
(* For any customers, pipelines, graphs and overlapping requests: a stored *)
(* version is immutable (VersionsImmutable), the collector can load what   *)
(* the resource holds (CollectorLoads), and the state has its types        *)
(* (TypeOK).  For requests that do not overlap: slugs are distinct         *)
(* (SlugsDistinct), nothing is routed to a deleted pipeline                *)
(* (DeletedNotRouted), and what is active is deployed (ActiveIsDeployed).  *)
(***************************************************************************)
EXTENDS Pipelines, SequenceTheorems, TLAPS

Exporters == Seq([node : Nodes, secret : Secrets])

\* The rows of pipelines and pipeline_versions.
Rows ==
    /\ pipe \in [Pids -> Pipeline \cup {None, Gone}]
    /\ \A p \in Pids : Exists(p) => /\ pipe[p].versions # <<>>
                                    /\ pipe[p].active <= Len(pipe[p].versions)

\* What a request holds between its transactions.
Held ==
    /\ pc = [r \in Requests |-> pc[r]] /\ pid = [r \in Requests |-> pid[r]]
    /\ name = [r \in Requests |-> name[r]] /\ graph = [r \in Requests |-> graph[r]]
    /\ \A r \in Requests :
          /\ pc[r] \in {"validate", "insert"} =>
                pid[r] \in Pids /\ name[r] \in Names /\ graph[r] \in Exporters
          /\ pc[r] = "insert" => graph[r] # <<>>
          /\ pc[r] \in {"delete", "deleteActive"} => pid[r] \in Pids

IInv == Rows /\ Held

\* The ways the transactions change the rows.
Inserts(p) == \E n \in Names, g \in Graph :
    pipe[p] = None /\ pipe' = [pipe EXCEPT ![p] =
                                  [name |-> n, versions |-> <<g>>, active |-> 0]]
Appends(p) == \E g \in Graph :
    Exists(p) /\ pipe' = [pipe EXCEPT ![p].versions = Append(@, g)]
Activates(p) == \E v \in DOMAIN pipe[p].versions :
    Exists(p) /\ pipe' = [pipe EXCEPT ![p].active = v]
Removes(p) == pipe' = [pipe EXCEPT ![p] = Gone]

Transaction == \E p \in Pids : Inserts(p) \/ Appends(p) \/ Activates(p) \/ Removes(p)

\* The empty tables.
LEMMA InitIInv == Init => IInv
<1> SUFFICES ASSUME Init PROVE IInv
  OBVIOUS
<1>1. Rows
  BY DEF Init, Rows, Exists
<1>2. Held
  BY DEF Init, Held
<1> QED BY <1>1, <1>2 DEF IInv

\* An element of a sequence.
LEMMA ElementTyped == ASSUME NEW S, NEW s \in Seq(S), NEW i \in DOMAIN s PROVE s[i] \in S
  OBVIOUS

\* EncryptGraphSecrets stores no sentinel and keeps the nodes.
LEMMA Encrypted ==
  ASSUME NEW g \in Submitted, NEW prev \in Exporters, SecretIssues(g, prev) = {}
  PROVE  EncryptGraphSecrets(g, prev) \in Exporters
<1>1. g \in Seq([node : Nodes, secret : Secrets \cup {Redacted}])
  BY ConstantsTyped
<1>2. Len(g) \in Nat /\ DOMAIN g = 1..Len(g)
  BY <1>1
<1> DEFINE e(i) == [node |-> g[i].node,
                    secret |-> IF g[i].secret = Redacted THEN prev[i].secret
                               ELSE g[i].secret]
<1>3. \A i \in 1..Len(g) : e(i) \in [node : Nodes, secret : Secrets]
  <2> SUFFICES ASSUME NEW i \in 1..Len(g) PROVE e(i) \in [node : Nodes, secret : Secrets]
    OBVIOUS
  <2>1. g[i] \in [node : Nodes, secret : Secrets \cup {Redacted}]
    BY <1>1, <1>2, ElementTyped
  <2>2. g[i].secret = Redacted => i \in DOMAIN prev
    BY <1>2 DEF SecretIssues
  <2>3. i \in DOMAIN prev => prev[i] \in [node : Nodes, secret : Secrets]
    BY ElementTyped DEF Exporters
  <2> QED BY <2>1, <2>2, <2>3
<1>4. EncryptGraphSecrets(g, prev) = [i \in 1..Len(g) |-> e(i)]
  BY <1>2 DEF EncryptGraphSecrets
<1> HIDE DEF e
<1>5. [i \in 1..Len(g) |-> e(i)] \in [1..Len(g) -> [node : Nodes, secret : Secrets]]
  BY <1>3
<1> QED BY <1>2, <1>4, <1>5, SeqDef DEF Exporters

\* The rows of an existing pipeline.
LEMMA RowTyped ==
  ASSUME IInv, NEW p \in Pids, Exists(p)
  PROVE  /\ pipe[p] \in Pipeline /\ pipe[p].versions \in Seq(Graph)
         /\ pipe[p].versions # <<>> /\ pipe[p].active \in 0..Len(pipe[p].versions)
         /\ DOMAIN pipe[p].versions = 1..Len(pipe[p].versions)
         /\ Len(pipe[p].versions) \in Nat \ {0}
         /\ \A v \in DOMAIN pipe[p].versions : pipe[p].versions[v] \in Exporters
<1>1. pipe[p] \in Pipeline /\ pipe[p].versions \in Seq(Graph) /\ pipe[p].active \in Nat
      /\ pipe[p].versions # <<>> /\ pipe[p].active <= Len(pipe[p].versions)
  BY DEF IInv, Rows, Exists, Pipeline
<1>2. \A v \in DOMAIN pipe[p].versions : pipe[p].versions[v] \in Graph
  BY <1>1
<1>3. Graph \subseteq Exporters
  BY DEF Graph, Exporters
<1>4. Len(pipe[p].versions) \in Nat /\ DOMAIN pipe[p].versions = 1..Len(pipe[p].versions)
  BY <1>1
<1>5. Len(pipe[p].versions) # 0
  BY <1>1, EmptySeq
<1> QED BY <1>1, <1>2, <1>3, <1>4, <1>5

\* Every transaction keeps the rows well formed.
LEMMA TransactionKeepsRows == ASSUME IInv, Transaction PROVE Rows'
<1> PICK p \in Pids : Inserts(p) \/ Appends(p) \/ Activates(p) \/ Removes(p)
  BY DEF Transaction
<1>1. CASE Inserts(p)
  <2> PICK n \in Names, g \in Graph :
        pipe' = [pipe EXCEPT ![p] = [name |-> n, versions |-> <<g>>, active |-> 0]]
    BY <1>1 DEF Inserts
  <2>1. <<g>> \in Seq(Graph) /\ <<g>> # <<>> /\ Len(<<g>>) = 1
    OBVIOUS
  <2>2. [name |-> n, versions |-> <<g>>, active |-> 0] \in Pipeline
    BY <2>1 DEF Pipeline
  <2> QED BY <2>1, <2>2 DEF IInv, Rows, Exists
<1>2. CASE Appends(p)
  <2> PICK g \in Graph : Exists(p) /\ pipe' = [pipe EXCEPT ![p].versions = Append(@, g)]
    BY <1>2 DEF Appends
  <2> DEFINE s == Append(pipe[p].versions, g)
  <2>1. s \in Seq(Graph) /\ s # <<>> /\ Len(s) = Len(pipe[p].versions) + 1
    BY RowTyped, AppendProperties
  <2>2. pipe' = [pipe EXCEPT ![p] = [pipe[p] EXCEPT !.versions = s]]
    BY DEF IInv, Rows
  <2> HIDE DEF s
  <2>3. [pipe[p] EXCEPT !.versions = s] \in Pipeline
    BY <2>1, RowTyped DEF Pipeline
  <2>4. /\ [pipe[p] EXCEPT !.versions = s].versions = s
        /\ [pipe[p] EXCEPT !.versions = s].active = pipe[p].active
    BY RowTyped DEF Pipeline
  <2>5. pipe[p].active <= Len(s)
    BY <2>1, RowTyped
  <2> QED BY <2>1, <2>2, <2>3, <2>4, <2>5 DEF IInv, Rows, Exists
<1>3. CASE Activates(p)
  <2> PICK v \in DOMAIN pipe[p].versions :
        Exists(p) /\ pipe' = [pipe EXCEPT ![p].active = v]
    BY <1>3 DEF Activates
  <2>1. v \in Nat /\ v <= Len(pipe[p].versions)
    BY RowTyped
  <2>2. pipe' = [pipe EXCEPT ![p] = [pipe[p] EXCEPT !.active = v]]
    BY DEF IInv, Rows
  <2>3. [pipe[p] EXCEPT !.active = v] \in Pipeline
    BY <2>1, RowTyped DEF Pipeline
  <2>4. /\ [pipe[p] EXCEPT !.active = v].versions = pipe[p].versions
        /\ [pipe[p] EXCEPT !.active = v].active = v
    BY RowTyped DEF Pipeline
  <2> QED BY <2>1, <2>2, <2>3, <2>4, RowTyped DEF IInv, Rows, Exists
<1>4. CASE Removes(p)
  BY <1>4 DEF Removes, IInv, Rows, Exists
<1> QED BY <1>1, <1>2, <1>3, <1>4

\* A request begins: with the latest version's secrets for its sentinels, an
\* activation, or what Delete read.
LEMMA ArrivalKeeps ==
  ASSUME IInv, NEW r \in Requests, NEW p \in Pids,
         \/ \E n \in Names, g \in Submitted : Create(r, p, n, g)
         \/ \E g \in Submitted : CreateVersion(r, p, g)
         \/ Exists(p) /\ \E v \in DOMAIN pipe[p].versions : Activate(r, p, v)
         \/ Delete(r, p)
  PROVE  Held' /\ (pipe' = pipe \/ Transaction)
<1>1. CASE \E n \in Names, g \in Submitted : Create(r, p, n, g)
  <2> PICK n \in Names, g \in Submitted : Create(r, p, n, g)
    BY <1>1
  <2>1. <<>> \in Exporters
    BY DEF Exporters
  <2>2. EncryptGraphSecrets(g, <<>>) \in Exporters
    BY <2>1, Encrypted DEF Create
  <2> QED BY <2>2 DEF Create, IInv, Held
<1>2. CASE \E g \in Submitted : CreateVersion(r, p, g)
  <2> PICK g \in Submitted : CreateVersion(r, p, g)
    BY <1>2
  <2> DEFINE prev == pipe[p].versions[Len(pipe[p].versions)]
  <2>1. Exists(p) /\ SecretIssues(g, prev) = {}
    BY DEF CreateVersion
  <2>2. prev \in Exporters /\ pipe[p].name \in Names
    BY <2>1, RowTyped DEF Pipeline
  <2>3. /\ pc' = [pc EXCEPT ![r] = "validate"] /\ pid' = [pid EXCEPT ![r] = p]
        /\ name' = [name EXCEPT ![r] = pipe[p].name]
        /\ graph' = [graph EXCEPT ![r] = EncryptGraphSecrets(g, prev)]
        /\ pipe' = pipe
    BY DEF CreateVersion
  <2> HIDE DEF prev
  <2>4. EncryptGraphSecrets(g, prev) \in Exporters
    BY <2>1, <2>2, Encrypted
  <2> QED BY <2>2, <2>3, <2>4 DEF IInv, Held
<1>3. CASE Exists(p) /\ \E v \in DOMAIN pipe[p].versions : Activate(r, p, v)
  <2>1. Transaction
    BY <1>3 DEF Activate, Transaction, Activates
  <2>2. Held'
    BY <1>3 DEF Activate, IInv, Held, locals
  <2> QED BY <2>1, <2>2
<1>4. CASE Delete(r, p)
  BY <1>4 DEF Delete, IInv, Held
<1> QED BY <1>1, <1>2, <1>3, <1>4

\* A request goes on: what it validated is not empty, and its transaction is
\* one of the four.
LEMMA StepKeeps ==
  ASSUME IInv, NEW r \in Requests,
         \/ Prepare(r) \/ CreatePipeline(r) \/ CreatePipelineVersion(r)
         \/ DeletePipeline(r) \/ RenderCurrent(r) \/ Distribute(r)
  PROVE  Held' /\ (pipe' = pipe \/ Transaction)
<1>1. ASSUME Finish(r) PROVE Held'
  BY <1>1 DEF IInv, Held, Finish
<1>2. CASE Prepare(r)
  BY <1>1, <1>2 DEF Prepare, Validate, ValidateStructural, IInv, Held, locals
<1>3. CASE CreatePipeline(r)
  <2>1. pid[r] \in Pids /\ name[r] \in Names /\ graph[r] \in Graph /\ pipe[pid[r]] = None
    BY <1>3 DEF CreatePipeline, IInv, Held, Graph, Exporters
  <2>2. pipe' = pipe \/ Inserts(pid[r])
    BY <1>3, <2>1 DEF CreatePipeline, Inserts
  <2> QED BY <1>1, <1>3, <2>1, <2>2 DEF CreatePipeline, Transaction
<1>4. CASE CreatePipelineVersion(r)
  <2>1. pid[r] \in Pids /\ graph[r] \in Graph
    BY <1>4 DEF CreatePipelineVersion, IInv, Held, Graph, Exporters
  <2>2. pipe' = pipe \/ Appends(pid[r])
    BY <1>4, <2>1 DEF CreatePipelineVersion, Appends
  <2> QED BY <1>1, <1>4, <2>1, <2>2 DEF CreatePipelineVersion, Transaction
<1>5. CASE DeletePipeline(r)
  <2>1. pid[r] \in Pids /\ Removes(pid[r])
    BY <1>5 DEF DeletePipeline, IInv, Held, Removes
  <2>2. Held'
    BY <1>1, <1>5 DEF DeletePipeline, IInv, Held
  <2> QED BY <2>1, <2>2 DEF Transaction
<1>6. CASE RenderCurrent(r)
  BY <1>1, <1>6 DEF RenderCurrent, IInv, Held
<1>7. CASE Distribute(r)
  BY <1>1, <1>7 DEF Distribute
<1> QED BY <1>2, <1>3, <1>4, <1>5, <1>6, <1>7

\* Every step keeps the invariant, and changes the rows in a transaction.
LEMMA NextKeeps == ASSUME IInv, [Next]_vars PROVE IInv' /\ (pipe' = pipe \/ Transaction)
<1>1. Held' /\ (pipe' = pipe \/ Transaction)
  <2>1. CASE \E c \in Customers, s \in {"active", "suspended", "deleted"} : UpdateCustomer(c, s)
    BY <2>1 DEF UpdateCustomer, IInv, Held, locals
  <2>2. CASE UNCHANGED vars
    BY <2>2 DEF vars, IInv, Held, locals
  <2> QED BY <2>1, <2>2, ArrivalKeeps, StepKeeps DEF Next
<1>2. CASE pipe' = pipe
  BY <1>1, <1>2 DEF IInv, Rows, Exists
<1>3. CASE Transaction
  BY <1>1, <1>3, TransactionKeepsRows DEF IInv
<1> QED BY <1>1, <1>2, <1>3

\* What VersionsImmutable says of a step.
VersionsGrow ==
    \A p \in Pids : Exists(p) /\ pipe'[p] # Gone =>
        /\ pipe'[p].name = pipe[p].name
        /\ Len(pipe'[p].versions) >= Len(pipe[p].versions)
        /\ SubSeq(pipe'[p].versions, 1, Len(pipe[p].versions)) = pipe[p].versions

\* A transaction on one pipeline leaves the versions of every other, and adds
\* at most one to its own.
LEMMA StepGrows == ASSUME IInv, pipe' = pipe \/ Transaction PROVE VersionsGrow
<1> SUFFICES ASSUME NEW p \in Pids, Exists(p), pipe'[p] # Gone
             PROVE  /\ pipe'[p].name = pipe[p].name
                    /\ Len(pipe'[p].versions) >= Len(pipe[p].versions)
                    /\ SubSeq(pipe'[p].versions, 1, Len(pipe[p].versions)) = pipe[p].versions
  BY DEF VersionsGrow
<1>1. pipe[p].versions \in Seq(Graph) /\ Len(pipe[p].versions) \in Nat \ {0}
  BY RowTyped
<1>2. SubSeq(pipe[p].versions, 1, Len(pipe[p].versions)) = pipe[p].versions
  BY <1>1, SubSeqFull
<1>3. CASE pipe'[p].name = pipe[p].name /\ pipe'[p].versions = pipe[p].versions
  BY <1>1, <1>2, <1>3
<1>4. CASE \E g \in Graph : /\ pipe'[p].name = pipe[p].name
                             /\ pipe'[p].versions = Append(pipe[p].versions, g)
  <2> PICK g \in Graph : pipe'[p].versions = Append(pipe[p].versions, g)
    BY <1>4
  <2> DEFINE s == pipe[p].versions
  <2> HIDE DEF s
  <2>0. s \in Seq(Graph)
    BY <1>1 DEF s
  <2>1. Append(s, g) = s \o <<g>> /\ <<g>> \in Seq(Graph) /\ Len(Append(s, g)) = Len(s) + 1
    BY <2>0, AppendIsConcat, AppendProperties
  <2>2. SubSeq(s \o <<g>>, 1, Len(s)) = SubSeq(s, 1, Len(s))
    BY <1>1, <2>0, <2>1, SubSeqOfConcat1 DEF s
  <2> QED BY <1>1, <1>2, <1>4, <2>1, <2>2 DEF s
<1>5. ASSUME NEW q \in Pids, Inserts(q) \/ Appends(q) \/ Activates(q) \/ Removes(q), q # p
      PROVE  pipe'[p] = pipe[p]
  BY <1>5 DEF Inserts, Appends, Activates, Removes, IInv, Rows
<1>6. CASE Inserts(p) \/ Removes(p)
  BY <1>6 DEF Inserts, Removes, IInv, Rows, Exists
<1>7. CASE Activates(p)
  <2>1. pipe'[p].name = pipe[p].name /\ pipe'[p].versions = pipe[p].versions
    BY <1>7, RowTyped DEF Activates, IInv, Rows, Pipeline
  <2> QED BY <1>3, <2>1
<1>8. CASE Appends(p)
  <2>1. \E g \in Graph : /\ pipe'[p].name = pipe[p].name
                          /\ pipe'[p].versions = Append(pipe[p].versions, g)
    BY <1>8, RowTyped DEF Appends, IInv, Rows, Pipeline
  <2> QED BY <1>4, <2>1
<1> QED BY <1>3, <1>5, <1>6, <1>7, <1>8 DEF Transaction

\* A stored version is immutable, whatever requests overlap.
THEOREM VersionsOnlyGrow == Spec => VersionsImmutable
<1>1. Init => IInv
  BY InitIInv
<1>2. IInv /\ [Next]_vars => IInv'
  BY NextKeeps
<1>3. IInv /\ [Next]_vars => [VersionsGrow]_vars
  BY NextKeeps, StepGrows
<1>4. Spec => [][VersionsGrow]_vars
  BY <1>1, <1>2, <1>3, PTL DEF Spec
<1> QED BY <1>4 DEF VersionsImmutable, VersionsGrow

-----------------------------------------------------------------------------
(* What the collector loads.                                               *)

Loads(c) ==
    /\ c.routes \subseteq DOMAIN c.chains
    /\ \A k \in DOMAIN c.chains :
          \A n \in c.chains[k] : <<k, n>> \in DOMAIN c.components

\* What TypeOK says of a configuration.
ConfigTyped(c) ==
    /\ DOMAIN c.chains \subseteq Keys /\ c.routes \subseteq Keys
    /\ \A k \in DOMAIN c.chains : c.chains[k] \subseteq Nodes
    /\ DOMAIN c.components \subseteq Keys \X Nodes
    /\ \A x \in DOMAIN c.components : c.components[x] \in Secrets

\* The resource loads, and so does every configuration a request has rendered
\* and not patched in yet: the patch may come after any number of others.
LoadInv ==
    /\ Loads(cr) /\ ConfigTyped(cr) /\ conf = [r \in Requests |-> conf[r]]
    /\ \A r \in Requests : Loads(conf[r]) /\ ConfigTyped(conf[r])

\* The empty configuration loads.
LEMMA EmptyLoads == Loads(NoConfig) /\ ConfigTyped(NoConfig)
<1>1. /\ NoConfig.chains = <<>> /\ NoConfig.components = <<>> /\ NoConfig.routes = {}
      /\ DOMAIN <<>> = {}
  BY DEF NoConfig
<1> QED BY <1>1 DEF Loads, ConfigTyped

\* The key of a pipeline.
LEMMA KeyTyped ==
  ASSUME IInv, NEW p \in Pids, Exists(p)
  PROVE  Key(p) \in Keys /\ Key(p) = <<Owner[p], Slug[pipe[p].name]>>
<1>1. pipe[p].name \in Names /\ Owner[p] \in Customers
  BY RowTyped, ConstantsTyped DEF Pipeline
<1> QED BY <1>1 DEF Key, pipelineKey, Keys

\* RenderForwardingConfig writes an exporter for every node a pipeline lists.
LEMMA RenderedLoads ==
  ASSUME IInv
  PROVE  Loads(RenderForwardingConfig) /\ ConfigTyped(RenderForwardingConfig)
<1> DEFINE active(p) == pipe[p].versions[pipe[p].active]
           of(k) == CHOOSE p \in ListActive : Key(p) = k
           keys == {Key(p) : p \in ListActive}
           nodes(k) == {active(of(k))[i].node : i \in DOMAIN active(of(k))}
           secret(k, n) == LET g == active(of(k))
                           IN g[CHOOSE i \in DOMAIN g : g[i].node = n].secret
           ids == {y \in keys \X Nodes : y[2] \in nodes(y[1])}
           conf0 == [chains |-> [k \in keys |-> nodes(k)],
                     components |-> [x \in ids |-> secret(x[1], x[2])],
                     routes |-> keys]
<1>1. RenderForwardingConfig = conf0
  BY DEF RenderForwardingConfig
<1>2. ASSUME NEW k \in keys
      PROVE  nodes(k) \subseteq Nodes /\ \A n \in nodes(k) : secret(k, n) \in Secrets
  <2>1. of(k) \in Pids /\ Exists(of(k)) /\ pipe[of(k)].active > 0
    BY DEF ListActive
  <2> HIDE DEF of
  <2>2. active(of(k)) \in Exporters
    BY <2>1, RowTyped
  <2> DEFINE g == active(of(k))
  <2> HIDE DEF active, g
  <2>3. \A i \in DOMAIN g : g[i] \in [node : Nodes, secret : Secrets]
    BY <2>2, ElementTyped DEF Exporters, g
  <2>4. nodes(k) = {g[i].node : i \in DOMAIN g}
    BY DEF g
  <2>5. ASSUME NEW n \in nodes(k) PROVE secret(k, n) \in Secrets
    <3> DEFINE i == CHOOSE i \in DOMAIN g : g[i].node = n
    <3>1. i \in DOMAIN g
      BY <2>4, <2>5
    <3>2. secret(k, n) = g[i].secret
      BY DEF g
    <3> HIDE DEF i
    <3> QED BY <2>3, <3>1, <3>2
  <2>6. nodes(k) \subseteq Nodes
    BY <2>3, <2>4
  <2> HIDE DEF nodes, secret
  <2> QED BY <2>5, <2>6
<1>3. keys \subseteq Keys
  BY KeyTyped DEF ListActive
<1> HIDE DEF nodes, keys, secret
<1>4. ASSUME NEW k \in keys, NEW n \in nodes(k) PROVE <<k, n>> \in ids
  BY <1>2, <1>4
<1>5. \A x \in ids : x \in keys \X Nodes /\ secret(x[1], x[2]) \in Secrets
  BY <1>2
<1>6. /\ conf0.routes = keys /\ DOMAIN conf0.chains = keys
      /\ DOMAIN conf0.components = ids
      /\ \A k \in keys : conf0.chains[k] = nodes(k)
      /\ \A x \in ids : conf0.components[x] = secret(x[1], x[2])
  OBVIOUS
<1> HIDE DEF conf0, ids
<1>7. Loads(conf0)
  BY <1>4, <1>6 DEF Loads
<1>8. ids \subseteq Keys \X Nodes
  BY <1>3, <1>5
<1>9. ConfigTyped(conf0)
  BY <1>2, <1>3, <1>5, <1>6, <1>8 DEF ConfigTyped
<1> QED BY <1>1, <1>7, <1>9

\* A merge patch of a configuration that loads on one that loads: a chain comes
\* from one of the two, and the exporters are those of both.
LEMMA MergedLoads ==
  ASSUME NEW old, NEW new, Loads(old), Loads(new), ConfigTyped(old), ConfigTyped(new)
  PROVE  Loads(MergePatch(old, new)) /\ ConfigTyped(MergePatch(old, new))
<1> DEFINE m == MergePatch(old, new)
<1>1. /\ m.chains = Over(new.chains, old.chains)
      /\ m.components = Over(new.components, old.components)
      /\ m.routes = new.routes
  BY DEF MergePatch
<1> HIDE DEF m
<1>2. /\ DOMAIN m.components = DOMAIN new.components \cup DOMAIN old.components
      /\ \A x \in DOMAIN new.components \cup DOMAIN old.components :
            m.components[x] = IF x \in DOMAIN new.components THEN new.components[x]
                              ELSE old.components[x]
  BY <1>1 DEF Over
<1>3. /\ DOMAIN m.chains = DOMAIN new.chains \cup DOMAIN old.chains
      /\ \A k \in DOMAIN new.chains \cup DOMAIN old.chains :
            m.chains[k] = IF k \in DOMAIN new.chains THEN new.chains[k] ELSE old.chains[k]
  BY <1>1 DEF Over
<1>4. m.routes \subseteq DOMAIN m.chains
  BY <1>1, <1>3 DEF Loads
<1>5. \A k \in DOMAIN m.chains : \A n \in m.chains[k] : <<k, n>> \in DOMAIN m.components
  BY <1>2, <1>3 DEF Loads
<1>6. Loads(m)
  BY <1>4, <1>5 DEF Loads
<1>7. ConfigTyped(m)
  BY <1>1, <1>2, <1>3 DEF ConfigTyped
<1> QED BY <1>6, <1>7 DEF m

\* What the resource holds, and what requests have rendered, loads.
LEMMA LoadKeeps == ASSUME IInv, LoadInv, [Next]_vars PROVE LoadInv'
<1>1. ASSUME NEW r \in Requests, RenderCurrent(r) PROVE LoadInv'
  BY <1>1, RenderedLoads, EmptyLoads DEF RenderCurrent, Finish, LoadInv
<1>2. ASSUME NEW r \in Requests, Distribute(r) PROVE LoadInv'
  BY <1>2, MergedLoads, EmptyLoads DEF Distribute, Finish, LoadInv
<1>3. ASSUME NEW r \in Requests, Prepare(r) \/ CreatePipeline(r)
                \/ CreatePipelineVersion(r) \/ DeletePipeline(r)
      PROVE  LoadInv'
  BY <1>3, EmptyLoads
  DEF Prepare, CreatePipeline, CreatePipelineVersion, DeletePipeline, Finish, LoadInv, locals
<1>4. ASSUME UNCHANGED <<cr, conf>> PROVE LoadInv'
  BY <1>4 DEF LoadInv
<1>5. ASSUME NEW r \in Requests, NEW p \in Pids,
             \/ \E n \in Names, g \in Submitted : Create(r, p, n, g)
             \/ \E g \in Submitted : CreateVersion(r, p, g)
             \/ Exists(p) /\ \E v \in DOMAIN pipe[p].versions : Activate(r, p, v)
             \/ Delete(r, p)
      PROVE  UNCHANGED <<cr, conf>>
  BY <1>5 DEF Create, CreateVersion, Activate, Delete, locals
<1>6. ASSUME \/ UNCHANGED vars
             \/ \E c \in Customers, s \in {"active", "suspended", "deleted"} :
                   UpdateCustomer(c, s)
      PROVE  UNCHANGED <<cr, conf>>
  BY <1>6 DEF UpdateCustomer, vars, locals
<1> QED BY <1>1, <1>2, <1>3, <1>4, <1>5, <1>6 DEF Next

\* Rows, requests and configurations are well formed in every reachable state.
LEMMA Invariant == Spec => [](IInv /\ LoadInv)
<1>1. Init => IInv /\ LoadInv
  BY InitIInv, EmptyLoads DEF Init, LoadInv
<1>2. ASSUME IInv, LoadInv, [Next]_vars PROVE IInv' /\ LoadInv'
  BY <1>2, LoadKeeps, NextKeeps
<1> QED BY <1>1, <1>2, PTL DEF Spec

\* The collector can load what the resource holds, whatever requests overlap
\* and whichever order their patches come in.
THEOREM ResourceLoads == Spec => []CollectorLoads
<1>1. LoadInv => CollectorLoads
  BY DEF LoadInv, Loads, CollectorLoads
<1> QED BY <1>1, Invariant, PTL

-----------------------------------------------------------------------------
(* Types.                                                                  *)

Steps == {"idle", "validate", "insert", "delete", "deleteActive", "render", "patch"}

Locals ==
    /\ status \in [Customers -> {"active", "suspended", "deleted"}]
    /\ pc \in [Requests -> Steps]
    /\ pid \in [Requests -> Pids \cup {None}] /\ name \in [Requests -> Names \cup {None}]
    /\ graph \in [Requests -> Exporters]

\* A request that arrives takes what it sends and what it reads.
LEMMA ArrivalTyped ==
  ASSUME IInv, Held', Locals, NEW r \in Requests, NEW p \in Pids,
         \/ \E n \in Names, g \in Submitted : Create(r, p, n, g)
         \/ \E g \in Submitted : CreateVersion(r, p, g)
         \/ Exists(p) /\ \E v \in DOMAIN pipe[p].versions : Activate(r, p, v)
         \/ Delete(r, p)
  PROVE  Locals'
<1>1. CASE \/ \E n \in Names, g \in Submitted : Create(r, p, n, g)
           \/ \E g \in Submitted : CreateVersion(r, p, g)
  <2>1. \E n, g : /\ pc' = [pc EXCEPT ![r] = "validate"] /\ pid' = [pid EXCEPT ![r] = p]
                  /\ name' = [name EXCEPT ![r] = n] /\ graph' = [graph EXCEPT ![r] = g]
                  /\ UNCHANGED status
    BY <1>1, Zenon DEF Create, CreateVersion
  <2> PICK n, g : /\ pc' = [pc EXCEPT ![r] = "validate"] /\ pid' = [pid EXCEPT ![r] = p]
                  /\ name' = [name EXCEPT ![r] = n] /\ graph' = [graph EXCEPT ![r] = g]
                  /\ UNCHANGED status
    BY <2>1
  <2>2. pc'[r] = "validate" /\ name'[r] = n /\ graph'[r] = g
    BY DEF Locals
  <2>3. n \in Names /\ g \in Exporters
    BY <2>2 DEF Held
  <2> QED BY <2>3 DEF Locals, Steps
<1>2. CASE Exists(p) /\ \E v \in DOMAIN pipe[p].versions : Activate(r, p, v)
  BY <1>2 DEF Activate, Locals, Steps, locals
<1>3. CASE Delete(r, p)
  <2>1. \E to \in Steps : pc' = [pc EXCEPT ![r] = to]
    BY <1>3 DEF Delete, Steps
  <2> QED BY <1>3, <2>1 DEF Delete, Locals
<1> QED BY <1>1, <1>2, <1>3

\* The other steps of a request, and the changes to customers.
LEMMA LocalsKeep == ASSUME IInv, IInv', Locals, [Next]_vars PROVE Locals'
<1>0. <<>> \in Exporters
  BY DEF Exporters
<1>1. ASSUME NEW r \in Requests, Finish(r), UNCHANGED status PROVE Locals'
  BY <1>0, <1>1 DEF Finish, Locals, Steps
<1>2. ASSUME NEW r \in Requests, NEW to \in Steps, pc' = [pc EXCEPT ![r] = to],
             UNCHANGED <<status, pid, name, graph>>
      PROVE  Locals'
  BY <1>2 DEF Locals
<1>3. ASSUME NEW r \in Requests, Prepare(r) PROVE Locals'
  BY <1>1, <1>2, <1>3, Zenon DEF Prepare, locals, Steps
<1>4. ASSUME NEW r \in Requests, CreatePipeline(r) \/ CreatePipelineVersion(r) \/ Distribute(r)
      PROVE  Locals'
  BY <1>1, <1>4, Zenon DEF CreatePipeline, CreatePipelineVersion, Distribute
<1>5. ASSUME NEW r \in Requests, DeletePipeline(r) PROVE Locals'
  <2>1. CASE Finish(r)
    BY <1>1, <1>5, <2>1, Zenon DEF DeletePipeline
  <2>2. CASE /\ pc' = [pc EXCEPT ![r] = "render"] /\ pid' = [pid EXCEPT ![r] = None]
             /\ UNCHANGED <<status, name, graph>>
    BY <2>2 DEF Locals, Steps
  <2> QED BY <1>5, <2>1, <2>2, Zenon DEF DeletePipeline
<1>6. ASSUME NEW r \in Requests, RenderCurrent(r) PROVE Locals'
  BY <1>1, <1>2, <1>6, Zenon DEF RenderCurrent, Steps
<1>7. ASSUME NEW c \in Customers, NEW s \in {"active", "suspended", "deleted"},
             UpdateCustomer(c, s)
      PROVE  Locals'
  BY <1>7 DEF UpdateCustomer, Locals, locals
<1>8. CASE UNCHANGED vars
  BY <1>8 DEF vars, locals, Locals
<1> QED BY <1>3, <1>4, <1>5, <1>6, <1>7, <1>8, ArrivalTyped DEF Next, IInv

\* They do in every reachable state.
LEMMA LocalsInvariant == Spec => []Locals
<1>1. Init => Locals
  <2>1. <<>> \in Exporters
    BY DEF Exporters
  <2> QED BY <2>1 DEF Init, Locals, Steps
<1>2. IInv /\ IInv' /\ Locals /\ [Next]_vars => Locals'
  BY LocalsKeep
<1> QED BY <1>1, <1>2, Invariant, PTL DEF Spec

\* The type invariant: no sentinel is ever stored, the active version of a
\* pipeline is one of its versions, and so on, whatever requests overlap.
THEOREM TypeCorrect == Spec => []TypeOK
<1>1. IInv /\ LoadInv /\ Locals => TypeOK
  <2> SUFFICES ASSUME IInv, LoadInv, Locals PROVE TypeOK
    OBVIOUS
  <2>1. \A p \in Pids : \/ pipe[p] \in {None, Gone}
                        \/ /\ pipe[p] \in Pipeline /\ pipe[p].versions # <<>>
                           /\ pipe[p].active <= Len(pipe[p].versions)
    BY Zenon DEF IInv, Rows, Exists
  <2>2. \A r \in Requests : graph[r] = <<>> \/ graph[r] \in Graph
    BY Zenon DEF Locals, Exporters, Graph
  <2> QED BY <2>1, <2>2, Zenon DEF Locals, Steps, LoadInv, ConfigTyped, TypeOK
<1> QED BY <1>1, LocalsInvariant, Invariant, PTL

-----------------------------------------------------------------------------
(* Requests in turn.  P stands for the rows, S for the customers' status.  *)

IsRow(P, p) == P[p] \notin {None, Gone}
KeyOf(P, p) == <<Owner[p], Slug[P[p].name]>>
Activated(P, p) == IsRow(P, p) /\ P[p].active > 0
ActiveVersion(P, p) == P[p].versions[P[p].active]

NodesOf(g) == {g[i].node : i \in DOMAIN g}
SecretOf(g, n) == g[CHOOSE i \in DOMAIN g : g[i].node = n].secret

\* A configuration has a graph under a key.
Has(c, k, g) ==
    /\ k \in c.routes /\ c.chains[k] = NodesOf(g)
    /\ \A n \in NodesOf(g) : c.components[<<k, n>>] = SecretOf(g, n)

\* R are the customers that changed since the last render.
RoutesActivated(P, S, R, c) ==
    \A k \in c.routes : \E p \in Pids :
        Activated(P, p) /\ KeyOf(P, p) = k /\ (Owner[p] \in R \/ S[Owner[p]] = "active")
Deployed(P, S, R, c) ==
    \A p \in Pids : Activated(P, p) /\ S[Owner[p]] = "active" /\ Owner[p] \notin R =>
        Has(c, KeyOf(P, p), ActiveVersion(P, p))

\* A configuration routes to activated pipelines only, and of the customers that
\* have not changed has exactly those that are to be deployed.
UpToDate(P, S, R, c) == RoutesActivated(P, S, R, c) /\ Deployed(P, S, R, c)

SlugsDiffer(P) ==
    \A p, q \in Pids : IsRow(P, p) /\ IsRow(P, q) /\ KeyOf(P, p) = KeyOf(P, q) => p = q
SlugFree(P, p, n) ==
    \A q \in Pids : IsRow(P, q) => KeyOf(P, q) # <<Owner[p], Slug[n]>>

OneRequest == \A r, q \in Requests : pc[r] # "idle" /\ pc[q] # "idle" => r = q

\* What the one request that runs has read, before its next transaction, still
\* holds: the slug is free, a pipeline to delete is there or never was active,
\* and what was rendered is up to date.
ReadsHold(r) ==
    /\ pc[r] \in {"validate", "insert"} /\ pipe[pid[r]] = None =>
          SlugFree(pipe, pid[r], name[r])
    /\ pc[r] = "delete" => ~Activated(pipe, pid[r])
    /\ pc[r] = "deleteActive" => IsRow(pipe, pid[r])
    /\ pc[r] = "patch" => UpToDate(pipe, status, restated, conf[r])

Distributing == \E r \in Requests : pc[r] \in {"render", "patch"}

\* Requests that do not overlap leave the resource up to date, unless they are
\* on their way to it or have failed.
InTurn ==
    ~overlapped =>
        /\ OneRequest /\ SlugsDiffer(pipe) /\ \A r \in Requests : ReadsHold(r)
        /\ ~lost /\ ~Distributing => UpToDate(pipe, status, restated, cr)

\* The rows have the same activated pipelines, with the same keys and versions.
SameActivated(P, Q) ==
    \A p \in Pids : /\ Activated(Q, p) <=> Activated(P, p)
                    /\ Activated(P, p) => /\ KeyOf(Q, p) = KeyOf(P, p)
                                          /\ ActiveVersion(Q, p) = ActiveVersion(P, p)

\* Rows that are not activated do not matter to a configuration.
LEMMA StaysUpToDate ==
  ASSUME NEW P, NEW Q, NEW S, NEW u, NEW c, SameActivated(P, Q), UpToDate(P, S, u, c)
  PROVE  UpToDate(Q, S, u, c)
  BY Zenon DEF SameActivated, UpToDate, RoutesActivated, Deployed

\* A merge patch brings what it holds.
LEMMA MergedIsUpToDate ==
  ASSUME NEW P, NEW S, NEW u, NEW old, NEW new, Loads(new), UpToDate(P, S, u, new)
  PROVE  UpToDate(P, S, u, MergePatch(old, new))
<1> DEFINE m == MergePatch(old, new)
<1>1. /\ m.chains = Over(new.chains, old.chains)
      /\ m.components = Over(new.components, old.components)
      /\ m.routes = new.routes
  BY DEF MergePatch
<1> HIDE DEF m
<1>2. \A x \in DOMAIN new.components : m.components[x] = new.components[x]
  BY <1>1 DEF Over
<1>3. \A k \in DOMAIN new.chains : m.chains[k] = new.chains[k]
  BY <1>1 DEF Over
<1>4. ASSUME NEW k, NEW g, Has(new, k, g) PROVE Has(m, k, g)
  <2>1. k \in DOMAIN new.chains /\ new.chains[k] = NodesOf(g)
    BY <1>4, Zenon DEF Has, Loads
  <2>2. \A n \in NodesOf(g) : <<k, n>> \in DOMAIN new.components
    BY <2>1, Zenon DEF Loads
  <2>3. \A n \in NodesOf(g) : m.components[<<k, n>>] = new.components[<<k, n>>]
    BY <1>2, <2>2, Zenon
  <2> QED BY <1>1, <1>3, <1>4, <2>1, <2>3, Zenon DEF Has
<1>5. RoutesActivated(P, S, u, m)
  BY <1>1, Zenon DEF UpToDate, RoutesActivated
<1>6. Deployed(P, S, u, new) => Deployed(P, S, u, m)
  BY <1>4, Zenon DEF Deployed
<1>7. UpToDate(P, S, u, m)
  BY <1>5, <1>6, Zenon DEF UpToDate
<1> QED BY <1>7 DEF m

\* What RenderForwardingConfig writes, when no two active pipelines share a key.
LEMMA RenderedHas ==
  ASSUME IInv, \A p, q \in ListActive : Key(p) = Key(q) => p = q
  PROVE  /\ RenderForwardingConfig.routes = {Key(p) : p \in ListActive}
         /\ \A p \in ListActive : Has(RenderForwardingConfig, Key(p), ActiveVersion(pipe, p))
         /\ \A x \in DOMAIN RenderForwardingConfig.components :
               \E p \in ListActive : \E n \in NodesOf(ActiveVersion(pipe, p)) : x = <<Key(p), n>>
<1> DEFINE of(k) == CHOOSE p \in ListActive : Key(p) = k
           keys == {Key(p) : p \in ListActive}
           nodes(k) == NodesOf(ActiveVersion(pipe, of(k)))
           secret(k, n) == SecretOf(ActiveVersion(pipe, of(k)), n)
           ids == {y \in keys \X Nodes : y[2] \in nodes(y[1])}
           c == [chains |-> [k \in keys |-> nodes(k)],
                 components |-> [x \in ids |-> secret(x[1], x[2])],
                 routes |-> keys]
<1>1. RenderForwardingConfig = c
  BY DEF RenderForwardingConfig, NodesOf, SecretOf, ActiveVersion
<1>2. ASSUME NEW p \in ListActive PROVE of(Key(p)) = p
  BY <1>2
<1> HIDE DEF of
<1>3. ASSUME NEW p \in ListActive PROVE NodesOf(ActiveVersion(pipe, p)) \subseteq Nodes
  <2>1. p \in Pids /\ Exists(p) /\ pipe[p].active > 0
    BY DEF ListActive
  <2> DEFINE g == ActiveVersion(pipe, p)
  <2>2. g \in Exporters
    BY <2>1, RowTyped DEF ActiveVersion
  <2> HIDE DEF g
  <2>3. \A i \in DOMAIN g : g[i] \in [node : Nodes, secret : Secrets]
    BY <2>2, ElementTyped DEF Exporters
  <2>4. NodesOf(g) \subseteq Nodes
    BY <2>3 DEF NodesOf
  <2> QED BY <2>4 DEF g
<1>4. ASSUME NEW p \in ListActive
      PROVE  /\ Key(p) \in keys /\ nodes(Key(p)) = NodesOf(ActiveVersion(pipe, p))
             /\ \A n : secret(Key(p), n) = SecretOf(ActiveVersion(pipe, p), n)
  BY <1>2, Zenon
<1>5. \A k \in keys : \E p \in ListActive : k = Key(p)
  BY Zenon
<1> HIDE DEF nodes, keys, secret
<1>6. /\ c.routes = keys /\ DOMAIN c.components = ids
      /\ \A k \in keys : c.chains[k] = nodes(k)
      /\ \A x \in ids : c.components[x] = secret(x[1], x[2])
  OBVIOUS
<1>7. ASSUME NEW p \in ListActive PROVE Has(c, Key(p), ActiveVersion(pipe, p))
  <2> HIDE DEF c
  <2>1. ASSUME NEW n \in NodesOf(ActiveVersion(pipe, p))
        PROVE  c.components[<<Key(p), n>>] = SecretOf(ActiveVersion(pipe, p), n)
    <3>1. <<Key(p), n>> \in ids
      BY <1>3, <1>4, <2>1
    <3> QED BY <1>4, <1>6, <3>1
  <2> QED BY <1>4, <1>6, <2>1, Zenon DEF Has
<1>8. ASSUME NEW x \in ids
      PROVE  \E p \in ListActive : \E n \in NodesOf(ActiveVersion(pipe, p)) : x = <<Key(p), n>>
  <2>1. x[1] \in keys /\ x = <<x[1], x[2]>> /\ x[2] \in nodes(x[1])
    OBVIOUS
  <2>2. PICK p \in ListActive : x[1] = Key(p)
    BY <1>5, <2>1
  <2>3. x = <<Key(p), x[2]>> /\ x[2] \in NodesOf(ActiveVersion(pipe, p))
    BY <1>4, <2>1, <2>2
  <2> QED BY <2>3
<1>9. keys = {Key(p) : p \in ListActive}
  BY DEF keys
<1> HIDE DEF c, ids
<1> QED BY <1>1, <1>6, <1>7, <1>8, <1>9, Zenon

\* Only one request runs: what to show of a step of it.
LEMMA TurnOver ==
  ASSUME NEW r \in Requests, \A q \in Requests \ {r} : pc'[q] = "idle",
         SlugsDiffer(pipe'), ReadsHold(r)',
         ~lost' /\ pc'[r] \notin {"render", "patch"} =>
            UpToDate(pipe', status', restated', cr')
  PROVE  InTurn'
<1>1. OneRequest'
  BY Zenon DEF OneRequest
<1>2. \A q \in Requests : ReadsHold(q)'
  <2> SUFFICES ASSUME NEW q \in Requests, q # r PROVE ReadsHold(q)'
    OBVIOUS
  <2>1. pc'[q] = "idle"
    OBVIOUS
  <2> QED BY <2>1 DEF ReadsHold
<1>3. ~Distributing' => pc'[r] \notin {"render", "patch"}
  BY Zenon DEF Distributing
<1> QED BY <1>1, <1>2, <1>3, Zenon DEF InTurn

\* A request that arrives without overlapping finds the others idle.
LEMMA Arrived ==
  ASSUME IInv, InTurn, NEW r \in Requests, Arrive(r), ~overlapped'
  PROVE  /\ SlugsDiffer(pipe) /\ \A q \in Requests : pc[q] = "idle"
         /\ ~lost => UpToDate(pipe, status, restated, cr)
<1>1. ~overlapped /\ \A q \in Requests : pc[q] = "idle"
  BY Zenon DEF Arrive
<1>2. ~Distributing
  BY <1>1 DEF Distributing
<1> QED BY <1>1, <1>2, Zenon DEF InTurn

\* Requests that arrive in turn.
LEMMA ArrivalInTurn ==
  ASSUME IInv, InTurn, NEW r \in Requests, NEW p \in Pids,
         \/ \E n \in Names, g \in Submitted : Create(r, p, n, g)
         \/ \E g \in Submitted : CreateVersion(r, p, g)
         \/ Exists(p) /\ \E v \in DOMAIN pipe[p].versions : Activate(r, p, v)
         \/ Delete(r, p)
  PROVE  InTurn'
<1> SUFFICES ASSUME ~overlapped' PROVE InTurn'
  BY Zenon DEF InTurn
<1>0. Arrive(r)
  BY Zenon DEF Create, CreateVersion, Activate, Delete
<1>1. /\ SlugsDiffer(pipe) /\ \A q \in Requests : pc[q] = "idle"
      /\ ~lost => UpToDate(pipe, status, restated, cr)
  BY <1>0, Arrived
<1>2. restated' = restated
  BY DEF Create, CreateVersion, Activate, Delete
<1>3. pc = [q \in Requests |-> pc[q]]
  BY DEF IInv, Held
<1>4. ASSUME NEW to, pc' = [pc EXCEPT ![r] = to]
      PROVE  pc'[r] = to /\ \A q \in Requests \ {r} : pc'[q] = "idle"
  BY <1>1, <1>3, <1>4
<1>5. ASSUME UNCHANGED <<pipe, status, cr, lost>>
      PROVE  SlugsDiffer(pipe') /\ (~lost' => UpToDate(pipe', status', restated', cr'))
  BY <1>1, <1>2, <1>5, Zenon
<1>6. pid = [q \in Requests |-> pid[q]] /\ name = [q \in Requests |-> name[q]]
  BY DEF IInv, Held
<1>7. ASSUME NEW n \in Names, NEW g \in Submitted, Create(r, p, n, g) PROVE InTurn'
  <2>1. /\ pc'[r] = "validate" /\ \A q \in Requests \ {r} : pc'[q] = "idle"
        /\ pid'[r] = p /\ name'[r] = n /\ UNCHANGED <<pipe, status, cr, lost>>
    BY <1>4, <1>6, <1>7 DEF Create
  <2>2. SlugFree(pipe, p, n)
    <3> SUFFICES ASSUME NEW q \in Pids, IsRow(pipe, q)
                 PROVE  KeyOf(pipe, q) # <<Owner[p], Slug[n]>>
      BY DEF SlugFree
    <3>1. Owner[q] # Owner[p] \/ Slug[pipe[q].name] # Slug[n]
      BY <1>7 DEF Create, Exists, IsRow
    <3> QED BY <3>1 DEF KeyOf
  <2>3. ReadsHold(r)'
    BY <2>1, <2>2 DEF ReadsHold
  <2> QED BY <1>5, <2>1, <2>3, TurnOver
<1>8. ASSUME NEW g \in Submitted, CreateVersion(r, p, g) PROVE InTurn'
  <2>1. /\ pc'[r] = "validate" /\ \A q \in Requests \ {r} : pc'[q] = "idle"
        /\ pid'[r] = p /\ UNCHANGED <<pipe, status, cr, lost>> /\ pipe[p] # None
    BY <1>4, <1>6, <1>8 DEF CreateVersion, Exists
  <2>2. ReadsHold(r)'
    BY <2>1 DEF ReadsHold
  <2> QED BY <1>5, <2>1, <2>2, TurnOver
<1>9. ASSUME Exists(p), NEW v \in DOMAIN pipe[p].versions, Activate(r, p, v) PROVE InTurn'
  <2>1. pc'[r] = "render" /\ \A q \in Requests \ {r} : pc'[q] = "idle"
    BY <1>4, <1>9 DEF Activate
  <2>2. \A q \in Pids : /\ IsRow(pipe', q) => IsRow(pipe, q)
                        /\ IsRow(pipe, q) => KeyOf(pipe', q) = KeyOf(pipe, q)
    <3>1. pipe' = [pipe EXCEPT ![p] = [pipe[p] EXCEPT !.active = v]]
      BY <1>9 DEF Activate, IInv, Rows
    <3>2. [pipe[p] EXCEPT !.active = v].name = pipe[p].name
      BY <1>9, RowTyped DEF Pipeline
    <3>3. IsRow(pipe, p)
      BY <1>9 DEF Exists, IsRow
    <3> QED BY <3>1, <3>2, <3>3 DEF IInv, Rows, IsRow, KeyOf
  <2>3. SlugsDiffer(pipe')
    BY <1>1, <2>2, Zenon DEF SlugsDiffer
  <2>4. ReadsHold(r)'
    BY <2>1 DEF ReadsHold
  <2> QED BY <2>1, <2>3, <2>4, TurnOver
<1>10. ASSUME Delete(r, p) PROVE InTurn'
  <2> DEFINE to == IF pipe[p].active > 0 THEN "deleteActive" ELSE "delete"
  <2>1. /\ pc'[r] = to /\ \A q \in Requests \ {r} : pc'[q] = "idle"
        /\ pid'[r] = p /\ UNCHANGED <<pipe, status, cr, lost>> /\ IsRow(pipe, p)
    BY <1>4, <1>6, <1>10 DEF Delete, Exists, IsRow
  <2>2. ReadsHold(r)'
    BY <2>1 DEF ReadsHold, Activated
  <2> QED BY <1>5, <2>1, <2>2, TurnOver
<1> QED BY <1>7, <1>8, <1>9, <1>10

\* What an insert, an append, and the removal of a pipeline that is not active
\* do to the activated pipelines and to the slugs.
LEMMA QuietTransaction ==
  ASSUME IInv, SlugsDiffer(pipe), NEW p \in Pids,
         \/ \E n \in Names, g \in Graph :
               /\ pipe[p] = None /\ SlugFree(pipe, p, n)
               /\ pipe' = [pipe EXCEPT ![p] = [name |-> n, versions |-> <<g>>, active |-> 0]]
         \/ Appends(p)
         \/ Removes(p) /\ ~Activated(pipe, p)
  PROVE  SameActivated(pipe, pipe') /\ SlugsDiffer(pipe')
<1>0. pipe \in [Pids -> Pipeline \cup {None, Gone}]
  BY DEF IInv, Rows
<1>1. CASE \E n \in Names, g \in Graph :
              /\ pipe[p] = None /\ SlugFree(pipe, p, n)
              /\ pipe' = [pipe EXCEPT ![p] = [name |-> n, versions |-> <<g>>, active |-> 0]]
  <2> PICK n \in Names, g \in Graph :
        /\ pipe[p] = None /\ SlugFree(pipe, p, n)
        /\ pipe' = [pipe EXCEPT ![p] = [name |-> n, versions |-> <<g>>, active |-> 0]]
    BY <1>1
  <2>1. /\ pipe'[p].name = n /\ pipe'[p].active = 0
        /\ \A q \in Pids \ {p} : pipe'[q] = pipe[q]
    BY <1>0
  <2>2. ~Activated(pipe, p) /\ ~Activated(pipe', p)
    BY <2>1 DEF Activated, IsRow
  <2>3. SameActivated(pipe, pipe')
    BY <2>1, <2>2, Zenon DEF SameActivated, Activated, IsRow, KeyOf, ActiveVersion
  <2>4. KeyOf(pipe', p) = <<Owner[p], Slug[n]>>
    BY <2>1 DEF KeyOf
  <2>5. \A q \in Pids \ {p} : /\ IsRow(pipe', q) <=> IsRow(pipe, q)
                              /\ KeyOf(pipe', q) = KeyOf(pipe, q)
    BY <2>1, Zenon DEF IsRow, KeyOf
  <2>6. SlugsDiffer(pipe')
    BY <2>4, <2>5, Zenon DEF SlugsDiffer, SlugFree
  <2> QED BY <2>3, <2>6
<1>2. CASE Appends(p)
  <2> PICK g \in Graph : Exists(p) /\ pipe' = [pipe EXCEPT ![p].versions = Append(@, g)]
    BY <1>2 DEF Appends
  <2> DEFINE s == pipe[p].versions
             a == pipe[p].active
  <2>1. /\ pipe[p] \in Pipeline /\ s \in Seq(Graph) /\ a \in 0..Len(s) /\ Len(s) \in Nat
        /\ IsRow(pipe, p)
    BY RowTyped DEF Exists, IsRow
  <2>2. /\ pipe'[p].name = pipe[p].name /\ pipe'[p].active = a
        /\ pipe'[p].versions = Append(s, g)
        /\ \A q \in Pids \ {p} : pipe'[q] = pipe[q]
    BY <1>0, <2>1 DEF Pipeline
  <2> HIDE DEF s, a
  <2>3. a > 0 => Append(s, g)[a] = s[a]
    BY <2>1, AppendProperties
  <2>4. Activated(pipe', p) => Activated(pipe, p)
    BY <2>1, <2>2 DEF Activated, a
  <2>5. Activated(pipe, p) => Activated(pipe', p)
    <3>1. IsRow(pipe', p)
      <4>1. pipe'[p] \in Pipeline
        BY <1>0, <2>1, AppendProperties DEF Pipeline, s
      <4> QED BY <4>1, ConstantsTyped DEF IsRow
    <3> QED BY <2>2, <3>1 DEF Activated, a
  <2>6. Activated(pipe, p) => ActiveVersion(pipe', p) = ActiveVersion(pipe, p)
    BY <2>2, <2>3 DEF ActiveVersion, Activated, a, s
  <2>7. KeyOf(pipe', p) = KeyOf(pipe, p)
    BY <2>2 DEF KeyOf
  <2>8. SameActivated(pipe, pipe')
    BY <2>2, <2>4, <2>5, <2>6, <2>7, Zenon DEF SameActivated, Activated, IsRow, KeyOf, ActiveVersion
  <2>9. \A q \in Pids : /\ IsRow(pipe', q) => IsRow(pipe, q)
                        /\ KeyOf(pipe', q) = KeyOf(pipe, q)
    BY <2>1, <2>2, <2>7, Zenon DEF IsRow, KeyOf
  <2>10. SlugsDiffer(pipe')
    BY <2>9, Zenon DEF SlugsDiffer
  <2> QED BY <2>8, <2>10
<1>3. CASE Removes(p) /\ ~Activated(pipe, p)
  <2>1. pipe'[p] = Gone /\ \A q \in Pids \ {p} : pipe'[q] = pipe[q]
    BY <1>0, <1>3 DEF Removes
  <2>2. ~IsRow(pipe', p) /\ ~Activated(pipe', p)
    BY <2>1 DEF Activated, IsRow
  <2>3. SameActivated(pipe, pipe')
    BY <1>3, <2>1, <2>2, Zenon DEF SameActivated, Activated, IsRow, KeyOf, ActiveVersion
  <2>4. SlugsDiffer(pipe')
    BY <2>1, <2>2, Zenon DEF SlugsDiffer, IsRow, KeyOf
  <2> QED BY <2>3, <2>4
<1> QED BY <1>1, <1>2, <1>3

\* Deleting leaves the other slugs.
LEMMA RemovedSlugs ==
  ASSUME IInv, SlugsDiffer(pipe), NEW p \in Pids, Removes(p) PROVE SlugsDiffer(pipe')
<1>1. pipe'[p] = Gone /\ \A q \in Pids \ {p} : pipe'[q] = pipe[q]
  BY DEF IInv, Rows, Removes
<1>2. ~IsRow(pipe', p)
  BY <1>1 DEF IsRow
<1> QED BY <1>1, <1>2, Zenon DEF SlugsDiffer, IsRow, KeyOf

\* What a request renders is up to date when it does.
LEMMA RenderedIsUpToDate ==
  ASSUME IInv, Renders, NEW u PROVE UpToDate(pipe, status, u, RenderForwardingConfig)
<1>1. \A p \in ListActive : /\ p \in Pids /\ Activated(pipe, p) /\ Key(p) = KeyOf(pipe, p)
                            /\ status[Owner[p]] = "active"
  BY Zenon DEF ListActive, Activated, IsRow, Exists, Key, pipelineKey, KeyOf
<1>2. \A p \in Pids : Activated(pipe, p) /\ status[Owner[p]] = "active" => p \in ListActive
  BY Zenon DEF ListActive, Activated, IsRow, Exists
<1>3. RenderForwardingConfig.routes = {Key(p) : p \in ListActive}
  BY RenderedHas, Zenon DEF Renders
<1>4. \A p \in ListActive : Has(RenderForwardingConfig, Key(p), ActiveVersion(pipe, p))
  BY RenderedHas, Zenon DEF Renders
<1>5. RoutesActivated(pipe, status, u, RenderForwardingConfig)
  BY <1>1, <1>3, Zenon DEF RoutesActivated
<1>6. Deployed(pipe, status, u, RenderForwardingConfig)
  BY <1>1, <1>2, <1>4, Zenon DEF Deployed
<1> QED BY <1>5, <1>6, Zenon DEF UpToDate

\* A request that runs in turn goes on.
LEMMA StepInTurn ==
  ASSUME IInv, LoadInv, InTurn, NEW r \in Requests,
         \/ Prepare(r) \/ CreatePipeline(r) \/ CreatePipelineVersion(r)
         \/ DeletePipeline(r) \/ RenderCurrent(r) \/ Distribute(r)
  PROVE  InTurn'
<1> SUFFICES ASSUME ~overlapped' PROVE InTurn'
  BY Zenon DEF InTurn
<1>1. pc[r] # "idle" /\ overlapped' = overlapped /\ status' = status
  BY DEF Prepare, CreatePipeline, CreatePipelineVersion, DeletePipeline, RenderCurrent,
         Distribute
<1>2. /\ OneRequest /\ SlugsDiffer(pipe) /\ ReadsHold(r)
      /\ ~lost /\ ~Distributing => UpToDate(pipe, status, restated, cr)
  BY <1>1, Zenon DEF InTurn
<1>3. \A q \in Requests \ {r} : pc[q] = "idle"
  BY <1>1, <1>2, Zenon DEF OneRequest
<1>4. ~lost /\ pc[r] \notin {"render", "patch"} =>
         UpToDate(pipe, status, restated, cr)
  BY <1>2, <1>3 DEF Distributing
<1>5. pc = [q \in Requests |-> pc[q]] /\ conf = [q \in Requests |-> conf[q]]
  BY DEF IInv, Held, LoadInv
<1>6. ASSUME NEW to, pc' = [pc EXCEPT ![r] = to]
      PROVE  pc'[r] = to /\ \A q \in Requests \ {r} : pc'[q] = "idle"
  BY <1>3, <1>5, <1>6
<1>7. ASSUME Finish(r) PROVE ReadsHold(r)' /\ pc'[r] = "idle"
  <2>1. pc'[r] = "idle"
    BY <1>6, <1>7 DEF Finish
  <2> QED BY <2>1 DEF ReadsHold
<1>8. ASSUME Finish(r) PROVE \A q \in Requests \ {r} : pc'[q] = "idle"
  BY <1>6, <1>8 DEF Finish
<1>9. ASSUME Finish(r), SameActivated(pipe, pipe'), SlugsDiffer(pipe'),
              pc[r] \notin {"render", "patch"}, UNCHANGED <<cr, lost, restated>>
       PROVE  InTurn'
  <2>1. ~lost' => UpToDate(pipe', status', restated', cr')
    BY <1>1, <1>4, <1>9, StaysUpToDate, Zenon
  <2> QED BY <1>7, <1>8, <1>9, <2>1, TurnOver, Zenon
<1>10. SameActivated(pipe, pipe)
  BY Zenon DEF SameActivated
<1>11. CASE Prepare(r)
  <2>1. pc[r] = "validate" /\ UNCHANGED <<pipe, cr, lost, restated>>
    BY <1>11 DEF Prepare
  <2>2. CASE Finish(r)
    BY <1>2, <1>9, <1>10, <2>1, <2>2
  <2>3. CASE pc' = [pc EXCEPT ![r] = "insert"] /\ UNCHANGED locals
    <3>1. pc'[r] = "insert" /\ \A q \in Requests \ {r} : pc'[q] = "idle"
      BY <1>6, <2>3
    <3>2. ReadsHold(r)'
      BY <1>2, <2>1, <2>3, <3>1 DEF ReadsHold, locals
    <3>3. ~lost' => UpToDate(pipe', status', restated', cr')
      BY <1>1, <1>4, <2>1
    <3> QED BY <1>2, <2>1, <3>1, <3>2, <3>3, TurnOver
  <2> QED BY <1>11, <2>2, <2>3, Zenon DEF Prepare
<1>12. CASE CreatePipeline(r)
  <2>1. /\ pc[r] = "insert" /\ pipe[pid[r]] = None /\ Finish(r)
        /\ UNCHANGED <<cr, lost, restated>>
    BY <1>12 DEF CreatePipeline
  <2>2. pid[r] \in Pids /\ name[r] \in Names /\ graph[r] \in Graph
    BY <2>1 DEF IInv, Held, Graph, Exporters
  <2>3. SlugFree(pipe, pid[r], name[r])
    BY <1>2, <2>1 DEF ReadsHold
  <2>4. \/ UNCHANGED pipe
        \/ pipe' = [pipe EXCEPT ![pid[r]] =
                       [name |-> name[r], versions |-> <<graph[r]>>, active |-> 0]]
    BY <1>12, Zenon DEF CreatePipeline
  <2>5. SameActivated(pipe, pipe') /\ SlugsDiffer(pipe')
    BY <1>2, <1>10, <2>1, <2>2, <2>3, <2>4, QuietTransaction
  <2> QED BY <1>9, <2>1, <2>5
<1>13. CASE CreatePipelineVersion(r)
  <2>1. pc[r] = "insert" /\ Finish(r) /\ UNCHANGED <<cr, lost, restated>>
    BY <1>13 DEF CreatePipelineVersion
  <2>2. pid[r] \in Pids /\ graph[r] \in Graph
    BY <2>1 DEF IInv, Held, Graph, Exporters
  <2>3. UNCHANGED pipe \/ Appends(pid[r])
    BY <1>13, <2>2, Zenon DEF CreatePipelineVersion, Appends
  <2>4. SameActivated(pipe, pipe') /\ SlugsDiffer(pipe')
    BY <1>2, <1>10, <2>2, <2>3, QuietTransaction
  <2> QED BY <1>9, <2>1, <2>4
<1>14. CASE DeletePipeline(r)
  <2>1. /\ pc[r] \in {"delete", "deleteActive"} /\ Removes(pid[r])
        /\ UNCHANGED <<cr, lost, restated>>
    BY <1>14 DEF DeletePipeline, Removes
  <2>2. pid[r] \in Pids
    BY <2>1 DEF IInv, Held
  <2>3. CASE pc[r] = "delete"
    <3>1. Finish(r)
      BY <1>14, <2>3 DEF DeletePipeline
    <3>2. SameActivated(pipe, pipe') /\ SlugsDiffer(pipe')
      BY <1>2, <2>1, <2>2, <2>3, QuietTransaction DEF ReadsHold
    <3> QED BY <1>9, <2>1, <2>3, <3>1, <3>2
  <2>4. CASE pc[r] = "deleteActive"
    <3>1. Exists(pid[r])
      BY <1>2, <2>4 DEF ReadsHold, IsRow, Exists
    <3>2. pc' = [pc EXCEPT ![r] = "render"]
      BY <1>14, <2>4, <3>1 DEF DeletePipeline
    <3>3. pc'[r] = "render" /\ \A q \in Requests \ {r} : pc'[q] = "idle"
      BY <1>6, <3>2
    <3>4. SlugsDiffer(pipe')
      BY <1>2, <2>1, <2>2, RemovedSlugs
    <3>5. ReadsHold(r)'
      BY <3>3 DEF ReadsHold
    <3> QED BY <3>3, <3>4, <3>5, TurnOver
  <2> QED BY <2>1, <2>3, <2>4
<1>15. CASE RenderCurrent(r)
  <2>1. pc[r] = "render" /\ UNCHANGED <<pipe, cr>>
    BY <1>15 DEF RenderCurrent
  <2>2. CASE Finish(r) /\ lost' = TRUE
    BY <1>2, <1>7, <1>8, <2>1, <2>2, TurnOver, Zenon
  <2>3. CASE /\ Renders /\ conf' = [conf EXCEPT ![r] = RenderForwardingConfig]
             /\ pc' = [pc EXCEPT ![r] = "patch"] /\ restated' = {}
    <3>1. pc'[r] = "patch" /\ \A q \in Requests \ {r} : pc'[q] = "idle"
      BY <1>6, <2>3
    <3>2. conf'[r] = RenderForwardingConfig
      BY <1>5, <2>3
    <3>3. UpToDate(pipe, status, {}, RenderForwardingConfig)
      BY <2>3, RenderedIsUpToDate
    <3>4. ReadsHold(r)'
      BY <1>1, <2>1, <2>3, <3>1, <3>2, <3>3 DEF ReadsHold
    <3> QED BY <1>2, <2>1, <3>1, <3>4, TurnOver
  <2> QED BY <1>15, <2>2, <2>3, Zenon DEF RenderCurrent
<1>16. CASE Distribute(r)
  <2>1. pc[r] = "patch" /\ Finish(r) /\ UNCHANGED <<pipe, restated>>
    BY <1>16 DEF Distribute
  <2>2. CASE lost' = TRUE
    BY <1>2, <1>7, <1>8, <2>1, <2>2, TurnOver, Zenon
  <2>3. CASE cr' = MergePatch(cr, conf[r])
    <3>1. UpToDate(pipe, status, restated, conf[r])
      BY <1>2, <2>1 DEF ReadsHold
    <3>2. Loads(conf[r])
      BY DEF LoadInv
    <3>3. UpToDate(pipe, status, restated, MergePatch(cr, conf[r]))
      BY <3>1, <3>2, MergedIsUpToDate
    <3>4. UpToDate(pipe', status', restated', cr')
      BY <1>1, <2>1, <2>3, <3>3
    <3> QED BY <1>2, <1>7, <1>8, <2>1, <3>4, TurnOver, Zenon
  <2> QED BY <1>16, <2>2, <2>3, Zenon DEF Distribute
<1> QED BY <1>11, <1>12, <1>13, <1>14, <1>15, <1>16

\* A change of a customer distributes nothing: the resource keeps routing to
\* activated pipelines only, and stays up to date for the other customers.
LEMMA UpdateInTurn ==
  ASSUME Locals, InTurn, NEW c \in Customers, NEW s, UpdateCustomer(c, s) PROVE InTurn'
<1> SUFFICES ASSUME ~overlapped' PROVE InTurn'
  BY Zenon DEF InTurn
<1>1. /\ UNCHANGED <<pipe, cr, pc, pid, name, graph, conf, lost>> /\ overlapped' = overlapped
      /\ restated' = restated \cup {c} /\ status' = [status EXCEPT ![c] = s]
  BY DEF UpdateCustomer, locals
<1>2. /\ OneRequest /\ SlugsDiffer(pipe) /\ \A r \in Requests : ReadsHold(r)
      /\ ~lost /\ ~Distributing => UpToDate(pipe, status, restated, cr)
  BY <1>1, Zenon DEF InTurn
<1>3. \A p \in Pids : /\ Owner[p] \notin restated' =>
                            Owner[p] \notin restated /\ status'[Owner[p]] = status[Owner[p]]
                      /\ Owner[p] \in restated => Owner[p] \in restated'
  BY <1>1, ConstantsTyped DEF Locals
<1>4. ASSUME NEW o, UpToDate(pipe, status, restated, o)
      PROVE  UpToDate(pipe, status', restated', o)
  <2>1. RoutesActivated(pipe, status', restated', o)
    BY <1>3, <1>4, Zenon DEF UpToDate, RoutesActivated
  <2>2. Deployed(pipe, status', restated', o)
    BY <1>3, <1>4, Zenon DEF UpToDate, Deployed
  <2> QED BY <2>1, <2>2 DEF UpToDate
<1>5. ASSUME NEW r \in Requests PROVE ReadsHold(r)'
  BY <1>1, <1>2, <1>4, Zenon DEF ReadsHold
<1>6. OneRequest' /\ SlugsDiffer(pipe') /\ (Distributing' <=> Distributing)
  BY <1>1, <1>2, Zenon DEF OneRequest, Distributing
<1>7. ~lost' /\ ~Distributing' => UpToDate(pipe', status', restated', cr')
  BY <1>1, <1>2, <1>4, <1>6, Zenon
<1> QED BY <1>5, <1>6, <1>7, Zenon DEF InTurn

\* Requests in turn, in every reachable state.
LEMMA InTurnInvariant == Spec => [](IInv /\ InTurn)
<1>1. Init => InTurn
  <2> SUFFICES ASSUME Init PROVE InTurn
    OBVIOUS
  <2>1. \A r \in Requests : pc[r] = "idle"
    BY DEF Init
  <2>2. \A p \in Pids : ~IsRow(pipe, p) /\ ~Activated(pipe, p)
    BY DEF Init, IsRow, Activated
  <2>3. cr.routes = {}
    BY DEF Init, NoConfig
  <2>4. UpToDate(pipe, status, restated, cr)
    BY <2>2, <2>3, Zenon DEF UpToDate, RoutesActivated, Deployed
  <2>5. OneRequest /\ \A r \in Requests : ReadsHold(r)
    BY <2>1 DEF OneRequest, ReadsHold
  <2>6. SlugsDiffer(pipe)
    BY <2>2, Zenon DEF SlugsDiffer
  <2> QED BY <2>4, <2>5, <2>6, Zenon DEF InTurn
<1>2. ASSUME IInv, LoadInv, Locals, InTurn, [Next]_vars PROVE InTurn'
  <2>1. CASE UNCHANGED vars
    BY <1>2, <2>1 DEF vars, locals, InTurn, OneRequest, ReadsHold, Distributing
  <2> QED BY <1>2, <2>1, ArrivalInTurn, StepInTurn, UpdateInTurn DEF Next
<1> QED BY <1>1, <1>2, LocalsInvariant, Invariant, PTL DEF Spec

\* Unless requests overlapped, no two pipelines of a customer share a slug.
THEOREM SlugsAreDistinct == Spec => []SlugsDistinct
<1>1. InTurn => SlugsDistinct
  BY Zenon DEF InTurn, SlugsDiffer, SlugsDistinct, IsRow, Exists, KeyOf, Key, pipelineKey
<1> QED BY <1>1, InTurnInvariant, PTL

\* With every request done, none overlapping and the last distribution through,
\* the resource is up to date.
LEMMA DoneIsUpToDate ==
  ASSUME InTurn, DoneInTurn
  PROVE  SlugsDiffer(pipe) /\ UpToDate(pipe, status, restated, cr)
<1>1. ~lost /\ ~overlapped /\ ~Distributing
  BY DEF DoneInTurn, Idle, Distributing
<1> QED BY <1>1, Zenon DEF InTurn

\* After requests that did not overlap, nothing is routed to a pipeline that was
\* deleted.
THEOREM NoDeletedRoute == Spec => []DeletedNotRouted
<1>1. ASSUME InTurn PROVE DeletedNotRouted
  <2> SUFFICES ASSUME DoneInTurn, NEW k \in cr.routes
               PROVE  \E p \in Pids : Exists(p) /\ Key(p) = k
    BY Zenon DEF DeletedNotRouted
  <2>1. PICK p \in Pids : Activated(pipe, p) /\ KeyOf(pipe, p) = k
    BY <1>1, DoneIsUpToDate, Zenon DEF UpToDate, RoutesActivated
  <2> QED BY <2>1, Zenon DEF Activated, IsRow, Exists, KeyOf, Key, pipelineKey
<1> QED BY <1>1, InTurnInvariant, PTL

\* After requests that did not overlap, exactly the active pipelines of active
\* customers are deployed, with the exporters and secrets of their active
\* versions, for every customer whose status has not changed since the last
\* render.
THEOREM ActiveDeployed == Spec => []ActiveIsDeployed
<1>1. ASSUME IInv, InTurn PROVE ActiveIsDeployed
  <2> DEFINE now == RenderForwardingConfig
             current == {k \in Keys : k[1] \notin restated}
  <2> SUFFICES ASSUME DoneInTurn
               PROVE  /\ now.routes \cap current = cr.routes \cap current
                      /\ \A k \in now.routes \cap current : cr.chains[k] = now.chains[k]
                      /\ \A x \in DOMAIN now.components :
                            x[1] \in current => cr.components[x] = now.components[x]
    BY Zenon DEF ActiveIsDeployed
  <2>1. /\ SlugsDiffer(pipe) /\ Deployed(pipe, status, restated, cr)
        /\ RoutesActivated(pipe, status, restated, cr)
    BY <1>1, DoneIsUpToDate, Zenon DEF UpToDate
  <2>2. \A p \in ListActive : /\ p \in Pids /\ Activated(pipe, p) /\ IsRow(pipe, p)
                              /\ status[Owner[p]] = "active" /\ Key(p) = KeyOf(pipe, p)
    BY Zenon DEF ListActive, Activated, IsRow, Exists, Key, pipelineKey, KeyOf
  <2>3. \A p, q \in ListActive : Key(p) = Key(q) => p = q
    BY <2>1, <2>2, Zenon DEF SlugsDiffer
  <2>4. ASSUME NEW p \in Pids, KeyOf(pipe, p) \in current PROVE Owner[p] \notin restated
    BY <2>4 DEF KeyOf
  <2>5. \A p \in ListActive : Key(p) \in current => Has(cr, Key(p), ActiveVersion(pipe, p))
    BY <2>1, <2>2, <2>4, Zenon DEF Deployed
  <2>6. /\ now.routes = {Key(p) : p \in ListActive}
        /\ \A p \in ListActive : Has(now, Key(p), ActiveVersion(pipe, p))
        /\ \A x \in DOMAIN now.components :
              \E p \in ListActive : \E n \in NodesOf(ActiveVersion(pipe, p)) : x = <<Key(p), n>>
    BY <1>1, <2>3, RenderedHas
  <2> HIDE DEF now, current
  <2>7. \A k \in now.routes \cap current : k \in cr.routes /\ cr.chains[k] = now.chains[k]
    BY <2>5, <2>6, Zenon DEF Has
  <2>8. ASSUME NEW k \in cr.routes \cap current PROVE k \in now.routes
    <3>1. PICK p \in Pids : /\ Activated(pipe, p) /\ KeyOf(pipe, p) = k
                            /\ Owner[p] \in restated \/ status[Owner[p]] = "active"
      BY <2>1, Zenon DEF RoutesActivated
    <3>2. status[Owner[p]] = "active"
      BY <2>4, <2>8, <3>1, Zenon
    <3>3. p \in ListActive /\ Key(p) = k
      BY <3>1, <3>2, Zenon DEF ListActive, Activated, IsRow, Exists, Key, pipelineKey, KeyOf
    <3> QED BY <2>6, <3>3, Zenon
  <2>9. ASSUME NEW x \in DOMAIN now.components, x[1] \in current
        PROVE  cr.components[x] = now.components[x]
    <3> PICK p \in ListActive : \E n \in NodesOf(ActiveVersion(pipe, p)) : x = <<Key(p), n>>
      BY <2>6
    <3> PICK n \in NodesOf(ActiveVersion(pipe, p)) : x = <<Key(p), n>>
      OBVIOUS
    <3>1. Key(p) \in current
      BY <2>9
    <3> QED BY <2>5, <2>6, <3>1, Zenon DEF Has
  <2> QED BY <2>7, <2>8, <2>9, Zenon
<1> QED BY <1>1, InTurnInvariant, PTL

=============================================================================
