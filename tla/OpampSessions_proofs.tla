------------------------ MODULE OpampSessions_proofs ------------------------
(* Proofs about OpampSessions, for any fleet, any number of connections    *)
(* and any bounds.                                                         *)
EXTENDS OpampSessions, TLAPS

\* Initially nothing is registered and every row is absent.
LEMMA InitHolds == Init => IInv
  BY ConstantsTyped, NoneIsNoValue
  DEF Init, IInv, TypeOK, DbTyped, RegistryTyped, ConnTyped, EnvTyped,
      ConnectionsBound, RowsGrounded, StateOwned, Writing,
      RegistryTracksConnections, Registered, PcStates, Uid

\* A step of the goroutine of a live connection that leaves the registry alone
\* keeps the registry part of the invariant, if what it is about to write next
\* is owned by the connection.
LEMMA LocalStep ==
  ASSUME IInv, NEW c \in Conns, pc[c] # "new",
         NEW s \in PcStates \ {"new", "offline"},
         NEW e \in AgentConn \cup {None}, s \in Writing => Owned(e, c),
         pc' = [pc EXCEPT ![c] = s], st' = [st EXCEPT ![c] = e],
         newConn' \in [Conns -> BOOLEAN], hasDesc' \in [Conns -> BOOLEAN],
         offer' \in [Conns -> Nat],
         UNCHANGED <<byUID, byConn, proc, auth>>
  PROVE  /\ RegistryTyped' /\ ConnTyped'
         /\ ConnectionsBound' /\ StateOwned' /\ RegistryTracksConnections'
<1>1. RegistryTyped' /\ ConnTyped'
  BY Zenon DEF IInv, TypeOK, RegistryTyped, ConnTyped
<1>2. ConnectionsBound'
  BY DEF IInv, TypeOK, ConnTyped, ConnectionsBound, Uid
<1>3. StateOwned'
  <2>1. ASSUME NEW d \in Conns, pc'[d] \in Writing PROVE Owned(st[d], d)'
    BY <2>1 DEF IInv, TypeOK, ConnTyped, StateOwned, Owned, Uid
  <2>2. ASSUME NEW u \in Uids, byUID'[u] # None
        PROVE  pc'[byUID'[u].conn] # "new" /\ Owned(byUID[u], byUID[u].conn)'
    BY <2>2 DEF IInv, TypeOK, ConnTyped, RegistryTyped, AgentConn, StateOwned, Owned, Uid
  <2> QED BY <2>1, <2>2 DEF StateOwned
<1>4. RegistryTracksConnections'
  BY DEF IInv, TypeOK, ConnTyped, RegistryTracksConnections, Registered
<1> QED BY <1>1, <1>2, <1>3, <1>4

\* A handler that returns leaves nothing behind.
LEMMA ReturnStep ==
  ASSUME IInv, NEW c \in Conns, pc[c] # "new", NEW s \in {"open", "closing"},
         Return(c, s), UNCHANGED <<byUID, byConn>>
  PROVE  /\ RegistryTyped' /\ ConnTyped'
         /\ ConnectionsBound' /\ StateOwned' /\ RegistryTracksConnections'
<1>1. s \in PcStates \ {"new", "offline"} /\ s \notin Writing
  BY DEF PcStates, Writing
<1>2. newConn' \in [Conns -> BOOLEAN] /\ hasDesc' \in [Conns -> BOOLEAN]
      /\ offer' \in [Conns -> Nat]
  BY DEF Return, IInv, TypeOK, ConnTyped
<1>3. pc' = [pc EXCEPT ![c] = s] /\ st' = [st EXCEPT ![c] = None]
      /\ UNCHANGED <<byUID, byConn, proc, auth>>
  BY DEF Return, Goto
<1> QED BY <1>1, <1>2, <1>3, LocalStep, Zenon

\* A handler goes on to its next step.
LEMMA GotoStep ==
  ASSUME IInv, NEW c \in Conns, pc[c] # "new",
         NEW s \in PcStates \ {"new", "offline"},
         s \in Writing => pc[c] \in Writing,
         Goto(c, s), UNCHANGED <<byUID, byConn, proc, auth, st>>,
         newConn' \in [Conns -> BOOLEAN], hasDesc' \in [Conns -> BOOLEAN],
         offer' \in [Conns -> Nat]
  PROVE  /\ RegistryTyped' /\ ConnTyped'
         /\ ConnectionsBound' /\ StateOwned' /\ RegistryTracksConnections'
<1>1. st[c] \in AgentConn \cup {None} /\ st' = [st EXCEPT ![c] = st[c]]
  BY DEF IInv, TypeOK, ConnTyped
<1>2. s \in Writing => Owned(st[c], c)
  BY DEF IInv, StateOwned
<1>3. pc' = [pc EXCEPT ![c] = s]
  BY DEF Goto
<1> QED BY <1>1, <1>2, <1>3, LocalStep, Zenon

\* UPDATE agents ... WHERE id keeps rows well typed and ids grounded.
LEMMA ConnectedUpdate ==
  ASSUME IInv, NEW id, NEW b \in BOOLEAN, SetAgentConnected(id, b)
  PROVE  agents' \in [Uids -> Row \cup {None}] /\ RowsGrounded'
<1>1. \A u \in Uids : agents[u] # None => [agents[u] EXCEPT !.connected = b] \in Row
  BY NoneIsNoValue DEF IInv, TypeOK, DbTyped, Row
<1>2. agents' \in [Uids -> Row \cup {None}]
  BY <1>1 DEF SetAgentConnected, HasId, IInv, TypeOK, DbTyped
<1>3. \A u \in Uids : /\ agents'[u] # None => agents[u] # None
                      /\ agents[u] # None => /\ agents'[u].id = agents[u].id
                                             /\ agents'[u].cust = agents[u].cust
  BY NoneIsNoValue DEF SetAgentConnected, HasId, IInv, TypeOK, DbTyped, Row
<1>4. RowsGrounded'
  BY <1>3 DEF IInv, RowsGrounded, Grounded
<1> QED BY <1>2, <1>4

\* A change of a bootstrap token's row.
LEMMA TokenUpdate ==
  ASSUME IInv, NEW id, NEW n \in Nat, SetAgentToken(id, n)
  PROVE  agents' \in [Uids -> Row \cup {None}] /\ RowsGrounded'
<1>1. \A u \in Uids : agents[u] # None => [agents[u] EXCEPT !.token = n] \in Row
  BY NoneIsNoValue DEF IInv, TypeOK, DbTyped, Row
<1>2. agents' \in [Uids -> Row \cup {None}]
  BY <1>1 DEF SetAgentToken, HasId, IInv, TypeOK, DbTyped
<1>3. \A u \in Uids : /\ agents'[u] # None => agents[u] # None
                      /\ agents[u] # None => /\ agents'[u].id = agents[u].id
                                             /\ agents'[u].cust = agents[u].cust
  BY NoneIsNoValue DEF SetAgentToken, HasId, IInv, TypeOK, DbTyped, Row
<1>4. RowsGrounded'
  BY <1>3 DEF IInv, RowsGrounded, Grounded
<1> QED BY <1>2, <1>4

-----------------------------------------------------------------------------
(* One lemma per action.                                                   *)

\* A supervisor opens a connection.
LEMMA ConnectStep ==
  ASSUME IInv, NEW p \in Procs, NEW c \in Conns, Connect(p, c)
  PROVE  IInv'
<1> USE ConstantsTyped, NoneIsNoValue
<1>1. PICK a \in Authenticate(p) : auth' = [auth EXCEPT ![c] = a]
  BY Zenon DEF Connect
<1>2. a \in ConnAuth /\ (a.agent # None => a.agent.cust = a.cust /\ a.token = None)
  BY <1>1 DEF Authenticate, authenticateBootstrapToken, authenticateAgentToken,
     ConnAuth, Row, AgentIds, IInv, TypeOK, DbTyped, RowsGrounded, Grounded
<1>3. TypeOK'
  BY <1>1, <1>2 DEF IInv, TypeOK, DbTyped, RegistryTyped, ConnTyped, EnvTyped,
     Connect, Goto, PcStates, db, registry
<1>4. ConnectionsBound'
  BY <1>1, <1>2 DEF IInv, TypeOK, ConnTyped, RegistryTyped, ConnectionsBound,
     RegistryTracksConnections, Registered, Connect, Goto, registry, Uid
<1>5. RowsGrounded'
  BY DEF IInv, RowsGrounded, Connect, db
<1>6. StateOwned'
  BY <1>1, <1>2 DEF IInv, TypeOK, ConnTyped, RegistryTyped, StateOwned, Owned,
     Connect, Goto, registry, Uid, Writing, AgentConn
<1>7. RegistryTracksConnections'
  BY <1>1, <1>2 DEF IInv, TypeOK, ConnTyped, RegistryTracksConnections,
     Registered, Connect, Goto, registry
<1> QED BY <1>3, <1>4, <1>5, <1>6, <1>7 DEF IInv

\* A message arrives at its handler.
LEMMA ReceiveStep ==
  ASSUME IInv, NEW c \in Conns, NEW d \in BOOLEAN, Receive(c, d)
  PROVE  IInv'
<1> DEFINE e == byUID[Uid(c)]
<1>1. pc[c] # "new" /\ proc[c] \in Procs /\ Uid(c) \in Uids
  BY ConstantsTyped DEF Receive, IInv, ConnectionsBound, Uid
<1>2. DbTyped' /\ EnvTyped' /\ RowsGrounded'
  BY DEF Receive, db, IInv, TypeOK, DbTyped, EnvTyped, RowsGrounded
<1>3. RegistryTyped' /\ ConnTyped' /\ ConnectionsBound' /\ StateOwned'
      /\ RegistryTracksConnections'
  <2>1. CASE e = None
    <3>1. Goto(c, "resolve") /\ UNCHANGED <<byUID, byConn, proc, auth, st>>
          /\ newConn' \in [Conns -> BOOLEAN] /\ hasDesc' \in [Conns -> BOOLEAN]
          /\ offer' \in [Conns -> Nat]
      BY <2>1, Zenon DEF Receive, registry, IInv, TypeOK, ConnTyped
    <3>2. "resolve" \in PcStates \ {"new", "offline"} /\ "resolve" \notin Writing
      BY DEF PcStates, Writing
    <3> QED BY <1>1, <3>1, <3>2, GotoStep
  <2>2. CASE e # None /\ Refused(c, e.id, e.cust)
    BY <1>1, <2>2, ReturnStep DEF Receive, registry
  <2>3. CASE e # None /\ ~Refused(c, e.id, e.cust)
    <3> DEFINE f == [e EXCEPT !.conn = c]
    <3>1. e \in AgentConn /\ f \in AgentConn
      BY <1>1, <2>3 DEF IInv, TypeOK, RegistryTyped, AgentConn
    <3>2. Owned(f, c)
      BY <1>1, <2>3, <3>1 DEF IInv, StateOwned, Owned, Grounded, Refused, AgentConn,
         ConnectionsBound, RegistryTracksConnections, Registered
    <3>3. pc' = [pc EXCEPT ![c] = "put"] /\ st' = [st EXCEPT ![c] = f]
          /\ UNCHANGED <<byUID, byConn, proc, auth, hasDesc, offer>>
          /\ newConn' \in [Conns -> BOOLEAN]
      BY <2>3, Zenon DEF Receive, Goto, registry, IInv, TypeOK, ConnTyped
    <3>4. hasDesc' \in [Conns -> BOOLEAN] /\ offer' \in [Conns -> Nat]
          /\ "put" \in PcStates \ {"new", "offline"}
      BY <3>3 DEF IInv, TypeOK, ConnTyped, PcStates
    <3> QED BY <1>1, <3>1, <3>2, <3>3, <3>4, LocalStep, Zenon
  <2> QED BY <2>1, <2>2, <2>3
<1> QED BY <1>2, <1>3 DEF IInv, TypeOK

\* resolveAgent finds the agent, or goes on to enroll it.
LEMMA ResolveStep ==
  ASSUME IInv, NEW c \in Conns, Resolve(c)
  PROVE  IInv'
<1> DEFINE row == agents[Uid(c)]
<1>1. pc[c] # "new" /\ proc[c] \in Procs /\ Uid(c) \in Uids
  BY ConstantsTyped DEF Resolve, IInv, ConnectionsBound, Uid
<1>2. DbTyped' /\ EnvTyped' /\ RowsGrounded'
  BY DEF Resolve, Answers, Fails, db, IInv, TypeOK, DbTyped, EnvTyped, RowsGrounded
<1>3. UNCHANGED <<byUID, byConn>>
  BY DEF Resolve, registry
<1>4. RegistryTyped' /\ ConnTyped' /\ ConnectionsBound' /\ StateOwned'
      /\ RegistryTracksConnections'
  <2>1. CASE Return(c, "open") \/ Return(c, "closing")
    BY <1>1, <1>3, <2>1, ReturnStep
  <2>2. CASE Goto(c, "enroll") /\ UNCHANGED <<proc, auth, st, newConn, hasDesc, offer>>
    <3>1. "enroll" \in PcStates \ {"new", "offline"} /\ "enroll" \notin Writing
      BY DEF PcStates, Writing
    <3>2. newConn' \in [Conns -> BOOLEAN] /\ hasDesc' \in [Conns -> BOOLEAN]
          /\ offer' \in [Conns -> Nat]
      BY <2>2 DEF IInv, TypeOK, ConnTyped
    <3> QED BY <1>1, <1>3, <2>2, <3>1, <3>2, GotoStep
  <2>3. CASE /\ row # None /\ ~Refused(c, row.id, row.cust)
             /\ Goto(c, "put")
             /\ st' = [st EXCEPT ![c] = [conn |-> c, id |-> row.id,
                                        cust |-> auth[c].cust, offered |-> FALSE]]
             /\ UNCHANGED <<proc, auth, newConn, hasDesc, offer>>
    <3> DEFINE f == [conn |-> c, id |-> row.id, cust |-> auth[c].cust,
                     offered |-> FALSE]
    <3>1. row \in Row /\ auth[c] \in ConnAuth
      BY <1>1, <2>3 DEF IInv, TypeOK, DbTyped, ConnectionsBound
    <3>2. f \in AgentConn
      BY <3>1 DEF Row, ConnAuth, AgentConn
    <3>3. Owned(f, c)
      BY <1>1, <2>3, <3>1, <3>2 DEF IInv, RowsGrounded, Owned, Grounded, Refused,
         Row, ConnAuth
    <3>4. newConn' \in [Conns -> BOOLEAN] /\ hasDesc' \in [Conns -> BOOLEAN]
          /\ offer' \in [Conns -> Nat] /\ "put" \in PcStates \ {"new", "offline"}
      BY <2>3 DEF IInv, TypeOK, ConnTyped, PcStates
    <3> QED BY <1>1, <1>3, <2>3, <3>2, <3>3, <3>4, LocalStep, Zenon DEF Goto
  <2> QED BY <2>1, <2>2, <2>3 DEF Resolve
<1> QED BY <1>2, <1>4 DEF IInv, TypeOK

\* The enrollment transaction.
LEMMA EnrollStep ==
  ASSUME IInv, NEW c \in Conns, EnrollAgent(c)
  PROVE  IInv'
<1> DEFINE u == Uid(c)
           id == [n |-> inserted, uid |-> u, cust |-> auth[c].cust]
           f == [conn |-> c, id |-> id, cust |-> auth[c].cust, offered |-> FALSE]
<1>1. pc[c] # "new" /\ proc[c] \in Procs /\ u \in Uids /\ auth[c] \in ConnAuth
  BY ConstantsTyped DEF EnrollAgent, IInv, ConnectionsBound, Uid
<1>2. EnvTyped' /\ UNCHANGED <<byUID, byConn>>
  BY DEF EnrollAgent, Answers, Fails, registry, IInv, TypeOK, EnvTyped
<1>3. CASE /\ Goto(c, "resolve")
           /\ hasDesc' = [hasDesc EXCEPT ![c] = FALSE]
           /\ UNCHANGED <<db, proc, auth, st, newConn, offer>>
  <2>1. "resolve" \in PcStates \ {"new", "offline"} /\ "resolve" \notin Writing
    BY DEF PcStates, Writing
  <2>2. newConn' \in [Conns -> BOOLEAN] /\ hasDesc' \in [Conns -> BOOLEAN]
        /\ offer' \in [Conns -> Nat]
    BY <1>3 DEF IInv, TypeOK, ConnTyped
  <2>3. RegistryTyped' /\ ConnTyped' /\ ConnectionsBound' /\ StateOwned'
        /\ RegistryTracksConnections'
    BY <1>1, <1>2, <1>3, <2>1, <2>2, GotoStep
  <2>4. DbTyped' /\ RowsGrounded'
    BY <1>3 DEF db, IInv, TypeOK, DbTyped, RowsGrounded
  <2> QED BY <1>2, <2>3, <2>4 DEF IInv, TypeOK
<1>4. CASE Return(c, "open") /\ UNCHANGED db
  <2>1. RegistryTyped' /\ ConnTyped' /\ ConnectionsBound' /\ StateOwned'
        /\ RegistryTracksConnections'
    BY <1>1, <1>2, <1>4, ReturnStep
  <2>2. DbTyped' /\ RowsGrounded'
    BY <1>4 DEF db, IInv, TypeOK, DbTyped, RowsGrounded
  <2> QED BY <1>2, <2>1, <2>2 DEF IInv, TypeOK
<1>5. CASE /\ auth[c].token # None /\ inserted' = inserted + 1
           /\ agents' = [agents EXCEPT ![u] = [id |-> id, cust |-> auth[c].cust,
                                               connected |-> FALSE, token |-> 0]]
           /\ used' = [used EXCEPT ![auth[c].token] = @ + 1]
           /\ st' = [st EXCEPT ![c] = f]
           /\ Goto(c, "put")
           /\ UNCHANGED <<dead, status, minted, proc, auth, newConn, hasDesc, offer>>
  <2>1. id \in AgentIds /\ f \in AgentConn
        /\ [id |-> id, cust |-> auth[c].cust, connected |-> FALSE, token |-> 0] \in Row
    BY <1>1 DEF IInv, TypeOK, DbTyped, AgentIds, AgentConn, Row, ConnAuth
  <2>2. DbTyped'
    BY <1>1, <1>5, <2>1 DEF IInv, TypeOK, DbTyped, ConnAuth
  <2>3. RowsGrounded'
    BY <1>1, <1>5, <2>1 DEF IInv, TypeOK, DbTyped, RowsGrounded, Grounded, AgentIds
  <2>4. Owned(f, c)
    BY <1>1, <1>5, <2>1 DEF IInv, ConnectionsBound, Owned, Grounded
  <2>5. newConn' \in [Conns -> BOOLEAN] /\ hasDesc' \in [Conns -> BOOLEAN]
        /\ offer' \in [Conns -> Nat] /\ "put" \in PcStates \ {"new", "offline"}
    BY <1>5 DEF IInv, TypeOK, ConnTyped, PcStates
  <2>6. RegistryTyped' /\ ConnTyped' /\ ConnectionsBound' /\ StateOwned'
        /\ RegistryTracksConnections'
    BY <1>1, <1>2, <1>5, <2>1, <2>4, <2>5, LocalStep, Zenon DEF Goto
  <2> QED BY <1>2, <2>2, <2>3, <2>6 DEF IInv, TypeOK
<1> QED BY <1>3, <1>4, <1>5 DEF EnrollAgent

\* The registry takes over the connection.
LEMMA PutStep ==
  ASSUME IInv, NEW c \in Conns, Put(c)
  PROVE  IInv'
<1> DEFINE u == Uid(c)
<1> USE NoneIsNoValue
<1>1. pc[c] \in Writing /\ pc[c] # "new" /\ pc[c] # "offline" /\ proc[c] \in Procs /\ u \in Uids
  BY ConstantsTyped DEF Put, IInv, ConnectionsBound, Uid, Writing
<1>2. st[c] \in AgentConn /\ st[c].conn = c /\ Owned(st[c], c)
  BY <1>1 DEF IInv, StateOwned, Owned
<1>3. DbTyped' /\ EnvTyped' /\ RowsGrounded'
  BY DEF Put, db, IInv, TypeOK, DbTyped, EnvTyped, RowsGrounded
<1>4. /\ pc' \in [Conns -> PcStates] /\ pc'[c] \in {"connect", "open"}
      /\ \A d \in Conns \ {c} : pc'[d] = pc[d] /\ st'[d] = st[d]
      /\ pc'[c] = "connect" => st'[c] = st[c]
      /\ UNCHANGED <<proc, auth>>
  <2>1. CASE newConn[c]
    BY <2>1 DEF Put, Goto, IInv, TypeOK, ConnTyped, PcStates
  <2>2. CASE ~newConn[c]
    BY <2>2 DEF Put, Return, Goto, IInv, TypeOK, ConnTyped, PcStates
  <2> QED BY <2>1, <2>2
<1>5. ConnTyped'
  <2>1. CASE newConn[c]
    BY <1>4, <2>1 DEF Put, IInv, TypeOK, ConnTyped
  <2>2. CASE ~newConn[c]
    <3>1. Return(c, "open")
      BY <2>2 DEF Put
    <3>2. newConn' \in [Conns -> BOOLEAN] /\ hasDesc' \in [Conns -> BOOLEAN]
          /\ offer' \in [Conns -> Nat] /\ st' \in [Conns -> AgentConn \cup {None}]
      BY <3>1 DEF Return, IInv, TypeOK, ConnTyped
    <3> QED BY <1>4, <3>2 DEF IInv, TypeOK, ConnTyped
  <2> QED BY <2>1, <2>2
<1>6. RegistryTyped'
  BY <1>1, <1>2 DEF Put, IInv, TypeOK, RegistryTyped
<1>7. /\ byUID'[u] = st[c] /\ byConn'[c] = u
      /\ \A v \in Uids \ {u} : byUID'[v] = byUID[v]
      /\ \A d \in Conns \ {c} :
            byConn'[d] = IF byUID[u] # None /\ byUID[u].conn = d THEN None ELSE byConn[d]
  BY <1>1 DEF Put, IInv, TypeOK, RegistryTyped
<1>8. ConnectionsBound'
  <2> SUFFICES ASSUME NEW d \in Conns, pc'[d] # "new"
      PROVE /\ proc[d] \in Procs /\ auth[d] \in ConnAuth
            /\ auth[d].agent # None => /\ auth[d].agent.cust = auth[d].cust
                                       /\ auth[d].token = None
            /\ byConn'[d] \in {None, Uid(d)}
    BY <1>4 DEF ConnectionsBound, Uid
  <2>1. pc[d] # "new" /\ (d # c => byConn'[d] \in {None, byConn[d]})
    BY <1>1, <1>4, <1>7
  <2> QED BY <1>7, <2>1 DEF IInv, ConnectionsBound
<1>9. StateOwned'
  <2>1. ASSUME NEW d \in Conns, pc'[d] \in Writing PROVE Owned(st[d], d)'
    BY <1>2, <1>4, <2>1 DEF IInv, StateOwned, Owned, Uid, Writing
  <2>2. ASSUME NEW v \in Uids, byUID'[v] # None
        PROVE  pc'[byUID'[v].conn] # "new" /\ Owned(byUID[v], byUID[v].conn)'
    <3>1. CASE v = u
      <4>1. byUID'[v] = st[c] /\ byUID'[v].conn = c
        BY <1>2, <1>7, <3>1
      <4>2. Owned(byUID[v], c)'
        BY <1>2, <1>4, <4>1 DEF Owned, Uid
      <4> QED BY <1>4, <4>1, <4>2
    <3>2. CASE v # u
      <4>1. byUID'[v] = byUID[v] /\ Owned(byUID[v], byUID[v].conn)
            /\ pc[byUID[v].conn] # "new" /\ byUID[v].conn \in Conns
        BY <1>7, <2>2, <3>2 DEF IInv, TypeOK, RegistryTyped, AgentConn, StateOwned
      <4> QED BY <1>4, <4>1 DEF Owned, Uid
    <3> QED BY <3>1, <3>2
  <2> QED BY <2>1, <2>2 DEF StateOwned
<1>10. RegistryTracksConnections'
  <2> SUFFICES ASSUME NEW v \in Uids, NEW d \in Conns
      PROVE /\ Registered(v, d)' <=> byConn'[d] = v
            /\ Registered(v, d)' => pc'[d] \notin {"new", "offline"}
    BY DEF RegistryTracksConnections
  <2>1. CASE d = c
    <3>1. byConn[c] \in {None, u} /\ (Registered(v, c) <=> byConn[c] = v)
      BY <1>1 DEF IInv, ConnectionsBound, RegistryTracksConnections
    <3>2. pc'[c] \notin {"new", "offline"}
      BY <1>4
    <3>3. CASE v = u
      <4>1. byUID'[v] = st[c] /\ st[c] # None
        BY <1>2, <1>7, <3>3
      <4> QED BY <1>2, <1>7, <2>1, <3>2, <3>3, <4>1 DEF Registered
    <3>4. CASE v # u
      BY <1>1, <1>7, <2>1, <3>1, <3>4 DEF Registered
    <3> QED BY <3>3, <3>4
  <2>2. CASE d # c
    <3>1. /\ Registered(v, d) <=> byConn[d] = v
          /\ Registered(v, d) => pc[d] \notin {"new", "offline"}
          /\ Registered(u, d) <=> byConn[d] = u
      BY <1>1 DEF IInv, RegistryTracksConnections
    <3>2. byConn'[d] = IF Registered(u, d) THEN None ELSE byConn[d]
      BY <1>7, <2>2 DEF Registered
    <3>3. CASE v = u
      <4>1. ~Registered(v, d)'
        BY <1>2, <1>7, <2>2, <3>3 DEF Registered
      <4> QED BY <1>1, <3>1, <3>2, <3>3, <4>1
    <3>4. CASE v # u
      <4>1. Registered(v, d)' <=> Registered(v, d)
        BY <1>7, <3>4 DEF Registered
      <4>2. pc'[d] = pc[d]
        BY <1>4, <2>2
      <4> QED BY <1>1, <3>1, <3>2, <3>4, <4>1, <4>2
    <3> QED BY <3>3, <3>4
  <2> QED BY <2>1, <2>2
<1> QED BY <1>3, <1>5, <1>6, <1>8, <1>9, <1>10 DEF IInv, TypeOK

\* The row is marked online.
LEMMA MarkConnectedStep ==
  ASSUME IInv, NEW c \in Conns, MarkConnected(c)
  PROVE  IInv'
<1>1. pc[c] # "new" /\ pc[c] \in Writing
  BY DEF MarkConnected, Writing
<1>2. agents' \in [Uids -> Row \cup {None}] /\ RowsGrounded'
  <2>1. CASE UNCHANGED agents
    BY <2>1 DEF IInv, TypeOK, DbTyped, RowsGrounded
  <2>2. CASE SetAgentConnected(st[c].id, TRUE)
    BY <2>2, ConnectedUpdate, Zenon
  <2> QED BY <2>1, <2>2, Zenon DEF MarkConnected
<1>3. DbTyped' /\ EnvTyped' /\ UNCHANGED <<byUID, byConn>>
  <2>1. Answers \/ Fails
    BY Zenon DEF MarkConnected
  <2>2. faults' \in Nat
    BY <2>1 DEF Answers, Fails, IInv, TypeOK, EnvTyped
  <2>3. UNCHANGED <<inserted, used, dead, status, minted, byUID, byConn, cred,
                   deleting, restarts, raced>>
    BY DEF MarkConnected, registry
  <2>4. stranded' \subseteq stranded
    BY DEF MarkConnected
  <2> QED BY <1>2, <2>2, <2>3, <2>4 DEF IInv, TypeOK, DbTyped, EnvTyped
<1>4. RegistryTyped' /\ ConnTyped' /\ ConnectionsBound' /\ StateOwned'
      /\ RegistryTracksConnections'
  <2>1. CASE Return(c, "open")
    BY <1>1, <1>3, <2>1, ReturnStep
  <2>2. CASE Goto(c, "token") /\ UNCHANGED <<proc, auth, st, newConn, hasDesc, offer>>
    <3>1. "token" \in PcStates \ {"new", "offline"}
      BY DEF PcStates
    <3>2. newConn' \in [Conns -> BOOLEAN] /\ hasDesc' \in [Conns -> BOOLEAN]
          /\ offer' \in [Conns -> Nat]
      BY <2>2 DEF IInv, TypeOK, ConnTyped
    <3> QED BY <1>1, <1>3, <2>2, <3>1, <3>2, GotoStep
  <2> QED BY <2>1, <2>2 DEF MarkConnected
<1> QED BY <1>2, <1>3, <1>4 DEF IInv, TypeOK

\* maybeOfferConfig.
LEMMA OfferStep ==
  ASSUME IInv, NEW c \in Conns, maybeOfferAgentToken(c)
  PROVE  IInv'
<1> USE NoneIsNoValue
<1> DEFINE u == Uid(c)
<1>1. pc[c] # "new" /\ pc[c] \in Writing /\ proc[c] \in Procs /\ u \in Uids
  BY ConstantsTyped DEF maybeOfferAgentToken, Writing, IInv, ConnectionsBound, Uid
<1>2. EnvTyped' /\ UNCHANGED byConn
  BY DEF maybeOfferAgentToken, Answers, Fails, IInv, TypeOK, EnvTyped
<1>3. CASE Return(c, "open") /\ UNCHANGED <<db, byUID>>
  <2>1. RegistryTyped' /\ ConnTyped' /\ ConnectionsBound' /\ StateOwned'
        /\ RegistryTracksConnections'
    BY <1>1, <1>2, <1>3, ReturnStep
  <2>2. DbTyped' /\ RowsGrounded'
    BY <1>3 DEF db, IInv, TypeOK, DbTyped, RowsGrounded
  <2> QED BY <1>2, <2>1, <2>2 DEF IInv, TypeOK
<1>4. CASE /\ minted' = minted + 1
           /\ SetAgentToken(st[c].id, minted + 1)
           /\ byUID' = [byUID EXCEPT ![u] = IF @ = None THEN None
                                            ELSE [@ EXCEPT !.offered = TRUE]]
           /\ st' = [d \in Conns |-> IF d = c \/ SharesState(d, u)
                                     THEN [st[d] EXCEPT !.offered = TRUE]
                                     ELSE st[d]]
           /\ offer' = [offer EXCEPT ![c] = minted + 1]
           /\ Goto(c, "respond")
           /\ UNCHANGED <<inserted, used, dead, status, proc, auth, newConn, hasDesc>>
  <2>1. agents' \in [Uids -> Row \cup {None}] /\ RowsGrounded' /\ DbTyped'
    BY <1>4, TokenUpdate DEF IInv, TypeOK, DbTyped
  <2>0. \A d \in Conns :
           \/ st'[d] = st[d]
           \/ /\ st[d] \in AgentConn /\ st'[d] \in AgentConn
              /\ st'[d].conn = st[d].conn /\ st'[d].id = st[d].id
              /\ st'[d].cust = st[d].cust
    <3>1. ASSUME NEW d \in Conns, d = c \/ SharesState(d, u)
          PROVE  st[d] \in AgentConn
      BY <1>1, <3>1 DEF SharesState, Writing, IInv, StateOwned, Owned
    <3> QED BY <1>4, <3>1, Zenon DEF AgentConn
  <2>2. ConnTyped' /\ pc'[c] = "respond" /\ (\A d \in Conns \ {c} : pc'[d] = pc[d])
    <3>1. st' \in [Conns -> AgentConn \cup {None}]
      BY <1>4, <2>0, Zenon DEF IInv, TypeOK, ConnTyped
    <3> QED BY <1>4, <3>1 DEF Goto, IInv, TypeOK, DbTyped, ConnTyped, PcStates
  <2>3. \A v \in Uids :
           \/ byUID[v] = None /\ byUID'[v] = None
           \/ /\ byUID[v] \in AgentConn /\ byUID'[v] \in AgentConn
              /\ byUID'[v].conn = byUID[v].conn /\ byUID'[v].id = byUID[v].id
              /\ byUID'[v].cust = byUID[v].cust
    BY <1>4, Zenon DEF IInv, TypeOK, RegistryTyped, AgentConn
  <2>4. RegistryTyped'
    BY <1>2, <1>4, <2>3, Zenon DEF IInv, TypeOK, RegistryTyped
  <2>5. ConnectionsBound'
    BY <1>1, <1>2, <1>4, <2>2 DEF IInv, ConnectionsBound, Uid
  <2>6. StateOwned'
    <3>1. ASSUME NEW d \in Conns, pc'[d] \in Writing PROVE Owned(st[d], d)'
      BY <1>4, <2>0, <2>2, <3>1 DEF IInv, StateOwned, Owned, Grounded, Uid, Writing
    <3>2. ASSUME NEW v \in Uids, byUID'[v] # None
          PROVE  pc'[byUID'[v].conn] # "new" /\ Owned(byUID[v], byUID[v].conn)'
      <4>1. byUID[v] # None /\ byUID'[v].conn = byUID[v].conn /\ byUID[v].conn \in Conns
            /\ byUID'[v] \in AgentConn /\ byUID'[v].id = byUID[v].id
            /\ byUID'[v].cust = byUID[v].cust
        BY <2>3, <3>2 DEF AgentConn
      <4>2. pc[byUID[v].conn] # "new" /\ Owned(byUID[v], byUID[v].conn)
        BY <4>1 DEF IInv, StateOwned
      <4> QED BY <1>4, <2>2, <4>1, <4>2, Zenon DEF Owned, Grounded, Uid
    <3> QED BY <3>1, <3>2 DEF StateOwned
  <2>7. RegistryTracksConnections'
    <3> SUFFICES ASSUME NEW v \in Uids, NEW d \in Conns
        PROVE /\ Registered(v, d)' <=> byConn'[d] = v
              /\ Registered(v, d)' => pc'[d] \notin {"new", "offline"}
      BY DEF RegistryTracksConnections
    <3>1. /\ Registered(v, d) <=> byConn[d] = v
          /\ Registered(v, d) => pc[d] \notin {"new", "offline"}
      BY DEF IInv, RegistryTracksConnections
    <3>2. Registered(v, d)' <=> Registered(v, d)
      BY <2>3 DEF Registered, AgentConn
    <3> QED BY <1>2, <2>2, <3>1, <3>2
  <2> QED BY <1>2, <2>1, <2>2, <2>4, <2>5, <2>6, <2>7 DEF IInv, TypeOK
<1> QED BY <1>3, <1>4 DEF maybeOfferAgentToken

\* HandleMessage returns.
LEMMA RespondStep ==
  ASSUME IInv, NEW c \in Conns, Respond(c)
  PROVE  IInv'
<1>1. pc[c] # "new" /\ proc[c] \in Procs
  BY DEF Respond, IInv, ConnectionsBound
<1>2. DbTyped' /\ EnvTyped' /\ RowsGrounded'
  BY <1>1 DEF Respond, db, IInv, TypeOK, DbTyped, EnvTyped, ConnTyped, RowsGrounded
<1>3. RegistryTyped' /\ ConnTyped' /\ ConnectionsBound' /\ StateOwned'
      /\ RegistryTracksConnections'
  BY <1>1, ReturnStep DEF Respond, registry
<1> QED BY <1>2, <1>3 DEF IInv, TypeOK

\* Disposing of a connection that is registered nowhere.
LEMMA DisposeStep ==
  ASSUME IInv, NEW c \in Conns, Dispose(c), UNCHANGED byUID,
         byConn' = [byConn EXCEPT ![c] = None],
         \A u \in Uids : ~Registered(u, c)
  PROVE  /\ RegistryTyped' /\ ConnTyped'
         /\ ConnectionsBound' /\ StateOwned' /\ RegistryTracksConnections'
<1> USE NoneIsNoValue
<1>1. /\ pc'[c] = "new" /\ byConn'[c] = None
      /\ \A d \in Conns \ {c} : /\ pc'[d] = pc[d] /\ st'[d] = st[d]
                                /\ proc'[d] = proc[d] /\ auth'[d] = auth[d]
                                /\ byConn'[d] = byConn[d]
  BY DEF Dispose, Goto, IInv, TypeOK, ConnTyped, RegistryTyped
<1>2. RegistryTyped' /\ ConnTyped'
  BY DEF Dispose, Goto, PcStates, IInv, TypeOK, ConnTyped, RegistryTyped
<1>3. ConnectionsBound'
  <2> SUFFICES ASSUME NEW d \in Conns, pc'[d] # "new"
      PROVE /\ proc'[d] \in Procs /\ auth'[d] \in ConnAuth
            /\ auth'[d].agent # None => /\ auth'[d].agent.cust = auth'[d].cust
                                        /\ auth'[d].token = None
            /\ byConn'[d] \in {None, UidOf[proc'[d]]}
    BY DEF ConnectionsBound, Uid
  <2>1. d # c /\ pc[d] # "new"
    BY <1>1
  <2> QED BY <1>1, <2>1, Zenon DEF IInv, ConnectionsBound, Uid
<1>4. StateOwned'
  <2>1. ASSUME NEW d \in Conns, pc'[d] \in Writing PROVE Owned(st[d], d)'
    BY <1>1, <2>1, Zenon DEF IInv, StateOwned, Owned, Uid, Writing
  <2>2. ASSUME NEW u \in Uids, byUID'[u] # None
        PROVE  pc'[byUID'[u].conn] # "new" /\ Owned(byUID[u], byUID[u].conn)'
    <3>1. byUID[u] # None /\ byUID[u].conn \in Conns \ {c}
      BY <2>2 DEF IInv, TypeOK, RegistryTyped, AgentConn, Registered
    <3> QED BY <1>1, <3>1 DEF IInv, StateOwned, Owned, Uid
  <2> QED BY <2>1, <2>2 DEF StateOwned
<1>5. RegistryTracksConnections'
  <2> SUFFICES ASSUME NEW v \in Uids, NEW d \in Conns
      PROVE /\ Registered(v, d)' <=> byConn'[d] = v
            /\ Registered(v, d)' => pc'[d] \notin {"new", "offline"}
    BY DEF RegistryTracksConnections
  <2>1. /\ Registered(v, d) <=> byConn[d] = v
        /\ Registered(v, d) => pc[d] \notin {"new", "offline"}
    BY DEF IInv, RegistryTracksConnections
  <2>2. Registered(v, d)' <=> Registered(v, d)
    BY DEF Registered
  <2>3. CASE d = c
    BY <1>1, <2>2, <2>3
  <2>4. CASE d # c
    BY <1>1, <2>1, <2>2, <2>4
  <2> QED BY <2>3, <2>4
<1> QED BY <1>2, <1>3, <1>4, <1>5

\* HandleConnectionClose takes the connection out of the registry.
LEMMA CloseStep ==
  ASSUME IInv, NEW c \in Conns, Close(c)
  PROVE  IInv'
<1> USE NoneIsNoValue
<1> DEFINE u == byConn[c]
<1>1. /\ pc[c] # "new" /\ byConn' = [byConn EXCEPT ![c] = None]
      /\ u \in Uids \cup {None}
  BY DEF Close, IInv, TypeOK, RegistryTyped
<1>2. DbTyped' /\ RowsGrounded'
  BY DEF Close, db, IInv, TypeOK, DbTyped, RowsGrounded
<1>3. EnvTyped'
  BY DEF Close, Dispose, IInv, TypeOK, EnvTyped
<1>4. CASE /\ u # None /\ byUID[u] # None /\ byUID[u].conn = c
           /\ byUID' = [byUID EXCEPT ![u] = None]
           /\ st' = [st EXCEPT ![c] = byUID[u]]
           /\ Goto(c, "offline")
           /\ UNCHANGED <<proc, auth, newConn, hasDesc, offer>>
  <2>1. /\ pc'[c] = "offline" /\ st'[c] = byUID[u] /\ byConn'[c] = None
        /\ byUID'[u] = None /\ u \in Uids /\ byUID[u] \in AgentConn
        /\ \A v \in Uids \ {u} : byUID'[v] = byUID[v]
        /\ \A d \in Conns \ {c} : /\ pc'[d] = pc[d] /\ st'[d] = st[d]
                                  /\ byConn'[d] = byConn[d]
    BY <1>1, <1>4 DEF Goto, IInv, TypeOK, ConnTyped, RegistryTyped
  <2>2. RegistryTyped' /\ ConnTyped'
    BY <1>1, <1>4, <2>1 DEF Goto, PcStates, IInv, TypeOK, ConnTyped, RegistryTyped
  <2>3. ConnectionsBound'
    BY <1>1, <1>4, <2>1 DEF IInv, ConnectionsBound, Uid
  <2>4. StateOwned'
    <3>1. ASSUME NEW d \in Conns, pc'[d] \in Writing PROVE Owned(st[d], d)'
      <4>1. CASE d = c
        <5>1. Owned(byUID[u], c)
          BY <1>4, <2>1, Zenon DEF IInv, StateOwned
        <5> QED BY <1>4, <2>1, <4>1, <5>1 DEF Owned, Uid
      <4>2. CASE d # c
        <5>1. st'[d] = st[d] /\ Owned(st[d], d)
          BY <2>1, <3>1, <4>2 DEF IInv, StateOwned
        <5> QED BY <1>4, <5>1 DEF Owned, Uid
      <4> QED BY <4>1, <4>2
    <3>2. ASSUME NEW v \in Uids, byUID'[v] # None
          PROVE  pc'[byUID'[v].conn] # "new" /\ Owned(byUID[v], byUID[v].conn)'
      <4>1. v # u /\ byUID[v] # None /\ byUID[v].conn \in Conns
        BY <2>1, <3>2 DEF IInv, TypeOK, RegistryTyped, AgentConn
      <4>2. byUID'[v] = byUID[v] /\ byUID[v].conn # c
        BY <1>1, <2>1, <4>1 DEF IInv, RegistryTracksConnections, Registered
      <4>3. pc[byUID[v].conn] # "new" /\ Owned(byUID[v], byUID[v].conn)
        BY <4>1 DEF IInv, StateOwned
      <4> QED BY <1>4, <2>1, <4>1, <4>2, <4>3 DEF Owned, Uid
    <3> QED BY <3>1, <3>2 DEF StateOwned
  <2>5. RegistryTracksConnections'
    <3> SUFFICES ASSUME NEW v \in Uids, NEW d \in Conns
        PROVE /\ Registered(v, d)' <=> byConn'[d] = v
              /\ Registered(v, d)' => pc'[d] \notin {"new", "offline"}
      BY DEF RegistryTracksConnections
    <3>1. /\ Registered(v, d) <=> byConn[d] = v
          /\ Registered(v, d) => pc[d] \notin {"new", "offline"}
      BY DEF IInv, RegistryTracksConnections
    <3>2. byConn[c] = u /\ (Registered(u, d) <=> byConn[d] = u)
      BY <2>1 DEF IInv, RegistryTracksConnections
    <3>3. CASE v = u
      BY <1>4, <2>1, <3>1, <3>3 DEF Registered
    <3>4. CASE v # u
      BY <1>4, <2>1, <3>1, <3>2, <3>4 DEF Registered
    <3> QED BY <3>3, <3>4
  <2> QED BY <1>2, <1>3, <2>2, <2>3, <2>4, <2>5 DEF IInv, TypeOK
<1>5. CASE /\ ~(u # None /\ byUID[u] # None /\ byUID[u].conn = c)
           /\ Dispose(c) /\ UNCHANGED byUID
  <2>1. \A v \in Uids : ~Registered(v, c)
    BY <1>1, <1>5 DEF IInv, RegistryTracksConnections, Registered
  <2>2. RegistryTyped' /\ ConnTyped' /\ ConnectionsBound' /\ StateOwned'
        /\ RegistryTracksConnections'
    BY <1>1, <1>5, <2>1, DisposeStep, Zenon
  <2> QED BY <1>2, <1>3, <2>2 DEF IInv, TypeOK
<1> QED BY <1>4, <1>5 DEF Close

\* The row is marked offline.
LEMMA MarkDisconnectedStep ==
  ASSUME IInv, NEW c \in Conns, MarkDisconnected(c)
  PROVE  IInv'
<1> USE NoneIsNoValue
<1>1. agents' \in [Uids -> Row \cup {None}] /\ RowsGrounded'
  <2>1. CASE UNCHANGED agents
    BY <2>1 DEF IInv, TypeOK, DbTyped, RowsGrounded
  <2>2. CASE SetAgentConnected(st[c].id, FALSE)
    BY <2>2, ConnectedUpdate, Zenon
  <2> QED BY <2>1, <2>2, Zenon DEF MarkDisconnected
<1>2. DbTyped' /\ EnvTyped' /\ UNCHANGED <<byUID, byConn>>
  <2>1. Answers \/ Fails
    BY Zenon DEF MarkDisconnected
  <2>2. faults' \in Nat
    BY <2>1 DEF Answers, Fails, IInv, TypeOK, EnvTyped
  <2>3. /\ UNCHANGED <<inserted, used, dead, status, minted, byUID, byConn, cred,
                      deleting, restarts, raced, stranded>>
    BY Zenon DEF MarkDisconnected, Dispose, registry
  <2> QED BY <1>1, <2>2, <2>3 DEF IInv, TypeOK, DbTyped, EnvTyped
<1>3. \A u \in Uids : ~Registered(u, c)
  BY Zenon DEF MarkDisconnected, IInv, RegistryTracksConnections
<1>4. byConn[c] = None /\ byConn' = [byConn EXCEPT ![c] = None]
  BY <1>2, <1>3 DEF IInv, TypeOK, RegistryTyped, RegistryTracksConnections
<1>5. RegistryTyped' /\ ConnTyped' /\ ConnectionsBound' /\ StateOwned'
      /\ RegistryTracksConnections'
  BY <1>2, <1>3, <1>4, DisposeStep, Zenon DEF MarkDisconnected
<1> QED BY <1>1, <1>2, <1>5 DEF IInv, TypeOK

\* A step that leaves registry and connections alone and at most removes rows.
LEMMA OutsideStep ==
  ASSUME IInv, UNCHANGED <<registry, conn>>, DbTyped', EnvTyped',
         \A u \in Uids : agents'[u] \in {agents[u], None}
  PROVE  IInv'
<1>1. RegistryTyped' /\ ConnTyped'
  BY DEF registry, conn, IInv, TypeOK, RegistryTyped, ConnTyped
<1>2. ConnectionsBound' /\ StateOwned'
  BY Zenon DEF registry, conn, IInv, ConnectionsBound, StateOwned, Owned, Uid
<1>3. RegistryTracksConnections'
  <2> SUFFICES ASSUME NEW v \in Uids, NEW d \in Conns
      PROVE /\ Registered(v, d)' <=> byConn'[d] = v
            /\ Registered(v, d)' => pc'[d] \notin {"new", "offline"}
    BY DEF RegistryTracksConnections
  <2>1. /\ Registered(v, d) <=> byConn[d] = v
        /\ Registered(v, d) => pc[d] \notin {"new", "offline"}
    BY DEF IInv, RegistryTracksConnections
  <2> QED BY <2>1, Zenon DEF registry, conn, Registered
<1>4. RowsGrounded'
  BY DEF IInv, RowsGrounded, Grounded
<1> QED BY <1>1, <1>2, <1>3, <1>4 DEF IInv, TypeOK

\* The OpAMP tier restarts.
LEMMA RestartStep ==
  ASSUME IInv, Restart
  PROVE  IInv'
<1> USE NoneIsNoValue
<1>1. DbTyped' /\ EnvTyped' /\ RowsGrounded'
  <2>1. DbTyped'
    BY DEF Restart, db, IInv, TypeOK, DbTyped
  <2>2. EnvTyped'
    BY DEF Restart, db, IInv, TypeOK, EnvTyped
  <2>3. RowsGrounded'
    BY DEF Restart, db, IInv, RowsGrounded
  <2> QED BY <2>1, <2>2, <2>3
<1>2. RegistryTyped' /\ ConnTyped'
  BY DEF Restart, RegistryTyped, ConnTyped, PcStates
<1>3. ConnectionsBound' /\ StateOwned' /\ RegistryTracksConnections'
  BY DEF Restart, ConnectionsBound, StateOwned, Writing, RegistryTracksConnections,
     Registered
<1> QED BY <1>1, <1>2, <1>3 DEF IInv, TypeOK

\* The inductive step: every action, and stuttering, keeps the invariant.
LEMMA NextHolds == IInv /\ [Next]_vars => IInv'
<1> SUFFICES ASSUME IInv, [Next]_vars PROVE IInv'
  OBVIOUS
<1>1. CASE \E p \in Procs, c \in Conns : Connect(p, c)
  BY <1>1, ConnectStep
<1>2. CASE \E c \in Conns : Serve(c)
  BY <1>2, ReceiveStep, ResolveStep, EnrollStep, PutStep, MarkConnectedStep,
     OfferStep, RespondStep, CloseStep, MarkDisconnectedStep DEF Serve
<1>3. CASE \E u \in Uids : DeleteAgentCheck(u)
  <2>1. DbTyped' /\ EnvTyped' /\ UNCHANGED <<registry, conn, agents>>
    BY <1>3 DEF DeleteAgentCheck, db, IInv, TypeOK, DbTyped, EnvTyped, Row
  <2> QED BY <2>1, OutsideStep
<1>4. CASE DeleteAgent
  <2>1. DbTyped' /\ EnvTyped' /\ UNCHANGED <<registry, conn>>
        /\ \A u \in Uids : agents'[u] \in {agents[u], None}
    BY <1>4 DEF DeleteAgent, db, IInv, TypeOK, DbTyped, EnvTyped
  <2> QED BY <2>1, OutsideStep
<1>5. CASE \E t \in Tokens : RetireToken(t)
  <2>1. DbTyped' /\ EnvTyped' /\ UNCHANGED <<registry, conn, agents>>
    BY <1>5 DEF RetireToken, IInv, TypeOK, DbTyped, EnvTyped
  <2> QED BY <2>1, OutsideStep
<1>6. CASE \E k \in Customers, s \in {"active", "inactive"} :
             SetCustomerStatus(k, s)
  <2>1. DbTyped' /\ EnvTyped' /\ UNCHANGED <<registry, conn, agents>>
    BY <1>6 DEF SetCustomerStatus, IInv, TypeOK, DbTyped, EnvTyped
  <2> QED BY <2>1, OutsideStep
<1>7. CASE \E p \in Procs : RestartSupervisor(p)
  <2>1. DbTyped' /\ EnvTyped' /\ UNCHANGED <<registry, conn, agents>>
    BY <1>7 DEF RestartSupervisor, db, IInv, TypeOK, DbTyped, EnvTyped
  <2> QED BY <2>1, OutsideStep
<1>8. CASE Restart
  BY <1>8, RestartStep
<1>9. CASE UNCHANGED vars
  <2>1. DbTyped' /\ EnvTyped' /\ UNCHANGED <<registry, conn, agents>>
    BY <1>9 DEF vars, db, IInv, TypeOK, DbTyped, EnvTyped
  <2> QED BY <2>1, OutsideStep
<1> QED BY <1>1, <1>2, <1>3, <1>4, <1>5, <1>6, <1>7, <1>8, <1>9 DEF Next

\* The inductive invariant holds in every reachable state.
THEOREM Inductive == Spec => []IInv
  BY InitHolds, NextHolds, PTL DEF Spec

\* Rows, registry and goroutines keep their types for every fleet.
THEOREM TypeCorrect == Spec => []TypeOK
<1>1. IInv => TypeOK
  BY DEF IInv
<1> QED BY <1>1, Inductive, PTL

\* put and removeConn keep the two maps of the registry inverse to each other
\* and never leave an agent registered for a connection that is gone, however
\* many connections of one instance UID overlap.
THEOREM RegistryIsExact == Spec => []RegistryTracksConnections
<1>1. IInv => RegistryTracksConnections
  BY DEF IInv
<1> QED BY <1>1, Inductive, PTL

\* A connection only ever acts on agents of the customer, and for a per-agent
\* token on the agent, that it was authenticated for.
THEOREM TenantsIsolated == Spec => []TenantIsolation
<1>1. IInv => TenantIsolation
  <2> SUFFICES ASSUME IInv PROVE TenantIsolation
    OBVIOUS
  <2>1. ASSUME NEW e, NEW c \in Conns, Owned(e, c),
               NEW u \in Uids, HasId(u, e.id)
        PROVE  agents[u].cust = auth[c].cust
    BY <2>1 DEF IInv, RowsGrounded, Owned, Grounded, HasId
  <2>2. \A c \in Conns : pc[c] \in Writing => Owned(st[c], c)
    BY DEF IInv, StateOwned
  <2>3. \A u \in Uids, c \in Conns : Registered(u, c) => Owned(byUID[u], c)
    BY DEF IInv, StateOwned, Registered
  <2>4. ASSUME NEW c \in Conns, pc[c] \in Writing
        PROVE  /\ st[c].cust = auth[c].cust /\ auth[c].agent \in {None, st[c].id}
               /\ \A u \in Uids : HasId(u, st[c].id) => agents[u].cust = auth[c].cust
    <3>1. Owned(st[c], c)
      BY <2>2, <2>4
    <3> QED BY <2>1, <3>1 DEF Owned
  <2>5. ASSUME NEW u \in Uids, NEW c \in Conns, Registered(u, c)
        PROVE  /\ byUID[u].cust = auth[c].cust /\ auth[c].agent \in {None, byUID[u].id}
               /\ \A v \in Uids : HasId(v, byUID[u].id) => agents[v].cust = auth[c].cust
    <3>1. Owned(byUID[u], c)
      BY <2>3, <2>5
    <3> QED BY <2>1, <3>1 DEF Owned
  <2> QED BY <2>4, <2>5 DEF TenantIsolation
<1> QED BY <1>1, Inductive, PTL

-----------------------------------------------------------------------------
(* The connected column, for agents that connect in turn.                  *)

Serves(c, u) == pc[c] # "new" /\ Uid(c) = u

Alone(u) == \A c, d \in Conns : Serves(c, u) /\ Serves(d, u) => c = d

\* What the goroutine of c, the only one of UID u, has done to the column so far
\* and is still to do.
Flag(u, c) ==
    /\ pc[c] \in {"resolve", "enroll"} => newConn[c]
    /\ pc[c] \in {"resolve", "enroll", "offline"} => byUID[u] = None
    /\ pc[c] = "put" => (newConn[c] <=> byUID[u] = None)
    /\ pc[c] = "connect" => byUID[u] # None
    /\ agents[u] = None => u \notin stranded
    /\ pc[c] = "offline" \/ (byUID[u] # None /\ pc[c] # "connect") => u \notin stranded
    /\ agents[u] # None =>
          /\ byUID[u] # None => byUID[u].id = agents[u].id
          /\ pc[c] \in Writing => st[c].id = agents[u].id
          /\ agents[u].connected <=>
                \/ u \in stranded
                \/ pc[c] = "offline"
                \/ byUID[u] # None /\ pc[c] # "connect"

\* What the column says of a UID that no goroutine serves.
Idle(u) ==
    /\ agents[u] = None => u \notin stranded
    /\ agents[u] # None => (agents[u].connected <=> u \in stranded)

Exact(u) ==
    /\ Alone(u)
    /\ (\A c \in Conns : ~Serves(c, u)) => Idle(u)
    /\ \A c \in Conns : Serves(c, u) => Flag(u, c)

InTurn == faults = 0 => \A u \in Uids \ raced : Exact(u)

\* A step of the goroutine of c is about its own UID and its own locals.
Own(c) ==
    /\ \A u \in Uids : u # Uid(c) => /\ agents'[u] = agents[u] /\ byUID'[u] = byUID[u]
                                     /\ u \in stranded' <=> u \in stranded
    /\ \A d \in Conns \ {c} : /\ pc'[d] = pc[d] /\ proc'[d] = proc[d]
                              /\ newConn'[d] = newConn[d]
                              /\ pc[d] \in Writing => st'[d].id = st[d].id
    /\ pc'[c] = "new" \/ proc'[c] = proc[c]

\* The agents of other UIDs do not notice it.
LEMMA OtherUid ==
  ASSUME NEW c \in Conns, pc[c] # "new", Own(c), NEW u \in Uids, u # Uid(c), Exact(u)
  PROVE  Exact(u)'
<1>1. ASSUME NEW d \in Conns PROVE Serves(d, u)' <=> Serves(d, u)
  BY Zenon DEF Serves, Own, Uid
<1>2. ASSUME NEW d \in Conns, Serves(d, u) PROVE d # c
  BY <1>2 DEF Serves
<1>3. Alone(u)'
  BY <1>1, Zenon DEF Exact, Alone
<1>4. agents'[u] = agents[u] /\ byUID'[u] = byUID[u] /\ (u \in stranded' <=> u \in stranded)
  BY DEF Own
<1>5. ASSUME NEW d \in Conns, Serves(d, u) PROVE Flag(u, d)'
  <2>1. /\ pc'[d] = pc[d] /\ newConn'[d] = newConn[d]
        /\ pc[d] \in Writing => st'[d].id = st[d].id
    BY <1>2, <1>5, Zenon DEF Own
  <2>2. Flag(u, d)
    BY <1>5, Zenon DEF Exact
  <2> QED BY <1>4, <2>1, <2>2, Zenon DEF Flag
<1>6. Idle(u) => Idle(u)'
  BY <1>4, Zenon DEF Idle
<1> QED BY <1>1, <1>3, <1>5, <1>6, Zenon DEF Exact

\* What a step has to do for the goroutine's own UID.
Keeps(u, c) ==
    \/ pc'[c] # "new" /\ Flag(u, c)'
    \/ pc'[c] = "new" /\ Idle(u)'

\* Then the column stays exact for it.
LEMMA OwnUid ==
  ASSUME NEW c \in Conns, NEW u \in Uids, Serves(c, u), Own(c), Exact(u),
         Keeps(u, c)
  PROVE  Exact(u)'
<1>1. ASSUME NEW d \in Conns, d # c PROVE ~Serves(d, u)'
  <2>1. ~Serves(d, u)
    BY <1>1, Zenon DEF Exact, Alone
  <2> QED BY <1>1, <2>1, Zenon DEF Serves, Own, Uid
<1>2. Alone(u)'
  BY <1>1, Zenon DEF Alone
<1>3. CASE pc'[c] # "new" /\ Flag(u, c)'
  <2>1. Serves(c, u)'
    BY <1>3, Zenon DEF Serves, Own, Uid
  <2> QED BY <1>1, <1>2, <1>3, <2>1, Zenon DEF Exact
<1>4. CASE pc'[c] = "new" /\ Idle(u)'
  <2>1. ~Serves(c, u)'
    BY <1>4 DEF Serves
  <2> QED BY <1>1, <1>2, <1>4, <2>1, Zenon DEF Exact
<1> QED BY <1>3, <1>4 DEF Keeps

\* What is registered for a UID belongs to a goroutine that serves it.
LEMMA RegisteredServes ==
  ASSUME IInv, NEW u \in Uids, byUID[u] # None
  PROVE  byUID[u].conn \in Conns /\ Serves(byUID[u].conn, u) /\ byConn[byUID[u].conn] = u
<1>1. byUID[u].conn \in Conns /\ Registered(u, byUID[u].conn)
  BY DEF IInv, TypeOK, RegistryTyped, AgentConn, Registered
<1>2. byConn[byUID[u].conn] = u /\ pc[byUID[u].conn] # "new"
  BY <1>1 DEF IInv, RegistryTracksConnections
<1>3. u # None
  BY NoneIsNoValue
<1> QED BY <1>1, <1>2, <1>3 DEF IInv, ConnectionsBound, Serves

\* An id names the UID of its row, so a goroutine writes to its own row only.
LEMMA OwnRow ==
  ASSUME IInv, NEW c \in Conns, pc[c] \in Writing, NEW u \in Uids, HasId(u, st[c].id)
  PROVE  u = Uid(c)
  BY DEF IInv, StateOwned, Owned, RowsGrounded, Grounded, HasId

\* The goroutine moves on.
LEMMA Moved ==
  ASSUME IInv, NEW c \in Conns, NEW s, Goto(c, s)
  PROVE  pc'[c] = s /\ \A d \in Conns \ {c} : pc'[d] = pc[d]
  BY DEF Goto, IInv, TypeOK, ConnTyped

\* HandleMessage returns.
LEMMA Returned ==
  ASSUME IInv, NEW c \in Conns, NEW s, Return(c, s)
  PROVE  /\ pc'[c] = s /\ proc' = proc
         /\ \A d \in Conns \ {c} : pc'[d] = pc[d] /\ newConn'[d] = newConn[d] /\ st'[d] = st[d]
<1>1. Goto(c, s) /\ st' = [st EXCEPT ![c] = None]
      /\ newConn' = [newConn EXCEPT ![c] = FALSE] /\ proc' = proc
  BY DEF Return
<1>2. \A d \in Conns \ {c} : newConn'[d] = newConn[d] /\ st'[d] = st[d]
  BY <1>1, Zenon DEF IInv, TypeOK, ConnTyped
<1> QED BY <1>1, <1>2, Moved

\* The close callback returns.
LEMMA Disposed ==
  ASSUME IInv, NEW c \in Conns, Dispose(c)
  PROVE  /\ pc'[c] = "new"
         /\ \A d \in Conns \ {c} : /\ pc'[d] = pc[d] /\ proc'[d] = proc[d]
                                   /\ newConn'[d] = newConn[d] /\ st'[d] = st[d]
<1>1. Goto(c, "new") /\ st' = [st EXCEPT ![c] = None] /\ proc' = [proc EXCEPT ![c] = None]
      /\ newConn' = newConn
  BY DEF Dispose
<1>2. \A d \in Conns \ {c} : proc'[d] = proc[d] /\ st'[d] = st[d]
  BY <1>1, Zenon DEF IInv, TypeOK, ConnTyped
<1> QED BY <1>1, <1>2, Moved

\* Without faults, every call has answered.
LEMMA NoFault ==
  ASSUME IInv, faults' = 0
  PROVE  ~Fails
  BY DEF IInv, TypeOK, EnvTyped, Fails

\* A handler that returns without having touched the registry or the row.
LEMMA ReturnKeeps ==
  ASSUME IInv, NEW c \in Conns, NEW u \in Uids, Return(c, "open") \/ Return(c, "closing"),
         UNCHANGED <<agents, byUID, stranded>>, pc[c] \notin {"connect", "offline"}, Flag(u, c)
  PROVE  Keeps(u, c)
<1>1. pc'[c] \in {"open", "closing"}
  BY Returned, Zenon
<1> QED BY <1>1 DEF Flag, Keeps, Writing

\* A message arrives: the state it finds registered is this connection's.
LEMMA ReceiveKeeps ==
  ASSUME IInv, NEW c \in Conns, NEW desc \in BOOLEAN, Receive(c, desc),
         NEW u \in Uids, u = Uid(c)
  PROVE  Own(c) /\ (Alone(u) /\ Flag(u, c) => Keeps(u, c))
<1>1. pc[c] = "open" /\ UNCHANGED <<agents, byUID, proc, stranded>>
  BY DEF Receive, db, registry, Return
<1>2. CASE byUID[u] = None
  <2>1. Goto(c, "resolve") /\ newConn' = [newConn EXCEPT ![c] = TRUE] /\ st' = st
    BY <1>2, Zenon DEF Receive
  <2>2. pc'[c] = "resolve" /\ \A d \in Conns \ {c} : pc'[d] = pc[d]
    BY <2>1, Moved
  <2>3. newConn'[c] /\ \A d \in Conns \ {c} : newConn'[d] = newConn[d]
    BY <2>1, Zenon DEF IInv, TypeOK, ConnTyped
  <2>4. Own(c)
    BY <1>1, <2>1, <2>2, <2>3 DEF Own
  <2>5. Alone(u) /\ Flag(u, c) => Keeps(u, c)
    BY <1>1, <1>2, <2>2, <2>3 DEF Flag, Keeps, Writing
  <2> QED BY <2>4, <2>5
<1>3. CASE Return(c, "closing")
  <2>1. Own(c)
    BY <1>1, <1>3, Returned DEF Own
  <2>2. Alone(u) /\ Flag(u, c) => Keeps(u, c)
    BY <1>1, <1>3, ReturnKeeps
  <2> QED BY <2>1, <2>2
<1>4. CASE /\ byUID[u] # None /\ Goto(c, "put")
           /\ st' = [st EXCEPT ![c] = [byUID[u] EXCEPT !.conn = c]]
           /\ newConn' = [newConn EXCEPT ![c] = (byUID[u].conn # c)]
  <2>1. pc'[c] = "put" /\ \A d \in Conns \ {c} : pc'[d] = pc[d]
    BY <1>4, Moved
  <2>2. /\ newConn'[c] = (byUID[u].conn # c)
        /\ \A d \in Conns \ {c} : newConn'[d] = newConn[d] /\ st'[d] = st[d]
    BY <1>4, Zenon DEF IInv, TypeOK, ConnTyped
  <2>3. st'[c].id = byUID[u].id
    BY <1>4 DEF IInv, TypeOK, ConnTyped, RegistryTyped, AgentConn
  <2>4. Own(c)
    BY <1>1, <2>1, <2>2 DEF Own
  <2>5. ASSUME Alone(u), Flag(u, c) PROVE Keeps(u, c)
    <3>1. Serves(c, u)
      BY <1>1 DEF Serves
    <3>2. byUID[u].conn = c
      BY <1>4, <2>5, <3>1, RegisteredServes, Zenon DEF Alone
    <3>3. ~newConn'[c]
      BY <2>2, <3>2
    <3> QED BY <1>1, <1>4, <2>1, <2>3, <2>5, <3>3 DEF Flag, Keeps, Writing
  <2> QED BY <2>4, <2>5
<1> QED BY <1>2, <1>3, <1>4, Zenon DEF Receive

\* resolveAgent only reads the row.
LEMMA ResolveKeeps ==
  ASSUME IInv, NEW c \in Conns, Resolve(c), NEW u \in Uids, u = Uid(c)
  PROVE  Own(c) /\ (Flag(u, c) => Keeps(u, c))
<1>1. pc[c] = "resolve" /\ UNCHANGED <<agents, byUID, proc, stranded>>
  BY DEF Resolve, db, registry, Return
<1>2. CASE Return(c, "open") \/ Return(c, "closing")
  <2>1. Own(c)
    BY <1>1, <1>2, Returned DEF Own
  <2>2. Flag(u, c) => Keeps(u, c)
    BY <1>1, <1>2, ReturnKeeps
  <2> QED BY <2>1, <2>2
<1>3. CASE Goto(c, "enroll") /\ UNCHANGED <<st, newConn>>
  <2>1. pc'[c] = "enroll" /\ \A d \in Conns \ {c} : pc'[d] = pc[d]
    BY <1>3, Moved
  <2>2. Own(c)
    BY <1>1, <1>3, <2>1 DEF Own
  <2>3. Flag(u, c) => Keeps(u, c)
    BY <1>1, <1>3, <2>1 DEF Flag, Keeps, Writing
  <2> QED BY <2>2, <2>3
<1>4. CASE /\ agents[u] # None /\ Goto(c, "put") /\ newConn' = newConn
           /\ st' = [st EXCEPT ![c] = [conn |-> c, id |-> agents[u].id,
                                      cust |-> auth[c].cust, offered |-> FALSE]]
  <2>1. pc'[c] = "put" /\ \A d \in Conns \ {c} : pc'[d] = pc[d]
    BY <1>4, Moved
  <2>2. st'[c].id = agents[u].id /\ \A d \in Conns \ {c} : st'[d] = st[d]
    BY <1>4 DEF IInv, TypeOK, ConnTyped
  <2>3. Own(c)
    BY <1>1, <1>4, <2>1, <2>2 DEF Own
  <2>4. Flag(u, c) => Keeps(u, c)
    BY <1>1, <1>4, <2>1, <2>2 DEF Flag, Keeps, Writing
  <2> QED BY <2>3, <2>4
<1> QED BY <1>2, <1>3, <1>4, Zenon DEF Resolve

\* EnrollAgent inserts its own row, with connected = false.
LEMMA EnrollKeeps ==
  ASSUME IInv, NEW c \in Conns, EnrollAgent(c), NEW u \in Uids, u = Uid(c)
  PROVE  Own(c) /\ (Flag(u, c) => Keeps(u, c))
<1> DEFINE id == [n |-> inserted, uid |-> u, cust |-> auth[c].cust]
<1>1. pc[c] = "enroll" /\ UNCHANGED <<byUID, proc, stranded>>
  BY DEF EnrollAgent, registry, Return
<1>2. CASE Return(c, "open") /\ agents' = agents
  <2>1. Own(c)
    BY <1>1, <1>2, Returned DEF Own
  <2>2. Flag(u, c) => Keeps(u, c)
    BY <1>1, <1>2, ReturnKeeps
  <2> QED BY <2>1, <2>2
<1>3. CASE Goto(c, "resolve") /\ UNCHANGED <<agents, st, newConn>>
  <2>1. pc'[c] = "resolve" /\ \A d \in Conns \ {c} : pc'[d] = pc[d]
    BY <1>3, Moved
  <2>2. Own(c)
    BY <1>1, <1>3, <2>1 DEF Own
  <2>3. Flag(u, c) => Keeps(u, c)
    BY <1>1, <1>3, <2>1 DEF Flag, Keeps, Writing
  <2> QED BY <2>2, <2>3
<1>4. CASE /\ agents[u] = None /\ Goto(c, "put") /\ newConn' = newConn
           /\ agents' = [agents EXCEPT ![u] = [id |-> id, cust |-> auth[c].cust,
                                               connected |-> FALSE, token |-> 0]]
           /\ st' = [st EXCEPT ![c] = [conn |-> c, id |-> id,
                                      cust |-> auth[c].cust, offered |-> FALSE]]
  <2> HIDE DEF id
  <2>1. pc'[c] = "put" /\ \A d \in Conns \ {c} : pc'[d] = pc[d]
    BY <1>4, Moved
  <2>2. st'[c].id = id /\ \A d \in Conns \ {c} : st'[d] = st[d]
    BY <1>4 DEF IInv, TypeOK, ConnTyped
  <2>3. /\ agents'[u].id = id /\ ~agents'[u].connected
        /\ \A v \in Uids : v # u => agents'[v] = agents[v]
    BY <1>4 DEF IInv, TypeOK, DbTyped
  <2>4. Own(c)
    BY <1>1, <1>4, <2>1, <2>2, <2>3 DEF Own
  <2>5. Flag(u, c) => Keeps(u, c)
    BY <1>1, <1>4, <2>1, <2>2, <2>3 DEF Flag, Keeps, Writing
  <2> QED BY <2>4, <2>5
<1> QED BY <1>2, <1>3, <1>4, Zenon DEF EnrollAgent, db

\* reg.put: a new connection is registered before it is marked.
LEMMA PutKeeps ==
  ASSUME IInv, NEW c \in Conns, Put(c), NEW u \in Uids, u = Uid(c)
  PROVE  Own(c) /\ (Flag(u, c) => Keeps(u, c))
<1>1. pc[c] = "put" /\ UNCHANGED <<agents, proc, stranded>> /\ byUID' = [byUID EXCEPT ![u] = st[c]]
  BY DEF Put, db, Return
<1>2. /\ byUID'[u] = st[c] /\ st[c] # None
      /\ \A v \in Uids : v # u => byUID'[v] = byUID[v]
  BY <1>1, NoneIsNoValue DEF IInv, TypeOK, RegistryTyped, StateOwned, Owned, Writing
<1>3. CASE newConn[c]
  <2>1. Goto(c, "connect") /\ UNCHANGED <<st, newConn>>
    BY <1>3, Zenon DEF Put
  <2>2. pc'[c] = "connect" /\ \A d \in Conns \ {c} : pc'[d] = pc[d]
    BY <2>1, Moved
  <2>3. Own(c)
    BY <1>1, <1>2, <2>1, <2>2 DEF Own
  <2>4. Flag(u, c) => Keeps(u, c)
    BY <1>1, <1>2, <1>3, <2>1, <2>2 DEF Flag, Keeps, Writing
  <2> QED BY <2>3, <2>4
<1>4. CASE ~newConn[c]
  <2>1. Return(c, "open")
    BY <1>4, Zenon DEF Put
  <2>2. Own(c)
    BY <1>1, <1>2, <2>1, Returned DEF Own
  <2>3. pc'[c] = "open"
    BY <2>1, Returned, Zenon
  <2>4. Flag(u, c) => Keeps(u, c)
    BY <1>1, <1>2, <1>4, <2>3 DEF Flag, Keeps, Writing
  <2> QED BY <2>2, <2>4
<1> QED BY <1>3, <1>4

\* Only the row of u may have changed; if id is its id, its column is b now.
RowMarked(u, id, b) ==
    /\ \A v \in Uids : v # u => agents'[v] = agents[v]
    /\ agents'[u] # None <=> agents[u] # None
    /\ agents[u] # None => /\ agents'[u].id = agents[u].id
                           /\ id = agents[u].id => agents'[u].connected = b

\* SetAgentConnected by a goroutine is a write to its own row, if any.
LEMMA OwnUpdate ==
  ASSUME IInv, NEW c \in Conns, pc[c] \in Writing, NEW b \in BOOLEAN,
         SetAgentConnected(st[c].id, b), NEW u \in Uids, u = Uid(c)
  PROVE  RowMarked(u, st[c].id, b)
<1>1. \A v \in Uids : v # u => agents'[v] = agents[v]
  BY OwnRow, Zenon DEF SetAgentConnected
<1>2. agents[u] # None => /\ agents[u] \in Row
                          /\ [agents[u] EXCEPT !.connected = b] \in Row
                          /\ [agents[u] EXCEPT !.connected = b].id = agents[u].id
                          /\ [agents[u] EXCEPT !.connected = b].connected = b
  BY DEF IInv, TypeOK, DbTyped, Row
<1>3. agents'[u] = IF HasId(u, st[c].id) THEN [agents[u] EXCEPT !.connected = b]
                   ELSE agents[u]
  BY DEF SetAgentConnected
<1> QED BY <1>1, <1>2, <1>3, NoneIsNoValue DEF HasId, RowMarked

\* The row of a connection that was registered is marked.
LEMMA MarkConnectedKeeps ==
  ASSUME IInv, NEW c \in Conns, MarkConnected(c), NEW u \in Uids, u = Uid(c)
  PROVE  Own(c) /\ (Flag(u, c) /\ faults' = 0 => Keeps(u, c))
<1>1. pc[c] = "connect" /\ pc[c] \in Writing /\ UNCHANGED <<byUID, proc>>
  BY DEF MarkConnected, registry, Return, Writing
<1>2. \/ pc'[c] = "token" /\ st' = st
      \/ pc'[c] = "open"
  BY Moved, Returned DEF MarkConnected
<1>3. \A d \in Conns \ {c} : pc'[d] = pc[d] /\ newConn'[d] = newConn[d] /\ st'[d] = st[d]
  BY Moved, Returned DEF MarkConnected
<1>4. CASE SetAgentConnected(st[c].id, TRUE) /\ stranded' = stranded \ {u}
  <2>1. RowMarked(u, st[c].id, TRUE)
    BY <1>1, <1>4, OwnUpdate, Zenon
  <2>2. Own(c)
    BY <1>1, <1>3, <1>4, <2>1 DEF Own, RowMarked
  <2>3. Flag(u, c) => Keeps(u, c)
    BY <1>1, <1>2, <1>4, <2>1 DEF RowMarked, Flag, Keeps, Writing
  <2> QED BY <2>2, <2>3
<1>5. CASE Fails /\ UNCHANGED <<agents, stranded>>
  BY <1>1, <1>3, <1>5, NoFault DEF Own
<1> QED BY <1>4, <1>5, Zenon DEF MarkConnected

\* Offering a token changes neither ids nor the column.
LEMMA OfferKeeps ==
  ASSUME IInv, NEW c \in Conns, maybeOfferAgentToken(c), NEW u \in Uids, u = Uid(c)
  PROVE  Own(c) /\ (Flag(u, c) => Keeps(u, c))
<1>1. pc[c] = "token" /\ pc[c] \in Writing /\ UNCHANGED <<proc, stranded>>
  BY DEF maybeOfferAgentToken, Return, Writing
<1>2. CASE Return(c, "open") /\ UNCHANGED <<agents, byUID>>
  <2>1. Own(c)
    BY <1>1, <1>2, Returned DEF Own
  <2>2. Flag(u, c) => Keeps(u, c)
    BY <1>1, <1>2, ReturnKeeps
  <2> QED BY <2>1, <2>2
<1>3. CASE /\ SetAgentToken(st[c].id, minted + 1) /\ Goto(c, "respond") /\ newConn' = newConn
           /\ byUID' = [byUID EXCEPT ![u] = IF @ = None THEN None
                                            ELSE [@ EXCEPT !.offered = TRUE]]
           /\ st' = [d \in Conns |-> IF d = c \/ SharesState(d, u)
                                     THEN [st[d] EXCEPT !.offered = TRUE]
                                     ELSE st[d]]
  <2>1. pc'[c] = "respond" /\ \A d \in Conns \ {c} : pc'[d] = pc[d]
    BY <1>3, Moved
  <2>2. ASSUME NEW d \in Conns, pc[d] \in Writing PROVE st'[d].id = st[d].id
    <3>1. st[d] \in AgentConn
      BY <2>2 DEF IInv, StateOwned, Owned
    <3>2. [st[d] EXCEPT !.offered = TRUE].id = st[d].id
      BY <3>1 DEF AgentConn
    <3> QED BY <1>3, <3>2
  <2>3. \A v \in Uids : v # u => byUID'[v] = byUID[v]
    BY <1>3 DEF IInv, TypeOK, RegistryTyped
  <2>4. /\ byUID'[u] = None <=> byUID[u] = None
        /\ byUID[u] # None => byUID'[u].id = byUID[u].id
    <3>1. byUID[u] # None => /\ [byUID[u] EXCEPT !.offered = TRUE] \in AgentConn
                             /\ [byUID[u] EXCEPT !.offered = TRUE].id = byUID[u].id
      BY DEF IInv, TypeOK, RegistryTyped, AgentConn
    <3>2. byUID'[u] = IF byUID[u] = None THEN None
                      ELSE [byUID[u] EXCEPT !.offered = TRUE]
      BY <1>3 DEF IInv, TypeOK, RegistryTyped
    <3> QED BY <3>1, <3>2, NoneIsNoValue
  <2>5. \A v \in Uids : v # u => agents'[v] = agents[v]
    BY <1>1, <1>3, OwnRow, Zenon DEF SetAgentToken
  <2>6. /\ agents'[u] # None <=> agents[u] # None
        /\ agents[u] # None => /\ agents'[u].id = agents[u].id
                               /\ agents'[u].connected = agents[u].connected
    <3>1. agents[u] # None =>
            /\ [agents[u] EXCEPT !.token = minted + 1] \in Row
            /\ [agents[u] EXCEPT !.token = minted + 1].id = agents[u].id
            /\ [agents[u] EXCEPT !.token = minted + 1].connected = agents[u].connected
      BY DEF IInv, TypeOK, DbTyped, Row
    <3>2. agents'[u] = IF HasId(u, st[c].id) THEN [agents[u] EXCEPT !.token = minted + 1]
                       ELSE agents[u]
      BY <1>3 DEF SetAgentToken
    <3> QED BY <3>1, <3>2, NoneIsNoValue DEF HasId
  <2>7. Own(c)
    BY <1>1, <1>3, <2>1, <2>2, <2>3, <2>5 DEF Own
  <2>8. Flag(u, c) => Keeps(u, c)
    BY <1>1, <2>1, <2>4, <2>6 DEF Flag, Keeps, Writing
  <2> QED BY <2>7, <2>8
<1> QED BY <1>2, <1>3, Zenon DEF maybeOfferAgentToken, db

\* The response is sent, or the connection broke.
LEMMA RespondKeeps ==
  ASSUME IInv, NEW c \in Conns, Respond(c), NEW u \in Uids, u = Uid(c)
  PROVE  Own(c) /\ (Flag(u, c) => Keeps(u, c))
<1>1. /\ pc[c] = "respond" /\ UNCHANGED <<agents, byUID, proc, stranded>>
      /\ Return(c, "open") \/ Return(c, "closing")
  BY DEF Respond, db, registry, Return
<1>2. Own(c)
  BY <1>1, Returned DEF Own
<1>3. Flag(u, c) => Keeps(u, c)
  BY <1>1, ReturnKeeps
<1> QED BY <1>2, <1>3

\* removeConn unregisters what the goroutine still has to mark offline; with
\* nothing to unregister, the row was not marked.
LEMMA CloseKeeps ==
  ASSUME IInv, NEW c \in Conns, Close(c), NEW u \in Uids, u = Uid(c)
  PROVE  Own(c) /\ (Alone(u) /\ Flag(u, c) => Keeps(u, c))
<1>1. pc[c] \in {"open", "closing"} /\ UNCHANGED <<agents, stranded>>
  BY DEF Close, db
<1>2. Serves(c, u) /\ byConn[c] \in {None, u}
  BY <1>1 DEF Serves, IInv, ConnectionsBound
<1>3. CASE /\ byConn[c] = u /\ byUID[u] # None /\ byUID[u].conn = c
           /\ byUID' = [byUID EXCEPT ![u] = None] /\ st' = [st EXCEPT ![c] = byUID[u]]
           /\ Goto(c, "offline") /\ UNCHANGED <<proc, newConn>>
  <2>1. pc'[c] = "offline" /\ \A d \in Conns \ {c} : pc'[d] = pc[d]
    BY <1>3, Moved
  <2>2. st'[c] = byUID[u] /\ \A d \in Conns \ {c} : st'[d] = st[d]
    BY <1>3, Zenon DEF IInv, TypeOK, ConnTyped
  <2>3. byUID'[u] = None /\ \A v \in Uids : v # u => byUID'[v] = byUID[v]
    BY <1>3, Zenon DEF IInv, TypeOK, RegistryTyped
  <2>4. Own(c)
    BY <1>1, <1>3, <2>1, <2>2, <2>3 DEF Own
  <2>5. Alone(u) /\ Flag(u, c) => Keeps(u, c)
    BY <1>1, <1>2, <1>3, <2>1, <2>2, <2>3 DEF Flag, Keeps, Writing
  <2> QED BY <2>4, <2>5
<1>4. CASE /\ ~(byConn[c] # None /\ byUID[byConn[c]] # None /\ byUID[byConn[c]].conn = c)
           /\ Dispose(c) /\ byUID' = byUID
  <2>1. Own(c)
    BY <1>1, <1>4, Disposed DEF Own
  <2>2. ASSUME Alone(u), byUID[u] # None PROVE FALSE
    <3>1. byUID[u].conn = c /\ byConn[c] = u
      BY <1>2, <2>2, RegisteredServes, Zenon DEF Alone
    <3> QED BY <1>4, <2>2, <3>1, NoneIsNoValue
  <2>3. Alone(u) /\ Flag(u, c) => Keeps(u, c)
    BY <1>1, <1>2, <1>4, <2>2, Disposed DEF Flag, Keeps, Idle
  <2> QED BY <2>1, <2>3
<1> QED BY <1>2, <1>3, <1>4, Zenon DEF Close

\* The row is marked offline.
LEMMA MarkDisconnectedKeeps ==
  ASSUME IInv, NEW c \in Conns, MarkDisconnected(c), NEW u \in Uids, u = Uid(c)
  PROVE  Own(c) /\ (Flag(u, c) /\ faults' = 0 => Keeps(u, c))
<1>1. pc[c] = "offline" /\ pc[c] \in Writing /\ UNCHANGED <<byUID, stranded>>
      /\ Dispose(c)
  BY DEF MarkDisconnected, registry, Writing
<1>2. CASE SetAgentConnected(st[c].id, FALSE)
  <2>1. RowMarked(u, st[c].id, FALSE)
    BY <1>1, <1>2, OwnUpdate, Zenon
  <2>2. Own(c)
    BY <1>1, <2>1, Disposed DEF Own, RowMarked
  <2>3. Flag(u, c) => Keeps(u, c)
    BY <1>1, <2>1, Disposed DEF RowMarked, Flag, Keeps, Idle, Writing
  <2> QED BY <2>2, <2>3
<1>3. CASE Fails /\ UNCHANGED agents
  BY <1>1, <1>3, Disposed, NoFault DEF Own
<1> QED BY <1>2, <1>3, Zenon DEF MarkDisconnected

\* Every step of a goroutine.
LEMMA ServeKeeps ==
  ASSUME IInv, NEW c \in Conns, Serve(c)
  PROVE  /\ pc[c] # "new" /\ Uid(c) \in Uids /\ Own(c)
         /\ Alone(Uid(c)) /\ Flag(Uid(c), c) /\ faults' = 0 => Keeps(Uid(c), c)
<1>1. pc[c] # "new"
  BY DEF Serve, Receive, Resolve, EnrollAgent, Put, MarkConnected, maybeOfferAgentToken,
     Respond, Close, MarkDisconnected
<1>2. Uid(c) \in Uids
  BY <1>1, ConstantsTyped DEF IInv, ConnectionsBound, Uid
<1> QED
  BY <1>1, <1>2, ReceiveKeeps, ResolveKeeps, EnrollKeeps, PutKeeps, MarkConnectedKeeps,
     OfferKeeps, RespondKeeps, CloseKeeps, MarkDisconnectedKeeps, Zenon DEF Serve

\* An agent that connects in turn finds its UID unregistered, and its row marked
\* offline or left by a restart.
LEMMA ConnectExact ==
  ASSUME IInv, NEW p \in Procs, NEW c \in Conns, Connect(p, c),
         NEW u \in Uids, u \notin raced', Exact(u)
  PROVE  Exact(u)'
<1>1. pc[c] = "new" /\ UNCHANGED <<agents, byUID, st, newConn, stranded>>
  BY DEF Connect, db, registry
<1>2. pc'[c] = "open" /\ \A d \in Conns \ {c} : pc'[d] = pc[d]
  BY Moved, Zenon DEF Connect
<1>3. proc'[c] = p /\ \A d \in Conns \ {c} : proc'[d] = proc[d]
  BY Zenon DEF Connect, IInv, TypeOK, ConnTyped
<1>4. ASSUME NEW d \in Conns, d # c PROVE Serves(d, u)' <=> Serves(d, u)
  BY <1>2, <1>3, <1>4, Zenon DEF Serves, Uid
<1>5. ASSUME NEW d \in Conns, d # c, Serves(d, u) PROVE Flag(u, d)'
  <2>1. Flag(u, d) /\ pc'[d] = pc[d]
    BY <1>2, <1>5, Zenon DEF Exact
  <2> QED BY <1>1, <2>1, Zenon DEF Flag
<1>6. CASE UidOf[p] # u
  <2>1. ~Serves(c, u) /\ ~Serves(c, u)'
    BY <1>1, <1>3, <1>6 DEF Serves, Uid
  <2>2. Alone(u)'
    BY <1>4, <2>1, Zenon DEF Exact, Alone
  <2>3. Idle(u) => Idle(u)'
    BY <1>1, Zenon DEF Idle
  <2> QED BY <1>4, <1>5, <2>1, <2>2, <2>3, Zenon DEF Exact
<1>7. CASE UidOf[p] = u
  <2>1. \A d \in Conns : ~Serves(d, u)
    BY <1>7 DEF Connect, Serves
  <2>2. byUID[u] = None
    BY <2>1, RegisteredServes
  <2>3. Idle(u)
    BY <2>1 DEF Exact
  <2>4. Serves(c, u)' /\ Flag(u, c)'
    BY <1>1, <1>2, <1>3, <1>7, <2>2, <2>3 DEF Serves, Uid, Idle, Flag, Writing
  <2>5. Alone(u)'
    BY <1>4, <2>1, Zenon DEF Alone
  <2> QED BY <1>4, <2>1, <2>4, <2>5, Zenon DEF Exact
<1> QED BY <1>6, <1>7

\* Operators and the API tier at most remove a row.
LEMMA OutsideExact ==
  ASSUME UNCHANGED <<byUID, pc, proc, st, newConn>>, NEW u \in Uids,
         agents'[u] \in {agents[u], None},
         u \in stranded' <=> u \in stranded /\ agents'[u] # None, Exact(u)
  PROVE  Exact(u)'
<1>1. \A d \in Conns : Serves(d, u)' <=> Serves(d, u)
  BY Zenon DEF Serves, Uid
<1>2. \A d \in Conns : Flag(u, d) => Flag(u, d)'
  BY Zenon DEF Flag
<1>3. Idle(u) => Idle(u)'
  BY Zenon DEF Idle
<1> QED BY <1>1, <1>2, <1>3, Zenon DEF Exact, Alone

\* After a restart no goroutine serves anybody.
LEMMA RestartExact ==
  ASSUME Restart, NEW u \in Uids
  PROVE  Exact(u)'
<1>1. \A c \in Conns : ~Serves(c, u)'
  BY DEF Restart, Serves
<1>2. Idle(u)'
  BY DEF Restart, db, Idle
<1> QED BY <1>1, <1>2, Zenon DEF Exact, Alone

\* Nobody is connected at first.
LEMMA InTurnInit == Init => InTurn
  BY DEF Init, InTurn, Exact, Idle, Alone, Serves

\* Every step keeps the column exact for agents that connect in turn.
LEMMA InTurnNext == IInv /\ InTurn /\ [Next]_vars => InTurn'
<1> SUFFICES ASSUME IInv, InTurn, [Next]_vars, faults' = 0,
                    NEW u \in Uids, u \notin raced'
             PROVE  Exact(u)'
  BY Zenon DEF InTurn
<1>1. faults = 0 /\ u \notin raced
  <2>1. faults' \in {faults, faults + 1}
    BY DEF Next, vars, db, registry, conn, Connect, Serve, Receive, Resolve, EnrollAgent,
       Put, MarkConnected, maybeOfferAgentToken, Respond, Close, MarkDisconnected, Answers,
       Fails, DeleteAgentCheck, DeleteAgent, RetireToken, SetCustomerStatus,
       RestartSupervisor, Restart
  <2>2. faults = 0
    BY <2>1 DEF IInv, TypeOK, EnvTyped
  <2>3. u \notin raced
    BY DEF Next, vars, db, registry, conn, Connect, Serve, Receive, Resolve, EnrollAgent,
       Put, MarkConnected, maybeOfferAgentToken, Respond, Close, MarkDisconnected,
       DeleteAgentCheck, DeleteAgent, RetireToken, SetCustomerStatus, RestartSupervisor,
       Restart
  <2> QED BY <2>2, <2>3
<1>2. Exact(u)
  BY <1>1 DEF InTurn
<1>3. ASSUME NEW p \in Procs, NEW c \in Conns, Connect(p, c) PROVE Exact(u)'
  BY <1>2, <1>3, ConnectExact
<1>4. ASSUME NEW c \in Conns, Serve(c) PROVE Exact(u)'
  <2>1. /\ pc[c] # "new" /\ Own(c)
        /\ Alone(Uid(c)) /\ Flag(Uid(c), c) => Keeps(Uid(c), c)
    BY <1>4, ServeKeeps
  <2>2. CASE u # Uid(c)
    BY <1>2, <2>1, <2>2, OtherUid
  <2>3. CASE u = Uid(c)
    <3>1. Serves(c, u)
      BY <2>1, <2>3 DEF Serves
    <3>2. Keeps(u, c)
      BY <1>2, <2>1, <2>3, <3>1 DEF Exact
    <3> QED BY <1>2, <2>1, <3>1, <3>2, OwnUid
  <2> QED BY <2>2, <2>3
<1>5. CASE \/ \E v \in Uids : DeleteAgentCheck(v)
           \/ DeleteAgent
           \/ \E t \in Tokens : RetireToken(t)
           \/ \E k \in Customers, s \in {"active", "inactive"} : SetCustomerStatus(k, s)
           \/ \E p \in Procs : RestartSupervisor(p)
           \/ UNCHANGED vars
  <2>1. UNCHANGED <<byUID, pc, proc, st, newConn>> /\ agents'[u] \in {agents[u], None}
    BY <1>5 DEF DeleteAgentCheck, DeleteAgent, RetireToken, SetCustomerStatus,
       RestartSupervisor, vars, db, registry, conn
  <2>2. u \in stranded => agents[u] # None
    BY <1>2, Zenon DEF Exact, Flag, Idle
  <2>3. u \in stranded' <=> u \in stranded /\ agents'[u] # None
    <3>1. CASE DeleteAgent
      BY <3>1 DEF DeleteAgent
    <3>2. CASE UNCHANGED <<agents, stranded>>
      BY <2>2, <3>2
    <3> QED BY <1>5, <3>1, <3>2, Zenon DEF DeleteAgentCheck, RetireToken,
         SetCustomerStatus, RestartSupervisor, vars, db
  <2> QED BY <1>2, <2>1, <2>3, OutsideExact
<1>6. CASE Restart
  BY <1>6, RestartExact
<1> QED BY <1>3, <1>4, <1>5, <1>6, Zenon DEF Next

\* In a quiet state the goroutine of an agent, if any, is at "open".
LEMMA InTurnQuiet == IInv /\ InTurn => OnlineFlagExactInTurn
<1> SUFFICES ASSUME IInv, InTurn, Quiet, faults = 0,
                    NEW u \in Uids \ raced, agents[u] # None
             PROVE  agents[u].connected <=> byUID[u] # None \/ u \in stranded
  BY Zenon DEF OnlineFlagExactInTurn
<1>1. Exact(u)
  BY DEF InTurn
<1>2. CASE \E c \in Conns : Serves(c, u)
  <2>1. PICK c \in Conns : Serves(c, u)
    BY <1>2
  <2>2. Flag(u, c) /\ pc[c] = "open"
    BY <1>1, <2>1 DEF Exact, Quiet, Serves
  <2> QED BY <2>2 DEF Flag
<1>3. CASE \A c \in Conns : ~Serves(c, u)
  BY <1>1, <1>3, RegisteredServes DEF Exact, Idle
<1> QED BY <1>2, <1>3

\* The Online/offline state of the UI, and what DeleteAgent goes by
\* (handler.go 255-259, 550): once no handler is between two of its steps, the
\* connected column of an agent says whether a connection is registered for it
\* or a restart left it so, for any fleet, any number of connections and of
\* restarts and any interleaving of messages, closes and operators, as long as
\* the agent itself reconnects only after its last close callback returned and
\* no database call failed.
THEOREM OnlineFlagExact == Spec => []OnlineFlagExactInTurn
<1>1. Spec => []IInv
  BY Inductive
<1>2. Spec => []InTurn
  BY <1>1, InTurnInit, InTurnNext, PTL DEF Spec
<1> QED BY <1>1, <1>2, InTurnQuiet, PTL

=============================================================================
