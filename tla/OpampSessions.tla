---------------------------- MODULE OpampSessions ----------------------------
(***************************************************************************)
(* Connections, enrollment and credentials of the OpAMP tier               *)
(* (internal/opamp/handler.go, registry.go, server.go over pg_fleet.go).   *)
(*                                                                         *)
(* opamp-go serves every accepted connection on a goroutine of its own:    *)
(* the messages of one connection are handled one after the other, its     *)
(* close callback runs after the last of them, and different connections   *)
(* interleave freely.  HandleMessage and HandleConnectionClose are split   *)
(* here exactly where they reach shared state: each acquisition of the     *)
(* registry mutex and each database call is one step, pc[c] being the next *)
(* one of the goroutine serving c.                                         *)
(*                                                                         *)
(* The parts of HandleMessage that report configuration (lines 261-277)    *)
(* touch none of this state; EdgeRollout models them.                      *)
(***************************************************************************)
EXTENDS Naturals, FiniteSets

CONSTANTS
    Customers,    \* tenants
    Tokens,       \* bootstrap tokens
    Uids,         \* OpAMP instance UIDs
    Procs,        \* supervisor processes (two may share an instance UID)
    Conns,        \* connection objects; a closed one may be accepted anew
    None,         \* Go's nil, SQL's NULL
    CustOf,       \* [Tokens -> Customers]: customer_id of the token
    MaxUses,      \* [Tokens -> Nat]: max_uses of the token, 0 = unlimited
    UidOf,        \* [Procs -> Uids]: the instance UID a process reports
    BootOf,       \* [Procs -> Tokens]: bootstrap token of its static config
    Accepts,      \* [Procs -> BOOLEAN]: AcceptsOpAMPConnectionSettings
    Forgetful,    \* processes that restart without the token offered to them
    Suspendable,  \* the customers an operator suspends or deletes
    MaxAgents,    \* bound: agent rows ever inserted (then inserts fail)
    MaxMinted,    \* bound: per-agent tokens generated (then generating fails)
    MaxFaults     \* bound: failing database calls and restarts of the OpAMP tier

\* A fresh agents.id.  The code only compares ids; the model tags an id with
\* the immutable instance_uid and customer_id it was inserted with.
AgentIds == [n : Nat, uid : Uids, cust : Customers]

\* The columns of an agents row this component reads or writes (token 0: no
\* per-agent token was ever issued).
Row == [id : AgentIds, cust : Customers, connected : BOOLEAN, token : Nat]

\* agentConn: the in-memory state of a registered agent.
AgentConn == [conn : Conns, id : AgentIds, cust : Customers, offered : BOOLEAN]

\* ConnAuth: what Authenticate binds to a connection; agent # None is
\* ViaAgentToken.
ConnAuth == [cust : Customers, token : Tokens \cup {None},
             agent : AgentIds \cup {None}]

ASSUME ConstantsTyped ==
    /\ CustOf \in [Tokens -> Customers] /\ MaxUses \in [Tokens -> Nat]
    /\ UidOf \in [Procs -> Uids] /\ BootOf \in [Procs -> Tokens]
    /\ Accepts \in [Procs -> BOOLEAN]
    /\ Forgetful \subseteq Procs
    /\ Suspendable \subseteq Customers
    /\ MaxAgents \in Nat /\ MaxMinted \in Nat
    /\ MaxFaults \in Nat

ASSUME NoneIsNoValue ==
    /\ None \notin Conns /\ None \notin Uids /\ None \notin Procs
    /\ None \notin Tokens /\ None \notin AgentIds /\ None \notin Row
    /\ None \notin AgentConn /\ None \notin ConnAuth

VARIABLES
    \* PostgreSQL
    agents,      \* [Uids -> Row \cup {None}], instance_uid is UNIQUE
    inserted,    \* how many rows were ever inserted (fresh ids)
    used,        \* [Tokens -> Nat]: used_count
    dead,        \* tokens that are revoked or past expires_at
    status,      \* [Customers -> customer status]
    minted,      \* how many per-agent tokens were generated
    \* registry (one mutex)
    byUID,       \* [Uids -> AgentConn \cup {None}]
    byConn,      \* [Conns -> Uids \cup {None}]
    \* the goroutine of each connection
    pc, proc, auth, st, newConn, hasDesc, offer,
    \* supervisors, and the API tier's delete-agent handler
    cred,        \* [Procs -> Nat]: 0 = bootstrap token, else per-agent token
    deleting,    \* the agent id a DeleteAgent call found disconnected
    \* environment and history
    faults, restarts,
    raced,       \* history: UIDs that connected before their last close was done
    stranded     \* history: UIDs whose row says connected since a restart

db == <<agents, inserted, used, dead, status, minted>>
registry == <<byUID, byConn>>
conn == <<pc, proc, auth, st, newConn, hasDesc, offer>>
vars == <<db, registry, conn, cred, deleting, faults, restarts, raced, stranded>>

PcStates == {"new", "open", "resolve", "enroll", "put", "connect", "token",
             "respond", "closing", "offline"}

Init ==
    /\ agents = [u \in Uids |-> None] /\ inserted = 0
    /\ used = [t \in Tokens |-> 0] /\ dead = {}
    /\ status = [k \in Customers |-> "active"] /\ minted = 0
    /\ byUID = [u \in Uids |-> None] /\ byConn = [c \in Conns |-> None]
    /\ pc = [c \in Conns |-> "new"]
    /\ proc = [c \in Conns |-> None] /\ auth = [c \in Conns |-> None]
    /\ st = [c \in Conns |-> None]
    /\ newConn = [c \in Conns |-> FALSE] /\ hasDesc = [c \in Conns |-> FALSE]
    /\ offer = [c \in Conns |-> 0]
    /\ cred = [p \in Procs |-> 0] /\ deleting = None
    /\ faults = 0 /\ restarts = 0 /\ raced = {} /\ stranded = {}

-----------------------------------------------------------------------------
(* A database call either answers or fails.                                *)
Answers == UNCHANGED faults
Fails == faults + restarts < MaxFaults /\ faults' = faults + 1

Uid(c) == UidOf[proc[c]]

\* UPDATE agents ... WHERE id = $1: touches a row only while it exists.
HasId(u, id) == agents[u] # None /\ agents[u].id = id

\* Mutant: the UPDATE always writes true.
SetAgentConnectedTrue(id, b) ==
    agents' = [u \in Uids |-> IF HasId(u, id)
                              THEN [agents[u] EXCEPT !.connected = TRUE]
                              ELSE agents[u]]

SetAgentConnected(id, b) ==
    agents' = [u \in Uids |-> IF HasId(u, id)
                              THEN [agents[u] EXCEPT !.connected = b]
                              ELSE agents[u]]

\* Mutant: the token columns are set to NULL instead of the new token.
SetAgentTokenNull(id, n) ==
    agents' = [u \in Uids |-> IF HasId(u, id)
                              THEN [agents[u] EXCEPT !.token = None]
                              ELSE agents[u]]

SetAgentToken(id, n) ==
    agents' = [u \in Uids |-> IF HasId(u, id)
                              THEN [agents[u] EXCEPT !.token = n]
                              ELSE agents[u]]

\* The goroutine of c moves on to step s.
Goto(c, s) == pc' = [pc EXCEPT ![c] = s]

\* HandleMessage returns: its locals are gone.
Return(c, s) ==
    /\ Goto(c, s)
    /\ st' = [st EXCEPT ![c] = None]
    /\ newConn' = [newConn EXCEPT ![c] = FALSE]
    /\ hasDesc' = [hasDesc EXCEPT ![c] = FALSE]
    /\ offer' = [offer EXCEPT ![c] = 0]
    /\ UNCHANGED <<proc, auth>>

\* The close callback returns: the connection object is gone.
Dispose(c) ==
    /\ Goto(c, "new")
    /\ st' = [st EXCEPT ![c] = None]
    /\ proc' = [proc EXCEPT ![c] = None]
    /\ auth' = [auth EXCEPT ![c] = None]
    /\ UNCHANGED <<newConn, hasDesc, offer>>

-----------------------------------------------------------------------------
(* Authenticate, called once per connection by onConnecting.               *)

TokenUsable(t) ==
    /\ t \notin dead
    /\ MaxUses[t] = 0 \/ used[t] < MaxUses[t]
    /\ status[CustOf[t]] = "active"

authenticateBootstrapToken(p) ==
    {[cust |-> CustOf[t], token |-> t, agent |-> None] :
        t \in {b \in {BootOf[p]} : cred[p] = 0 /\ TokenUsable(b)}}

authenticateAgentToken(p) ==
    {[cust |-> agents[u].cust, token |-> None, agent |-> agents[u].id] :
        u \in {v \in Uids : /\ agents[v] # None
                            /\ cred[p] # 0 /\ agents[v].token = cred[p]
                            /\ status[agents[v].cust] = "active"}}

\* The ConnAuth the credential of p is good for; empty: refused with a 401.
Authenticate(p) == authenticateBootstrapToken(p) \cup authenticateAgentToken(p)

Connect(p, c) ==
    /\ pc[c] = "new"
    /\ \E a \in Authenticate(p) : auth' = [auth EXCEPT ![c] = a]
    /\ proc' = [proc EXCEPT ![c] = p]
    /\ Goto(c, "open")
    /\ raced' = raced \cup {u \in {UidOf[p]} :
                               \E d \in Conns : pc[d] # "new" /\ Uid(d) = u}
    /\ UNCHANGED <<db, registry, st, newConn, hasDesc, offer, cred, deleting,
                   faults, restarts, stranded>>

-----------------------------------------------------------------------------
(* HandleMessage.                                                          *)

\* Mutant: the customer is not compared.
RefusedAgentOnly(c, id, cust) == auth[c].agent # None /\ auth[c].agent # id

\* The two checks that end in conn.Disconnect(): the agent belongs to another
\* customer, or the per-agent token to another agent.
Refused(c, id, cust) ==
    \/ cust # auth[c].cust
    \/ auth[c].agent # None /\ auth[c].agent # id

\* A message arrives; desc: it carries an AgentDescription.  reg.get takes a
\* snapshot of the registered state.
Receive(c, desc) ==
    LET e == byUID[Uid(c)] IN
    /\ pc[c] = "open"
    /\ \/ /\ e = None
          /\ Goto(c, "resolve")
          /\ hasDesc' = [hasDesc EXCEPT ![c] = desc]
          /\ newConn' = [newConn EXCEPT ![c] = TRUE]
          /\ UNCHANGED <<proc, auth, st, offer>>
       \/ /\ e # None /\ Refused(c, e.id, e.cust)
          /\ Return(c, "closing")
       \/ /\ e # None /\ ~Refused(c, e.id, e.cust)
          /\ Goto(c, "put")
          /\ st' = [st EXCEPT ![c] = [e EXCEPT !.conn = c]]
          /\ newConn' = [newConn EXCEPT ![c] = (e.conn # c)]
          /\ UNCHANGED <<proc, auth, hasDesc, offer>>
    /\ UNCHANGED <<db, registry, cred, deleting, faults, restarts, raced, stranded>>

\* resolveAgent: look the agent up by instance UID.
Resolve(c) ==
    LET row == agents[Uid(c)] IN
    /\ pc[c] = "resolve"
    /\ \/ Fails /\ Return(c, "open")
       \/ /\ Answers /\ row = None /\ ~hasDesc[c]
          /\ Return(c, "open")
       \/ /\ Answers /\ row = None /\ hasDesc[c]
          /\ Goto(c, "enroll")
          /\ UNCHANGED <<proc, auth, st, newConn, hasDesc, offer>>
       \/ /\ Answers /\ row # None /\ Refused(c, row.id, row.cust)
          /\ Return(c, "closing")
       \/ /\ Answers /\ row # None /\ ~Refused(c, row.id, row.cust)
          /\ Goto(c, "put")
          /\ st' = [st EXCEPT ![c] = [conn |-> c, id |-> row.id,
                                      cust |-> auth[c].cust, offered |-> FALSE]]
          /\ UNCHANGED <<proc, auth, newConn, hasDesc, offer>>
    /\ UNCHANGED <<db, registry, cred, deleting, restarts, raced, stranded>>

\* EnrollAgent: one transaction inserts the row and counts the token's use.
\* A lost race (ErrConflict) resolves again, without the description; a
\* connection without a bootstrap token fails the enrolled_via foreign key.
EnrollAgent(c) ==
    LET u == Uid(c)
        id == [n |-> inserted, uid |-> u, cust |-> auth[c].cust] IN
    /\ pc[c] = "enroll"
    /\ \/ /\ Answers /\ agents[u] # None
          /\ Goto(c, "resolve")
          /\ hasDesc' = [hasDesc EXCEPT ![c] = FALSE]
          /\ UNCHANGED <<db, proc, auth, st, newConn, offer>>
       \/ /\ Answers /\ agents[u] = None /\ auth[c].token = None
          /\ Return(c, "open")
          /\ UNCHANGED db
       \/ /\ Fails \/ (Answers /\ inserted = MaxAgents)
          /\ Return(c, "open")
          /\ UNCHANGED db
       \/ /\ Answers /\ agents[u] = None /\ auth[c].token # None
          /\ inserted < MaxAgents
          /\ inserted' = inserted + 1
          /\ agents' = [agents EXCEPT ![u] = [id |-> id, cust |-> auth[c].cust,
                                              connected |-> FALSE, token |-> 0]]
          /\ used' = [used EXCEPT ![auth[c].token] = @ + 1]
          /\ st' = [st EXCEPT ![c] = [conn |-> c, id |-> id,
                                      cust |-> auth[c].cust, offered |-> FALSE]]
          /\ Goto(c, "put")
          /\ UNCHANGED <<dead, status, minted, proc, auth, newConn, hasDesc, offer>>
    /\ UNCHANGED <<registry, cred, deleting, restarts, raced, stranded>>

\* Mutant: put leaves the replaced connection in byConn.
PutKeepsBinding(c) ==
    LET u == Uid(c) IN
    /\ pc[c] = "put"
    /\ byUID' = [byUID EXCEPT ![u] = st[c]]
    /\ byConn' = [byConn EXCEPT ![c] = u]
    /\ IF newConn[c]
       THEN Goto(c, "connect") /\ UNCHANGED <<proc, auth, st, newConn, hasDesc, offer>>
       ELSE Return(c, "open")
    /\ UNCHANGED <<db, cred, deleting, faults, restarts, raced, stranded>>

\* reg.put: bind the UID to this connection, unbinding the one it replaces.
Put(c) ==
    LET u == Uid(c)
        replaced == {d \in Conns : byUID[u] # None /\ byUID[u].conn = d /\ d # c}
    IN
    /\ pc[c] = "put"
    /\ byUID' = [byUID EXCEPT ![u] = st[c]]
    /\ byConn' = [d \in Conns |-> IF d = c THEN u
                                  ELSE IF d \in replaced THEN None
                                  ELSE byConn[d]]
    /\ IF newConn[c]
       THEN Goto(c, "connect") /\ UNCHANGED <<proc, auth, st, newConn, hasDesc, offer>>
       ELSE Return(c, "open")
    /\ UNCHANGED <<db, cred, deleting, faults, restarts, raced, stranded>>

\* SetAgentConnected(true), once per connection; an error is only logged.
MarkConnected(c) ==
    /\ pc[c] = "connect"
    /\ \/ /\ Answers /\ SetAgentConnected(st[c].id, TRUE)
          /\ stranded' = stranded \ {Uid(c)}
       \/ Fails /\ UNCHANGED <<agents, stranded>>
    /\ IF auth[c].agent = None
       THEN Goto(c, "token") /\ UNCHANGED <<proc, auth, st, newConn, hasDesc, offer>>
       ELSE Return(c, "open")
    /\ UNCHANGED <<inserted, used, dead, status, minted, registry, cred, deleting,
                   restarts, raced>>

\* The agentConn that put stored is the handler's own: until it returns, what
\* is written to the registered state of UID u is written to the st of d.
SharesState(d, u) ==
    byUID[u] # None /\ byUID[u].conn = d /\ pc[d] \in {"connect", "token"}

\* maybeOfferAgentToken.  SetAgentToken ignores how many rows it updated; the
\* final reg.update marks whatever state the UID is registered with by now.
\* (No step of another goroutine tells these two apart, so they are one.)
maybeOfferAgentToken(c) ==
    LET u == Uid(c) IN
    /\ pc[c] = "token"
    /\ \/ /\ st[c].offered \/ ~Accepts[proc[c]]
          /\ Answers /\ Return(c, "open")
          /\ UNCHANGED <<db, byUID>>
       \/ /\ ~st[c].offered /\ Accepts[proc[c]]
          /\ Fails \/ (Answers /\ minted = MaxMinted)
          /\ Return(c, "open")
          /\ UNCHANGED <<db, byUID>>
       \/ /\ ~st[c].offered /\ Accepts[proc[c]] /\ minted < MaxMinted
          /\ Answers
          /\ minted' = minted + 1
          /\ SetAgentToken(st[c].id, minted + 1)
          /\ byUID' = [byUID EXCEPT ![u] = IF @ = None THEN None
                                           ELSE [@ EXCEPT !.offered = TRUE]]
          /\ st' = [d \in Conns |-> IF d = c \/ SharesState(d, u)
                                    THEN [st[d] EXCEPT !.offered = TRUE]
                                    ELSE st[d]]
          /\ offer' = [offer EXCEPT ![c] = minted + 1]
          /\ Goto(c, "respond")
          /\ UNCHANGED <<inserted, used, dead, status, proc, auth, newConn, hasDesc>>
    /\ UNCHANGED <<byConn, cred, deleting, restarts, raced, stranded>>

\* The response carrying the offer reaches the supervisor, which switches to
\* the new token, or is lost because the connection broke.
Respond(c) ==
    /\ pc[c] = "respond"
    /\ \/ cred' = [cred EXCEPT ![proc[c]] = offer[c]] /\ Return(c, "open")
       \/ UNCHANGED cred /\ Return(c, "closing")
    /\ UNCHANGED <<db, registry, deleting, faults, restarts, raced, stranded>>

-----------------------------------------------------------------------------
(* HandleConnectionClose: removeConn, then SetAgentConnected(false).       *)

Close(c) ==
    /\ pc[c] \in {"open", "closing"}
    /\ byConn' = [byConn EXCEPT ![c] = None]
    /\ LET u == byConn[c] IN
       \/ /\ u # None /\ byUID[u] # None /\ byUID[u].conn = c
          /\ byUID' = [byUID EXCEPT ![u] = None]
          /\ st' = [st EXCEPT ![c] = byUID[u]]
          /\ Goto(c, "offline")
          /\ UNCHANGED <<proc, auth, newConn, hasDesc, offer>>
       \/ /\ ~(u # None /\ byUID[u] # None /\ byUID[u].conn = c)
          /\ Dispose(c)
          /\ UNCHANGED byUID
    /\ UNCHANGED <<db, cred, deleting, faults, restarts, raced, stranded>>

MarkDisconnected(c) ==
    /\ pc[c] = "offline"
    /\ \/ Answers /\ SetAgentConnected(st[c].id, FALSE)
       \/ Fails /\ UNCHANGED agents
    /\ Dispose(c)
    /\ UNCHANGED <<inserted, used, dead, status, minted, registry, cred, deleting,
                   restarts, raced, stranded>>

-----------------------------------------------------------------------------
(* The API tier, operators and the environment.                            *)

\* DeleteAgent: GetAgent and its connected check, then the delete.
DeleteAgentCheck(u) ==
    /\ deleting = None /\ agents[u] # None /\ ~agents[u].connected
    /\ deleting' = agents[u].id
    /\ UNCHANGED <<db, registry, conn, cred, faults, restarts, raced, stranded>>

DeleteAgent ==
    /\ deleting # None
    /\ agents' = [u \in Uids |-> IF HasId(u, deleting) THEN None ELSE agents[u]]
    /\ deleting' = None
    /\ stranded' = {u \in stranded : agents'[u] # None}
    /\ UNCHANGED <<inserted, used, dead, status, minted, registry, conn, cred,
                   faults, restarts, raced>>

\* RevokeBootstrapToken, or time passing expires_at.
RetireToken(t) ==
    /\ t \notin dead
    /\ dead' = dead \cup {t}
    /\ UNCHANGED <<agents, inserted, used, status, minted, registry, conn, cred,
                   deleting, faults, restarts, raced, stranded>>

\* UpdateCustomer and SoftDeleteCustomer; suspended and deleted are one, as a
\* deleted customer is one that is not activated again.
SetCustomerStatus(k, s) ==
    /\ k \in Suspendable /\ status[k] # s
    /\ status' = [status EXCEPT ![k] = s]
    /\ UNCHANGED <<agents, inserted, used, dead, minted, registry, conn, cred,
                   deleting, faults, restarts, raced, stranded>>

\* A supervisor restarts from its static config.
RestartSupervisor(p) ==
    /\ p \in Forgetful /\ cred[p] # 0
    /\ cred' = [cred EXCEPT ![p] = 0]
    /\ UNCHANGED <<db, registry, conn, deleting, faults, restarts, raced, stranded>>

\* The OpAMP tier restarts: registry and connections are gone, rows are not.
Restart ==
    /\ faults + restarts < MaxFaults
    /\ restarts' = restarts + 1
    /\ byUID' = [u \in Uids |-> None] /\ byConn' = [c \in Conns |-> None]
    /\ pc' = [c \in Conns |-> "new"]
    /\ proc' = [c \in Conns |-> None] /\ auth' = [c \in Conns |-> None]
    /\ st' = [c \in Conns |-> None]
    /\ newConn' = [c \in Conns |-> FALSE] /\ hasDesc' = [c \in Conns |-> FALSE]
    /\ offer' = [c \in Conns |-> 0]
    /\ stranded' = {u \in Uids : agents[u] # None /\ agents[u].connected}
    /\ UNCHANGED <<db, cred, deleting, faults, raced>>

Serve(c) ==
    \/ \E desc \in BOOLEAN : Receive(c, desc)
    \/ Resolve(c) \/ EnrollAgent(c) \/ Put(c) \/ MarkConnected(c)
    \/ maybeOfferAgentToken(c) \/ Respond(c) \/ Close(c) \/ MarkDisconnected(c)

Next ==
    \/ \E p \in Procs, c \in Conns : Connect(p, c)
    \/ \E c \in Conns : Serve(c)
    \/ \E u \in Uids : DeleteAgentCheck(u)
    \/ DeleteAgent
    \/ \E t \in Tokens : RetireToken(t)
    \/ \E k \in Customers, s \in {"active", "inactive"} : SetCustomerStatus(k, s)
    \/ \E p \in Procs : RestartSupervisor(p)
    \/ Restart

Spec == Init /\ [][Next]_vars

-----------------------------------------------------------------------------
(* Properties.                                                             *)

\* Type invariant of the rows, the registry and the goroutines.
DbTyped ==
    /\ agents \in [Uids -> Row \cup {None}] /\ inserted \in Nat
    /\ used \in [Tokens -> Nat] /\ dead \subseteq Tokens
    /\ status \in [Customers -> {"active", "inactive"}]
    /\ minted \in Nat

RegistryTyped ==
    /\ byUID \in [Uids -> AgentConn \cup {None}]
    /\ byConn \in [Conns -> Uids \cup {None}]

ConnTyped ==
    /\ pc \in [Conns -> PcStates] /\ proc \in [Conns -> Procs \cup {None}]
    /\ auth \in [Conns -> ConnAuth \cup {None}]
    /\ st \in [Conns -> AgentConn \cup {None}]
    /\ newConn \in [Conns -> BOOLEAN] /\ hasDesc \in [Conns -> BOOLEAN]
    /\ offer \in [Conns -> Nat]

EnvTyped ==
    /\ cred \in [Procs -> Nat] /\ deleting \in AgentIds \cup {None}
    /\ faults \in Nat /\ restarts \in Nat
    /\ raced \subseteq Uids /\ stranded \subseteq Uids

TypeOK == DbTyped /\ RegistryTyped /\ ConnTyped /\ EnvTyped

Registered(u, c) == byUID[u] # None /\ byUID[u].conn = c

\* The two maps of the registry are inverse to each other, and whatever is
\* registered is served by a goroutine whose close callback is still to come:
\* no interleaving of reconnects, late messages on a replaced connection and
\* closes leaves an agent registered for a connection that no longer exists,
\* where pushes would go for good (registry.go put and removeConn).
RegistryTracksConnections ==
    \A u \in Uids, c \in Conns :
        /\ Registered(u, c) <=> byConn[c] = u
        /\ Registered(u, c) => pc[c] \notin {"new", "offline"}

\* The steps in which a goroutine is about to write to the agent it resolved.
Writing == {"put", "connect", "token", "offline"}

\* A tenant's connection acts on that tenant's agents alone: the state a
\* goroutine writes to, and the state pushes are sent from, belong to the
\* customer its connection was authenticated for, and to the very agent of a
\* per-agent token, even though the customer is only compared with a snapshot
\* taken some steps earlier and rows come and go (handler.go 188-225).
TenantIsolation ==
    /\ \A c \in Conns : pc[c] \in Writing =>
          /\ st[c].cust = auth[c].cust
          /\ auth[c].agent \in {None, st[c].id}
          /\ \A u \in Uids : HasId(u, st[c].id) => agents[u].cust = auth[c].cust
    /\ \A u \in Uids, c \in Conns : Registered(u, c) =>
          /\ byUID[u].cust = auth[c].cust
          /\ auth[c].agent \in {None, byUID[u].id}
          /\ \A v \in Uids : HasId(v, byUID[u].id) => agents[v].cust = auth[c].cust

\* The inductive invariant behind the two: an id names the UID and customer of
\* its row for good, and every goroutine, connection and registry entry agrees
\* with the authentication of the connection it belongs to.
Grounded(id, uid, cust) == id.uid = uid /\ id.cust = cust

ConnectionsBound ==
    \A c \in Conns : pc[c] # "new" =>
        /\ proc[c] \in Procs /\ auth[c] \in ConnAuth
        /\ auth[c].agent # None => /\ auth[c].agent.cust = auth[c].cust
                                   /\ auth[c].token = None
        /\ byConn[c] \in {None, Uid(c)}

RowsGrounded ==
    \A u \in Uids : agents[u] # None => Grounded(agents[u].id, u, agents[u].cust)

Owned(e, c) ==
    /\ e \in AgentConn
    /\ e.conn = c /\ e.cust = auth[c].cust
    /\ Grounded(e.id, Uid(c), e.cust)
    /\ auth[c].agent \in {None, e.id}

StateOwned ==
    /\ \A c \in Conns : pc[c] \in Writing => Owned(st[c], c)
    /\ \A u \in Uids : byUID[u] # None =>
          /\ pc[byUID[u].conn] # "new"
          /\ Owned(byUID[u], byUID[u].conn)

IInv == /\ TypeOK /\ ConnectionsBound /\ RowsGrounded /\ StateOwned
        /\ RegistryTracksConnections

\* No handler is between two of its steps.
Quiet == \A c \in Conns : pc[c] \in {"new", "open"}

\* When nothing is in flight, the connected column says whether the agent has
\* a registered connection: the Online/offline state of the UI, and what
\* DeleteAgent goes by (handler.go 255-259, 550).  A restart leaves rows behind
\* that say connected, each until its agent is back.  That holds as long as
\* every agent reconnects only once the close callback of its last connection
\* has returned, and no database call has failed.
OnlineFlagExactInTurn ==
    Quiet /\ faults = 0 =>
        \A u \in Uids \ raced : agents[u] # None =>
            (agents[u].connected <=> byUID[u] # None \/ u \in stranded)

\* Process p is an enrolled agent with a registered connection, and no handler
\* is working for it.
Settled(p) ==
    /\ \E c \in Conns : /\ proc[c] = p /\ pc[c] = "open"
                        /\ Registered(UidOf[p], c)
                        /\ HasId(UidOf[p], byUID[UidOf[p]].id)
    /\ \A c \in Conns : proc[c] = p => pc[c] \in {"open", "closing"}

\* Retiring a bootstrap token leaves every settled agent able to reconnect
\* with the credential it holds (handler.go 279-281).
RevocationSparesEnrolled ==
    [][\A p \in Procs : dead' # dead /\ Settled(p) /\ Authenticate(p) # {}
                           => Authenticate(p)' # {}]_vars

=============================================================================
