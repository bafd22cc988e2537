----------------------------- MODULE EdgeRollout -----------------------------
(***************************************************************************)
(* How a customer's edge configuration reaches the customer's agents.      *)
(*                                                                         *)
(* The API tier commits a new active version and publishes a PostgreSQL    *)
(* NOTIFY (pipelines/service.go, pgnotify.go); the listener goroutine of   *)
(* the OpAMP tier renders the configuration and pushes it to every         *)
(* connected agent (main.go, EdgeConfigChanged); and the goroutine that    *)
(* serves an agent's connection renders it too, and offers it, whenever    *)
(* the agent connects or describes itself (maybeOfferConfig).  The two     *)
(* goroutines race: both render first and send later.                      *)
(*                                                                         *)
(* One customer is modelled: customers only share the listener, which      *)
(* serves them one after the other.  A configuration stands for its hash.  *)
(* An agent has one connection at a time (OpampSessions models reconnects  *)
(* that overlap), so get, resolveAgent and put are one step of its handler.*)
(***************************************************************************)
EXTENDS Naturals, Sequences, FiniteSets

CONSTANTS
    Agents,          \* the customer's enrolled agents
    Accepting,       \* those that advertise AcceptsRemoteConfig
    Configs,         \* rendered edge configurations
    Bad,             \* configurations that crash-loop the collector
    None,            \* no configuration: an empty hash, SQL's NULL
    MaxActivations,  \* bound: activations and deletions of edge pipelines
    MaxResyncs,      \* bound: manual re-syncs
    MaxFaults,       \* bound: database calls that fail
    MaxBlips,        \* bound: drops of the listener's database connection
    MaxDrops,        \* bound: connections that break and restarts of the OpAMP tier
    MaxWipes         \* bound: agents that lose their state

Hash == Configs \cup {None}
Status == {"unset", "applying", "applied", "failed"}

ASSUME ConstantsTyped ==
    /\ Accepting \subseteq Agents /\ Bad \subseteq Configs
    /\ None \notin Configs /\ None \notin [acked : Hash, stat : Status]
    /\ \A n \in {MaxActivations, MaxResyncs, MaxFaults, MaxBlips, MaxDrops,
                 MaxWipes} : n \in Nat

\* What an agent reports: RemoteConfigStatus, and the AgentDescription when the
\* message carries the full state.
Message == [full : BOOLEAN, stat : Status, hash : Hash]

\* agentConn: what the registry remembers of a connected agent.
AgentConn == [acked : Hash, stat : Status]

VARIABLES
    \* PostgreSQL
    desired,     \* what RenderEdgeCurrent yields for the active versions
    assigned, acked, status,  \* columns of the agents' rows
    \* notifications
    toNotify,    \* changes committed and not yet published
    pending,     \* notifications the listener's session has not handled yet
    listening,   \* the listener's session holds its LISTEN
    \* the listener goroutine
    lpc,         \* "wait", "render", "snapshot", "push"
    lcfg,        \* the configuration it rendered
    ltodo,       \* agents of its registry snapshot still to be served
    lsend,       \* the agent it is about to send to, or none
    llive,       \* agents whose connection in the snapshot is still theirs
    \* registry, and the goroutine of each agent's connection
    reg,         \* [Agents -> AgentConn \cup {None}]
    pc, msg, newConn, newHash, offer,
    \* wires and agents
    online,      \* the agent holds its end of the connection
    up, down,    \* messages on their way
    last,        \* last_remote_config_hash: the last configuration received
    astat,       \* the status of that configuration
    running,     \* what the collector runs (the last good configuration)
    say,         \* what the agent has to report: "nothing", "status", "full"
    \* environment and history
    count,       \* how much of each bound is used
    missed       \* agents a lost notification or render passed over

row == <<assigned, acked, status>>
listener == <<lpc, lcfg, ltodo, lsend, llive>>
handler == <<pc, msg, newConn, newHash, offer>>
agent == <<last, astat, running, say>>
wires == <<online, up, down>>
vars == <<desired, row, toNotify, pending, listening, listener, reg, handler,
          wires, agent, count, missed>>

Bounds == [activations |-> MaxActivations, resyncs |-> MaxResyncs,
           faults |-> MaxFaults, blips |-> MaxBlips, drops |-> MaxDrops,
           wipes |-> MaxWipes]

\* One more of a bounded kind of event.
Spend(b) == count[b] < Bounds[b] /\ count' = [count EXCEPT ![b] = @ + 1]

Answers == UNCHANGED count
Fails == Spend("faults")

Init ==
    /\ desired \in Configs
    /\ assigned = [a \in Agents |-> None] /\ acked = [a \in Agents |-> None]
    /\ status = [a \in Agents |-> "unset"]
    /\ toNotify = 0 /\ pending = 0 /\ listening = TRUE
    /\ lpc = "wait" /\ lcfg = None /\ ltodo = {} /\ lsend = {} /\ llive = {}
    /\ reg = [a \in Agents |-> None]
    /\ pc = [a \in Agents |-> "idle"] /\ msg = [a \in Agents |-> None]
    /\ newConn = [a \in Agents |-> FALSE] /\ newHash = [a \in Agents |-> FALSE]
    /\ offer = [a \in Agents |-> None]
    /\ online = [a \in Agents |-> FALSE]
    /\ up = [a \in Agents |-> <<>>] /\ down = [a \in Agents |-> <<>>]
    /\ last = [a \in Agents |-> None] /\ astat = [a \in Agents |-> "unset"]
    /\ running = [a \in Agents |-> None] /\ say = [a \in Agents |-> "nothing"]
    /\ count = [b \in DOMAIN Bounds |-> 0] /\ missed = {}

-----------------------------------------------------------------------------
(* The API tier.                                                           *)

\* Activate commits the version, notifyEdge follows in a step of its own;
\* ResyncEdge is notifyEdge alone, and so in effect is activating the active
\* version again.
Activate(v) ==
    /\ v # desired /\ Spend("activations")
    /\ desired' = v /\ toNotify' = toNotify + 1
    /\ UNCHANGED <<row, pending, listening, listener, reg, handler, wires,
                   agent, missed>>

ResyncEdge ==
    /\ Spend("resyncs")
    /\ toNotify' = toNotify + 1
    /\ UNCHANGED <<desired, row, pending, listening, listener, reg, handler,
                   wires, agent, missed>>

\* NOTIFY reaches the sessions that LISTEN at that moment, and no other.
Notify ==
    /\ toNotify > 0 /\ toNotify' = toNotify - 1
    /\ \/ Answers /\ listening
          /\ pending' = pending + 1 /\ UNCHANGED missed
       \/ /\ Answers /\ ~listening
          /\ missed' = Agents /\ UNCHANGED pending
       \/ Fails /\ missed' = Agents /\ UNCHANGED pending
    /\ UNCHANGED <<desired, row, listening, listener, reg, handler, wires, agent>>

-----------------------------------------------------------------------------
(* pgnotify.Listen and its callback, EdgeConfigChanged.                    *)

\* The listener's database session breaks: what it had not handled is gone.
Blip ==
    /\ listening /\ Spend("blips")
    /\ listening' = FALSE /\ pending' = 0
    /\ missed' = IF pending > 0 THEN Agents ELSE missed
    /\ UNCHANGED <<desired, row, toNotify, listener, reg, handler, wires, agent>>

\* listenOnce again, after the backoff.
Relisten ==
    /\ ~listening /\ lpc = "wait"
    /\ listening' = TRUE
    /\ UNCHANGED <<desired, row, toNotify, pending, listener, reg, handler,
                   wires, agent, count, missed>>

WaitForNotification ==
    /\ lpc = "wait" /\ pending > 0
    /\ pending' = pending - 1 /\ lpc' = "render"
    /\ UNCHANGED <<desired, row, toNotify, listening, lcfg, ltodo, lsend, llive,
                   reg, handler, wires, agent, count, missed>>

\* EdgeConfigChanged renders; an error drops the notification.
ListenerRender ==
    /\ lpc = "render"
    /\ \/ Answers /\ lpc' = "snapshot" /\ lcfg' = desired /\ missed' = {}
       \/ Fails /\ lpc' = "wait" /\ missed' = Agents /\ UNCHANGED lcfg
    /\ UNCHANGED <<desired, row, toNotify, pending, listening, ltodo, lsend,
                   llive, reg, handler, wires, agent>>

\* Mutant: the capability of the agents is not looked at.
SnapshotAll ==
    /\ lpc = "snapshot" /\ lpc' = "push"
    /\ ltodo' = {a \in Agents : reg[a] # None}
    /\ llive' = {a \in Agents : reg[a] # None /\ online[a]}
    /\ UNCHANGED <<desired, row, toNotify, pending, listening, lcfg, lsend, reg,
                   handler, wires, agent, count, missed>>

\* connsForCustomer, without the agents that accept no configuration.
Snapshot ==
    /\ lpc = "snapshot" /\ lpc' = "push"
    /\ ltodo' = {a \in Accepting : reg[a] # None}
    /\ llive' = {a \in Accepting : reg[a] # None /\ online[a]}
    /\ UNCHANGED <<desired, row, toNotify, pending, listening, lcfg, lsend, reg,
                   handler, wires, agent, count, missed>>

\* SetAgentAssignedConfig; an error is only logged.
ListenerAssign(a) ==
    /\ lpc = "push" /\ lsend = {} /\ a \in ltodo
    /\ ltodo' = ltodo \ {a} /\ lsend' = {a}
    /\ \/ Answers /\ assigned' = [assigned EXCEPT ![a] = lcfg]
       \/ Fails /\ UNCHANGED assigned
    /\ UNCHANGED <<desired, acked, status, toNotify, pending, listening, lpc,
                   lcfg, llive, reg, handler, wires, agent, missed>>

\* conn.Send: fails silently on a connection that broke.
ListenerSend(a) ==
    /\ lpc = "push" /\ a \in lsend
    /\ lsend' = {}
    /\ down' = IF a \in llive THEN [down EXCEPT ![a] = Append(@, lcfg)] ELSE down
    /\ UNCHANGED <<desired, row, toNotify, pending, listening, lpc, lcfg, ltodo,
                   llive, reg, handler, online, up, agent, count, missed>>

ListenerDone ==
    /\ lpc = "push" /\ ltodo = {} /\ lsend = {}
    /\ lpc' = "wait" /\ lcfg' = None /\ llive' = {}
    /\ UNCHANGED <<desired, row, toNotify, pending, listening, ltodo, lsend, reg,
                   handler, wires, agent, count, missed>>

-----------------------------------------------------------------------------
(* HandleMessage on the goroutine of the agent's connection.               *)

\* The handler of a goes on to step s; once it returns, its locals are gone.
Goto(a, s) ==
    /\ pc' = [pc EXCEPT ![a] = s]
    /\ IF s = "idle"
       THEN /\ msg' = [msg EXCEPT ![a] = None]
            /\ newConn' = [newConn EXCEPT ![a] = FALSE]
            /\ offer' = [offer EXCEPT ![a] = None]
       ELSE UNCHANGED <<msg, newConn, offer>>

\* get, resolveAgent for an agent without registered state, put.  A failed
\* lookup asks for the full state again.
Receive(a) ==
    /\ pc[a] = "idle" /\ up[a] # <<>>
    /\ up' = [up EXCEPT ![a] = Tail(@)]
    /\ \/ /\ Answers
          /\ reg' = [reg EXCEPT ![a] = IF @ # None THEN @
                        ELSE [acked |-> acked[a], stat |-> status[a]]]
          /\ pc' = [pc EXCEPT ![a] = "ack"]
          /\ msg' = [msg EXCEPT ![a] = Head(up[a])]
          /\ newConn' = [newConn EXCEPT ![a] = (reg[a] = None)]
          /\ UNCHANGED down
       \/ /\ reg[a] = None /\ Fails
          /\ down' = [down EXCEPT ![a] = IF online[a] THEN Append(@, None) ELSE @]
          /\ UNCHANGED <<reg, pc, msg, newConn>>
    /\ UNCHANGED <<desired, row, toNotify, pending, listening, listener, newHash,
                   offer, online, agent, missed>>

\* Mutant: the acknowledged hash is compared after it was stored, so that it is
\* never new and never persisted.
AckComparesLate(a) ==
    LET h == msg[a].hash IN
    /\ pc[a] = "ack" /\ pc' = [pc EXCEPT ![a] = "status"]
    /\ newHash' = [newHash EXCEPT ![a] = FALSE]
    /\ reg' = IF h # None \/ msg[a].stat = "unset"
              THEN [reg EXCEPT ![a].acked = h] ELSE reg
    /\ UNCHANGED <<desired, row, toNotify, pending, listening, listener, msg,
                   newConn, offer, wires, agent, count, missed>>

\* handleRemoteConfigStatus, first half: the acknowledged hash.
Ack(a) ==
    LET h == msg[a].hash
        fresh == h # None /\ h # reg[a].acked IN
    /\ pc[a] = "ack" /\ pc' = [pc EXCEPT ![a] = "status"]
    /\ newHash' = [newHash EXCEPT ![a] = fresh]
    /\ \/ /\ fresh \/ (h = None /\ msg[a].stat = "unset")
          /\ reg' = [reg EXCEPT ![a].acked = h]
          /\ \/ Answers /\ acked' = [acked EXCEPT ![a] = h]
             \/ Fails /\ UNCHANGED acked
       \/ /\ ~fresh /\ ~(h = None /\ msg[a].stat = "unset")
          /\ Answers /\ UNCHANGED <<reg, acked>>
    /\ UNCHANGED <<desired, assigned, status, toNotify, pending, listening,
                   listener, msg, newConn, offer, wires, agent, missed>>

\* Mutant: the offer is made on connect only.
AfterStatusOnConnect(a) == IF newConn[a] THEN "offer" ELSE "idle"

\* What follows the status report: the offer, on connect and for full reports.
AfterStatus(a) == IF newConn[a] \/ msg[a].full THEN "offer" ELSE "idle"

\* Mutant: only terminal statuses are stored.
SetStatusTerminal(a) ==
    LET s == msg[a].stat IN
    /\ pc[a] = "status" /\ Goto(a, AfterStatus(a))
    /\ newHash' = [newHash EXCEPT ![a] = FALSE]
    /\ IF s \in {"applied", "failed"}
       THEN /\ status' = [status EXCEPT ![a] = s]
            /\ reg' = [reg EXCEPT ![a].stat = s]
       ELSE UNCHANGED <<status, reg>>
    /\ UNCHANGED <<desired, assigned, acked, toNotify, pending, listening,
                   listener, wires, agent, count, missed>>

\* handleRemoteConfigStatus, second half: the status, on a transition.
SetStatus(a) ==
    LET s == msg[a].stat
        transition == \/ s # reg[a].stat
                      \/ newHash[a] /\ s \in {"applied", "failed"} IN
    /\ pc[a] = "status" /\ Goto(a, AfterStatus(a))
    /\ newHash' = [newHash EXCEPT ![a] = FALSE]
    /\ \/ /\ transition /\ Answers
          /\ status' = [status EXCEPT ![a] = s]
          /\ reg' = [reg EXCEPT ![a].stat = s]
       \/ transition /\ Fails /\ UNCHANGED <<status, reg>>
       \/ ~transition /\ Answers /\ UNCHANGED <<status, reg>>
    /\ UNCHANGED <<desired, assigned, acked, toNotify, pending, listening,
                   listener, wires, agent, missed>>

\* maybeOfferConfig renders; an error leaves the agent without an offer.
OfferRender(a) ==
    /\ pc[a] = "offer"
    /\ \/ /\ a \in Accepting /\ Answers
          /\ offer' = [offer EXCEPT ![a] = desired]
          /\ pc' = [pc EXCEPT ![a] = "assign"] /\ missed' = missed \ {a}
          /\ UNCHANGED <<msg, newConn>>
       \/ /\ a \in Accepting /\ Fails
          /\ Goto(a, "idle") /\ missed' = missed \cup {a}
       \/ /\ a \notin Accepting /\ Answers
          /\ Goto(a, "idle") /\ UNCHANGED missed
    /\ UNCHANGED <<desired, row, toNotify, pending, listening, listener, reg,
                   newHash, wires, agent>>

\* SetAgentAssignedConfig, then the comparison with the acknowledged hash.
OfferAssign(a) ==
    /\ pc[a] = "assign"
    /\ \/ Answers /\ assigned' = [assigned EXCEPT ![a] = offer[a]]
       \/ Fails /\ UNCHANGED assigned
    /\ Goto(a, IF offer[a] = reg[a].acked THEN "idle" ELSE "send")
    /\ UNCHANGED <<desired, acked, status, toNotify, pending, listening, listener,
                   reg, newHash, wires, agent, missed>>

\* HandleMessage returns and its response is sent.
Respond(a) ==
    /\ pc[a] = "send" /\ Goto(a, "idle")
    /\ down' = IF online[a] THEN [down EXCEPT ![a] = Append(@, offer[a])] ELSE down
    /\ UNCHANGED <<desired, row, toNotify, pending, listening, listener, reg,
                   newHash, online, up, agent, count, missed>>

\* HandleConnectionClose: removeConn.
Close(a) ==
    /\ ~online[a] /\ pc[a] = "idle" /\ up[a] = <<>> /\ reg[a] # None
    /\ reg' = [reg EXCEPT ![a] = None]
    /\ UNCHANGED <<desired, row, toNotify, pending, listening, listener, handler,
                   wires, agent, count, missed>>

-----------------------------------------------------------------------------
(* Supervisors and the network.                                            *)

\* A first message carries the full state.
Connect(a) ==
    /\ ~online[a] /\ reg[a] = None /\ pc[a] = "idle" /\ up[a] = <<>>
    /\ online' = [online EXCEPT ![a] = TRUE]
    /\ say' = [say EXCEPT ![a] = "full"]
    /\ UNCHANGED <<desired, row, toNotify, pending, listening, listener, reg,
                   handler, up, down, last, astat, running, count, missed>>

\* The pending report is sent, with the state of this moment.
Say(a) ==
    /\ online[a] /\ say[a] # "nothing" /\ up[a] = <<>>
    /\ up' = [up EXCEPT ![a] = <<[full |-> say[a] = "full", stat |-> astat[a],
                                  hash |-> last[a]]>>]
    /\ say' = [say EXCEPT ![a] = "nothing"]
    /\ UNCHANGED <<desired, row, toNotify, pending, listening, listener, reg,
                   handler, online, down, last, astat, running, count, missed>>

\* Every message of the server with a configuration, and the answer to a failed
\* lookup (None), sets ReportFullState.  An identical configuration is ignored.
Hear(a) ==
    LET h == Head(down[a]) IN
    /\ online[a] /\ down[a] # <<>>
    /\ down' = [down EXCEPT ![a] = Tail(@)]
    /\ say' = [say EXCEPT ![a] = "full"]
    /\ IF h \in {None, last[a]}
       THEN UNCHANGED <<last, astat>>
       ELSE /\ last' = [last EXCEPT ![a] = h]
            /\ astat' = [astat EXCEPT ![a] = "applying"]
    /\ UNCHANGED <<desired, row, toNotify, pending, listening, listener, reg,
                   handler, online, up, running, count, missed>>

\* The collector came up with the configuration, or crash-looped and the
\* supervisor went back to the last good one.
Apply(a) ==
    /\ astat[a] = "applying"
    /\ IF last[a] \in Bad
       THEN astat' = [astat EXCEPT ![a] = "failed"] /\ UNCHANGED running
       ELSE /\ astat' = [astat EXCEPT ![a] = "applied"]
            /\ running' = [running EXCEPT ![a] = last[a]]
    /\ say' = [say EXCEPT ![a] = IF @ = "full" THEN @ ELSE "status"]
    /\ UNCHANGED <<desired, row, toNotify, pending, listening, listener, reg,
                   handler, wires, last, count, missed>>

\* A connection breaks; what was on the wire to the agent is lost, and what was
\* on the wire to the server may be.
Drop(a) ==
    /\ online[a] /\ Spend("drops")
    /\ online' = [online EXCEPT ![a] = FALSE]
    /\ up' \in {up, [up EXCEPT ![a] = <<>>]}
    /\ down' = [down EXCEPT ![a] = <<>>]
    /\ llive' = llive \ {a}
    /\ UNCHANGED <<desired, row, toNotify, pending, listening, lpc, lcfg, ltodo,
                   lsend, reg, handler, agent, missed>>

\* An agent that is offline loses its persisted state.
Wipe(a) ==
    /\ ~online[a] /\ Spend("wipes")
    /\ last' = [last EXCEPT ![a] = None]
    /\ astat' = [astat EXCEPT ![a] = "unset"]
    /\ running' = [running EXCEPT ![a] = None]
    /\ say' = [say EXCEPT ![a] = "nothing"]
    /\ UNCHANGED <<desired, row, toNotify, pending, listening, listener, reg,
                   handler, wires, missed>>

\* The OpAMP tier restarts: everything in memory and every connection is gone.
Restart ==
    /\ Spend("drops")
    /\ pending' = 0 /\ listening' = FALSE
    /\ lpc' = "wait" /\ lcfg' = None /\ ltodo' = {} /\ lsend' = {} /\ llive' = {}
    /\ reg' = [a \in Agents |-> None] /\ pc' = [a \in Agents |-> "idle"]
    /\ msg' = [a \in Agents |-> None] /\ newConn' = [a \in Agents |-> FALSE]
    /\ newHash' = [a \in Agents |-> FALSE] /\ offer' = [a \in Agents |-> None]
    /\ online' = [a \in Agents |-> FALSE]
    /\ up' = [a \in Agents |-> <<>>] /\ down' = [a \in Agents |-> <<>>]
    /\ UNCHANGED <<desired, row, toNotify, agent, missed>>

Listener ==
    \/ Relisten \/ WaitForNotification \/ ListenerRender \/ Snapshot
    \/ \E a \in Agents : ListenerAssign(a) \/ ListenerSend(a)
    \/ ListenerDone

Serve(a) ==
    \/ Receive(a) \/ Ack(a) \/ SetStatus(a) \/ OfferRender(a) \/ OfferAssign(a)
    \/ Respond(a) \/ Close(a)

Supervisor(a) == Connect(a) \/ Say(a) \/ Hear(a) \/ Apply(a)

Next ==
    \/ \E v \in Configs : Activate(v)
    \/ ResyncEdge \/ Notify \/ Blip \/ Listener
    \/ \E a \in Agents : Serve(a) \/ Supervisor(a) \/ Drop(a) \/ Wipe(a)
    \/ Restart

Spec == Init /\ [][Next]_vars

\* Every goroutine keeps running, the supervisor keeps reconnecting, sending
\* and applying, the listener keeps retrying; nothing is owed by operators.
Fairness ==
    /\ WF_vars(Notify) /\ WF_vars(Listener)
    /\ \A a \in Agents : /\ WF_vars(Serve(a)) /\ WF_vars(Connect(a))
                         /\ WF_vars(Say(a)) /\ WF_vars(Hear(a)) /\ WF_vars(Apply(a))

LiveSpec == Spec /\ Fairness

-----------------------------------------------------------------------------
(* Properties.                                                             *)

\* Type invariant of rows, goroutines, wires and agents.
TypeOK ==
    /\ desired \in Configs
    /\ assigned \in [Agents -> Hash] /\ acked \in [Agents -> Hash]
    /\ status \in [Agents -> Status]
    /\ toNotify \in Nat /\ pending \in Nat /\ listening \in BOOLEAN
    /\ lpc \in {"wait", "render", "snapshot", "push"} /\ lcfg \in Hash
    /\ ltodo \subseteq Accepting /\ lsend \subseteq Accepting
    /\ llive \subseteq Accepting
    /\ reg \in [Agents -> AgentConn \cup {None}]
    /\ pc \in [Agents -> {"idle", "ack", "status", "offer", "assign", "send"}]
    /\ msg \in [Agents -> Message \cup {None}]
    /\ newConn \in [Agents -> BOOLEAN] /\ newHash \in [Agents -> BOOLEAN]
    /\ offer \in [Agents -> Hash] /\ online \in [Agents -> BOOLEAN]
    /\ up \in [Agents -> Seq(Message)] /\ down \in [Agents -> Seq(Hash)]
    /\ last \in [Agents -> Hash] /\ astat \in [Agents -> Status]
    /\ running \in [Agents -> Hash]
    /\ say \in [Agents -> {"nothing", "status", "full"}]
    /\ count \in [DOMAIN Bounds -> Nat] /\ missed \subseteq Agents

\* Nothing agent a reported, or has to report, is unprocessed.
Heard(a) == /\ online[a] /\ pc[a] = "idle" /\ up[a] = <<>> /\ say[a] = "nothing"

\* Nothing that concerns agent a is under way.
Quiet(a) == /\ Heard(a) /\ down[a] = <<>>
            /\ toNotify = 0 /\ pending = 0 /\ lpc = "wait"

\* When everything has settled, a connected agent holds the configuration that
\* is active, whatever order the pushes of the listener and the offers of its
\* own handler were rendered and sent in, unless a notification or a render
\* that it depended on was lost and nothing was rendered for it since.
InSyncUnlessMissed ==
    \A a \in Accepting : Quiet(a) /\ a \notin missed => last[a] = desired

\* What the fleet page shows.
configInSync(a) == None \notin {assigned[a], acked[a]} /\ assigned[a] = acked[a]

\* A failed write of a row is only logged, so the two properties of the row
\* speak of histories in which none failed.
NoCallFailed == count["faults"] = 0

\* When everything has settled, configInSync is exact: it is true and speaks of the
\* active configuration, although listener and handler both write
\* assigned_config_hash after rendering on their own.  It takes a listener that
\* never lost its session: a push loop that goes on after the loss may overwrite
\* the hash of a newer configuration whose notification was lost.
RowInSync ==
    NoCallFailed /\ count["blips"] = 0 =>
        \A a \in Accepting : Quiet(a) /\ a \notin missed
            => configInSync(a) /\ assigned[a] = desired

\* remote_config_status = applied is the authoritative sign that the
\* acknowledged configuration is live, also after an agent lost its state or
\* the tier restarted between the two writes.
AppliedIsLive ==
    \A a \in Agents : NoCallFailed /\ Heard(a) /\ status[a] = "applied"
        => running[a] = acked[a]

\* Once activations stop, every agent ends up holding the active configuration
\* for good, unless a lost notification or render passed it over and it has had
\* no occasion to ask since.
Converges ==
    \A a \in Accepting, v \in Configs :
        <>[](desired = v) => <>[](last[a] = v \/ a \in missed)

=============================================================================
