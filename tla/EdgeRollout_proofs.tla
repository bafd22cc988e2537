------------------------- MODULE EdgeRollout_proofs -------------------------
(***************************************************************************)
(* For any number of agents and configurations and all bounds: types are   *)
(* kept; a settled agent that nothing passed over holds the active         *)
(* configuration (InSyncUnlessMissed); and, when no write failed, what the *)
(* rows say of it is true (AppliedIsLive, RowInSync).                      *)
(*                                                                         *)
(* The argument: whatever the agent has received makes it send a full      *)
(* report, and a full report makes its handler render what is active then. *)
(* So either the agent has the active configuration, or something that     *)
(* will render or deliver it is under way (Coming).                        *)
(***************************************************************************)
EXTENDS EdgeRollout, SequenceTheorems, TLAPS

\* What the handler of an agent's connection has at hand, and what reports say.
Consistent(m) == m.hash = None <=> m.stat = "unset"

Handling(a) ==
    /\ pc[a] # "idle" => reg[a] # None
    /\ pc[a] \in {"ack", "status"} => msg[a] \in Message /\ Consistent(msg[a])
    /\ up[a] # <<>> => Tail(up[a]) = <<>> /\ Consistent(Head(up[a]))
    /\ last[a] = None <=> astat[a] = "unset"
    /\ astat[a] = "applied" => running[a] = last[a]
    /\ online[a] /\ reg[a] = None => say[a] = "full" \/ up[a] # <<>> \/ down[a] # <<>>

\* A full report comes after the message that is being handled.
Later(a) == say[a] = "full" \/ (up[a] # <<>> /\ Head(up[a]).full)

\* A report that no later one follows tells the configuration the agent has.
Latest(a) ==
    online[a] =>
        /\ up[a] # <<>> => Head(up[a]).hash = last[a] \/ say[a] = "full"
        /\ pc[a] = "ack" => msg[a].hash = last[a] \/ Later(a)
        /\ pc[a] \in {"status", "offer", "assign"} => reg[a].acked = last[a] \/ Later(a)

\* The listener will render, or has rendered and will send.
Announced == toNotify > 0 \/ pending > 0 \/ lpc = "render"

Pushed(a) ==
    /\ lcfg = desired
    /\ \/ lpc = "snapshot" /\ reg[a] # None
       \/ lpc = "push" /\ a \in llive /\ a \in ltodo \cup lsend

\* The agent's handler will render, or will send, or will be asked to.
Reporting(a) ==
    \/ say[a] = "full" \/ down[a] # <<>>
    \/ up[a] # <<>> /\ (Head(up[a]).full \/ reg[a] = None)
    \/ pc[a] \in {"ack", "status"} /\ (newConn[a] \/ msg[a].full)
    \/ pc[a] \in {"offer", "send"}

Coming(a) ==
    Announced \/ Pushed(a) \/ Reporting(a) \/ (pc[a] = "assign" /\ offer[a] = desired)

InSyncOrComing(a) ==
    a \in Accepting /\ online[a] /\ a \notin missed => last[a] = desired \/ Coming(a)

OneAtATime == \A a, b \in lsend : a = b

\* As long as no write failed, the row, the registry and the agent's last
\* report agree.
Recorded(a) ==
    NoCallFailed =>
        /\ reg[a] # None => reg[a].acked = acked[a] /\ reg[a].stat = status[a]
        /\ online[a] /\ say[a] = "nothing" =>
             /\ up[a] # <<>> => Head(up[a]).hash = last[a] /\ Head(up[a]).stat = astat[a]
             /\ up[a] = <<>> =>
                  /\ pc[a] \in {"ack", "status"} =>
                       msg[a].hash = last[a] /\ msg[a].stat = astat[a]
                  /\ pc[a] # "ack" => acked[a] = last[a]
                  /\ pc[a] \notin {"ack", "status"} => status[a] = astat[a]

\* As long as the listener also kept its session, a push loop with an old
\* configuration is followed by another.
Undisturbed == NoCallFailed /\ count["blips"] = 0

Steady ==
    Undisturbed =>
        /\ ~listening => lpc = "wait" /\ pending = 0
        /\ lpc \in {"snapshot", "push"} => lcfg = desired \/ toNotify > 0 \/ pending > 0

AssignedOrComing(a) ==
    Undisturbed /\ a \in Accepting /\ online[a] /\ a \notin missed =>
        assigned[a] = desired \/ Coming(a)

IInv ==
    /\ TypeOK /\ OneAtATime /\ Steady
    /\ \A a \in Agents :
          Handling(a) /\ Latest(a) /\ InSyncOrComing(a) /\ Recorded(a) /\ AssignedOrComing(a)

-----------------------------------------------------------------------------
(* Types.                                                                  *)

\* Most leaves are first-order reasoning about sets and functions, Zenon's domain;
\* those with arithmetic, records or sequences name SMT.
USE Zenon, ConstantsTyped DEF Answers, Fails, row, listener, handler, agent, wires

\* What wires hold after a message is put on or taken off.
LEMMA Wires ==
  ASSUME NEW S, NEW q \in Seq(S)
  PROVE  /\ <<>> \in Seq(S)
         /\ \A x \in S : <<x>> \in Seq(S) /\ <<x>> # <<>> /\ Head(<<x>>) = x /\ Tail(<<x>>) = <<>>
         /\ \A x \in S : Append(q, x) \in Seq(S) /\ Append(q, x) # <<>>
         /\ q # <<>> => Head(q) \in S /\ Tail(q) \in Seq(S)
  BY SMT, AppendProperties, HeadTailProperties

\* The kinds of bounded events, and what one more of a kind does to the counts.
LEMMA Spending ==
  ASSUME count \in [DOMAIN Bounds -> Nat]
  PROVE  /\ \A b \in DOMAIN Bounds : Spend(b) => count' \in [DOMAIN Bounds -> Nat]
         /\ "faults" \in DOMAIN Bounds /\ "blips" \in DOMAIN Bounds /\ "drops" \in DOMAIN Bounds
         /\ "activations" \in DOMAIN Bounds /\ "resyncs" \in DOMAIN Bounds
         /\ "wipes" \in DOMAIN Bounds
<1>1. DOMAIN Bounds = {"activations", "resyncs", "faults", "blips", "drops", "wipes"}
  BY DEF Bounds
<1>2. ASSUME NEW b \in DOMAIN Bounds, Spend(b) PROVE count' \in [DOMAIN Bounds -> Nat]
  <2>1. count[b] + 1 \in Nat /\ count' = [count EXCEPT ![b] = count[b] + 1]
    BY SMT, <1>2 DEF Spend
  <2> HIDE DEF Spend
  <2> QED BY <2>1
<1> QED BY <1>1, <1>2

\* The initial rows, goroutines, wires and agents have their types.
LEMMA TypeInit == Init => TypeOK
  BY SMT DEF Init, TypeOK, Hash, Status, Bounds

\* Where a handler can be: the values of pc.
Steps == {"idle", "ack", "status", "offer", "assign", "send"}

\* The handler goes on to its next step or returns.
LEMMA Going ==
  ASSUME TypeOK, NEW a \in Agents, NEW s \in Steps, Goto(a, s)
  PROVE  /\ pc' \in [Agents -> Steps] /\ msg' \in [Agents -> Message \cup {None}]
         /\ newConn' \in [Agents -> BOOLEAN] /\ offer' \in [Agents -> Hash]
<1>1. /\ pc' = [pc EXCEPT ![a] = s] /\ msg' \in {msg, [msg EXCEPT ![a] = None]}
      /\ newConn' \in {newConn, [newConn EXCEPT ![a] = FALSE]}
      /\ offer' \in {offer, [offer EXCEPT ![a] = None]}
  BY DEF Goto
<1>2. pc' \in [Agents -> Steps] /\ newConn' \in [Agents -> BOOLEAN]
  BY <1>1 DEF TypeOK, Steps
<1>3. msg' \in [Agents -> Message \cup {None}]
  BY <1>1 DEF TypeOK
<1>4. offer' \in [Agents -> Hash]
  BY <1>1 DEF TypeOK, Hash
<1> QED BY <1>2, <1>3, <1>4

\* Every step keeps the types; of a handler that is at work this takes that it
\* has a message and a registered agent.
LEMMA TypeStep == TypeOK /\ (\A a \in Agents : Handling(a)) /\ [Next]_vars => TypeOK'
<1> SUFFICES ASSUME TypeOK, \A a \in Agents : Handling(a), [Next]_vars PROVE TypeOK'
  OBVIOUS
<1>t1. reg \in [Agents -> AgentConn \cup {None}]
  BY DEF TypeOK
<1>t2. msg \in [Agents -> Message \cup {None}]
  BY DEF TypeOK
<1>t3. up \in [Agents -> Seq(Message)]
  BY DEF TypeOK
<1>t4. down \in [Agents -> Seq(Hash)]
  BY DEF TypeOK
<1>1. ASSUME NEW v \in Configs, Activate(v) PROVE TypeOK'
  <2>1. count' \in [DOMAIN Bounds -> Nat]
    BY <1>1, Spending DEF TypeOK, Activate
  <2> QED BY SMT, <1>1, <2>1 DEF TypeOK, Activate
<1>2. ASSUME ResyncEdge PROVE TypeOK'
  <2>1. count' \in [DOMAIN Bounds -> Nat]
    BY <1>2, Spending DEF TypeOK, ResyncEdge
  <2> QED BY SMT, <1>2, <2>1 DEF TypeOK, ResyncEdge
<1>3. ASSUME Notify PROVE TypeOK'
  <2>1. count' \in [DOMAIN Bounds -> Nat]
    BY <1>3, Spending DEF TypeOK, Notify
  <2> QED BY SMT, <1>3, <2>1 DEF TypeOK, Notify
<1>4. ASSUME Blip PROVE TypeOK'
  BY <1>4, Spending DEF TypeOK, Blip
<1>5. ASSUME Relisten PROVE TypeOK'
  BY <1>5 DEF TypeOK, Relisten
<1>6. ASSUME WaitForNotification PROVE TypeOK'
  BY SMT, <1>6 DEF TypeOK, WaitForNotification
<1>7. ASSUME ListenerRender PROVE TypeOK'
  BY <1>7, Spending DEF TypeOK, ListenerRender, Hash
<1>8. ASSUME Snapshot PROVE TypeOK'
  BY <1>8 DEF TypeOK, Snapshot
<1>9. ASSUME NEW a \in Agents, ListenerAssign(a) PROVE TypeOK'
  <2>1. assigned' \in {assigned, [assigned EXCEPT ![a] = lcfg]}
    BY <1>9 DEF ListenerAssign
  <2>2. assigned' \in [Agents -> Hash]
    BY <2>1 DEF TypeOK
  <2>3. count' \in [DOMAIN Bounds -> Nat]
    BY <1>9, Spending DEF TypeOK, ListenerAssign
  <2> QED BY <1>9, <2>2, <2>3 DEF TypeOK, ListenerAssign
<1>10. ASSUME NEW a \in Agents, ListenerSend(a) PROVE TypeOK'
  <2>1. Append(down[a], lcfg) \in Seq(Hash)
    BY Wires DEF TypeOK
  <2>2. down' \in [Agents -> Seq(Hash)]
    BY <1>10, <2>1 DEF TypeOK, ListenerSend
  <2> QED BY <1>10, <2>2 DEF TypeOK, ListenerSend
<1>11. ASSUME ListenerDone PROVE TypeOK'
  BY <1>11 DEF TypeOK, ListenerDone, Hash
<1>12. ASSUME NEW a \in Agents, Receive(a) PROVE TypeOK'
  <2> DEFINE c == [acked |-> acked[a], stat |-> status[a]]
  <2>1. Head(up[a]) \in Message /\ Tail(up[a]) \in Seq(Message)
    BY <1>t3, <1>12, Wires DEF Receive
  <2>2. up' \in [Agents -> Seq(Message)]
    <3>1. up' = [up EXCEPT ![a] = Tail(up[a])]
      BY <1>12 DEF Receive
    <3> QED BY <1>t3, <2>1, <3>1
  <2>3. down' \in [Agents -> Seq(Hash)]
    <3>1. down' \in {down, [down EXCEPT ![a] = Append(down[a], None)]}
      BY SMT, <1>12 DEF Receive, TypeOK
    <3>2. Append(down[a], None) \in Seq(Hash)
      BY <1>t4, Wires DEF Hash
    <3> QED BY <1>t4, <3>1, <3>2
  <2>4. reg' \in [Agents -> AgentConn \cup {None}]
    <3>1. c \in AgentConn
      BY DEF AgentConn, TypeOK
    <3>2. reg' \in {reg, [reg EXCEPT ![a] = c]}
      BY SMT, <1>12 DEF Receive, TypeOK
    <3> QED BY <1>t1, <3>1, <3>2
  <2>5. msg' \in [Agents -> Message \cup {None}]
    <3>1. msg' \in {msg, [msg EXCEPT ![a] = Head(up[a])]}
      BY <1>12 DEF Receive
    <3> QED BY <1>t2, <2>1, <3>1
  <2>6. /\ pc' \in [Agents -> Steps] /\ newConn' \in [Agents -> BOOLEAN]
        /\ count' \in [DOMAIN Bounds -> Nat]
    BY <1>12, Spending DEF TypeOK, Receive, Steps
  <2> QED BY <1>12, <2>2, <2>3, <2>4, <2>5, <2>6 DEF TypeOK, Receive, Steps
<1>13. ASSUME NEW a \in Agents, Ack(a) PROVE TypeOK'
  <2> DEFINE h == msg[a].hash
             c == [reg[a] EXCEPT !.acked = h]
  <2>1. msg[a] \in Message /\ reg[a] \in AgentConn
    BY <1>t1, <1>13 DEF Handling, Ack
  <2>2. reg' \in [Agents -> AgentConn \cup {None}]
    <3>1. c \in AgentConn
      BY <2>1 DEF Message, AgentConn
    <3>2. reg' \in {reg, [reg EXCEPT ![a] = c]}
      BY <1>13 DEF Ack
    <3> QED BY <1>t1, <3>1, <3>2
  <2>3. acked' \in [Agents -> Hash]
    <3>1. h \in Hash
      BY <2>1 DEF Message
    <3>2. acked' \in {acked, [acked EXCEPT ![a] = h]}
      BY <1>13 DEF Ack
    <3> QED BY <3>1, <3>2 DEF TypeOK
  <2>4. /\ pc' \in [Agents -> Steps] /\ newHash' \in [Agents -> BOOLEAN]
        /\ count' \in [DOMAIN Bounds -> Nat]
    BY <1>13, Spending DEF TypeOK, Ack, Steps
  <2> QED BY <1>13, <2>2, <2>3, <2>4 DEF TypeOK, Ack, Steps
<1>14. ASSUME NEW a \in Agents, SetStatus(a) PROVE TypeOK'
  <2> DEFINE s == msg[a].stat
             c == [reg[a] EXCEPT !.stat = s]
  <2>1. msg[a] \in Message /\ reg[a] \in AgentConn
    BY <1>t1, <1>14 DEF Handling, SetStatus
  <2>2. reg' \in [Agents -> AgentConn \cup {None}]
    <3>1. c \in AgentConn
      BY <2>1 DEF Message, AgentConn
    <3>2. reg' \in {reg, [reg EXCEPT ![a] = c]}
      BY <1>14 DEF SetStatus
    <3> QED BY <1>t1, <3>1, <3>2
  <2>3. status' \in [Agents -> Status]
    <3>1. s \in Status
      BY <2>1 DEF Message
    <3>2. status' \in {status, [status EXCEPT ![a] = s]}
      BY <1>14 DEF SetStatus
    <3> QED BY <3>1, <3>2 DEF TypeOK
  <2>4. newHash' \in [Agents -> BOOLEAN] /\ count' \in [DOMAIN Bounds -> Nat]
    BY <1>14, Spending DEF TypeOK, SetStatus
  <2>5. /\ pc' \in [Agents -> Steps] /\ msg' \in [Agents -> Message \cup {None}]
        /\ newConn' \in [Agents -> BOOLEAN] /\ offer' \in [Agents -> Hash]
    BY <1>14, Going DEF SetStatus, AfterStatus, Steps
  <2> QED BY <1>14, <2>2, <2>3, <2>4, <2>5 DEF TypeOK, SetStatus, Steps
<1>15. ASSUME NEW a \in Agents, OfferRender(a) PROVE TypeOK'
  <2>1. /\ pc' \in [Agents -> Steps] /\ msg' \in [Agents -> Message \cup {None}]
        /\ newConn' \in [Agents -> BOOLEAN] /\ offer' \in [Agents -> Hash]
    <3>1. CASE Goto(a, "idle")
      BY <3>1, Going DEF Steps
    <3>2. CASE ~Goto(a, "idle")
      <4>1. /\ offer' = [offer EXCEPT ![a] = desired] /\ pc' = [pc EXCEPT ![a] = "assign"]
            /\ msg' = msg /\ newConn' = newConn
        BY <1>15, <3>2 DEF OfferRender
      <4> QED BY <4>1 DEF TypeOK, Steps, Hash
    <3> QED BY <3>1, <3>2
  <2>2. count' \in [DOMAIN Bounds -> Nat] /\ missed' \subseteq Agents
    BY <1>15, Spending DEF TypeOK, OfferRender
  <2> QED BY <1>15, <2>1, <2>2 DEF TypeOK, OfferRender, Steps
<1>16. ASSUME NEW a \in Agents, OfferAssign(a) PROVE TypeOK'
  <2>1. /\ pc' \in [Agents -> Steps] /\ msg' \in [Agents -> Message \cup {None}]
        /\ newConn' \in [Agents -> BOOLEAN] /\ offer' \in [Agents -> Hash]
    BY <1>16, Going DEF OfferAssign, Steps
  <2>2. /\ count' \in [DOMAIN Bounds -> Nat]
        /\ assigned' \in {assigned, [assigned EXCEPT ![a] = offer[a]]}
    BY <1>16, Spending DEF TypeOK, OfferAssign
  <2>3. assigned' \in [Agents -> Hash]
    BY <2>2 DEF TypeOK
  <2> QED BY <1>16, <2>1, <2>2, <2>3 DEF TypeOK, OfferAssign, Steps
<1>17. ASSUME NEW a \in Agents, Respond(a) PROVE TypeOK'
  <2>1. /\ pc' \in [Agents -> Steps] /\ msg' \in [Agents -> Message \cup {None}]
        /\ newConn' \in [Agents -> BOOLEAN] /\ offer' \in [Agents -> Hash]
    BY <1>17, Going DEF Respond, Steps
  <2>2. Append(down[a], offer[a]) \in Seq(Hash)
    BY Wires DEF TypeOK
  <2>3. down' \in [Agents -> Seq(Hash)]
    BY <1>17, <2>2 DEF TypeOK, Respond
  <2> QED BY <1>17, <2>1, <2>3 DEF TypeOK, Respond, Steps
<1>18. ASSUME NEW a \in Agents, Close(a) PROVE TypeOK'
  BY <1>18 DEF TypeOK, Close
<1>19. ASSUME NEW a \in Agents, Connect(a) PROVE TypeOK'
  BY <1>19 DEF TypeOK, Connect
<1>20. ASSUME NEW a \in Agents, Say(a) PROVE TypeOK'
  <2>1. [full |-> say[a] = "full", stat |-> astat[a], hash |-> last[a]] \in Message
    BY DEF TypeOK, Message
  <2>2. up' \in [Agents -> Seq(Message)]
    <3>1. <<[full |-> say[a] = "full", stat |-> astat[a], hash |-> last[a]]>> \in Seq(Message)
      BY SMT, <2>1, Wires
    <3> QED BY <1>20, <3>1 DEF TypeOK, Say
  <2> QED BY <1>20, <2>2 DEF TypeOK, Say
<1>21. ASSUME NEW a \in Agents, Hear(a) PROVE TypeOK'
  <2>1. Head(down[a]) \in Hash /\ Tail(down[a]) \in Seq(Hash)
    BY <1>t4, <1>21, Wires DEF Hear
  <2>2. down' \in [Agents -> Seq(Hash)]
    <3>1. down' = [down EXCEPT ![a] = Tail(down[a])]
      BY <1>21 DEF Hear
    <3> QED BY <1>t4, <2>1, <3>1
  <2>3. last' \in [Agents -> Hash]
    <3>1. last' \in {last, [last EXCEPT ![a] = Head(down[a])]}
      BY <1>21 DEF Hear
    <3> QED BY <2>1, <3>1 DEF TypeOK
  <2>4. astat' \in [Agents -> Status]
    <3>1. astat' \in {astat, [astat EXCEPT ![a] = "applying"]}
      BY <1>21 DEF Hear
    <3> QED BY <3>1 DEF TypeOK, Status
  <2> QED BY <1>21, <2>2, <2>3, <2>4 DEF TypeOK, Hear
<1>22. ASSUME NEW a \in Agents, Apply(a) PROVE TypeOK'
  <2>1. /\ astat' \in {[astat EXCEPT ![a] = "failed"], [astat EXCEPT ![a] = "applied"]}
        /\ running' \in {running, [running EXCEPT ![a] = last[a]]}
    BY <1>22 DEF Apply
  <2>2. astat' \in [Agents -> Status]
    BY <2>1 DEF TypeOK, Status
  <2>3. running' \in [Agents -> Hash]
    <3>1. running \in [Agents -> Hash] /\ last[a] \in Hash
      BY DEF TypeOK
    <3> QED BY <2>1, <3>1
  <2>4. say' \in [Agents -> {"nothing", "status", "full"}]
    BY <1>22 DEF TypeOK, Apply
  <2> QED BY <1>22, <2>2, <2>3, <2>4 DEF TypeOK, Apply
<1>23. ASSUME NEW a \in Agents, Drop(a) PROVE TypeOK'
  <2>1. up' \in [Agents -> Seq(Message)]
    <3>1. up' \in {up, [up EXCEPT ![a] = <<>>]} /\ <<>> \in Seq(Message)
      BY SMT, <1>23 DEF Drop
    <3> QED BY <1>t3, <3>1
  <2>2. down' \in [Agents -> Seq(Hash)]
    <3>1. down' = [down EXCEPT ![a] = <<>>] /\ <<>> \in Seq(Hash)
      BY SMT, <1>23 DEF Drop
    <3> QED BY <1>t4, <3>1
  <2>3. count' \in [DOMAIN Bounds -> Nat]
    BY <1>23, Spending DEF TypeOK, Drop
  <2> QED BY <1>23, <2>1, <2>2, <2>3 DEF TypeOK, Drop
<1>24. ASSUME NEW a \in Agents, Wipe(a) PROVE TypeOK'
  BY <1>24, Spending DEF TypeOK, Wipe, Hash, Status
<1>25. ASSUME Restart PROVE TypeOK'
  <2>1. up' \in [Agents -> Seq(Message)] /\ down' \in [Agents -> Seq(Hash)]
    BY SMT, <1>25 DEF TypeOK, Restart
  <2> QED BY <1>25, <2>1, Spending DEF TypeOK, Restart, Hash
<1>26. CASE UNCHANGED vars
  BY <1>26 DEF vars, TypeOK
<1> QED BY <1>1, <1>2, <1>3, <1>4, <1>5, <1>6, <1>7, <1>8, <1>9, <1>10, <1>11, <1>12,
     <1>13, <1>14, <1>15, <1>16, <1>17, <1>18, <1>19, <1>20, <1>21, <1>22, <1>23, <1>24, <1>25,
     <1>26 DEF Next, Listener, Serve, Supervisor

-----------------------------------------------------------------------------
(* What one agent's part of the invariant needs of the others' steps.      *)

AgentInv(a) ==
    Handling(a) /\ Latest(a) /\ InSyncOrComing(a) /\ Recorded(a) /\ AssignedOrComing(a)

\* Nothing of agent b changes.
Same(b) ==
    /\ assigned'[b] = assigned[b] /\ acked'[b] = acked[b] /\ status'[b] = status[b]
    /\ reg'[b] = reg[b] /\ pc'[b] = pc[b] /\ msg'[b] = msg[b]
    /\ newConn'[b] = newConn[b] /\ offer'[b] = offer[b]
    /\ online'[b] = online[b] /\ up'[b] = up[b] /\ down'[b] = down[b]
    /\ last'[b] = last[b] /\ astat'[b] = astat[b] /\ running'[b] = running[b]
    /\ say'[b] = say[b]

\* Nothing changes that b and the listener have in common.
SameFor(b) ==
    /\ UNCHANGED <<desired, toNotify, pending, lpc, lcfg>>
    /\ b \in ltodo' \cup lsend' <=> b \in ltodo \cup lsend
    /\ b \in llive' <=> b \in llive
    /\ b \in missed' <=> b \in missed

\* A history without failed calls had none before, and one with a failure has
\* one ever after.
LEMMA Faults ==
  ASSUME TypeOK
  PROVE  /\ Answers => (NoCallFailed' <=> NoCallFailed) /\ (Undisturbed' <=> Undisturbed)
         /\ \A k \in DOMAIN Bounds : Spend(k) =>
               (NoCallFailed' => NoCallFailed) /\ (Undisturbed' => Undisturbed)
         /\ Fails => ~NoCallFailed' /\ ~Undisturbed'
         /\ Spend("blips") => ~Undisturbed'
<1>1. DOMAIN Bounds = {"activations", "resyncs", "faults", "blips", "drops", "wipes"}
  BY DEF Bounds
<1>2. \A k \in DOMAIN Bounds : count[k] \in Nat
  BY DEF TypeOK
<1>3. ASSUME NEW k \in DOMAIN Bounds, Spend(k)
      PROVE  /\ count'[k] = count[k] + 1
             /\ \A j \in DOMAIN Bounds \ {k} : count'[j] = count[j]
  BY <1>3 DEF Spend, TypeOK
<1>4. ASSUME NEW k \in DOMAIN Bounds, Spend(k)
      PROVE  (NoCallFailed' => NoCallFailed) /\ (Undisturbed' => Undisturbed)
  BY SMT, <1>1, <1>2, <1>3, <1>4 DEF NoCallFailed, Undisturbed
<1>5. Fails => ~NoCallFailed' /\ ~Undisturbed'
  BY SMT, <1>1, <1>2, <1>3 DEF NoCallFailed, Undisturbed
<1>6. Spend("blips") => ~Undisturbed'
  BY SMT, <1>1, <1>2, <1>3 DEF Undisturbed
<1>7. Answers => (NoCallFailed' <=> NoCallFailed) /\ (Undisturbed' <=> Undisturbed)
  BY DEF NoCallFailed, Undisturbed
<1> QED BY <1>4, <1>5, <1>6, <1>7

\* An agent is not disturbed by a step that changes nothing of its own and
\* nothing it has in common with the listener.
LEMMA Undisturbing ==
  ASSUME NEW b \in Agents, AgentInv(b), Same(b), SameFor(b),
         NoCallFailed' => NoCallFailed, Undisturbed' => Undisturbed
  PROVE  AgentInv(b)'
<1>1. Handling(b)' /\ Latest(b)'
  BY DEF AgentInv, Same, Handling, Latest, Later
<1>2. Recorded(b)'
  BY DEF AgentInv, Same, Recorded
<1>3. Coming(b) => Coming(b)'
  BY DEF Same, SameFor, Coming, Announced, Pushed, Reporting
<1>4. InSyncOrComing(b)' /\ AssignedOrComing(b)'
  BY <1>3 DEF AgentInv, Same, SameFor, InSyncOrComing, AssignedOrComing
<1> QED BY <1>1, <1>2, <1>4 DEF AgentInv

-----------------------------------------------------------------------------
(* The steps of an agent's handler, for that agent.                        *)

\* Receiving a report: what it said is at hand, and the agent is registered.
LEMMA ReceiveOwn ==
  ASSUME TypeOK, TypeOK', NEW a \in Agents, AgentInv(a), Receive(a)
  PROVE  AgentInv(a)'
<1> USE DEF AgentInv
<1>1. /\ UNCHANGED <<desired, toNotify, pending, listener, missed>>
      /\ assigned'[a] = assigned[a] /\ acked'[a] = acked[a] /\ status'[a] = status[a]
      /\ offer'[a] = offer[a] /\ online'[a] = online[a] /\ last'[a] = last[a]
      /\ astat'[a] = astat[a] /\ running'[a] = running[a] /\ say'[a] = say[a]
  BY DEF Receive
<1>2. /\ pc[a] = "idle" /\ up[a] # <<>> /\ Head(up[a]) \in Message
      /\ Consistent(Head(up[a])) /\ up'[a] = <<>>
  <2>1. Head(up[a]) \in Message
    BY Wires DEF TypeOK, Receive
  <2>2. up'[a] = Tail(up[a])
    BY DEF TypeOK, Receive
  <2>3. pc[a] = "idle" /\ up[a] # <<>>
    BY DEF Receive
  <2> QED BY <2>1, <2>2, <2>3 DEF Handling
<1>3. CASE Answers /\ pc' = [pc EXCEPT ![a] = "ack"]
  <2>1. /\ pc'[a] = "ack" /\ msg'[a] = Head(up[a]) /\ newConn'[a] = (reg[a] = None)
        /\ down'[a] = down[a]
    BY SMT, <1>3 DEF TypeOK, Receive
  <2>2. reg'[a] = IF reg[a] # None THEN reg[a] ELSE [acked |-> acked[a], stat |-> status[a]]
    BY SMT, <1>3 DEF TypeOK, Receive
  <2>3. reg'[a] # None
    <3>1. [acked |-> acked[a], stat |-> status[a]] \in [acked : Hash, stat : Status]
      BY DEF TypeOK
    <3> QED BY <2>2, <3>1
  <2>4. Handling(a)'
    BY <1>1, <1>2, <2>1, <2>3 DEF Handling, Consistent
  <2>5. Latest(a)'
    BY <1>1, <1>2, <2>1 DEF Latest, Later
  <2>6. Coming(a) => Coming(a)'
    <3>1. Reporting(a) => Reporting(a)'
      BY <1>1, <1>2, <2>1 DEF Reporting
    <3>2. Pushed(a) => Pushed(a)'
      BY <1>1, <2>3 DEF Pushed
    <3> QED BY <1>1, <1>2, <3>1, <3>2 DEF Coming, Announced
  <2>7. Recorded(a)'
    BY SMT, <1>1, <1>2, <1>3, <2>1, <2>2, Faults DEF Recorded
  <2>8. InSyncOrComing(a)' /\ AssignedOrComing(a)'
    BY <1>1, <1>3, <2>6, Faults DEF InSyncOrComing, AssignedOrComing
  <2> QED BY <2>4, <2>5, <2>7, <2>8
<1>4. CASE Fails /\ reg[a] = None /\ UNCHANGED <<reg, pc, msg, newConn>>
  <2>1. online[a] => down'[a] # <<>>
    <3>1. Append(down[a], None) # <<>>
      <4>1. down[a] \in Seq(Hash) /\ None \in Hash
        BY DEF TypeOK, Hash
      <4> QED BY <4>1, Wires
    <3>2. online[a] => down'[a] = Append(down[a], None)
      BY SMT, <1>4 DEF TypeOK, Receive
    <3> QED BY <3>1, <3>2
  <2>2. Handling(a)' /\ Latest(a)'
    BY <1>1, <1>2, <1>4, <2>1 DEF Handling, Latest, Later
  <2>3. InSyncOrComing(a)'
    BY <1>1, <2>1 DEF InSyncOrComing, Coming, Reporting
  <2>4. Recorded(a)' /\ AssignedOrComing(a)'
    BY <1>4, Faults DEF Recorded, AssignedOrComing
  <2> QED BY <2>2, <2>3, <2>4
<1> QED BY <1>3, <1>4 DEF Receive

\* The acknowledged hash: the registry and, unless the write fails, the row
\* take it over.
LEMMA AckOwn ==
  ASSUME TypeOK, TypeOK', NEW a \in Agents, AgentInv(a), Ack(a)
  PROVE  AgentInv(a)'
<1> USE DEF AgentInv
<1>1. /\ UNCHANGED <<desired, toNotify, pending, listener, missed>>
      /\ assigned'[a] = assigned[a] /\ status'[a] = status[a] /\ msg'[a] = msg[a]
      /\ newConn'[a] = newConn[a] /\ offer'[a] = offer[a] /\ online'[a] = online[a]
      /\ up'[a] = up[a] /\ down'[a] = down[a] /\ last'[a] = last[a]
      /\ astat'[a] = astat[a] /\ running'[a] = running[a] /\ say'[a] = say[a]
  BY DEF Ack
<1>2. /\ pc[a] = "ack" /\ pc'[a] = "status" /\ msg[a] \in Message /\ Consistent(msg[a])
      /\ reg[a] \in AgentConn
  BY SMT DEF TypeOK, Ack, Handling
<1>3. /\ reg'[a] \in AgentConn /\ reg'[a] # None
      /\ reg'[a].acked = msg[a].hash /\ reg'[a].stat = reg[a].stat
  <2>1. CASE reg' = [reg EXCEPT ![a].acked = msg[a].hash]
    <3>1. reg'[a] = [reg[a] EXCEPT !.acked = msg[a].hash]
      BY <2>1 DEF TypeOK
    <3> QED BY <1>2, <3>1 DEF AgentConn, Message
  <2>2. CASE reg' # [reg EXCEPT ![a].acked = msg[a].hash]
    <3>1. reg' = reg /\ msg[a].hash = reg[a].acked
      BY <1>2, <2>2 DEF Ack, Consistent
    <3> QED BY <1>2, <3>1 DEF AgentConn
  <2> QED BY <2>1, <2>2
<1>4. Fails \/ (Answers /\ acked'[a] \in {acked[a], msg[a].hash}
                        /\ (acked'[a] = msg[a].hash \/ reg' = reg))
  BY SMT DEF TypeOK, Ack
<1>5. Handling(a)'
  BY <1>1, <1>2, <1>3 DEF Handling
<1>6. Latest(a)'
  BY <1>1, <1>2, <1>3 DEF Latest, Later
<1>7. Coming(a) => Coming(a)'
  BY <1>1, <1>2, <1>3 DEF Coming, Announced, Pushed, Reporting, Handling
<1>8. Recorded(a)'
  <2>1. CASE Fails
    BY <2>1, Faults DEF Recorded
  <2>2. CASE Answers /\ acked'[a] = msg[a].hash
    BY <1>1, <1>2, <1>3, <2>2, Faults DEF Recorded, Handling
  <2>3. CASE Answers /\ acked'[a] = acked[a] /\ reg' = reg
    BY SMT, <1>1, <1>2, <1>3, <2>3, Faults DEF Recorded, Handling
  <2> QED BY <1>4, <2>1, <2>2, <2>3
<1>9. InSyncOrComing(a)' /\ AssignedOrComing(a)'
  <2>1. Undisturbed' => Undisturbed
    BY <1>4, Faults
  <2> QED BY <1>1, <1>7, <2>1 DEF InSyncOrComing, AssignedOrComing
<1> QED BY <1>5, <1>6, <1>8, <1>9

\* The handler's step after Goto.
LEMMA GoingOwn ==
  ASSUME TypeOK, NEW a \in Agents, NEW s \in Steps, Goto(a, s)
  PROVE  /\ pc'[a] = s
         /\ s # "idle" => msg'[a] = msg[a] /\ newConn'[a] = newConn[a] /\ offer'[a] = offer[a]
  BY DEF TypeOK, Goto

\* The status: the registry and, unless the write fails, the row take it over.
LEMMA SetStatusOwn ==
  ASSUME TypeOK, TypeOK', NEW a \in Agents, AgentInv(a), SetStatus(a)
  PROVE  AgentInv(a)'
<1> USE DEF AgentInv
<1>1. /\ UNCHANGED <<desired, toNotify, pending, listener, missed>>
      /\ assigned'[a] = assigned[a] /\ acked'[a] = acked[a] /\ online'[a] = online[a]
      /\ up'[a] = up[a] /\ down'[a] = down[a] /\ last'[a] = last[a]
      /\ astat'[a] = astat[a] /\ running'[a] = running[a] /\ say'[a] = say[a]
  BY DEF SetStatus
<1>2. /\ pc[a] = "status" /\ msg[a] \in Message /\ reg[a] \in AgentConn
      /\ pc'[a] = IF newConn[a] \/ msg[a].full THEN "offer" ELSE "idle"
  <2>1. pc[a] = "status" /\ AfterStatus(a) \in Steps /\ Goto(a, AfterStatus(a))
    BY DEF SetStatus, AfterStatus, Steps
  <2>2. pc'[a] = AfterStatus(a)
    BY <2>1, GoingOwn
  <2> QED BY <2>1, <2>2 DEF TypeOK, Handling, AfterStatus
<1>3. /\ reg'[a] # None /\ reg'[a].acked = reg[a].acked
      /\ \/ Fails
         \/ Answers /\ status'[a] = msg[a].stat /\ reg'[a].stat = msg[a].stat
         \/ Answers /\ status'[a] = status[a] /\ reg'[a] = reg[a] /\ msg[a].stat = reg[a].stat
  <2>1. CASE reg' = [reg EXCEPT ![a].stat = msg[a].stat] /\ Answers
                 /\ status' = [status EXCEPT ![a] = msg[a].stat]
    <3>1. reg'[a] = [reg[a] EXCEPT !.stat = msg[a].stat] /\ status'[a] = msg[a].stat
      BY <2>1 DEF TypeOK
    <3>2. reg'[a] \in AgentConn
      BY <1>2, <3>1 DEF AgentConn, Message
    <3> QED BY SMT, <1>2, <2>1, <3>1, <3>2 DEF AgentConn
  <2>2. CASE reg' = reg /\ status' = status
             /\ (Fails \/ (Answers /\ msg[a].stat = reg[a].stat))
    BY <1>2, <2>2 DEF AgentConn
  <2> QED BY <2>1, <2>2 DEF SetStatus
<1>4. Handling(a)'
  BY <1>1, <1>2, <1>3 DEF Handling
<1>5. Latest(a)'
  BY <1>1, <1>2, <1>3 DEF Latest, Later
<1>6. Coming(a) => Coming(a)'
  <2>1. Reporting(a) => Reporting(a)'
    BY <1>1, <1>2, <1>3 DEF Reporting, Handling
  <2>2. Pushed(a) => Pushed(a)'
    BY <1>1, <1>3 DEF Pushed
  <2> QED BY <1>1, <1>2, <2>1, <2>2 DEF Coming, Announced
<1>7. Recorded(a)'
  <2>1. CASE Fails
    BY <2>1, Faults DEF Recorded
  <2>2. CASE Answers /\ status'[a] = msg[a].stat /\ reg'[a].stat = msg[a].stat
    BY <1>1, <1>2, <1>3, <2>2, Faults DEF Recorded, Handling
  <2>3. CASE Answers /\ status'[a] = status[a] /\ reg'[a] = reg[a] /\ msg[a].stat = reg[a].stat
    BY <1>1, <1>2, <1>3, <2>3, Faults DEF Recorded, Handling
  <2> QED BY <1>3, <2>1, <2>2, <2>3
<1>8. InSyncOrComing(a)' /\ AssignedOrComing(a)'
  <2>1. Undisturbed' => Undisturbed
    BY <1>3, Faults
  <2> QED BY <1>1, <1>6, <2>1 DEF InSyncOrComing, AssignedOrComing
<1> QED BY <1>4, <1>5, <1>7, <1>8

\* Rendering the offer: what is offered is active now, and a failure is a miss.
LEMMA OfferRenderOwn ==
  ASSUME TypeOK, TypeOK', NEW a \in Agents, AgentInv(a), OfferRender(a)
  PROVE  AgentInv(a)'
<1> USE DEF AgentInv
<1>1. /\ UNCHANGED <<desired, toNotify, pending, listener>>
      /\ assigned'[a] = assigned[a] /\ acked'[a] = acked[a] /\ status'[a] = status[a]
      /\ reg'[a] = reg[a] /\ online'[a] = online[a]
      /\ up'[a] = up[a] /\ down'[a] = down[a] /\ last'[a] = last[a]
      /\ astat'[a] = astat[a] /\ running'[a] = running[a] /\ say'[a] = say[a]
  BY DEF OfferRender
<1>2. /\ pc[a] = "offer" /\ pc'[a] \in {"assign", "idle"}
      /\ a \in Accepting /\ a \notin missed' => pc'[a] = "assign" /\ offer'[a] = desired
  <2>1. CASE Goto(a, "idle") /\ (a \notin Accepting \/ a \in missed')
    BY <2>1, GoingOwn DEF OfferRender, Steps
  <2>2. CASE offer' = [offer EXCEPT ![a] = desired] /\ pc' = [pc EXCEPT ![a] = "assign"]
    BY SMT, <2>2 DEF OfferRender, TypeOK
  <2> QED BY <2>1, <2>2 DEF OfferRender
<1>3. Handling(a)'
  BY <1>1, <1>2 DEF Handling
<1>4. Latest(a)'
  BY <1>1, <1>2 DEF Latest, Later
<1>5. InSyncOrComing(a)' /\ AssignedOrComing(a)'
  BY <1>1, <1>2 DEF InSyncOrComing, AssignedOrComing, Coming
<1>6. Recorded(a)'
  <2>1. NoCallFailed' => NoCallFailed
    BY Faults DEF OfferRender
  <2> QED BY <1>1, <1>2, <2>1 DEF Recorded
<1> QED BY <1>3, <1>4, <1>5, <1>6

\* The comparison with the acknowledged hash: an offer that is not sent is what
\* the agent has, or a later report of the agent will be answered.
LEMMA OfferAssignOwn ==
  ASSUME TypeOK, TypeOK', NEW a \in Agents, AgentInv(a), OfferAssign(a)
  PROVE  AgentInv(a)'
<1> USE DEF AgentInv
<1>1. /\ UNCHANGED <<desired, toNotify, pending, listener, missed>>
      /\ acked'[a] = acked[a] /\ status'[a] = status[a]
      /\ reg'[a] = reg[a] /\ online'[a] = online[a]
      /\ up'[a] = up[a] /\ down'[a] = down[a] /\ last'[a] = last[a]
      /\ astat'[a] = astat[a] /\ running'[a] = running[a] /\ say'[a] = say[a]
  BY DEF OfferAssign
<1>2. /\ pc[a] = "assign"
      /\ pc'[a] = IF offer[a] = reg[a].acked THEN "idle" ELSE "send"
  BY GoingOwn DEF OfferAssign, Steps
<1>3. Fails \/ (Answers /\ assigned'[a] = offer[a])
  BY DEF OfferAssign, TypeOK
<1>4. Handling(a)' /\ Latest(a)'
  BY <1>1, <1>2 DEF Handling, Latest, Later
<1>5. Recorded(a)'
  <2>1. NoCallFailed' => NoCallFailed
    BY <1>3, Faults
  <2> QED BY <1>1, <1>2, <2>1 DEF Recorded
<1>6. Announced \/ Pushed(a) \/ Reporting(a) => Coming(a)'
  BY <1>1, <1>2 DEF Coming, Announced, Pushed, Reporting
<1>7. online[a] => reg[a].acked = last[a] \/ Reporting(a)
  BY <1>2 DEF Latest, Later, Reporting
<1>8. offer[a] # reg[a].acked => Coming(a)'
  BY <1>2 DEF Coming, Reporting
<1>9. InSyncOrComing(a)'
  BY <1>1, <1>6, <1>7, <1>8 DEF InSyncOrComing, Coming
<1>10. AssignedOrComing(a)'
  <2>1. Undisturbed' => assigned'[a] = offer[a]
    BY <1>3, Faults
  <2> QED BY <1>1, <1>6, <1>7, <1>8, <2>1 DEF InSyncOrComing, AssignedOrComing, Coming
<1> QED BY <1>4, <1>5, <1>9, <1>10

\* The response is on the wire of an agent that is still connected.
LEMMA RespondOwn ==
  ASSUME TypeOK, TypeOK', NEW a \in Agents, AgentInv(a), Respond(a)
  PROVE  AgentInv(a)'
<1> USE DEF AgentInv
<1>1. /\ UNCHANGED <<desired, toNotify, pending, listener, missed, count>>
      /\ assigned'[a] = assigned[a] /\ acked'[a] = acked[a] /\ status'[a] = status[a]
      /\ reg'[a] = reg[a] /\ online'[a] = online[a] /\ up'[a] = up[a] /\ last'[a] = last[a]
      /\ astat'[a] = astat[a] /\ running'[a] = running[a] /\ say'[a] = say[a]
  BY DEF Respond
<1>2. pc[a] = "send" /\ pc'[a] = "idle"
  BY GoingOwn DEF Respond, Steps
<1>3. online[a] => down'[a] # <<>>
  <2>1. down[a] \in Seq(Hash) /\ offer[a] \in Hash
    BY DEF TypeOK
  <2>2. Append(down[a], offer[a]) # <<>>
    BY <2>1, Wires
  <2>3. online[a] => down'[a] = Append(down[a], offer[a])
    BY DEF TypeOK, Respond
  <2> QED BY <2>2, <2>3
<1>4. Handling(a)' /\ Latest(a)'
  BY <1>1, <1>2 DEF Handling, Latest, Later
<1>5. InSyncOrComing(a)' /\ AssignedOrComing(a)'
  BY <1>1, <1>3 DEF InSyncOrComing, AssignedOrComing, Coming, Reporting
<1>6. Recorded(a)'
  BY <1>1, <1>2 DEF Recorded, NoCallFailed
<1> QED BY <1>4, <1>5, <1>6

\* A connection that closed leaves an agent that is offline.
LEMMA CloseOwn ==
  ASSUME TypeOK, NEW a \in Agents, AgentInv(a), Close(a)
  PROVE  AgentInv(a)'
<1> USE DEF AgentInv
<1>1. /\ reg'[a] = None /\ online'[a] = FALSE /\ pc'[a] = "idle" /\ up'[a] = <<>>
      /\ last'[a] = last[a] /\ astat'[a] = astat[a] /\ running'[a] = running[a]
  BY DEF TypeOK, Close
<1> QED BY <1>1 DEF Handling, Latest, InSyncOrComing, Recorded, AssignedOrComing

-----------------------------------------------------------------------------
(* The steps of an agent's supervisor and of its network, for that agent.  *)

\* A fresh connection begins with a full report.
LEMMA ConnectOwn ==
  ASSUME TypeOK, NEW a \in Agents, AgentInv(a), Connect(a)
  PROVE  AgentInv(a)'
<1> USE DEF AgentInv
<1>1. /\ reg'[a] = None /\ pc'[a] = "idle" /\ up'[a] = <<>> /\ say'[a] = "full"
      /\ last'[a] = last[a] /\ astat'[a] = astat[a] /\ running'[a] = running[a]
  BY DEF TypeOK, Connect
<1>2. Handling(a)' /\ Latest(a)' /\ Recorded(a)'
  BY <1>1 DEF Handling, Latest, Recorded
<1>3. InSyncOrComing(a)' /\ AssignedOrComing(a)'
  BY <1>1 DEF InSyncOrComing, AssignedOrComing, Coming, Reporting
<1> QED BY <1>2, <1>3

\* A report tells the state of its moment, and is full when it has to be.
LEMMA SayOwn ==
  ASSUME TypeOK, NEW a \in Agents, AgentInv(a), Say(a)
  PROVE  AgentInv(a)'
<1> USE DEF AgentInv
<1> DEFINE m == [full |-> say[a] = "full", stat |-> astat[a], hash |-> last[a]]
<1>1. /\ UNCHANGED <<desired, toNotify, pending, listener, missed, count>>
      /\ assigned'[a] = assigned[a] /\ acked'[a] = acked[a] /\ status'[a] = status[a]
      /\ reg'[a] = reg[a] /\ pc'[a] = pc[a] /\ msg'[a] = msg[a] /\ newConn'[a] = newConn[a]
      /\ offer'[a] = offer[a] /\ online'[a] = online[a] /\ down'[a] = down[a]
      /\ last'[a] = last[a] /\ astat'[a] = astat[a] /\ running'[a] = running[a]
  BY DEF Say
<1>2. up[a] = <<>> /\ say'[a] = "nothing" /\ up'[a] = <<m>>
  BY DEF TypeOK, Say
<1>3. up'[a] # <<>> /\ Head(up'[a]) = m /\ Tail(up'[a]) = <<>>
  <2>1. m \in Message
    BY DEF TypeOK, Message
  <2> QED BY SMT, <1>2, <2>1, Wires
<1>4. m.full = (say[a] = "full") /\ m.stat = astat[a] /\ m.hash = last[a]
  OBVIOUS
<1> HIDE DEF m
<1>5. Handling(a)'
  BY <1>1, <1>2, <1>3, <1>4 DEF Handling, Consistent
<1>6. Latest(a)'
  BY <1>1, <1>2, <1>3, <1>4 DEF Latest, Later
<1>7. Coming(a) => Coming(a)'
  <2>1. Reporting(a) => Reporting(a)'
    BY <1>1, <1>2, <1>3, <1>4 DEF Reporting
  <2>2. Pushed(a) => Pushed(a)'
    BY <1>1 DEF Pushed
  <2> QED BY <1>1, <2>1, <2>2 DEF Coming, Announced
<1>8. Recorded(a)'
  BY <1>1, <1>2, <1>3, <1>4 DEF Recorded, NoCallFailed
<1>9. InSyncOrComing(a)' /\ AssignedOrComing(a)'
  BY <1>1, <1>7 DEF InSyncOrComing, AssignedOrComing, Undisturbed, NoCallFailed
<1> QED BY <1>5, <1>6, <1>8, <1>9

\* Whatever the server sent, a full report follows.
LEMMA HearOwn ==
  ASSUME TypeOK, NEW a \in Agents, AgentInv(a), Hear(a)
  PROVE  AgentInv(a)'
<1> USE DEF AgentInv
<1>1. /\ count' = count /\ acked'[a] = acked[a] /\ status'[a] = status[a]
      /\ reg'[a] = reg[a] /\ pc'[a] = pc[a] /\ msg'[a] = msg[a]
      /\ online'[a] = online[a] /\ up'[a] = up[a] /\ running'[a] = running[a]
  BY DEF Hear
<1>2. say'[a] = "full"
  BY DEF TypeOK, Hear
<1>3. \/ last'[a] = last[a] /\ astat'[a] = astat[a]
      \/ last'[a] # None /\ astat'[a] = "applying"
  BY SMT DEF TypeOK, Hear
<1>4. Handling(a)'
  BY <1>1, <1>2, <1>3 DEF Handling
<1>5. Latest(a)' /\ Recorded(a)'
  BY <1>1, <1>2 DEF Latest, Later, Recorded, NoCallFailed
<1>6. InSyncOrComing(a)' /\ AssignedOrComing(a)'
  BY <1>2 DEF InSyncOrComing, AssignedOrComing, Coming, Reporting
<1> QED BY <1>4, <1>5, <1>6

\* The outcome of a configuration is reported; it changes nothing else.
LEMMA ApplyOwn ==
  ASSUME TypeOK, NEW a \in Agents, AgentInv(a), Apply(a)
  PROVE  AgentInv(a)'
<1> USE DEF AgentInv
<1>1. /\ UNCHANGED <<desired, toNotify, pending, listener, missed, count>>
      /\ assigned'[a] = assigned[a] /\ acked'[a] = acked[a] /\ status'[a] = status[a]
      /\ reg'[a] = reg[a] /\ pc'[a] = pc[a] /\ msg'[a] = msg[a] /\ newConn'[a] = newConn[a]
      /\ offer'[a] = offer[a] /\ online'[a] = online[a] /\ up'[a] = up[a]
      /\ down'[a] = down[a] /\ last'[a] = last[a]
  BY DEF Apply
<1>2. say'[a] # "nothing" /\ (say'[a] = "full" <=> say[a] = "full")
  BY DEF TypeOK, Apply
<1>3. /\ astat[a] = "applying"
      /\ \/ astat'[a] = "failed"
         \/ astat'[a] = "applied" /\ running'[a] = last[a]
  BY DEF TypeOK, Apply
<1>4. Handling(a)'
  BY <1>1, <1>2, <1>3 DEF Handling
<1>5. Latest(a)' /\ Recorded(a)'
  BY <1>1, <1>2 DEF Latest, Later, Recorded, NoCallFailed
<1>6. Coming(a) => Coming(a)'
  BY <1>1, <1>2 DEF Coming, Announced, Pushed, Reporting
<1>7. InSyncOrComing(a)' /\ AssignedOrComing(a)'
  BY <1>1, <1>6 DEF InSyncOrComing, AssignedOrComing, Undisturbed, NoCallFailed
<1> QED BY <1>4, <1>5, <1>7

\* An agent whose connection broke is offline.
LEMMA DropOwn ==
  ASSUME TypeOK, NEW a \in Agents, AgentInv(a), Drop(a)
  PROVE  AgentInv(a)'
<1> USE DEF AgentInv
<1>1. /\ acked'[a] = acked[a] /\ status'[a] = status[a]
      /\ reg'[a] = reg[a] /\ pc'[a] = pc[a] /\ msg'[a] = msg[a]
      /\ last'[a] = last[a] /\ astat'[a] = astat[a] /\ running'[a] = running[a]
  BY DEF Drop
<1>2. online'[a] = FALSE /\ up'[a] \in {up[a], <<>>}
  BY DEF TypeOK, Drop
<1>3. Handling(a)'
  BY <1>1, <1>2 DEF Handling
<1>4. NoCallFailed' => NoCallFailed
  BY Faults, Spending DEF TypeOK, Drop
<1>5. Latest(a)' /\ InSyncOrComing(a)' /\ Recorded(a)' /\ AssignedOrComing(a)'
  BY <1>1, <1>2, <1>4 DEF Latest, InSyncOrComing, Recorded, AssignedOrComing
<1> QED BY <1>3, <1>5

\* An agent that lost its state is offline.
LEMMA WipeOwn ==
  ASSUME TypeOK, NEW a \in Agents, AgentInv(a), Wipe(a)
  PROVE  AgentInv(a)'
<1> USE DEF AgentInv
<1>1. /\ acked'[a] = acked[a] /\ status'[a] = status[a]
      /\ reg'[a] = reg[a] /\ pc'[a] = pc[a] /\ msg'[a] = msg[a]
      /\ up'[a] = up[a] /\ ~online'[a]
  BY DEF Wipe
<1>2. last'[a] = None /\ astat'[a] = "unset"
  BY DEF TypeOK, Wipe
<1>3. Handling(a)'
  BY <1>1, <1>2 DEF Handling
<1>4. NoCallFailed' => NoCallFailed
  BY Faults, Spending DEF TypeOK, Wipe
<1>5. Latest(a)' /\ InSyncOrComing(a)' /\ Recorded(a)' /\ AssignedOrComing(a)'
  BY <1>1, <1>4 DEF Latest, InSyncOrComing, Recorded, AssignedOrComing
<1> QED BY <1>3, <1>5

\* A step of one agent's handler, supervisor or network concerns that agent only.
LEMMA OneAgentsStep ==
  ASSUME TypeOK, NEW a \in Agents, NEW b \in Agents, b # a,
         Serve(a) \/ Supervisor(a) \/ Drop(a) \/ Wipe(a)
  PROVE  /\ Same(b) /\ SameFor(b)
         /\ NoCallFailed' => NoCallFailed
         /\ Undisturbed' => Undisturbed
<1>1. Answers \/ \E k \in DOMAIN Bounds : Spend(k)
  BY Spending DEF TypeOK, Serve, Supervisor, Receive, Ack, SetStatus, OfferRender, OfferAssign,
     Respond, Close, Connect, Say, Hear, Apply, Drop, Wipe
<1>2. (NoCallFailed' => NoCallFailed) /\ (Undisturbed' => Undisturbed)
  BY <1>1, Faults
<1> SUFFICES Same(b) /\ SameFor(b)
  BY <1>2
<1>3. ASSUME NEW s, Goto(a, s)
      PROVE  pc'[b] = pc[b] /\ msg'[b] = msg[b] /\ newConn'[b] = newConn[b] /\ offer'[b] = offer[b]
  BY <1>3 DEF TypeOK, Goto
<1> USE DEF Same, SameFor
<1>4. CASE Receive(a)
  BY SMT, <1>4 DEF TypeOK, Receive
<1>5. CASE Ack(a)
  BY <1>5 DEF TypeOK, Ack
<1>6. CASE SetStatus(a)
  BY <1>3, <1>6 DEF TypeOK, SetStatus
<1>7. CASE OfferRender(a)
  <2>1. pc'[b] = pc[b] /\ msg'[b] = msg[b] /\ newConn'[b] = newConn[b] /\ offer'[b] = offer[b]
    BY <1>3, <1>7 DEF TypeOK, OfferRender
  <2> QED BY <1>7, <2>1 DEF OfferRender
<1>8. CASE OfferAssign(a)
  BY <1>3, <1>8 DEF TypeOK, OfferAssign
<1>9. CASE Respond(a)
  BY <1>3, <1>9 DEF TypeOK, Respond
<1>10. CASE Close(a) \/ Connect(a)
  BY <1>10 DEF TypeOK, Close, Connect
<1>11. CASE Say(a)
  BY <1>11 DEF TypeOK, Say
<1>12. CASE Hear(a) \/ Apply(a)
  BY SMT, <1>12 DEF TypeOK, Hear, Apply
<1>13. CASE Drop(a) \/ Wipe(a)
  BY SMT, <1>13 DEF TypeOK, Drop, Wipe
<1> QED
  BY <1>4, <1>5, <1>6, <1>7, <1>8, <1>9, <1>10, <1>11, <1>12, <1>13 DEF Serve, Supervisor

-----------------------------------------------------------------------------
(* The steps of the API tier, of the listener, and a restart.              *)

\* Nothing of any agent changes but for its place in the rollout.
SameAgents == UNCHANGED <<row, reg, handler, wires, agent>>

\* Then only what is coming to the agents is in question.
LEMMA OnlyComing ==
  ASSUME NEW b \in Agents, AgentInv(b), SameAgents, NoCallFailed' => NoCallFailed,
         InSyncOrComing(b)', AssignedOrComing(b)'
  PROVE  AgentInv(b)'
<1>1. Handling(b)' /\ Latest(b)'
  BY DEF AgentInv, SameAgents, Handling, Latest, Later
<1>2. Recorded(b)'
  BY DEF AgentInv, SameAgents, Recorded
<1> QED BY <1>1, <1>2 DEF AgentInv

\* A change that is announced reaches everyone.
LEMMA ActivateKeeps ==
  ASSUME IInv, (\E v \in Configs : Activate(v)) \/ ResyncEdge, NEW b \in Agents
  PROVE  AgentInv(b)'
<1>1. toNotify' > 0 /\ UNCHANGED <<pending, listening, listener>> /\ SameAgents
  BY SMT DEF IInv, TypeOK, Activate, ResyncEdge, SameAgents
<1>2. (NoCallFailed' => NoCallFailed) /\ (Undisturbed' => Undisturbed)
  BY Faults, Spending DEF IInv, TypeOK, Activate, ResyncEdge
<1>3. InSyncOrComing(b)' /\ AssignedOrComing(b)'
  BY <1>1 DEF InSyncOrComing, AssignedOrComing, Coming, Announced
<1> QED BY <1>1, <1>2, <1>3, OnlyComing DEF IInv, AgentInv

\* A notification is handed to the listener or is a miss.
LEMMA NotifyKeeps ==
  ASSUME IInv, Notify, NEW b \in Agents
  PROVE  AgentInv(b)'
<1>1. UNCHANGED <<desired, listening, listener>> /\ SameAgents
  BY DEF Notify, SameAgents
<1>2. \/ Answers /\ listening /\ pending' > 0
      \/ Answers /\ ~listening /\ missed' = Agents /\ pending' = pending
      \/ Fails /\ missed' = Agents
  BY SMT DEF IInv, TypeOK, Notify
<1>3. (NoCallFailed' => NoCallFailed) /\ (Undisturbed' => Undisturbed)
  BY <1>2, Faults DEF IInv
<1>4. InSyncOrComing(b)' /\ AssignedOrComing(b)'
  BY <1>2 DEF InSyncOrComing, AssignedOrComing, Coming, Announced
<1> QED BY <1>1, <1>3, <1>4, OnlyComing DEF IInv, AgentInv

\* A session that breaks with notifications pending is a miss for everyone.
LEMMA BlipKeeps ==
  ASSUME IInv, Blip, NEW b \in Agents
  PROVE  AgentInv(b)'
<1>1. UNCHANGED <<desired, toNotify, listener>> /\ SameAgents
  BY DEF Blip, SameAgents
<1>2. missed' = Agents \/ (missed' = missed /\ ~(pending > 0))
  BY DEF IInv, TypeOK, Blip
<1>3. (NoCallFailed' => NoCallFailed) /\ ~Undisturbed'
  BY Faults, Spending DEF IInv, TypeOK, Blip
<1>4. ~(pending > 0) /\ Coming(b) => Coming(b)'
  BY <1>1 DEF SameAgents, Coming, Announced, Pushed, Reporting
<1>5. InSyncOrComing(b)' /\ AssignedOrComing(b)'
  BY <1>1, <1>2, <1>3, <1>4 DEF IInv, SameAgents, InSyncOrComing, AssignedOrComing
<1> QED BY <1>1, <1>3, <1>5, OnlyComing DEF IInv, AgentInv

\* Listening again changes nothing for the agents.
LEMMA RelistenKeeps ==
  ASSUME IInv, Relisten, NEW b \in Agents
  PROVE  AgentInv(b)'
<1>1. /\ UNCHANGED <<desired, toNotify, pending, listener, missed, count>> /\ SameAgents
      /\ lpc = "wait"
  BY DEF Relisten, SameAgents
<1>2. Same(b) /\ SameFor(b)
  BY <1>1 DEF SameAgents, Same, SameFor
<1> QED BY <1>1, <1>2, Undisturbing DEF IInv, AgentInv, Undisturbed, NoCallFailed

\* A notification that is taken up will be rendered for.
LEMMA WaitKeeps ==
  ASSUME IInv, WaitForNotification, NEW b \in Agents
  PROVE  AgentInv(b)'
<1>1. /\ UNCHANGED <<listening, lsend, count>> /\ SameAgents
      /\ lpc' = "render" /\ pending > 0
  BY DEF WaitForNotification, SameAgents
<1>2. InSyncOrComing(b)' /\ AssignedOrComing(b)'
  BY <1>1 DEF InSyncOrComing, AssignedOrComing, Coming, Announced
<1> QED BY <1>1, <1>2, OnlyComing DEF IInv, AgentInv, NoCallFailed

\* What is rendered is active; who is not registered yet has a report under way.
LEMMA RenderKeeps ==
  ASSUME IInv, ListenerRender, NEW b \in Agents
  PROVE  AgentInv(b)'
<1>1. /\ UNCHANGED <<desired, toNotify, pending, listening, lsend>> /\ SameAgents
      /\ lpc = "render"
  BY DEF ListenerRender, SameAgents
<1>2. \/ Answers /\ lpc' = "snapshot" /\ lcfg' = desired
      \/ Fails /\ missed' = Agents
  BY DEF ListenerRender
<1>3. (NoCallFailed' => NoCallFailed) /\ (Undisturbed' => Undisturbed)
  BY <1>2, Faults DEF IInv
<1>4. lpc' = "snapshot" /\ lcfg' = desired /\ online[b] => Coming(b)'
  BY <1>1 DEF IInv, SameAgents, Handling, Coming, Pushed, Reporting
<1>5. InSyncOrComing(b)' /\ AssignedOrComing(b)'
  BY <1>1, <1>2, <1>4 DEF SameAgents, InSyncOrComing, AssignedOrComing
<1> QED BY <1>1, <1>3, <1>5, OnlyComing DEF IInv, AgentInv

\* Every registered agent that accepts configurations is in the snapshot.
LEMMA SnapshotKeeps ==
  ASSUME IInv, Snapshot, NEW b \in Agents
  PROVE  AgentInv(b)'
<1>1. /\ UNCHANGED <<desired, toNotify, pending, listening, lcfg, lsend, count, missed>>
      /\ SameAgents /\ lpc = "snapshot" /\ lpc' = "push"
      /\ b \in Accepting /\ online[b] /\ reg[b] # None => b \in ltodo' /\ b \in llive'
  BY DEF Snapshot, SameAgents
<1>2. b \in Accepting /\ online[b] /\ Coming(b) => Coming(b)'
  BY <1>1 DEF SameAgents, Coming, Announced, Pushed, Reporting
<1>3. InSyncOrComing(b)' /\ AssignedOrComing(b)'
  BY <1>1, <1>2 DEF IInv, SameAgents, InSyncOrComing, AssignedOrComing, Undisturbed, NoCallFailed
<1> QED BY <1>1, <1>3, OnlyComing DEF IInv, AgentInv, NoCallFailed

\* The listener's write of the assigned hash: it is the active one's, or another
\* round of the listener follows.
LEMMA ListenerAssignKeeps ==
  ASSUME IInv, NEW a \in Agents, ListenerAssign(a), NEW b \in Agents
  PROVE  AgentInv(b)'
<1>1. /\ UNCHANGED <<desired, acked, status, toNotify, pending, listening, lpc, lcfg, llive, reg,
                     handler, wires, agent, missed>>
      /\ lpc = "push" /\ lsend' = {a}
      /\ b \in ltodo' \cup lsend' <=> b \in ltodo \cup lsend
  BY DEF ListenerAssign
<1>2. \/ Answers /\ assigned'[b] \in {assigned[b], lcfg}
      \/ Fails
  BY DEF IInv, TypeOK, ListenerAssign
<1>3. /\ (NoCallFailed' => NoCallFailed) /\ (Undisturbed' => Undisturbed)
      /\ Fails => ~Undisturbed'
  BY <1>2, Faults DEF IInv
<1>4. Handling(b)' /\ Latest(b)' /\ Recorded(b)'
  BY <1>1, <1>3 DEF IInv, Handling, Latest, Later, Recorded
<1>5. Coming(b) => Coming(b)'
  BY <1>1 DEF Coming, Announced, Pushed, Reporting
<1>6. InSyncOrComing(b)'
  BY <1>1, <1>5 DEF IInv, InSyncOrComing
<1>7. AssignedOrComing(b)'
  <2>1. Undisturbed => lcfg = desired \/ Coming(b)
    BY <1>1 DEF IInv, Steady, Coming, Announced
  <2>2. Undisturbed' => assigned'[b] \in {assigned[b], lcfg}
    BY <1>2, <1>3
  <2>3. AssignedOrComing(b)
    BY DEF IInv
  <2> QED BY <1>1, <1>3, <1>5, <2>1, <2>2, <2>3 DEF AssignedOrComing
<1> QED BY <1>4, <1>6, <1>7 DEF AgentInv

\* The listener sends: the configuration is on the wire of the agent, and no
\* other agent was about to be sent to.
LEMMA ListenerSendKeeps ==
  ASSUME IInv, NEW a \in Agents, ListenerSend(a), NEW b \in Agents
  PROVE  AgentInv(b)'
<1>1. /\ UNCHANGED <<desired, row, toNotify, pending, listening, lpc, lcfg, ltodo, llive, reg,
                     handler, online, up, agent, count, missed>>
      /\ lsend' = {} /\ a \in lsend
  BY DEF ListenerSend
<1>2. b # a => down'[b] = down[b] /\ b \notin lsend
  BY <1>1 DEF IInv, TypeOK, ListenerSend, OneAtATime
<1>3. b = a => down'[b] # <<>> \/ (down'[b] = down[b] /\ b \notin llive)
  <2>1. down[a] \in Seq(Hash) /\ lcfg \in Hash
    BY DEF IInv, TypeOK
  <2>2. Append(down[a], lcfg) # <<>>
    BY <2>1, Wires
  <2>3. down'[a] = IF a \in llive THEN Append(down[a], lcfg) ELSE down[a]
    BY DEF IInv, TypeOK, ListenerSend
  <2> QED BY <2>2, <2>3
<1>4. Handling(b)' /\ Latest(b)' /\ Recorded(b)'
  BY <1>1, <1>2, <1>3 DEF IInv, Handling, Latest, Later, Recorded, NoCallFailed
<1>5. Coming(b) => Coming(b)'
  <2>1. CASE down'[b] # <<>>
    BY <2>1 DEF Coming, Reporting
  <2>2. CASE down'[b] = <<>>
    <3>1. Pushed(b) => Pushed(b)'
      BY <1>1, <1>2, <1>3, <2>2 DEF Pushed
    <3>2. Reporting(b) => Reporting(b)'
      BY <1>1, <1>2, <1>3, <2>2 DEF Reporting
    <3> QED BY <1>1, <3>1, <3>2 DEF Coming, Announced
  <2> QED BY <2>1, <2>2
<1>6. InSyncOrComing(b)' /\ AssignedOrComing(b)'
  BY <1>1, <1>5 DEF IInv, InSyncOrComing, AssignedOrComing, Undisturbed, NoCallFailed
<1> QED BY <1>4, <1>6 DEF AgentInv

\* The listener is done once there is no agent left to send to.
LEMMA ListenerDoneKeeps ==
  ASSUME IInv, ListenerDone, NEW b \in Agents
  PROVE  AgentInv(b)'
<1>1. /\ UNCHANGED <<desired, toNotify, pending, listening, lsend, count, missed>> /\ SameAgents
      /\ lpc = "push" /\ ltodo = {} /\ lsend = {} /\ lpc' = "wait"
  BY DEF ListenerDone, SameAgents
<1>2. Coming(b) => Coming(b)'
  BY <1>1 DEF SameAgents, Coming, Announced, Pushed, Reporting
<1>3. InSyncOrComing(b)' /\ AssignedOrComing(b)'
  BY <1>1, <1>2 DEF IInv, SameAgents, InSyncOrComing, AssignedOrComing, Undisturbed, NoCallFailed
<1> QED BY <1>1, <1>3, OnlyComing DEF IInv, AgentInv, NoCallFailed

\* A restart leaves every agent offline and the listener at rest.
LEMMA RestartKeeps ==
  ASSUME IInv, Restart, NEW b \in Agents
  PROVE  AgentInv(b)'
<1>1. /\ pc'[b] = "idle" /\ reg'[b] = None /\ up'[b] = <<>> /\ online'[b] = FALSE
      /\ UNCHANGED agent /\ lpc' = "wait" /\ pending' = 0 /\ lsend' = {}
  BY DEF Restart
<1>2. Handling(b)' /\ Latest(b)' /\ Recorded(b)'
  BY <1>1 DEF IInv, Handling, Latest, Recorded
<1>3. InSyncOrComing(b)' /\ AssignedOrComing(b)'
  BY <1>1 DEF InSyncOrComing, AssignedOrComing
<1> QED BY <1>2, <1>3 DEF AgentInv

\* The listener serves one agent at a time, and a push loop with an old
\* configuration has a newer notification behind it.
LEMMA ListenerInv ==
  ASSUME IInv, [Next]_vars PROVE OneAtATime' /\ Steady'
<1>1. CASE (\E v \in Configs : Activate(v)) \/ ResyncEdge
  <2>1. toNotify' > 0 /\ UNCHANGED <<pending, listening, listener>>
    BY SMT, <1>1 DEF IInv, TypeOK, Activate, ResyncEdge
  <2>2. Undisturbed' => Undisturbed
    BY <1>1, Faults, Spending DEF IInv, TypeOK, Activate, ResyncEdge
  <2> QED BY <2>1, <2>2 DEF IInv, OneAtATime, Steady
<1>2. CASE Notify
  <2>1. /\ UNCHANGED <<desired, listening, listener>>
        /\ \/ Answers /\ listening /\ pending' > 0
           \/ Answers /\ ~listening /\ pending' = pending
           \/ Fails
    BY SMT, <1>2 DEF IInv, TypeOK, Notify
  <2>2. (Undisturbed' => Undisturbed) /\ (Fails => ~Undisturbed')
    BY <2>1, Faults DEF IInv
  <2> QED BY <2>1, <2>2 DEF IInv, OneAtATime, Steady
<1>3. CASE Blip
  <2>1. ~Undisturbed'
    BY <1>3, Faults DEF IInv, Blip
  <2> QED BY <1>3, <2>1 DEF IInv, Blip, OneAtATime, Steady
<1>4. CASE Relisten \/ WaitForNotification
  <2>1. /\ UNCHANGED <<desired, lsend, count>>
        /\ lpc' \in {"wait", "render"} /\ (listening' \/ (pending > 0 /\ UNCHANGED listening))
    BY <1>4 DEF Relisten, WaitForNotification
  <2>2. ~(0 > 0)
    BY SMT
  <2> QED BY SMT, <2>1, <2>2 DEF IInv, OneAtATime, Steady, Undisturbed, NoCallFailed
<1>5. CASE ListenerRender
  <2>1. /\ UNCHANGED <<desired, listening, pending, lsend>> /\ lpc = "render"
        /\ (Answers /\ lcfg' = desired) \/ Fails
    BY <1>5 DEF ListenerRender
  <2>2. (Undisturbed' => Undisturbed) /\ (Fails => ~Undisturbed')
    BY <2>1, Faults DEF IInv
  <2> QED BY <2>1, <2>2 DEF IInv, OneAtATime, Steady
<1>6. CASE Snapshot
  <2>1. /\ UNCHANGED <<desired, toNotify, pending, listening, lcfg, lsend, count>>
        /\ lpc = "snapshot"
    BY <1>6 DEF Snapshot
  <2> QED BY <2>1 DEF IInv, OneAtATime, Steady, Undisturbed, NoCallFailed
<1>7. ASSUME NEW a \in Agents, ListenerAssign(a) \/ ListenerSend(a) PROVE OneAtATime' /\ Steady'
  <2>1. /\ UNCHANGED <<desired, toNotify, pending, listening, lpc, lcfg>>
        /\ lsend' \in {{}, {a}} /\ (Answers \/ Fails)
    BY <1>7 DEF ListenerAssign, ListenerSend
  <2>2. Undisturbed' => Undisturbed
    BY <2>1, Faults DEF IInv
  <2> QED BY <2>1, <2>2 DEF IInv, OneAtATime, Steady
<1>8. CASE ListenerDone
  <2>1. UNCHANGED <<desired, pending, listening, lsend, count>> /\ lpc' = "wait" /\ lpc = "push"
    BY <1>8 DEF ListenerDone
  <2> QED BY <2>1 DEF IInv, OneAtATime, Steady, Undisturbed, NoCallFailed
<1>9. ASSUME NEW a \in Agents, Serve(a) \/ Supervisor(a) \/ Drop(a) \/ Wipe(a)
      PROVE  OneAtATime' /\ Steady'
  <2>1. /\ UNCHANGED <<desired, toNotify, pending, listening, lpc, lcfg, lsend>>
        /\ Answers \/ \E k \in DOMAIN Bounds : Spend(k)
    BY <1>9, Spending DEF IInv, TypeOK, Serve, Supervisor, Receive, Ack, SetStatus, OfferRender,
       OfferAssign, Respond, Close, Connect, Say, Hear, Apply, Drop, Wipe
  <2>2. Undisturbed' => Undisturbed
    BY <2>1, Faults DEF IInv
  <2> QED BY <2>1, <2>2 DEF IInv, OneAtATime, Steady
<1>10. CASE Restart
  BY <1>10 DEF Restart, OneAtATime, Steady
<1>11. CASE UNCHANGED vars
  BY <1>11 DEF vars, IInv, OneAtATime, Steady, Undisturbed, NoCallFailed
<1> QED
  BY <1>1, <1>2, <1>3, <1>4, <1>5, <1>6, <1>7, <1>8, <1>9, <1>10, <1>11 DEF Next, Listener

-----------------------------------------------------------------------------
(* The invariant and the theorems.                                         *)

\* Nothing is under way at the start, and no agent is connected.
LEMMA InvInit == Init => IInv
<1> SUFFICES ASSUME Init PROVE IInv
  OBVIOUS
<1>1. TypeOK
  BY TypeInit
<1>2. ASSUME NEW a \in Agents
      PROVE  Handling(a) /\ Latest(a) /\ InSyncOrComing(a) /\ Recorded(a) /\ AssignedOrComing(a)
  BY DEF Init, Handling, Latest, InSyncOrComing, Recorded, AssignedOrComing
<1> QED BY <1>1, <1>2 DEF Init, IInv, OneAtATime, Steady

\* Every step keeps the invariant.
LEMMA InvStep == IInv /\ [Next]_vars => IInv'
<1> SUFFICES ASSUME IInv, [Next]_vars PROVE IInv'
  OBVIOUS
<1>1. TypeOK /\ TypeOK'
  BY TypeStep DEF IInv
<1>2. OneAtATime' /\ Steady'
  BY ListenerInv
<1> SUFFICES ASSUME NEW b \in Agents PROVE AgentInv(b)'
  BY <1>1, <1>2 DEF IInv, AgentInv
<1>3. AgentInv(b)
  BY DEF IInv, AgentInv
<1>4. CASE (\E v \in Configs : Activate(v)) \/ ResyncEdge
  BY <1>4, ActivateKeeps
<1>5. CASE Notify
  BY <1>5, NotifyKeeps
<1>6. CASE Blip
  BY <1>6, BlipKeeps
<1>7. CASE Listener
  BY <1>7, RelistenKeeps, WaitKeeps, RenderKeeps, SnapshotKeeps, ListenerAssignKeeps,
     ListenerSendKeeps, ListenerDoneKeeps DEF Listener
<1>8. ASSUME NEW a \in Agents, Serve(a) \/ Supervisor(a) \/ Drop(a) \/ Wipe(a)
      PROVE  AgentInv(b)'
  <2>1. CASE a # b
    <3>1. /\ Same(b) /\ SameFor(b)
          /\ NoCallFailed' => NoCallFailed
          /\ Undisturbed' => Undisturbed
      BY <1>1, <1>8, <2>1, OneAgentsStep
    <3> QED BY <1>3, <3>1, Undisturbing
  <2>2. CASE a = b
    <3>1. CASE Serve(b)
      BY <1>1, <1>3, <3>1, ReceiveOwn, AckOwn, SetStatusOwn, OfferRenderOwn, OfferAssignOwn,
         RespondOwn, CloseOwn DEF Serve
    <3>2. CASE Supervisor(b)
      BY <1>1, <1>3, <3>2, ConnectOwn, SayOwn, HearOwn, ApplyOwn DEF Supervisor
    <3>3. CASE Drop(b) \/ Wipe(b)
      BY <1>1, <1>3, <3>3, DropOwn, WipeOwn
    <3> QED BY <1>8, <2>2, <3>1, <3>2, <3>3
  <2> QED BY <2>1, <2>2
<1>9. CASE Restart
  BY <1>9, RestartKeeps
<1>10. CASE UNCHANGED vars
  <2>1. Same(b) /\ SameFor(b) /\ UNCHANGED count
    BY <1>10 DEF vars, Same, SameFor
  <2> QED BY <1>3, <2>1, Undisturbing DEF Undisturbed, NoCallFailed
<1> QED BY <1>4, <1>5, <1>6, <1>7, <1>8, <1>9, <1>10 DEF Next

\* The invariant holds always.
LEMMA Invariant == Spec => []IInv
  BY InvInit, InvStep, PTL DEF Spec

\* Nothing is coming to an agent for which everything has settled.
LEMMA Settled == \A a : Quiet(a) => ~Coming(a)
  BY SMT DEF Quiet, Heard, Coming, Announced, Pushed, Reporting

\* Rows, goroutines, wires and agents keep their types.
THEOREM TypeCorrect == Spec => []TypeOK
<1>1. IInv => TypeOK
  BY DEF IInv
<1> QED BY <1>1, Invariant, PTL

\* Whatever order the pushes of the listener and the offers of the handlers are
\* rendered and sent in, a settled agent that nothing passed over holds the
\* active configuration (EdgeConfigChanged, maybeOfferConfig).
THEOREM InSync == Spec => []InSyncUnlessMissed
<1>1. IInv => InSyncUnlessMissed
  <2> SUFFICES ASSUME IInv, NEW a \in Accepting, Quiet(a), a \notin missed
               PROVE  last[a] = desired
    BY DEF InSyncUnlessMissed
  <2>1. a \in Agents /\ InSyncOrComing(a)
    BY DEF IInv
  <2>2. ~Coming(a)
    BY Settled
  <2> QED BY <2>1, <2>2 DEF Quiet, Heard, InSyncOrComing
<1> QED BY <1>1, Invariant, PTL

\* When no write failed, a row that says applied names the configuration the
\* agent runs (handleRemoteConfigStatus).
THEOREM AppliedLive == Spec => []AppliedIsLive
<1>1. IInv => AppliedIsLive
  <2> SUFFICES ASSUME IInv, NEW a \in Agents, NoCallFailed, Heard(a), status[a] = "applied"
               PROVE  running[a] = acked[a]
    BY DEF AppliedIsLive
  <2>1. Handling(a) /\ Recorded(a)
    BY DEF IInv
  <2>2. acked[a] = last[a] /\ status[a] = astat[a]
    BY <2>1 DEF Heard, Recorded
  <2> QED BY <2>1, <2>2 DEF Handling
<1> QED BY <1>1, Invariant, PTL

\* When moreover the listener kept its session, a settled agent's row says that
\* it is in sync, and with the active configuration.
THEOREM RowsInSync == Spec => []RowInSync
<1>1. IInv => RowInSync
  <2> SUFFICES ASSUME IInv, NoCallFailed, count["blips"] = 0, NEW a \in Accepting,
                      Quiet(a), a \notin missed
               PROVE  configInSync(a) /\ assigned[a] = desired
    BY DEF RowInSync
  <2>1. /\ a \in Agents /\ desired \in Configs /\ desired # None
        /\ InSyncOrComing(a) /\ Recorded(a) /\ AssignedOrComing(a)
    BY DEF IInv, TypeOK
  <2>2. ~Coming(a)
    BY Settled
  <2>3. last[a] = desired /\ assigned[a] = desired
    BY <2>1, <2>2 DEF Quiet, Heard, InSyncOrComing, AssignedOrComing, Undisturbed
  <2>4. acked[a] = last[a]
    BY <2>1 DEF Quiet, Heard, Recorded
  <2> QED BY <2>1, <2>3, <2>4 DEF configInSync
<1> QED BY <1>1, Invariant, PTL

=============================================================================
