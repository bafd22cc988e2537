-------------------------- MODULE Webhooks_proofs --------------------------
(***************************************************************************)
(* For any number of events, webhooks and places in the channel: Publish   *)
(* drops an event only to make room (DropsMakeRoom), and a request carries *)
(* what the webhook's row said at one moment (SentAsConfigured).           *)
(***************************************************************************)
EXTENDS Webhooks, FiniteSetTheorems, TLAPS

Clearing == {x \in Events : pub[x] = "retry"}

\* A Publish that found the channel full, and that Run has not overtaken,
\* may count on the channel and the places that others have cleared.
RoomInv ==
    /\ pub \in [Events -> {"idle", "try", "full", "retry", "done"}]
    /\ queue \in Seq(Events)
    /\ \A e \in Events :
          pub[e] = "full" /\ e \notin late => Len(queue) + Cardinality(Clearing) >= QueueSize

\* Publishes that are clearing a place are finitely many.
LEMMA ClearingFinite ==
  /\ IsFiniteSet(Clearing) /\ Cardinality(Clearing) \in Nat
  /\ IsFiniteSet(Clearing') /\ Cardinality(Clearing') \in Nat
<1>1. Clearing \in SUBSET Events /\ Clearing' \in SUBSET Events
  BY DEF Clearing
<1> QED BY <1>1, WebhookConstants, FS_Subset, FS_CardinalityType

\* AgentEvent and Full leave the channel and the cleared places of others.
LEMMA Unhurried ==
  ASSUME RoomInv, NEW e \in Events, AgentEvent(e) \/ Full(e) PROVE RoomInv'
<1>1. CASE AgentEvent(e)
  <2>1. Clearing' = Clearing
    BY <1>1 DEF RoomInv, AgentEvent, Clearing
  <2> QED BY <1>1, <2>1 DEF RoomInv, AgentEvent
<1>2. CASE Full(e)
  <2>1. Len(queue) \in Nat /\ Len(queue) >= QueueSize
    BY <1>2 DEF RoomInv, Full
  <2> QED BY <1>2, <2>1, ClearingFinite, WebhookConstants DEF RoomInv, Full
<1> QED BY <1>1, <1>2

\* The event that is put in takes the place that its Publish had cleared.
LEMMA PublishKeepsRoom == ASSUME RoomInv, NEW e \in Events, Publish(e) PROVE RoomInv'
<1>1. queue' \in Seq(Events) /\ Len(queue') = Len(queue) + 1 /\ Len(queue) \in Nat
  BY DEF RoomInv, Publish
<1>2. Clearing' = Clearing \ {e}
  BY DEF RoomInv, Publish, Clearing
<1>3. Cardinality(Clearing') >= Cardinality(Clearing) - 1
  BY <1>2, ClearingFinite, FS_RemoveElement
<1>4. Cardinality(Clearing') \in Nat /\ Cardinality(Clearing) \in Nat
  BY ClearingFinite
<1>5. ASSUME NEW x \in Events, pub'[x] = "full", x \notin late'
      PROVE  Len(queue') + Cardinality(Clearing') >= QueueSize
  <2>1. pub[x] = "full" /\ x \notin late
    BY <1>5 DEF RoomInv, Publish
  <2> QED BY <1>1, <1>3, <1>4, <2>1, WebhookConstants DEF RoomInv
<1> QED BY <1>1, <1>5 DEF RoomInv, Publish

\* The place of the event that is dropped is cleared for the dropper.
LEMMA DropKeepsRoom == ASSUME RoomInv, NEW e \in Events, DropOldest(e) PROVE RoomInv'
<1>1. CASE queue = <<>>
  <2>1. Clearing' = Clearing
    BY <1>1 DEF RoomInv, DropOldest, Clearing
  <2> QED BY <1>1, <2>1 DEF RoomInv, DropOldest
<1>2. CASE queue # <<>>
  <2>1. queue' \in Seq(Events) /\ Len(queue') = Len(queue) - 1 /\ Len(queue) \in Nat
    BY <1>2 DEF RoomInv, DropOldest
  <2>2. Clearing' = Clearing \cup {e} /\ e \notin Clearing
    BY <1>2 DEF RoomInv, DropOldest, Clearing
  <2>3. Cardinality(Clearing') = Cardinality(Clearing) + 1
    BY <2>2, ClearingFinite, FS_AddElement
  <2>4. Cardinality(Clearing) \in Nat
    BY ClearingFinite
  <2>5. ASSUME NEW x \in Events, pub'[x] = "full", x \notin late'
        PROVE  Len(queue') + Cardinality(Clearing') >= QueueSize
    <3>1. pub[x] = "full" /\ x \notin late
      BY <1>2, <2>5 DEF RoomInv, DropOldest
    <3> QED BY <2>1, <2>3, <2>4, <3>1, WebhookConstants DEF RoomInv
  <2> QED BY <1>2, <2>1, <2>5 DEF RoomInv, DropOldest
<1> QED BY <1>1, <1>2

\* After Run takes an event, every Publish that found the channel full is late.
LEMMA TakeKeepsRoom == RoomInv /\ Take => RoomInv'
  BY DEF RoomInv, Take

\* No other step touches the channel or a Publish.
LEMMA OthersKeepRoom == RoomInv /\ UNCHANGED <<queue, pub, late>> => RoomInv'
<1> SUFFICES ASSUME RoomInv, UNCHANGED <<queue, pub, late>> PROVE RoomInv' OBVIOUS
<1>1. Clearing' = Clearing
  BY DEF Clearing
<1> QED BY <1>1 DEF RoomInv

\* Every step keeps RoomInv.
LEMMA RoomInductive == RoomInv /\ [Next]_vars => RoomInv'
<1> SUFFICES ASSUME RoomInv, [Next]_vars PROVE RoomInv' OBVIOUS
<1>1. \/ \E e \in Events : AgentEvent(e) \/ Publish(e) \/ Full(e) \/ DropOldest(e)
      \/ Take \/ UNCHANGED <<queue, pub, late>>
  <2>1. CASE UNCHANGED vars
    BY <2>1 DEF vars
  <2>2. CASE \E e \in Events : AgentEvent(e) \/ Publishing(e)
    BY <2>2 DEF Publishing
  <2>3. CASE Running \/ Cancel
    BY <2>3 DEF Running, Cancel, ListWebhooks, ListFails, dispatch, Done, Return
  <2>4. ASSUME NEW d, Sending(d) PROVE UNCHANGED <<queue, pub, late>>
    BY <2>4 DEF Sending, Deliver, DeliverFails, Retry, Abandon, Becomes
  <2>5. ASSUME NEW h, NEW R, Store(h, R) PROVE UNCHANGED <<queue, pub, late>>
    BY <2>5 DEF Store
  <2> QED BY <2>1, <2>2, <2>3, <2>4, <2>5 DEF Next, CreateWebhook, UpdateWebhook, DeleteWebhook
<1> QED BY <1>1, Unhurried, PublishKeepsRoom, DropKeepsRoom, TakeKeepsRoom, OthersKeepRoom

\* Publish drops the oldest event only when the channel, with the places that
\* other Publishes have cleared, is full, or when Run took an event
\* out since it looked (dispatcher.go, Publish).
THEOREM DropsOnlyForRoom == Spec => DropsMakeRoom
<1>1. Init => RoomInv
  BY DEF Init, RoomInv
<1>2. RoomInv /\ [Next]_vars =>
        [\A e \in Events :
            pub[e] = "full" /\ pub'[e] = "retry" =>
               e \in late \/ Len(queue) + Cardinality({x \in Events : pub[x] = "retry"}) >= QueueSize]_vars
  BY DEF RoomInv, Clearing
<1> QED BY <1>1, <1>2, RoomInductive, PTL DEF Spec, DropsMakeRoom

(***************************************************************************)
(* SentAsConfigured.                                                       *)
(***************************************************************************)
\* Events in the channel or with Run have been published, and of a published
\* event the history knows every row that it is for.
Published ==
    /\ queue \in Seq(Events) /\ pub = [e \in Events |-> pub[e]]
    /\ since = [e \in Events |-> since[e]] /\ hooks = [h \in Hooks |-> hooks[h]]
    /\ \A i \in 1..Len(queue) : pub[queue[i]] # "idle"
    /\ run.stage \in {"list", "send"} => run.evt \in Events /\ pub[run.evt] # "idle"

Known ==
    \A e \in Events : pub[e] # "idle" =>
        \A h \in Matched(e) : <<h, Signed(hooks[h])>> \in since[e]

\* What is about to be sent, and what is being sent, is in the history.
Recorded ==
    /\ run.stage = "send" => \A t \in run.to : <<t[1], Signed(t[2])>> \in since[run.evt]
    /\ \A d \in sending :
          /\ d = [evt |-> d.evt, hook |-> d.hook, row |-> d.row, attempt |-> d.attempt,
                  stage |-> d.stage]
          /\ d.evt \in Events /\ pub[d.evt] # "idle" /\ <<d.hook, Signed(d.row)>> \in since[d.evt]

SinceInv == Published /\ Known /\ Recorded

\* A Publish starts: what the event is for now is what the history starts with.
LEMMA AgentEventKeepsSince ==
  ASSUME SinceInv, NEW e \in Events, AgentEvent(e) PROVE SinceInv'
<1>1. /\ UNCHANGED <<hooks, queue, run, sending>> /\ pub[e] = "idle"
      /\ pub' = [pub EXCEPT ![e] = "try"]
      /\ since' = [since EXCEPT ![e] = {<<h, Signed(hooks[h])>> : h \in Matched(e)}]
  BY DEF AgentEvent, Unpublished
<1>2. \A x \in Events : Matched(x)' = Matched(x)
  BY <1>1 DEF Matched
<1>3. /\ pub' = [x \in Events |-> pub'[x]] /\ since' = [x \in Events |-> since'[x]]
      /\ \A x \in Events : pub[x] # "idle" => x # e
      /\ \A x \in Events : x # e => pub'[x] = pub[x] /\ since'[x] = since[x]
      /\ since'[e] = {<<h, Signed(hooks[h])>> : h \in Matched(e)}
  BY <1>1 DEF SinceInv, Published, Known, Recorded
<1>4. \A x \in Events : pub[x] # "idle" => pub'[x] # "idle"
  BY <1>3
<1>5. \A x \in Events : pub'[x] # "idle" =>
         \A h \in Matched(x) : <<h, Signed(hooks[h])>> \in since'[x]
  BY <1>3 DEF SinceInv, Published, Known, Recorded
<1>6. \A i \in 1..Len(queue) : queue[i] \in Events
  BY DEF SinceInv, Published, Known, Recorded
<1>7. Published'
  BY <1>1, <1>3, <1>4, <1>6 DEF SinceInv, Published
<1>8. Known'
  BY <1>1, <1>2, <1>5 DEF Known
<1>9. Recorded'
  BY <1>1, <1>3, <1>4 DEF SinceInv, Published, Recorded
<1> QED BY <1>7, <1>8, <1>9 DEF SinceInv

\* A step of Publish, or Run taking an event out, moves events that were
\* published.
LEMMA ChannelKeepsSince ==
  ASSUME SinceInv, Take \/ \E e \in Events : Publishing(e) PROVE SinceInv'
<1>1. UNCHANGED <<hooks, sending, since>>
  BY DEF Take, Publishing, Publish, Full, DropOldest, Unpublished
<1>2. \A x \in Events : Matched(x)' = Matched(x)
  BY <1>1 DEF Matched
<1>3. /\ pub' = [x \in Events |-> pub'[x]]
      /\ \A x \in Events : pub'[x] # "idle" <=> pub[x] # "idle"
  BY DEF SinceInv, Published, Known, Recorded, Take, Publishing, Publish, Full, DropOldest
<1>4. queue' \in Seq(Events) /\ \A i \in 1..Len(queue') : pub[queue'[i]] # "idle"
  <2>1. CASE queue' = queue
    BY <2>1 DEF SinceInv, Published, Known, Recorded
  <2>2. CASE queue # <<>> /\ queue' = Tail(queue)
    BY <2>2 DEF SinceInv, Published, Known, Recorded
  <2>3. ASSUME NEW e \in Events, pub[e] # "idle", queue' = Append(queue, e)
        PROVE  queue' \in Seq(Events) /\ \A i \in 1..Len(queue') : pub[queue'[i]] # "idle"
    BY <2>3 DEF SinceInv, Published, Known, Recorded
  <2> QED BY <2>1, <2>2, <2>3 DEF Take, Publishing, Publish, Full, DropOldest
<1>5. \/ run' = run
      \/ queue # <<>> /\ run' = [stage |-> "list", evt |-> Head(queue)]
  BY DEF Take, Publishing, Publish, Full, DropOldest, Unpublished
<1>6. run'.stage \in {"list", "send"} => run'.evt \in Events /\ pub[run'.evt] # "idle"
  BY <1>5 DEF SinceInv, Published, Known, Recorded
<1>7. \A i \in 1..Len(queue') : queue'[i] \in Events
  BY <1>4
<1>8. Published'
  BY <1>1, <1>3, <1>4, <1>6, <1>7 DEF SinceInv, Published
<1>9. Known'
  BY <1>1, <1>2, <1>3 DEF SinceInv, Known
<1>10. Recorded'
  BY <1>1, <1>3, <1>5 DEF SinceInv, Recorded
<1> QED BY <1>8, <1>9, <1>10 DEF SinceInv

\* ListWebhooks reads the rows that the history knows.
LEMMA RunKeepsSince ==
  ASSUME SinceInv, ListWebhooks \/ ListFails \/ dispatch \/ Done \/ Return PROVE SinceInv'
<1>1. UNCHANGED <<hooks, queue, pub, since>>
  BY DEF ListWebhooks, ListFails, dispatch, Done, Return
<1>2. \A x \in Events : Matched(x)' = Matched(x)
  BY <1>1 DEF Matched
<1>3. CASE ListWebhooks
  <2>1. /\ run.evt \in Events /\ pub[run.evt] # "idle" /\ sending' = sending
        /\ run' = [stage |-> "send", evt |-> run.evt,
                   to |-> {<<h, hooks[h]>> : h \in Matched(run.evt)}]
    BY <1>3 DEF ListWebhooks, SinceInv, Published, Known, Recorded
  <2>2. \A t \in run'.to : <<t[1], Signed(t[2])>> \in since[run.evt]
    <3>1. \A h \in Matched(run.evt) : <<h, Signed(hooks[h])>> \in since[run.evt]
      BY <2>1 DEF SinceInv, Known
    <3>2. run'.to = {<<h, hooks[h]>> : h \in Matched(run.evt)}
      BY <2>1
    <3> QED BY <3>1, <3>2
  <2> QED BY <1>1, <1>2, <2>1, <2>2 DEF SinceInv, Published, Known, Recorded
<1>4. CASE ListFails \/ Done \/ Return
  <2>1. sending' = sending /\ run'.stage \notin {"list", "send"}
    BY <1>4 DEF ListFails, Done, Return
  <2>2. Published'
    BY <1>1, <2>1 DEF SinceInv, Published
  <2>3. Known'
    BY <1>1, <1>2 DEF SinceInv, Known
  <2>4. Recorded'
    BY <1>1, <2>1 DEF SinceInv, Recorded
  <2> QED BY <2>2, <2>3, <2>4 DEF SinceInv
<1>5. CASE dispatch
  <2>1. ASSUME NEW d \in sending', d \notin sending
        PROVE  /\ d = [evt |-> d.evt, hook |-> d.hook, row |-> d.row, attempt |-> d.attempt,
                       stage |-> d.stage]
               /\ d.evt \in Events /\ pub[d.evt] # "idle" /\ <<d.hook, Signed(d.row)>> \in since[d.evt]
    BY <1>5, <2>1 DEF dispatch, SinceInv, Published, Known, Recorded
  <2> QED BY <1>1, <1>2, <1>5, <2>1 DEF dispatch, SinceInv, Published, Known, Recorded
<1> QED BY <1>3, <1>4, <1>5

\* A delivery keeps the row it was started with.
LEMMA SendingKeepsSince ==
  ASSUME SinceInv, NEW d \in sending, Sending(d) PROVE SinceInv'
<1>1. PICK stage, attempt : Becomes(d, stage, attempt)
  BY DEF Sending, Deliver, DeliverFails, Retry, Abandon
<1>2. UNCHANGED <<hooks, queue, pub, run, since>>
  BY <1>1 DEF Becomes
<1>3. \A x \in Events : Matched(x)' = Matched(x)
  BY <1>2 DEF Matched
<1>4. ASSUME NEW c \in sending', c \notin sending
      PROVE  /\ c = [evt |-> c.evt, hook |-> c.hook, row |-> c.row, attempt |-> c.attempt,
                     stage |-> c.stage]
             /\ c.evt \in Events /\ pub[c.evt] # "idle" /\ <<c.hook, Signed(c.row)>> \in since[c.evt]
  <2>1. c = [d EXCEPT !.stage = stage, !.attempt = attempt]
    BY <1>1, <1>4 DEF Becomes
  <2>2. d = [evt |-> d.evt, hook |-> d.hook, row |-> d.row, attempt |-> d.attempt,
             stage |-> d.stage]
    BY DEF SinceInv, Published, Known, Recorded
  <2>3. c = [evt |-> d.evt, hook |-> d.hook, row |-> d.row, attempt |-> attempt, stage |-> stage]
    BY <2>1, <2>2
  <2> QED BY <2>3 DEF SinceInv, Published, Known, Recorded
<1> QED BY <1>2, <1>3, <1>4 DEF SinceInv, Published, Known, Recorded

\* A row that is stored is added to the history of the events it is for.
LEMMA StoreKeepsSince ==
  ASSUME SinceInv, NEW h \in Hooks, NEW R, Store(h, R) PROVE SinceInv'
<1>1. /\ UNCHANGED <<queue, pub, run, sending>> /\ hooks' = [hooks EXCEPT ![h] = R]
      /\ since' = [e \in Events |->
                      IF pub[e] # "idle" /\ R # None /\ R.enabled /\ Type[e] \in R.events
                      THEN since[e] \cup {<<h, Signed(R)>>} ELSE since[e]]
  BY DEF Store
<1>2. /\ hooks' = [g \in Hooks |-> hooks'[g]] /\ since' = [e \in Events |-> since'[e]]
      /\ hooks'[h] = R /\ \A g \in Hooks : g # h => hooks'[g] = hooks[g]
      /\ \A e \in Events : since[e] \subseteq since'[e]
  BY <1>1 DEF SinceInv, Published, Known, Recorded
<1>3. ASSUME NEW e \in Events, pub[e] # "idle", NEW g \in Matched(e)'
      PROVE  <<g, Signed(hooks'[g])>> \in since'[e]
  <2>1. g \in Hooks /\ hooks'[g] # None /\ hooks'[g].enabled /\ Type[e] \in hooks'[g].events
    BY <1>3 DEF Matched
  <2>2. CASE g = h
    BY <1>1, <1>2, <1>3, <2>1, <2>2
  <2>3. CASE g # h
    <3>1. g \in Matched(e) /\ hooks'[g] = hooks[g]
      BY <1>2, <2>1, <2>3 DEF Matched
    <3> QED BY <1>2, <1>3, <3>1 DEF SinceInv, Published, Known, Recorded
  <2> QED BY <2>2, <2>3
<1> QED BY <1>1, <1>2, <1>3 DEF SinceInv, Published, Known, Recorded

\* Every step keeps SinceInv.
LEMMA SinceInductive == SinceInv /\ [Next]_vars => SinceInv'
<1> SUFFICES ASSUME SinceInv, [Next]_vars PROVE SinceInv' OBVIOUS
<1>1. CASE UNCHANGED vars \/ Cancel
  <2>1. UNCHANGED <<hooks, queue, pub, run, sending, since>>
    BY <1>1 DEF vars, Cancel
  <2> QED BY <2>1 DEF SinceInv, Published, Known, Recorded, Matched
<1>2. CASE \E e \in Events : AgentEvent(e) \/ Publishing(e)
  BY <1>2, AgentEventKeepsSince, ChannelKeepsSince
<1>3. CASE Running
  BY <1>3, ChannelKeepsSince, RunKeepsSince DEF Running
<1>4. CASE \E d \in sending : Sending(d)
  BY <1>4, SendingKeepsSince
<1>5. ASSUME NEW h \in Hooks,
             \/ \E R \in Rows : CreateWebhook(h, R)
             \/ \E p \in Patches : UpdateWebhook(h, p)
             \/ DeleteWebhook(h)
      PROVE  SinceInv'
  <2>1. \E R : Store(h, R)
    BY <1>5 DEF CreateWebhook, UpdateWebhook, DeleteWebhook
  <2> QED BY <2>1, StoreKeepsSince
<1> QED BY <1>1, <1>2, <1>3, <1>4, <1>5 DEF Next

\* Whatever is edited meanwhile, a request carries the URL and key that the
\* webhook's row had while it was enabled and subscribed, at one moment since
\* the event was published (dispatch, Deliver, UpdateWebhook).
THEOREM RequestsAsConfigured == Spec => []SentAsConfigured
<1>1. Init => SinceInv
  BY DEF Init, SinceInv, Published, Known, Recorded
<1>2. SinceInv => SentAsConfigured
  BY DEF SinceInv, Recorded, SentAsConfigured
<1> QED BY <1>1, <1>2, SinceInductive, PTL DEF Spec

=============================================================================
