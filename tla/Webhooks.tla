------------------------------ MODULE Webhooks ------------------------------
(***************************************************************************)
(* The webhook dispatcher (internal/webhooks/dispatcher.go) and the table  *)
(* it reads.  OpAMP callbacks publish fleet events into a bounded channel, *)
(* dropping the oldest one when it is full; Run takes them out one by one, *)
(* reads the webhooks and starts a goroutine for every delivery, which     *)
(* retries on its own; admins edit the webhooks meanwhile, and the process *)
(* shuts down.  An event is published by a goroutine of its own and stands *)
(* for its type and payload.                                               *)
(***************************************************************************)
EXTENDS Naturals, Sequences, FiniteSets

CONSTANTS
    Events,         \* the events that are published
    Type,           \* the type of an event
    Hooks,          \* webhook ids
    Rows,           \* the rows that CreateWebhook may insert
    Patches,        \* the bodies of UpdateWebhook
    QueueSize,      \* the capacity of the channel
    Backoffs,       \* the number of retries
    MaxEdits,       \* bound: changes to the table
    MaxFailures,    \* bound: attempts that fail
    None

Channels == {"generic", "slack"}

Types == {Type[e] : e \in Events}

Row(R) == /\ R.channel \in Channels /\ R.events \in (SUBSET Types) \ {{}}
          /\ R.enabled \in BOOLEAN

ASSUME WebhookConstants ==
    /\ IsFiniteSet(Events) /\ QueueSize \in Nat \ {0}
    /\ Backoffs \in Nat /\ MaxEdits \in Nat /\ MaxFailures \in Nat
    /\ \A R \in Rows : Row(R) /\ (R.channel = "slack" => R.secret = None)

VARIABLES
    hooks,      \* the table: a row for a webhook, or None
    queue,      \* the channel
    pub,        \* where the Publish of an event is
    run,        \* what Run is doing
    sending,    \* the deliveries that were started
    cancelled,  \* the context of Run is done
    edits, failures,
    late,       \* history: Publishes that found the channel full before Run took from it
    lost,       \* history: events that were dropped or not looked up
    since       \* history: what was to be sent to whom since an event was published

vars == <<hooks, queue, pub, run, sending, cancelled, edits, failures, late, lost, since>>

(***************************************************************************)
(* Publish: two selects in a loop.  "retry" is "try" again, by a Publish   *)
(* that took an event out and has not put its own in.                      *)
(***************************************************************************)
Unpublished == UNCHANGED <<hooks, run, sending, cancelled, edits, failures>>

\* The rows that an event is for.
Matched(e) ==
    {h \in Hooks : hooks[h] # None /\ hooks[h].enabled /\ Type[e] \in hooks[h].events}

\* What a request to the webhook carries: Slack does not verify signatures.
Signed(R) == [url |-> R.url, key |-> IF R.channel = "slack" THEN None ELSE R.secret]

AgentEvent(e) ==
    /\ pub[e] = "idle"
    /\ pub' = [pub EXCEPT ![e] = "try"]
    /\ since' = [since EXCEPT ![e] = {<<h, Signed(hooks[h])>> : h \in Matched(e)}]
    /\ Unpublished /\ UNCHANGED <<queue, late, lost>>

Publish(e) ==
    /\ pub[e] \in {"try", "retry"} /\ Len(queue) < QueueSize
    /\ queue' = Append(queue, e)
    /\ pub' = [pub EXCEPT ![e] = "done"]
    /\ Unpublished /\ UNCHANGED <<late, lost, since>>

\* Mutant: the last place counts as taken.
FullEarly(e) ==
    /\ pub[e] \in {"try", "retry"} /\ Len(queue) >= QueueSize - 1
    /\ pub' = [pub EXCEPT ![e] = "full"]
    /\ Unpublished /\ UNCHANGED <<queue, late, lost, since>>

\* Mutant: a Publish that finds the channel full waits for room.
FullWaits(e) == FALSE /\ pub' = pub

Full(e) ==
    /\ pub[e] \in {"try", "retry"} /\ Len(queue) >= QueueSize
    /\ pub' = [pub EXCEPT ![e] = "full"]
    /\ Unpublished /\ UNCHANGED <<queue, late, lost, since>>

DropOldest(e) ==
    /\ pub[e] = "full"
    /\ IF queue = <<>>
       THEN /\ pub' = [pub EXCEPT ![e] = "try"]    \* Run already made room
            /\ UNCHANGED <<queue, lost>>
       ELSE /\ pub' = [pub EXCEPT ![e] = "retry"]
            /\ queue' = Tail(queue) /\ lost' = lost \cup {Head(queue)}
    /\ late' = late \ {e}
    /\ Unpublished /\ UNCHANGED since

(***************************************************************************)
(* Run and dispatch.                                                       *)
(***************************************************************************)
Take ==
    /\ run.stage = "idle" /\ queue # <<>>
    /\ run' = [stage |-> "list", evt |-> Head(queue)]
    /\ queue' = Tail(queue)
    /\ late' = late \cup {e \in Events : pub[e] = "full"}
    /\ UNCHANGED <<hooks, pub, sending, cancelled, edits, failures, lost, since>>

\* Mutant: a webhook that is disabled is notified too.
ListDisabled ==
    /\ run.stage = "list" /\ ~cancelled
    /\ run' = [stage |-> "send", evt |-> run.evt,
               to |-> {<<h, hooks[h]>> : h \in {g \in Hooks : hooks[g] # None
                                                /\ Type[run.evt] \in hooks[g].events}}]
    /\ UNCHANGED <<hooks, queue, pub, sending, cancelled, edits, failures, late, lost, since>>

\* The webhooks as they are now; the payload is built from a later query.
ListWebhooks ==
    /\ run.stage = "list" /\ ~cancelled
    /\ run' = [stage |-> "send", evt |-> run.evt,
               to |-> {<<h, hooks[h]>> : h \in Matched(run.evt)}]
    /\ UNCHANGED <<hooks, queue, pub, sending, cancelled, edits, failures, late, lost, since>>

\* The query fails, as it does once the context is done: the event is lost.
ListFails ==
    /\ run.stage = "list"
    /\ cancelled \/ failures < MaxFailures
    /\ failures' = IF cancelled THEN failures ELSE failures + 1
    /\ run' = [stage |-> "idle"] /\ lost' = lost \cup {run.evt}
    /\ UNCHANGED <<hooks, queue, pub, sending, cancelled, edits, late, since>>

dispatch ==
    /\ run.stage = "send"
    /\ sending' = sending \cup {[evt |-> run.evt, hook |-> t[1], row |-> t[2], attempt |-> 0,
                                 stage |-> "deliver"] : t \in run.to}
    /\ run' = [stage |-> "idle"]
    /\ UNCHANGED <<hooks, queue, pub, cancelled, edits, failures, late, lost, since>>

Cancel ==
    /\ ~cancelled /\ cancelled' = TRUE
    /\ UNCHANGED <<hooks, queue, pub, run, sending, edits, failures, late, lost, since>>

\* The select takes this branch or, while there are events, the other one.
Done ==
    /\ run.stage = "idle" /\ cancelled /\ run' = [stage |-> "stopping"]
    /\ UNCHANGED <<hooks, queue, pub, sending, cancelled, edits, failures, late, lost, since>>

\* Once the deliveries have ended, or after five seconds.
Return ==
    /\ run.stage = "stopping" /\ run' = [stage |-> "returned"]
    /\ UNCHANGED <<hooks, queue, pub, sending, cancelled, edits, failures, late, lost, since>>

(***************************************************************************)
(* One delivery.                                                           *)
(***************************************************************************)
Becomes(d, stage, attempt) ==
    /\ sending' = (sending \ {d}) \cup {[d EXCEPT !.stage = stage, !.attempt = attempt]}
    /\ UNCHANGED <<hooks, queue, pub, run, cancelled, edits, late, lost, since>>

\* The receiver answers: 2xx is a success, anything else below 500 a verdict.
Deliver(d) ==
    /\ d.stage = "deliver" /\ ~cancelled
    /\ \E answer \in {"delivered", "rejected"} : Becomes(d, answer, d.attempt)
    /\ UNCHANGED failures

\* Mutant: one retry too few.
GivesUpEarly(d) ==
    /\ d.stage = "deliver"
    /\ cancelled \/ failures < MaxFailures
    /\ failures' = IF cancelled THEN failures ELSE failures + 1
    /\ IF d.attempt + 1 >= Backoffs THEN Becomes(d, "failed", d.attempt)
       ELSE Becomes(d, "wait", d.attempt)

\* A network error, a timeout, 5xx, a secret that cannot be decrypted, or the
\* end of the context.
DeliverFails(d) ==
    /\ d.stage = "deliver"
    /\ cancelled \/ failures < MaxFailures
    /\ failures' = IF cancelled THEN failures ELSE failures + 1
    /\ IF d.attempt >= Backoffs THEN Becomes(d, "failed", d.attempt)
       ELSE Becomes(d, "wait", d.attempt)

Retry(d) ==
    /\ d.stage = "wait" /\ Becomes(d, "deliver", d.attempt + 1) /\ UNCHANGED failures

Abandon(d) ==
    /\ d.stage = "wait" /\ cancelled /\ Becomes(d, "failed", d.attempt) /\ UNCHANGED failures

(***************************************************************************)
(* The table, edited through the API.                                      *)
(***************************************************************************)
Store(h, R) ==
    /\ edits < MaxEdits /\ edits' = edits + 1
    /\ hooks' = [hooks EXCEPT ![h] = R]
    /\ since' = [e \in Events |->
                    IF pub[e] # "idle" /\ R # None /\ R.enabled /\ Type[e] \in R.events
                    THEN since[e] \cup {<<h, Signed(R)>>} ELSE since[e]]
    /\ UNCHANGED <<queue, pub, run, sending, cancelled, failures, late, lost>>

CreateWebhook(h, R) == hooks[h] = None /\ Store(h, R)

\* COALESCE for every column: what the body leaves out stays, the secret too;
\* an empty secret ("none") removes it.
UpdateWebhook(h, p) ==
    /\ hooks[h] # None
    /\ Store(h, [channel |-> IF p.channel = None THEN hooks[h].channel ELSE p.channel,
                 url     |-> IF p.url = None THEN hooks[h].url ELSE p.url,
                 events  |-> IF p.events = None THEN hooks[h].events ELSE p.events,
                 secret  |-> CASE p.secret = None -> hooks[h].secret
                               [] p.secret = "none" -> None
                               [] OTHER -> p.secret,
                 enabled |-> IF p.enabled = None THEN hooks[h].enabled ELSE p.enabled])

DeleteWebhook(h) == hooks[h] # None /\ Store(h, None)

Init ==
    /\ hooks \in [Hooks -> Rows \cup {None}]
    /\ queue = <<>> /\ pub = [e \in Events |-> "idle"]
    /\ run = [stage |-> "idle"] /\ sending = {} /\ cancelled = FALSE
    /\ edits = 0 /\ failures = 0
    /\ late = {} /\ lost = {} /\ since = [e \in Events |-> {}]

Publishing(e) == Publish(e) \/ Full(e) \/ DropOldest(e)

Running == Take \/ ListWebhooks \/ ListFails \/ dispatch \/ Done \/ Return

Sending(d) == Deliver(d) \/ DeliverFails(d) \/ Retry(d) \/ Abandon(d)

Next ==
    \/ \E e \in Events : AgentEvent(e) \/ Publishing(e)
    \/ Running \/ Cancel
    \/ \E d \in sending : Sending(d)
    \/ \E h \in Hooks :
          \/ \E R \in Rows : CreateWebhook(h, R)
          \/ \E p \in Patches : UpdateWebhook(h, p)
          \/ DeleteWebhook(h)

Spec == Init /\ [][Next]_vars

\* Every goroutine goes on; the timers fire and an attempt ends within its
\* timeout.  Events, edits and the shutdown may never come.
FairSpec ==
    /\ Spec /\ WF_vars(Running)
    /\ \A e \in Events : WF_vars(Publishing(e))
    /\ \A e \in Events, h \in Hooks : WF_vars(\E d \in sending : d.evt = e /\ d.hook = h /\ Sending(d))

(***************************************************************************)
(* Properties.                                                             *)
(***************************************************************************)
\* A request goes to a webhook that was enabled and subscribed to the event
\* at some moment since the event was published, to the URL and with
\* the key that its row had at that moment, however the row is edited while
\* the event waits, is looked up or is retried (dispatch, Deliver).
SentAsConfigured ==
    \A d \in sending : <<d.hook, Signed(d.row)>> \in since[d.evt]

\* Publish drops an event only to make room: at that moment the channel, with the
\* places that other Publishes have just cleared for themselves, is full.
\* Only a Publish that looked before Run took an event out drops one too many.
DropsMakeRoom ==
    [][\A e \in Events :
          pub[e] = "full" /\ pub'[e] = "retry" =>
             e \in late \/ Len(queue) + Cardinality({x \in Events : pub[x] = "retry"}) >= QueueSize]_vars

\* Publish never blocks the OpAMP callback it runs in: it returns, also when
\* Run is busy with a query or has returned.
PublishReturns ==
    \A e \in Events : pub[e] # "idle" ~> pub[e] = "done"

\* Unless the process shuts down, an event that is neither dropped nor lost to
\* a failed query gets a verdict of every webhook it was sent to, because
\* fewer attempts fail than deliverWithRetry makes.
Delivered ==
    \A e \in Events :
        pub[e] = "done" ~>
            \/ cancelled \/ e \in lost
            \/ /\ e \notin {queue[i] : i \in DOMAIN queue}
               /\ run.stage \in {"list", "send"} => run.evt # e
               /\ \A d \in sending : d.evt = e => d.stage \in {"delivered", "rejected"}

=============================================================================
