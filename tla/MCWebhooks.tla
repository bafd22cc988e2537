----------------------------- MODULE MCWebhooks -----------------------------
(***************************************************************************)
(* Three events of two types, a webhook with a secret that is there or may *)
(* be created, and a channel of two places.                                *)
(***************************************************************************)
EXTENDS Webhooks

CONSTANTS e1, e2, e3, h1, u1, u2, s1

MCType == [e \in {e1, e2, e3} |-> IF e = e3 THEN "unhealthy" ELSE "offline"]

MCRows ==
    {[channel |-> "generic", url |-> u1, events |-> {"offline"}, secret |-> s1, enabled |-> TRUE]}

Patch == [channel |-> None, url |-> None, events |-> None, secret |-> None, enabled |-> None]

MCPatches ==
    {[Patch EXCEPT !.enabled = FALSE], [Patch EXCEPT !.url = u2, !.secret = "none"],
     [Patch EXCEPT !.channel = "slack", !.events = {"offline", "unhealthy"}]}

=============================================================================
