----------------------------- MODULE GatewayAuth -----------------------------
(***************************************************************************)
(* API keys and their validation at a gateway: the tenantauth extension    *)
(* with its LRU cache (collector/extension/tenantauth), the AuthService it *)
(* asks (internal/ingestauth), and the changes to keys and customers that  *)
(* must reach it (internal/store/pg.go).                                   *)
(*                                                                         *)
(* Requests run concurrently.  Each takes the time once, looks into the    *)
(* cache and, on a miss, calls the control plane; the answer may be late,  *)
(* lost, or applied after the answer of a request that was sent later.     *)
(* A verdict is the tenant's rate limit, or Invalid.                       *)
(***************************************************************************)
EXTENDS ApiKeys, Integers, Sequences, SequencesExt

CONSTANTS
    Customers, Limits, Requests,
    Owner,         \* [Keys -> Customers]
    Expiry,        \* [Keys -> Nat \cup {None}]: expires_at
    TTL, NegativeTTL, StaleIfError, MaxEntries,  \* CacheConfig
    ServerTTL,     \* cacheTTLSeconds
    Timeout,       \* validateTimeout
    Invalid,
    MaxChanges     \* bound: changes to keys and customers

Verdicts == Limits \cup {Invalid}
Entry == [verdict : Verdicts, fresh : Nat, stale : Nat]

ASSUME ConstantsTyped ==
    /\ Owner \in [Keys -> Customers] /\ Expiry \in [Keys -> Nat \cup {None}]
    /\ Limits \subseteq Nat /\ Invalid \notin Limits /\ None \notin Nat
    /\ None \notin Entry
    /\ ServerTTL \in Nat /\ StaleIfError \in Nat /\ Timeout \in Nat
    /\ MaxChanges \in Nat

\* Config.Validate.
ASSUME ConfigValid ==
    TTL \in Nat \ {0} /\ NegativeTTL \in Nat \ {0} /\ MaxEntries \in Nat \ {0}

VARIABLES
    key,       \* api_keys: absent, being created, active or revoked
    status, limit,  \* customers
    entry,     \* keyCache.items: the entry of a key, or None
    lru,       \* keyCache.ll, the most recently used key first
    pc, rkey, rnow, resp,  \* a request: where it is, its key, its now, the answer
    decision,  \* history: what the last step decided, or None
    seen,      \* history: when the control plane last stood by a verdict
    changes

db == <<key, status, limit>>
cache == <<entry, lru>>
request == <<pc, rkey, rnow, resp>>
vars == <<clock, db, cache, request, decision, seen, changes>>

\* The verdict of ValidateAPIKey on a key.
Verdict(k) ==
    IF /\ key[k] = "active"
       /\ Expiry[k] = None \/ clock < Expiry[k]
       /\ status[Owner[k]] = "active"
    THEN limit[Owner[k]] ELSE Invalid

Observe ==
    seen' = [k \in Keys |-> [v \in Verdicts |->
                IF v = Verdict(k)' THEN clock' ELSE seen[k][v]]]

Init ==
    /\ clock = 0 /\ changes = 0
    /\ key \in [Keys -> {"absent", "active"}]
    /\ status = [c \in Customers |-> "active"] /\ limit \in [Customers -> Limits]
    /\ entry = [k \in Keys |-> None] /\ lru = <<>>
    /\ pc = [r \in Requests |-> "idle"] /\ rkey = [r \in Requests |-> None]
    /\ rnow = [r \in Requests |-> 0] /\ resp = [r \in Requests |-> Invalid]
    /\ decision = None
    /\ seen = [k \in Keys |-> [v \in Verdicts |->
                  IF v = Verdict(k) THEN 0 ELSE None]]

\* Time passes; a call to the control plane ends by its deadline.
Tick ==
    /\ clock < Horizon
    /\ \A r \in Requests : pc[r] # "idle" => clock < rnow[r] + Timeout
    /\ clock' = clock + 1 /\ decision' = None
    /\ UNCHANGED <<db, cache, request, changes>>
    /\ Observe

-----------------------------------------------------------------------------
(* The control plane's side.                                               *)

Change ==
    /\ changes < MaxChanges /\ changes' = changes + 1
    /\ decision' = None
    /\ UNCHANGED <<clock, cache, request>>
    /\ Observe

\* CreateAPIKey looks the customer up before its transaction...
CreateAPIKey(k) ==
    /\ key[k] = "absent" /\ status[Owner[k]] # "deleted"
    /\ key' = [key EXCEPT ![k] = "creating"] /\ UNCHANGED <<status, limit>>
    /\ Change

\* ... which inserts the key.
insertAPIKey(k) ==
    /\ key[k] = "creating"
    /\ key' = [key EXCEPT ![k] = "active"] /\ UNCHANGED <<status, limit>>
    /\ Change

RevokeAPIKey(k) ==
    /\ key[k] = "active"
    /\ key' = [key EXCEPT ![k] = "revoked"] /\ UNCHANGED <<status, limit>>
    /\ Change

UpdateCustomer(c, s, l) ==
    /\ status[c] # "deleted"
    /\ status' = [status EXCEPT ![c] = s] /\ limit' = [limit EXCEPT ![c] = l]
    /\ UNCHANGED key /\ Change

\* The customer and its keys, in one transaction.
SoftDeleteCustomer(c) ==
    /\ status[c] # "deleted"
    /\ status' = [status EXCEPT ![c] = "deleted"]
    /\ key' = [k \in Keys |-> IF Owner[k] = c /\ key[k] = "active"
                              THEN "revoked" ELSE key[k]]
    /\ UNCHANGED limit /\ Change

\* The AuthService answers a call.
ValidateAPIKey(r) ==
    /\ pc[r] = "rpc"
    /\ pc' = [pc EXCEPT ![r] = "answer"]
    /\ resp' = [resp EXCEPT ![r] = Verdict(rkey[r])]
    /\ decision' = None
    /\ UNCHANGED <<clock, db, cache, rkey, rnow, seen, changes>>

-----------------------------------------------------------------------------
(* The extension's side.                                                   *)

\* list.List.MoveToFront, with the element that the map has for a key.
MoveToFront(k) == <<k>> \o RemoveAt(lru, CHOOSE i \in DOMAIN lru : lru[i] = k)

\* keyCache.get moves an entry to the front.
Touch(k) ==
    lru' = IF entry[k] = None THEN lru ELSE MoveToFront(k)

\* Mutant: the oldest entry stays in the map.
PutKeepsOldest(k, e) ==
    LET l == IF entry[k] = None THEN <<k>> \o lru ELSE MoveToFront(k) IN
    /\ lru' = IF Len(l) > MaxEntries THEN Front(l) ELSE l
    /\ entry' = [entry EXCEPT ![k] = e]

\* keyCache.put: an entry that is there moves to the front, a new one is pushed
\* there, and the oldest one over MaxEntries goes.
Put(k, e) ==
    LET l == <<k>> \o lru
        full == Len(l) > MaxEntries IN
    \/ /\ entry[k] # None
       /\ lru' = MoveToFront(k) /\ entry' = [entry EXCEPT ![k] = e]
    \/ /\ entry[k] = None
       /\ lru' = IF full THEN Front(l) ELSE l
       /\ entry' = [j \in Keys |-> IF j = k THEN e
                                   ELSE IF full /\ j = Last(l) THEN None ELSE entry[j]]

\* The server may shorten the lifetime of a positive entry.
PositiveTTL == IF ServerTTL > 0 /\ ServerTTL < TTL THEN ServerTTL ELSE TTL

\* Mutants: an entry lives from the time of the answer; the stale period starts
\* when the entry expires; a rejection lives as long as an acceptance; a
\* lifetime is subtracted.
EntryFromAnswer(now, v) ==
    IF v = Invalid THEN [verdict |-> v, fresh |-> clock + NegativeTTL, stale |-> 0]
    ELSE [verdict |-> v, fresh |-> clock + PositiveTTL, stale |-> clock + StaleIfError]

EntryStaleAfterFresh(now, v) ==
    IF v = Invalid THEN [verdict |-> v, fresh |-> now + NegativeTTL, stale |-> 0]
    ELSE [verdict |-> v, fresh |-> now + PositiveTTL,
          stale |-> now + PositiveTTL + StaleIfError]

EntryOneTTL(now, v) ==
    IF v = Invalid THEN [verdict |-> v, fresh |-> now + TTL, stale |-> 0]
    ELSE [verdict |-> v, fresh |-> now + PositiveTTL, stale |-> now + StaleIfError]

EntryBackdated(now, v) ==
    IF v = Invalid THEN [verdict |-> v, fresh |-> now - NegativeTTL, stale |-> 0]
    ELSE [verdict |-> v, fresh |-> now + PositiveTTL, stale |-> now + StaleIfError]

\* cacheEntry: until when it is fresh, and until when it may be served stale.
\* Both count from the time the request took before its call.
cacheEntry(now, v) ==
    IF v = Invalid THEN [verdict |-> v, fresh |-> now + NegativeTTL, stale |-> 0]
    ELSE [verdict |-> v, fresh |-> now + PositiveTTL, stale |-> now + StaleIfError]

Decide(k, v, how) == decision' = [key |-> k, verdict |-> v, via |-> how]

\* Authenticate, up to the call: a fresh entry decides.
Authenticate(r, k) ==
    LET e == entry[k] IN
    /\ pc[r] = "idle" /\ Touch(k)
    /\ \/ /\ e # None /\ clock < e.fresh
          /\ Decide(k, e.verdict, "cache") /\ UNCHANGED request
       \/ /\ e # None => clock >= e.fresh
          /\ pc' = [pc EXCEPT ![r] = "rpc"] /\ rkey' = [rkey EXCEPT ![r] = k]
          /\ rnow' = [rnow EXCEPT ![r] = clock]
          /\ decision' = None /\ UNCHANGED resp
    /\ UNCHANGED <<clock, db, entry, seen, changes>>

\* The request is over; its locals go.
Return(r) ==
    /\ pc' = [pc EXCEPT ![r] = "idle"] /\ rkey' = [rkey EXCEPT ![r] = None]
    /\ rnow' = [rnow EXCEPT ![r] = 0] /\ resp' = [resp EXCEPT ![r] = Invalid]

\* Authenticate, with the answer.
Answered(r) ==
    /\ pc[r] = "answer" /\ Return(r)
    /\ Put(rkey[r], cacheEntry(rnow[r], resp[r]))
    /\ Decide(rkey[r], resp[r], "rpc")
    /\ UNCHANGED <<clock, db, seen, changes>>

\* Authenticate, with an error: the control plane or its database cannot be
\* reached, or the call or its answer is lost or late.
Unavailable(r) ==
    LET e == entry[rkey[r]] IN
    /\ pc[r] \in {"rpc", "answer"} /\ Return(r) /\ Touch(rkey[r])
    /\ \/ /\ e # None /\ e.verdict # Invalid /\ rnow[r] < e.stale
          /\ Decide(rkey[r], e.verdict, "stale")
       \/ /\ e # None => e.verdict = Invalid \/ rnow[r] >= e.stale
          /\ decision' = None
    /\ UNCHANGED <<clock, db, entry, seen, changes>>

Next ==
    \/ Tick
    \/ \E k \in Keys : CreateAPIKey(k) \/ insertAPIKey(k) \/ RevokeAPIKey(k)
    \/ \E c \in Customers :
          \/ \E s \in {"active", "suspended"}, l \in Limits : UpdateCustomer(c, s, l)
          \/ SoftDeleteCustomer(c)
    \/ \E r \in Requests :
          \/ \E k \in Keys : Authenticate(r, k)
          \/ ValidateAPIKey(r) \/ Answered(r) \/ Unavailable(r)

Spec == Init /\ [][Next]_vars

-----------------------------------------------------------------------------
(* Properties.                                                             *)

\* Type invariant.
TypeOK ==
    /\ clock \in Nat /\ changes \in Nat
    /\ key \in [Keys -> {"absent", "creating", "active", "revoked"}]
    /\ status \in [Customers -> {"active", "suspended", "deleted"}]
    /\ limit \in [Customers -> Limits]
    /\ entry \in [Keys -> Entry \cup {None}] /\ lru \in Seq(Keys)
    /\ pc \in [Requests -> {"idle", "rpc", "answer"}]
    /\ rkey \in [Requests -> Keys \cup {None}]
    /\ rnow \in [Requests -> Nat] /\ resp \in [Requests -> Verdicts]
    /\ \A r \in Requests : pc[r] # "idle" => rkey[r] \in Keys
    /\ decision \in [key : Keys, verdict : Verdicts,
                     via : {"cache", "rpc", "stale"}] \cup {None}
    /\ seen \in [Keys -> [Verdicts -> Nat \cup {None}]]

\* The list and the map of the cache agree, and hold at most MaxEntries keys.
CacheConsistent ==
    /\ Len(lru) <= MaxEntries
    /\ \A i, j \in DOMAIN lru : lru[i] = lru[j] => i = j
    /\ {k \in Keys : entry[k] # None} = ToSet(lru)

\* The control plane stood by verdict v on k less than d ago.
Within(k, v, d) == seen[k][v] \in Nat /\ clock < seen[k][v] + d

\* What a call returns is at most Timeout old, what a fresh entry returns less
\* than its lifetime.
Timely(k, v, ttl) == Within(k, v, ttl) \/ Within(k, v, Timeout + 1)

Accepts == decision # None /\ decision.verdict # Invalid

\* Whatever the order in which answers are applied, a key is accepted without an
\* error of the control plane, and with some rate limit, only if this was its
\* verdict less than the positive TTL ago: revocation, expiry, suspension and a
\* new limit reach the gateway within the TTL.
AcceptedWithinTTL ==
    Accepts /\ decision.via # "stale" =>
        Timely(decision.key, decision.verdict, PositiveTTL)

\* Failing open ends: an entry is served on an error only if it was the verdict
\* less than stale_if_error ago, when the request started.
StaleWithinLimit ==
    Accepts /\ decision.via = "stale" =>
        Within(decision.key, decision.verdict, StaleIfError + Timeout)

\* A key that becomes valid, or valid again, is accepted after the negative TTL,
\* however late the answer that rejected it was applied.
RejectedWithinNegativeTTL ==
    decision # None /\ ~Accepts => Timely(decision.key, Invalid, NegativeTTL)

=============================================================================
