----------------------------- MODULE TenantQuota -----------------------------
(***************************************************************************)
(* The tenantquota processor (collector/processor/tenantquota): one token  *)
(* bucket per tenant, shared by the pipelines of all signals, refilled     *)
(* lazily, resized when the limit that comes with a request differs, and   *)
(* collected when idle.                                                    *)
(*                                                                         *)
(* A request takes the time and then the mutex, so that takes may happen   *)
(* out of the order of their times.  Time is in units in which the limits  *)
(* and the sizes of batches are whole numbers of items.                    *)
(***************************************************************************)
EXTENDS Integers, FiniteSetsExt

CONSTANTS
    Tenants, Requests,
    Limits,        \* limits that come with requests; 0 is unlimited
    Batches,       \* sizes of batches
    BurstSeconds, IdleTimeout, GCInterval,
    Windows,       \* tenants and intervals of time, [tenant, from, to]
    None,
    MaxWait,       \* bound: how long a request waits for the mutex
    Horizon        \* bound: the clock

ASSUME ConstantsTyped ==
    /\ Limits \subseteq Nat /\ \E m \in Limits : \A l \in Limits : m >= l
    /\ Batches \subseteq Nat \ {0}
    /\ IdleTimeout \in Nat /\ GCInterval \in Nat
    /\ MaxWait \in Nat /\ Horizon \in Nat
    /\ Windows \subseteq [tenant : Tenants, from : Nat, to : Nat]
    /\ \A w \in Windows : w.from <= w.to
    /\ None \notin [tokens : Nat, rate : Nat, lastSeen : Nat]

\* Config.Validate.
ASSUME ConfigValid == BurstSeconds \in Nat \ {0}

VARIABLES
    clock,
    buckets,  \* registry.buckets: a record, or None
    lastGC,
    req,      \* requests between time.Now() and the mutex
    verdict,  \* the decision on the last batch
    window,   \* a tenant and an interval of time, chosen once
    sent,     \* history: items of the window's tenant admitted in the window
    skew,     \* history: by how much the tenant's lastSeen has moved back
    exact     \* history: every take came at its time, with the same limit

vars == <<clock, buckets, lastGC, req, verdict, window, sent, skew, exact>>

Rate == Max(Limits)
Capacity == Rate * BurstSeconds

Least(a, b) == Min({a, b})

Init ==
    /\ clock = 0 /\ buckets = [t \in Tenants |-> None] /\ lastGC = -GCInterval
    /\ req = [r \in Requests |-> None] /\ verdict = <<>>
    /\ window \in Windows
    /\ sent = 0 /\ skew = 0 /\ exact = TRUE

Tick ==
    /\ clock < Horizon
    /\ \A r \in Requests : req[r] # None => clock < req[r].now + MaxWait
    /\ clock' = clock + 1 /\ verdict' = <<>>
    /\ UNCHANGED <<buckets, lastGC, req, window, sent, skew, exact>>

\* Mutant: no limit is a limit of 0.
AdmitUnlimited(r, t, l, n) ==
    /\ req[r] = None
    /\ req' = [req EXCEPT ![r] = [tenant |-> t, limit |-> l, n |-> n, now |-> clock]]
    /\ UNCHANGED <<clock, buckets, lastGC, verdict, window, sent, skew, exact>>

\* admit: no limit passes; else take starts with the time.
admit(r, t, l, n) ==
    /\ req[r] = None /\ l > 0
    /\ req' = [req EXCEPT ![r] = [tenant |-> t, limit |-> l, n |-> n, now |-> clock]]
    /\ UNCHANGED <<clock, buckets, lastGC, verdict, window, sent, skew, exact>>

\* Mutant: the last use is not looked at.
CollectAll(now) ==
    IF now - lastGC < GCInterval THEN buckets ELSE [t \in Tenants |-> None]

\* maybeGC.
maybeGC(now) ==
    IF now - lastGC < GCInterval THEN buckets
    ELSE [t \in Tenants |->
            IF buckets[t] # None /\ now - buckets[t].lastSeen >= IdleTimeout
            THEN None ELSE buckets[t]]

\* Mutant: the sign of the elapsed time is lost.
RefillAbsolute(b, l, now) ==
    IF b = None THEN [tokens |-> l * BurstSeconds, rate |-> l, lastSeen |-> now]
    ELSE [tokens |-> Least(l * BurstSeconds, b.tokens
                           + Max({b.lastSeen - now, now - b.lastSeen}) * b.rate),
          rate |-> l, lastSeen |-> now]

\* The bucket at time now: a new one is full, an old one is refilled at its old
\* rate and cut to the new capacity.
refill(b, l, now) ==
    IF b = None THEN [tokens |-> l * BurstSeconds, rate |-> l, lastSeen |-> now]
    ELSE [tokens |-> Least(l * BurstSeconds,
                           b.tokens + Max({0, now - b.lastSeen}) * b.rate),
          rate |-> l, lastSeen |-> now]

\* take, under the mutex.
take(r) ==
    LET q == req[r]
        t == q.tenant
        old == maybeGC(q.now)[t]
        b == refill(old, q.limit, q.now)
        fits == q.n <= b.tokens IN
    /\ q # None /\ req' = [req EXCEPT ![r] = None]
    /\ lastGC' = IF q.now - lastGC < GCInterval THEN lastGC ELSE q.now
    /\ buckets' = [maybeGC(q.now) EXCEPT ![t] =
                      IF fits THEN [b EXCEPT !.tokens = @ - q.n] ELSE b]
    /\ verdict' = <<t, q.n, IF fits THEN "allowed" ELSE "rejected">>
    /\ sent' = IF fits /\ t = window.tenant /\ q.now \in window.from..window.to
               THEN sent + q.n ELSE sent
    /\ skew' = IF old # None /\ t = window.tenant
               THEN skew + Max({0, old.lastSeen - q.now}) ELSE skew
    /\ exact' = (exact /\ q.now = clock /\ q.limit = Rate)
    /\ UNCHANGED <<clock, window>>

Next ==
    \/ Tick
    \/ \E r \in Requests :
          \/ take(r)
          \/ \E t \in Tenants, l \in Limits, n \in Batches : admit(r, t, l, n)

Spec == Init /\ [][Next]_vars

-----------------------------------------------------------------------------
(* Properties.                                                             *)

\* Type invariant; a bucket never holds more than its capacity.
TypeOK ==
    /\ clock \in Nat /\ lastGC \in Int
    /\ \A t \in Tenants : buckets[t] # None =>
          /\ buckets[t].rate \in Limits \ {0} /\ buckets[t].lastSeen \in 0..clock
          /\ buckets[t].tokens \in 0..buckets[t].rate * BurstSeconds
    /\ req \in [Requests -> [tenant : Tenants, limit : Limits \ {0}, n : Batches,
                             now : 0..clock] \cup {None}]
    /\ window \in Windows /\ sent \in Nat /\ skew \in Nat /\ exact \in BOOLEAN

\* In no interval does a tenant send more than a burst of burst_seconds and its
\* highest limit for the length of the interval (config.go 10-14), through limit
\* changes and collected buckets; and when requests overtake each other between
\* time.Now() and the mutex, so that lastSeen moves back and time is counted
\* twice, it gains no more than the limit for the time lastSeen moved back.
SustainedRate ==
    sent <= Capacity + Rate * (window.to - window.from) + Rate * skew

\* A bucket that is not there is full, a bucket that is there has been refilled
\* since its last use.
Level ==
    [t \in Tenants |-> IF buckets[t] = None THEN Capacity
        ELSE Least(Capacity, buckets[t].tokens + (clock - buckets[t].lastSeen) * Rate)]

Bucket == INSTANCE TokenBucket WITH level <- Level, kept <- exact

\* As long as the limit stays the same and requests do not wait for the mutex,
\* every batch is admitted or rejected as the abstract bucket does: lazy refills
\* and collected buckets cannot be told apart from it.
ImplementsTokenBucket == Bucket!Spec

=============================================================================
