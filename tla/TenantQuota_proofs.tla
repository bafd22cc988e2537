------------------------ MODULE TenantQuota_proofs ------------------------
(***************************************************************************)
(* For any tenants, requests, limits and sizes of batches: no bucket holds *)
(* more than its capacity (TypeOK), no tenant sends more than its burst    *)
(* and its rate (SustainedRate), and the registry implements the abstract  *)
(* bucket (ImplementsTokenBucket).  The last two need a burst that fills   *)
(* up within the idle timeout, which Config.Validate does not ask for and  *)
(* every shipped configuration has.                                        *)
(***************************************************************************)
EXTENDS TenantQuota, TLAPS

Bkt == [tokens : Nat, rate : Nat, lastSeen : Nat]
Request == [tenant : Tenants, limit : Limits \ {0}, n : Batches, now : Nat]

Typed ==
    /\ clock \in Nat
    /\ buckets \in [Tenants -> Bkt \cup {None}]
    /\ \A t \in Tenants : buckets[t] # None =>
          /\ buckets[t].rate \in Limits /\ buckets[t].tokens <= Capacity
          /\ buckets[t].lastSeen <= clock
    /\ req = [r \in Requests |-> req[r]]
    /\ \A r \in Requests : req[r] # None =>
          /\ req[r] \in Request
          /\ req[r].now <= clock /\ clock <= req[r].now + MaxWait
    /\ window \in Windows /\ sent \in Nat /\ skew \in Nat

-----------------------------------------------------------------------------
(* Arithmetic.                                                             *)

\* Products with a rate.
LEMMA Products ==
  ASSUME NEW r \in Nat, NEW a \in Int, NEW b \in Int
  PROVE  /\ r * a \in Int /\ r * (a + b) = r * a + r * b /\ r * a = a * r
         /\ a <= b => r * a <= r * b
         /\ a >= 0 => r * a >= 0
  OBVIOUS

\* Max and Min of two numbers.
LEMMA MaxMinOfTwo ==
  ASSUME NEW a \in Int, NEW b \in Int
  PROVE  /\ Max({a, b}) = IF a >= b THEN a ELSE b
         /\ Min({a, b}) = IF a <= b THEN a ELSE b
<1>1. \A m \in {a, b} : (\A y \in {a, b} : m >= y) => Max({a, b}) = m
  <2> SUFFICES ASSUME NEW m \in {a, b}, \A y \in {a, b} : m >= y PROVE Max({a, b}) = m
    OBVIOUS
  <2>1. Max({a, b}) \in {a, b} /\ \A y \in {a, b} : Max({a, b}) >= y
    BY DEF Max
  <2> QED BY <2>1
<1>2. \A m \in {a, b} : (\A y \in {a, b} : m <= y) => Min({a, b}) = m
  <2> SUFFICES ASSUME NEW m \in {a, b}, \A y \in {a, b} : m <= y PROVE Min({a, b}) = m
    OBVIOUS
  <2>1. Min({a, b}) \in {a, b} /\ \A y \in {a, b} : Min({a, b}) <= y
    BY DEF Min
  <2> QED BY <2>1
<1>3. CASE a >= b
  <2>1. Max({a, b}) = a /\ Min({a, b}) = b
    BY <1>1, <1>2, <1>3
  <2> QED BY <1>3, <2>1
<1>4. CASE ~(a >= b)
  <2>1. Max({a, b}) = b /\ Min({a, b}) = a
    BY <1>1, <1>2, <1>4
  <2> QED BY <1>4, <2>1
<1> QED BY <1>3, <1>4

\* Least of two levels.
LEMMA LeastIs ==
  ASSUME NEW a \in Nat, NEW b \in Nat
  PROVE  /\ Least(a, b) = IF a <= b THEN a ELSE b
         /\ Least(a, b) \in Nat /\ Least(a, b) <= a /\ Least(a, b) <= b
<1>1. Least(a, b) = IF a <= b THEN a ELSE b
  BY MaxMinOfTwo DEF Least
<1> QED BY <1>1

\* The highest limit, and the capacity that goes with it.
LEMMA RateIs ==
  /\ Rate \in Nat /\ Capacity \in Nat /\ Capacity = Rate * BurstSeconds
  /\ \A l \in Limits : l \in Nat /\ l <= Rate
                       /\ l * BurstSeconds \in Nat /\ l * BurstSeconds <= Capacity
<1>1. Rate \in Limits /\ \A l \in Limits : Rate >= l
  BY ConstantsTyped DEF Rate, Max
<1>2. Rate \in Nat /\ \A l \in Limits : l \in Nat /\ l <= Rate
  BY <1>1, ConstantsTyped
<1>3. Capacity = Rate * BurstSeconds
  BY DEF Capacity
<1>4. \A l \in Limits : l * BurstSeconds \in Nat /\ l * BurstSeconds <= Rate * BurstSeconds
  <2> TAKE l \in Limits
  <2>1. l \in Nat /\ BurstSeconds \in Nat /\ l <= Rate
    BY <1>2, ConfigValid
  <2>2. BurstSeconds * l <= BurstSeconds * Rate /\ BurstSeconds * l >= 0
        /\ BurstSeconds * l = l * BurstSeconds /\ BurstSeconds * Rate = Rate * BurstSeconds
        /\ BurstSeconds * l \in Int
    BY <1>2, <2>1, Products
  <2> QED BY <2>2
<1>5. Rate * BurstSeconds \in Nat
  BY <1>1, <1>4
<1> QED BY <1>2, <1>3, <1>4, <1>5

-----------------------------------------------------------------------------
(* maybeGC and refill.                                                     *)

\* maybeGC leaves a bucket or removes one that has been idle.
LEMMA Swept ==
  ASSUME Typed, NEW now \in Nat
  PROVE  /\ maybeGC(now) \in [Tenants -> Bkt \cup {None}]
         /\ \A t \in Tenants :
               \/ maybeGC(now)[t] = buckets[t]
               \/ /\ maybeGC(now)[t] = None /\ buckets[t] # None
                  /\ now - buckets[t].lastSeen >= IdleTimeout
  BY DEF Typed, maybeGC

\* refill: within the new capacity, and no more than the elapsed time is worth.
LEMMA Refilled ==
  ASSUME NEW b \in Bkt \cup {None}, NEW l \in Limits, NEW now \in Nat,
         b # None => b.rate \in Limits
  PROVE  /\ refill(b, l, now) \in Bkt
         /\ refill(b, l, now).rate = l /\ refill(b, l, now).lastSeen = now
         /\ refill(b, l, now).tokens <= Capacity
         /\ b # None => refill(b, l, now).tokens
                           <= b.tokens + Rate * Max({0, now - b.lastSeen})
<1>1. l \in Nat /\ l * BurstSeconds \in Nat /\ l * BurstSeconds <= Capacity
      /\ Capacity \in Nat /\ Rate \in Nat
  BY RateIs
<1>2. CASE b = None
  <2>1. refill(b, l, now) = [tokens |-> l * BurstSeconds, rate |-> l, lastSeen |-> now]
    BY <1>2 DEF refill
  <2> QED BY <1>1, <1>2, <2>1 DEF Bkt
<1>3. CASE b # None
  <2> DEFINE d == Max({0, now - b.lastSeen})
             s == b.tokens + d * b.rate
             m == Least(l * BurstSeconds, s)
  <2>1. refill(b, l, now) = [tokens |-> m, rate |-> l, lastSeen |-> now]
    BY <1>3 DEF refill
  <2>2. b.tokens \in Nat /\ b.lastSeen \in Nat /\ b.rate \in Nat /\ b.rate <= Rate
    BY <1>3, RateIs DEF Bkt
  <2>3. d \in Nat
    BY <2>2, MaxMinOfTwo
  <2> HIDE DEF d
  <2>4. d * b.rate \in Int /\ d * b.rate >= 0 /\ d * b.rate <= d * Rate
        /\ Rate * d = d * Rate /\ d * Rate \in Int
    BY <1>1, <2>2, <2>3, Products
  <2>5. s \in Nat /\ s <= b.tokens + Rate * d
    BY <2>2, <2>4
  <2> HIDE DEF s
  <2>6. m \in Nat /\ m <= l * BurstSeconds /\ m <= s
    BY <1>1, <2>5, LeastIs
  <2> HIDE DEF m
  <2>7. /\ refill(b, l, now) \in Bkt /\ refill(b, l, now).tokens = m
        /\ refill(b, l, now).rate = l /\ refill(b, l, now).lastSeen = now
    BY <1>1, <2>1, <2>6 DEF Bkt
  <2>8. m <= Capacity /\ m <= b.tokens + Rate * d
    BY <1>1, <2>2, <2>4, <2>5, <2>6
  <2> QED BY <1>3, <2>7, <2>8 DEF d
<1> QED BY <1>2, <1>3

-----------------------------------------------------------------------------
(* take.                                                                   *)

Old(r) == maybeGC(req[r].now)[req[r].tenant]
Filled(r) == refill(Old(r), req[r].limit, req[r].now)
Fits(r) == req[r].n <= Filled(r).tokens

\* What take reads.
LEMMA TakeReads ==
  ASSUME Typed, NEW r \in Requests, take(r)
  PROVE  /\ req[r].tenant \in Tenants /\ req[r].limit \in Limits
         /\ req[r].n \in Nat /\ req[r].now \in Nat
         /\ req[r].now <= clock /\ clock <= req[r].now + MaxWait
         /\ Old(r) \in Bkt \cup {None}
         /\ Old(r) # None => Old(r) = buckets[req[r].tenant] /\ Old(r) \in Bkt
         /\ Filled(r) \in Bkt
         /\ Filled(r).rate = req[r].limit /\ Filled(r).lastSeen = req[r].now
         /\ Filled(r).tokens <= Capacity
         /\ Old(r) # None => Filled(r).tokens <=
               Old(r).tokens + Rate * Max({0, req[r].now - Old(r).lastSeen})
<1>1. req[r] # None
  BY DEF take
<1>2. req[r] \in Request /\ req[r].now <= clock /\ clock <= req[r].now + MaxWait
  BY <1>1 DEF Typed
<1>3. /\ req[r].tenant \in Tenants /\ req[r].limit \in Limits
      /\ req[r].n \in Nat /\ req[r].now \in Nat
  BY <1>2, ConstantsTyped DEF Request
<1>4. Old(r) \in Bkt \cup {None} /\ (Old(r) # None => Old(r) = buckets[req[r].tenant])
  BY <1>3, Swept DEF Old
<1>5. Old(r) # None => Old(r).rate \in Limits
  BY <1>3, <1>4 DEF Typed
<1>6. /\ Filled(r) \in Bkt
      /\ Filled(r).rate = req[r].limit /\ Filled(r).lastSeen = req[r].now
      /\ Filled(r).tokens <= Capacity
      /\ Old(r) # None => Filled(r).tokens <=
            Old(r).tokens + Rate * Max({0, req[r].now - Old(r).lastSeen})
  BY <1>3, <1>4, <1>5, Refilled DEF Filled
<1> QED BY <1>2, <1>3, <1>4, <1>6

\* What take writes.
LEMMA TakeWrites ==
  ASSUME Typed, NEW r \in Requests, take(r)
  PROVE  LET t == req[r].tenant IN
         /\ buckets' \in [Tenants -> Bkt \cup {None}]
         /\ \A u \in Tenants \ {t} : buckets'[u] = maybeGC(req[r].now)[u]
         /\ buckets'[t] \in Bkt /\ buckets'[t] # None
         /\ buckets'[t].rate = req[r].limit /\ buckets'[t].lastSeen = req[r].now
         /\ buckets'[t].tokens = IF Fits(r) THEN Filled(r).tokens - req[r].n
                                 ELSE Filled(r).tokens
<1> DEFINE t == req[r].tenant
           c == IF Fits(r) THEN [Filled(r) EXCEPT !.tokens = @ - req[r].n] ELSE Filled(r)
<1>1. buckets' = [maybeGC(req[r].now) EXCEPT ![t] = c]
  BY DEF take, Fits, Filled, Old
<1>2. /\ c \in Bkt /\ c.rate = req[r].limit /\ c.lastSeen = req[r].now
      /\ c.tokens = IF Fits(r) THEN Filled(r).tokens - req[r].n ELSE Filled(r).tokens
  <2>1. /\ Filled(r) \in Bkt /\ Filled(r).rate = req[r].limit
        /\ Filled(r).lastSeen = req[r].now /\ req[r].n \in Nat
    BY TakeReads
  <2>2. CASE Fits(r)
    <3>1. Filled(r).tokens \in Nat
      BY <2>1 DEF Bkt
    <3>2. Filled(r).tokens - req[r].n \in Nat
      BY <2>1, <2>2, <3>1 DEF Fits
    <3> QED BY <2>1, <2>2, <3>2 DEF Bkt
  <2>3. CASE ~Fits(r)
    BY <2>1, <2>3
  <2> QED BY <2>2, <2>3
<1>3. c # None
  BY <1>2, ConstantsTyped DEF Bkt
<1> HIDE DEF c
<1>4. t \in Tenants /\ maybeGC(req[r].now) \in [Tenants -> Bkt \cup {None}]
  BY TakeReads, Swept
<1> QED BY <1>1, <1>2, <1>3, <1>4

\* Every step keeps the types.
LEMMA TypedInductive == ASSUME Typed, [Next]_vars PROVE Typed'
<1>1. CASE Tick
  BY <1>1, ConstantsTyped DEF Typed, Tick, Request, Bkt
<1>2. ASSUME NEW r \in Requests, NEW t \in Tenants, NEW l \in Limits, NEW n \in Batches,
             admit(r, t, l, n)
      PROVE  Typed'
  <2> DEFINE q == [tenant |-> t, limit |-> l, n |-> n, now |-> clock]
  <2>1. q \in Request /\ q.now = clock /\ clock <= clock + MaxWait
    BY <1>2, ConstantsTyped DEF admit, Request, Typed
  <2>2. req' = [req EXCEPT ![r] = q] /\ UNCHANGED <<clock, buckets, window, sent, skew>>
    BY <1>2 DEF admit
  <2> HIDE DEF q
  <2> QED BY <2>1, <2>2 DEF Typed
<1>3. ASSUME NEW r \in Requests, take(r) PROVE Typed'
  <2>0. /\ req[r].tenant \in Tenants /\ req[r].limit \in Limits
        /\ req[r].n \in Nat /\ req[r].now \in Nat /\ req[r].now <= clock
        /\ Old(r) # None => Old(r) \in Bkt
        /\ Filled(r) \in Bkt /\ Filled(r).tokens <= Capacity
    BY <1>3, TakeReads
  <2>1. UNCHANGED <<clock, window>> /\ req' = [req EXCEPT ![r] = None]
    BY <1>3 DEF take
  <2>2. sent' \in Nat
    <3>1. sent' = sent \/ sent' = sent + req[r].n
      BY <1>3 DEF take
    <3> QED BY <2>0, <3>1 DEF Typed
  <2>3. skew' \in Nat
    <3>1. Old(r) # None => Max({0, Old(r).lastSeen - req[r].now}) \in Nat
      <4> SUFFICES ASSUME Old(r) # None
                   PROVE  Max({0, Old(r).lastSeen - req[r].now}) \in Nat
        OBVIOUS
      <4>1. Old(r).lastSeen - req[r].now \in Int
        BY <2>0 DEF Bkt
      <4> QED BY <4>1, MaxMinOfTwo
    <3>2. \/ skew' = skew
          \/ Old(r) # None /\ skew' = skew + Max({0, Old(r).lastSeen - req[r].now})
      BY <1>3 DEF take, Old
    <3> QED BY <3>1, <3>2 DEF Typed
  <2>4. \A u \in Tenants : buckets'[u] # None =>
           /\ buckets'[u].rate \in Limits /\ buckets'[u].tokens <= Capacity
           /\ buckets'[u].lastSeen <= clock
    <3> TAKE u \in Tenants
    <3>1. CASE u = req[r].tenant
      <4>1. Filled(r).tokens \in Nat /\ Capacity \in Nat
        BY <2>0, RateIs DEF Bkt
      <4>2. /\ buckets'[u].rate = req[r].limit /\ buckets'[u].lastSeen = req[r].now
            /\ \/ buckets'[u].tokens = Filled(r).tokens - req[r].n
               \/ buckets'[u].tokens = Filled(r).tokens
        BY <1>3, <3>1, TakeWrites
      <4> QED BY <2>0, <4>1, <4>2
    <3>2. CASE u # req[r].tenant
      <4>1. buckets'[u] = maybeGC(req[r].now)[u]
        BY <1>3, <3>2, TakeWrites
      <4>2. buckets'[u] = buckets[u] \/ buckets'[u] = None
        BY <2>0, <4>1, Swept
      <4> QED BY <4>2 DEF Typed
    <3> QED BY <3>1, <3>2
  <2>5. buckets' \in [Tenants -> Bkt \cup {None}]
    BY <1>3, TakeWrites
  <2> QED BY <2>1, <2>2, <2>3, <2>4, <2>5 DEF Typed
<1>4. CASE UNCHANGED vars
  BY <1>4 DEF Typed, vars
<1> QED BY <1>1, <1>2, <1>3, <1>4 DEF Next

\* refill never goes over the capacity at the new limit.
LEMMA RefillFits ==
  ASSUME NEW b \in Bkt \cup {None}, NEW l \in Limits, NEW now \in Nat,
         b # None => b.rate \in Limits
  PROVE  refill(b, l, now).tokens <= l * BurstSeconds
<1> DEFINE c == l * BurstSeconds
           s == b.tokens + Max({0, now - b.lastSeen}) * b.rate
<1>1. c \in Nat
  BY RateIs
<1>2. CASE b = None
  <2>1. refill(b, l, now) = [tokens |-> c, rate |-> l, lastSeen |-> now]
    BY <1>2 DEF refill
  <2> HIDE DEF c
  <2>2. refill(b, l, now).tokens = c
    BY <2>1
  <2>3. c <= c
    BY <1>1
  <2> QED BY <2>2, <2>3 DEF c
<1>3. CASE b # None
  <2>1. refill(b, l, now) = [tokens |-> Least(c, s), rate |-> l, lastSeen |-> now]
    BY <1>3 DEF refill
  <2>2. s \in Nat
    <3>1. b.tokens \in Nat /\ b.lastSeen \in Nat /\ b.rate \in Nat
      BY <1>3, RateIs DEF Bkt
    <3> DEFINE d == Max({0, now - b.lastSeen})
    <3>2. d \in Nat
      BY <3>1, MaxMinOfTwo
    <3> HIDE DEF d
    <3>3. d * b.rate \in Int /\ d * b.rate >= 0
      BY <3>1, <3>2, Products
    <3> QED BY <3>1, <3>3 DEF d
  <2> HIDE DEF c, s
  <2>3. Least(c, s) <= c
    BY <1>1, <2>2, LeastIs
  <2> QED BY <2>1, <2>3 DEF c
<1> QED BY <1>2, <1>3

\* No bucket holds more than the burst at its own limit, and none has limit 0.
Sized ==
    /\ lastGC \in Int /\ exact \in BOOLEAN
    /\ \A t \in Tenants : buckets[t] # None =>
          buckets[t].rate # 0 /\ buckets[t].tokens <= buckets[t].rate * BurstSeconds

\* take leaves every bucket within its size, the ones it collects aside.
LEMMA TakeSizes == ASSUME Typed, Sized, NEW r \in Requests, take(r) PROVE Sized'
<1> DEFINE q == req[r]
<1>1. /\ q.tenant \in Tenants /\ q.limit \in Limits /\ q.n \in Nat /\ q.now \in Nat
      /\ Filled(r) \in Bkt /\ Old(r) \in Bkt \cup {None}
      /\ Old(r) # None => Old(r) = buckets[q.tenant]
  BY TakeReads
<1>2. q.limit # 0
  BY DEF take, Typed, Request
<1>3. Filled(r).tokens <= q.limit * BurstSeconds
  <2>1. Old(r) # None => Old(r).rate \in Limits
    BY <1>1 DEF Typed
  <2> QED BY <1>1, <2>1, RefillFits DEF Filled
<1>4. ASSUME NEW u \in Tenants, buckets'[u] # None
      PROVE  buckets'[u].rate # 0 /\ buckets'[u].tokens <= buckets'[u].rate * BurstSeconds
  <2>1. CASE u = q.tenant
    <3> DEFINE c == q.limit * BurstSeconds
    <3>1. /\ buckets'[u].rate = q.limit
          /\ \/ buckets'[u].tokens = Filled(r).tokens - q.n
             \/ buckets'[u].tokens = Filled(r).tokens
      BY <2>1, TakeWrites
    <3>2. c \in Nat /\ Filled(r).tokens \in Nat /\ Filled(r).tokens <= c
      BY <1>1, <1>3, RateIs DEF Bkt
    <3> HIDE DEF c
    <3>3. buckets'[u].tokens <= c
      BY <1>1, <3>1, <3>2
    <3> QED BY <1>2, <3>1, <3>3 DEF c
  <2>2. CASE u # q.tenant
    <3>1. buckets'[u] = maybeGC(q.now)[u]
      BY <2>2, TakeWrites
    <3>2. buckets'[u] = buckets[u]
      BY <1>1, <1>4, <3>1, Swept
    <3> QED BY <1>4, <3>2 DEF Sized
  <2> QED BY <2>1, <2>2
<1>5. lastGC' \in Int
  BY <1>1 DEF take, Sized
<1>6. exact' \in BOOLEAN
  BY Zenon DEF take
<1> QED BY <1>4, <1>5, <1>6 DEF Sized

\* The type invariant: through limit changes and collected buckets, no bucket
\* ever holds more than burst_seconds at its limit, nor less than nothing.
THEOREM TypeCorrect == Spec => []TypeOK
<1>1. Init => Typed /\ Sized
  <2> SUFFICES ASSUME Init PROVE Typed /\ Sized
    OBVIOUS
  <2>1. Typed
    BY ConstantsTyped DEF Init, Typed
  <2>2. lastGC \in Int
    BY ConstantsTyped DEF Init
  <2> QED BY <2>1, <2>2 DEF Init, Sized
<1>2. Typed /\ Sized /\ [Next]_vars => Sized'
  <2> SUFFICES ASSUME Typed, Sized, [Next]_vars PROVE Sized'
    OBVIOUS
  <2>1. CASE UNCHANGED <<buckets, lastGC, exact>>
    BY <2>1 DEF Sized
  <2> QED BY <2>1, TakeSizes DEF Next, Tick, admit, vars
<1>3. Typed /\ Sized => TypeOK
  <2> SUFFICES ASSUME Typed, Sized PROVE TypeOK
    OBVIOUS
  <2>1. ASSUME NEW t \in Tenants, buckets[t] # None
        PROVE  /\ buckets[t].rate \in Limits \ {0} /\ buckets[t].lastSeen \in 0..clock
               /\ buckets[t].tokens \in 0..buckets[t].rate * BurstSeconds
    <3> DEFINE c == buckets[t].rate * BurstSeconds
    <3>1. /\ buckets[t].tokens \in Nat /\ buckets[t].lastSeen \in Nat
          /\ buckets[t].lastSeen <= clock /\ clock \in Nat
          /\ buckets[t].rate \in Limits /\ buckets[t].rate # 0
      BY <2>1 DEF Typed, Sized, Bkt
    <3>2. c \in Nat /\ buckets[t].tokens <= c
      BY <2>1, <3>1, RateIs DEF Sized
    <3> HIDE DEF c
    <3>3. buckets[t].tokens \in 0..c /\ buckets[t].lastSeen \in 0..clock
      BY <3>1, <3>2
    <3> QED BY <3>1, <3>3 DEF c
  <2>2. req \in [Requests -> [tenant : Tenants, limit : Limits \ {0}, n : Batches,
                              now : 0..clock] \cup {None}]
    <3>1. \A r \in Requests : req[r] # None =>
             req[r] \in [tenant : Tenants, limit : Limits \ {0}, n : Batches,
                         now : 0..clock]
      BY DEF Typed, Request
    <3>2. req = [r \in Requests |-> req[r]]
      BY DEF Typed
    <3> QED BY <3>1, <3>2
  <2> QED BY <2>1, <2>2 DEF Typed, Sized, TypeOK
<1> QED BY <1>1, <1>2, <1>3, TypedInductive, PTL DEF Spec

-----------------------------------------------------------------------------
(* The sustained rate.                                                     *)

\* What was sent in the window and what is left was earned by the time on the
\* bucket's clock, and the time that clock was put back; a bucket that is not
\* there counts as full at the earliest time a request can still come with.
Earned ==
    LET b == buckets[window.tenant]
        elapsed(now) == now - window.from + skew IN
    sent > 0 =>
        /\ b # None => sent + b.tokens <= Capacity + Rate * elapsed(b.lastSeen)
        /\ b = None => sent <= Rate * elapsed(clock - MaxWait)

IdleIsFull == BurstSeconds + MaxWait <= IdleTimeout

\* The window.
LEMMA WindowTyped ==
  ASSUME Typed
  PROVE  /\ window.tenant \in Tenants /\ window.from \in Nat /\ window.to \in Nat
         /\ window.from <= window.to
  BY ConstantsTyped DEF Typed

\* Time passes: a missing bucket earns more, a bucket's clock stands.
LEMMA TickEarns == ASSUME Typed, Earned, Tick PROVE Earned'
<1> DEFINE x == clock - MaxWait - window.from + skew
<1>1. window.from \in Nat /\ clock \in Nat /\ skew \in Nat /\ MaxWait \in Nat /\ Rate \in Nat
      /\ sent \in Nat
  BY WindowTyped, ConstantsTyped, RateIs DEF Typed
<1>2. x \in Int /\ Rate * x \in Int /\ Rate * (x + 1) \in Int /\ Rate * x <= Rate * (x + 1)
  BY <1>1, Products
<1>3. clock' - MaxWait - window.from + skew = x + 1
  BY <1>1 DEF Tick
<1>4. sent > 0 /\ buckets[window.tenant] = None => sent <= Rate * (x + 1)
  BY <1>1, <1>2 DEF Earned
<1> HIDE DEF x
<1> QED BY <1>3, <1>4 DEF Tick, Earned

\* A bucket of the window's tenant that is collected had filled up.
LEMMA SweepEarns ==
  ASSUME Typed, Earned, IdleIsFull, NEW now \in Nat, now <= clock,
         buckets[window.tenant] # None, sent > 0,
         now - buckets[window.tenant].lastSeen >= IdleTimeout
  PROVE  sent <= Rate * (clock - MaxWait - window.from + skew)
<1> DEFINE b == buckets[window.tenant]
           y == b.lastSeen - window.from + skew
           x == clock - MaxWait - window.from + skew
<1>1. /\ window.from \in Nat /\ clock \in Nat /\ skew \in Nat /\ MaxWait \in Nat
      /\ sent \in Nat /\ Rate \in Nat /\ BurstSeconds \in Nat /\ IdleTimeout \in Nat
      /\ Capacity = Rate * BurstSeconds
  BY WindowTyped, ConstantsTyped, ConfigValid, RateIs DEF Typed
<1>2. b.lastSeen \in Nat /\ b.tokens \in Nat
  BY WindowTyped DEF Typed, Bkt
<1>3. sent + b.tokens <= Capacity + Rate * y
  BY DEF Earned
<1>4. y \in Int /\ x \in Int /\ y + BurstSeconds <= x
  BY <1>1, <1>2 DEF IdleIsFull
<1> HIDE DEF x, y
<1>5. /\ Rate * (y + BurstSeconds) = Rate * y + Rate * BurstSeconds
      /\ Rate * (y + BurstSeconds) <= Rate * x
      /\ Rate * y \in Int /\ Rate * BurstSeconds \in Int /\ Rate * x \in Int
  <2>1. y + BurstSeconds \in Int
    BY <1>1, <1>4
  <2> QED BY <1>1, <1>4, <2>1, Products
<1>6. sent <= Rate * x
  BY <1>1, <1>2, <1>3, <1>5
<1> QED BY <1>6 DEF x

\* The bucket of the window's tenant, refilled: its clock moves on, or is put
\* back and skew counts it.
LEMMA RefillEarns ==
  ASSUME Typed, Earned, IdleIsFull, NEW r \in Requests, take(r),
         req[r].tenant = window.tenant, sent > 0
  PROVE  sent + Filled(r).tokens <= Capacity + Rate * (req[r].now - window.from + skew')
<1> DEFINE f == Filled(r).tokens
           now == req[r].now
           x == now - window.from + skew'
<1>1. /\ window.from \in Nat /\ clock \in Nat /\ skew \in Nat /\ MaxWait \in Nat
      /\ sent \in Nat /\ Rate \in Nat /\ Capacity \in Nat
  BY WindowTyped, ConstantsTyped, RateIs DEF Typed
<1>2. /\ now \in Nat /\ now <= clock /\ clock <= now + MaxWait
      /\ f \in Nat /\ f <= Capacity
  BY TakeReads DEF Bkt
<1>3. CASE Old(r) = None
  <2>1. skew' = skew
    BY <1>3 DEF take, Old
  <2>2. sent <= Rate * (clock - MaxWait - window.from + skew)
    <3>1. CASE buckets[window.tenant] = None
      BY <3>1 DEF Earned
    <3>2. CASE buckets[window.tenant] # None
      <4>1. now - buckets[window.tenant].lastSeen >= IdleTimeout
        BY <1>2, <1>3, <3>2, WindowTyped, Swept DEF Old
      <4> QED BY <1>2, <3>2, <4>1, SweepEarns
    <3> QED BY <3>1, <3>2
  <2> DEFINE y == clock - MaxWait - window.from + skew
  <2>3. y \in Int /\ x \in Int /\ y <= x
    BY <1>1, <1>2, <2>1
  <2> HIDE DEF x, y
  <2>4. Rate * y <= Rate * x /\ Rate * y \in Int /\ Rate * x \in Int
    BY <1>1, <2>3, Products
  <2>5. sent + f <= Capacity + Rate * x
    BY <1>1, <1>2, <2>2, <2>4 DEF y
  <2> QED BY <2>5 DEF x
<1>4. CASE Old(r) # None
  <2> DEFINE o == Old(r)
             d == Max({0, now - o.lastSeen})
             y == o.lastSeen - window.from + skew
  <2>1. o \in Bkt /\ o = buckets[window.tenant] /\ f <= o.tokens + Rate * d
    BY <1>4, TakeReads
  <2>2. o.tokens \in Nat /\ o.lastSeen \in Nat
    BY <2>1 DEF Bkt
  <2>3. sent + o.tokens <= Capacity + Rate * y
    BY <1>4, <2>1 DEF Earned
  <2>4. skew' = skew + Max({0, o.lastSeen - now})
    BY <1>4 DEF take, Old
  <2> HIDE DEF o
  <2>5. /\ d = IF now >= o.lastSeen THEN now - o.lastSeen ELSE 0
        /\ Max({0, o.lastSeen - now}) = IF o.lastSeen >= now THEN o.lastSeen - now ELSE 0
    <3>1. now - o.lastSeen \in Int /\ o.lastSeen - now \in Int
      BY <1>2, <2>2
    <3>2. /\ d = IF 0 >= now - o.lastSeen THEN 0 ELSE now - o.lastSeen
          /\ Max({0, o.lastSeen - now}) = IF 0 >= o.lastSeen - now THEN 0 ELSE o.lastSeen - now
      BY <3>1, MaxMinOfTwo
    <3> QED BY <1>2, <2>2, <3>2
  <2>6. y \in Int /\ d \in Int /\ x = y + d
    BY <1>1, <1>2, <2>2, <2>4, <2>5
  <2> HIDE DEF d, x, y
  <2>7. Rate * x = Rate * y + Rate * d /\ Rate * y \in Int /\ Rate * d \in Int
    BY <1>1, <2>6, Products
  <2>8. sent + f <= Capacity + Rate * x
    BY <1>1, <1>2, <2>1, <2>2, <2>3, <2>7
  <2> QED BY <2>8 DEF x
<1> QED BY <1>3, <1>4

\* take: what is sent comes out of the bucket.
LEMMA TakeEarns ==
  ASSUME Typed, Earned, SustainedRate, IdleIsFull, NEW r \in Requests, take(r)
  PROVE  Earned' /\ SustainedRate'
<1> DEFINE now == req[r].now
           f == Filled(r).tokens
           n == req[r].n
           c == buckets'[window.tenant]
           x == now - window.from + skew'
           z == window.to - window.from
<1>1. /\ window.tenant \in Tenants /\ window.from \in Nat /\ window.to \in Nat
      /\ window.from <= window.to
      /\ clock \in Nat /\ skew \in Nat /\ MaxWait \in Nat
      /\ sent \in Nat /\ Rate \in Nat /\ Capacity \in Nat /\ skew' \in Nat
  <2>1. skew' \in Nat
    BY TypedInductive DEF Typed, Next
  <2> QED BY <2>1, WindowTyped, ConstantsTyped, RateIs DEF Typed
<1>2. /\ now \in Nat /\ now <= clock /\ clock <= now + MaxWait
      /\ f \in Nat /\ f <= Capacity /\ n \in Nat
  BY TakeReads DEF Bkt
<1>3. window' = window /\ clock' = clock
  BY DEF take
<1>4. CASE req[r].tenant = window.tenant
  <2>1. c # None /\ c.lastSeen = now /\ c.tokens = IF Fits(r) THEN f - n ELSE f
    BY <1>4, TakeWrites
  <2>2. sent' = IF Fits(r) /\ now \in window.from..window.to THEN sent + n ELSE sent
    BY <1>4 DEF take, Fits, Filled, Old
  <2>3. skew' >= skew
    <3>1. \/ skew' = skew
          \/ Old(r) # None /\ skew' = skew + Max({0, Old(r).lastSeen - now})
      BY DEF take, Old
    <3>2. Old(r) # None => Old(r).lastSeen - now \in Int
      <4>1. Old(r) # None => Old(r) \in Bkt
        BY TakeReads
      <4> QED BY <1>2, <4>1 DEF Bkt
    <3>3. Old(r) # None => Max({0, Old(r).lastSeen - now}) \in Nat
      BY <3>2, MaxMinOfTwo
    <3> QED BY <1>1, <3>1, <3>3
  <2>4. sent > 0 => sent + f <= Capacity + Rate * x
    BY <1>4, RefillEarns
  <2>5. x \in Int /\ z \in Nat /\ (now \in window.from..window.to => 0 <= x /\ x <= z + skew')
    BY <1>1, <1>2
  <2> HIDE DEF x, z
  <2>6. /\ Rate * x \in Int /\ (now \in window.from..window.to => Rate * x >= 0)
        /\ now \in window.from..window.to => Rate * x <= Rate * z + Rate * skew'
        /\ Rate * z \in Int /\ Rate * skew \in Int /\ Rate * skew' \in Int
        /\ Rate * skew <= Rate * skew'
    <3>1. Rate * (z + skew') = Rate * z + Rate * skew' /\ z + skew' \in Int
      BY <1>1, <2>5, Products
    <3>2. x <= z + skew' => Rate * x <= Rate * (z + skew')
      BY <1>1, <2>5, <3>1, Products
    <3>3. Rate * x \in Int /\ Rate * z \in Int /\ (x >= 0 => Rate * x >= 0)
      BY <1>1, <2>5, Products
    <3>4. Rate * skew \in Int /\ Rate * skew' \in Int /\ Rate * skew <= Rate * skew'
      <4> DEFINE a == skew
                 b == skew'
      <4>1. a \in Int /\ b \in Int /\ a <= b
        BY <1>1, <2>3
      <4> HIDE DEF a, b
      <4>2. Rate * a \in Int /\ Rate * b \in Int /\ Rate * a <= Rate * b
        BY <1>1, <4>1, Products
      <4> QED BY <4>2 DEF a, b
    <3> QED BY <2>5, <3>1, <3>2, <3>3, <3>4
  <2>7. sent' > 0 => sent' + c.tokens <= Capacity + Rate * x
    <3>1. CASE Fits(r) /\ now \in window.from..window.to
      BY <1>1, <1>2, <2>1, <2>2, <2>4, <2>6, <3>1
    <3>2. CASE ~(Fits(r) /\ now \in window.from..window.to)
      BY <1>1, <1>2, <2>1, <2>2, <2>4, <2>6, <3>2
    <3> QED BY <3>1, <3>2
  <2>8. sent' <= Capacity + Rate * z + Rate * skew'
    <3>1. CASE Fits(r) /\ now \in window.from..window.to
      <4>1. c.tokens \in Nat /\ sent' \in Nat
        BY <1>1, <1>2, <2>1, <2>2 DEF Fits
      <4>2. 0 <= Rate * z + Rate * skew'
        BY <2>6, <3>1
      <4>3. CASE sent' = 0
        BY <1>1, <2>6, <4>2, <4>3
      <4>4. CASE sent' > 0
        <5>1. sent' <= Capacity + Rate * x
          BY <1>1, <2>6, <2>7, <4>1, <4>4
        <5> QED BY <1>1, <2>6, <3>1, <4>1, <5>1
      <4> QED BY <4>1, <4>3, <4>4
    <3>2. CASE ~(Fits(r) /\ now \in window.from..window.to)
      <4>1. sent <= Capacity + Rate * z + Rate * skew
        BY DEF SustainedRate, z
      <4>2. sent' = sent
        BY <2>2, <3>2
      <4> DEFINE a == Rate * z
                 b == Rate * skew
                 d == Rate * skew'
      <4>3. a \in Int /\ b \in Int /\ d \in Int /\ b <= d /\ sent <= Capacity + a + b
        BY <2>6, <4>1
      <4> HIDE DEF a, b, d
      <4>4. sent' <= Capacity + a + d
        BY <1>1, <4>2, <4>3
      <4> QED BY <4>4 DEF a, d
    <3> QED BY <3>1, <3>2
  <2>9. Earned'
    BY <1>3, <2>1, <2>7 DEF Earned, x
  <2> QED BY <1>3, <2>8, <2>9 DEF SustainedRate, z
<1>5. CASE req[r].tenant # window.tenant
  <2>1. sent' = sent /\ skew' = skew
    BY <1>5 DEF take
  <2>2. c = maybeGC(now)[window.tenant]
    BY <1>1, <1>5, TakeWrites
  <2>3. CASE c = buckets[window.tenant]
    BY <1>3, <2>1, <2>3 DEF Earned, SustainedRate
  <2>4. CASE c = None /\ buckets[window.tenant] # None
             /\ now - buckets[window.tenant].lastSeen >= IdleTimeout
    <3>1. sent > 0 => sent <= Rate * (clock - MaxWait - window.from + skew)
      BY <1>2, <2>4, SweepEarns
    <3> QED BY <1>3, <2>1, <2>4, <3>1 DEF Earned, SustainedRate
  <2> QED BY <1>1, <1>2, <2>2, <2>3, <2>4, Swept
<1> QED BY <1>4, <1>5

\* In no interval does a tenant send more than a burst and its highest limit for
\* the length of the interval and for the time its bucket's clock was put back,
\* if a bucket that may be collected has had the time to fill up.
THEOREM RateIsSustained ==
  ASSUME IdleIsFull PROVE Spec => []SustainedRate
<1> DEFINE IInv == Typed /\ Earned /\ SustainedRate
<1>1. Init => IInv
  <2> SUFFICES ASSUME Init PROVE IInv
    OBVIOUS
  <2>1. Typed
    BY ConstantsTyped DEF Init, Typed
  <2>2. Earned
    BY DEF Init, Earned
  <2>3. SustainedRate
    <3> DEFINE z == window.to - window.from
    <3>1. z \in Nat /\ Rate \in Nat /\ Capacity \in Nat
      BY <2>1, WindowTyped, RateIs
    <3> HIDE DEF z
    <3>2. Rate * z \in Int /\ Rate * z >= 0 /\ Rate * 0 = 0
      BY <3>1, Products
    <3>3. 0 <= Capacity + Rate * z + Rate * 0
      BY <3>1, <3>2
    <3> QED BY <3>3 DEF Init, SustainedRate, z
  <2> QED BY <2>1, <2>2, <2>3
<1>2. IInv /\ [Next]_vars => IInv'
  <2> SUFFICES ASSUME IInv, [Next]_vars PROVE Earned' /\ SustainedRate'
    BY TypedInductive
  <2>1. CASE Tick
    BY <2>1, TickEarns DEF Tick, SustainedRate
  <2>2. CASE \E r \in Requests : take(r)
    BY <2>2, TakeEarns
  <2>3. CASE UNCHANGED <<clock, buckets, window, sent, skew>>
    BY <2>3 DEF Earned, SustainedRate
  <2> QED BY <2>1, <2>2, <2>3 DEF Next, admit, vars
<1>3. IInv => SustainedRate
  OBVIOUS
<1> QED BY <1>1, <1>2, <1>3, PTL DEF Spec

-----------------------------------------------------------------------------
(* The abstract bucket.                                                    *)

\* While every take came at its time and with the same limit, all buckets have
\* that limit.
SameRate == exact => \A t \in Tenants : buckets[t] # None => buckets[t].rate = Rate

\* What a bucket holds at time now, if its limit stays.
LevelAt(b, now) ==
    IF b = None THEN Capacity ELSE Least(Capacity, b.tokens + (now - b.lastSeen) * Rate)

\* The level of a bucket.
LEMMA LevelIs ==
  ASSUME NEW b \in Bkt, b # None, NEW now \in Nat, b.lastSeen <= now
  PROVE  /\ b.tokens + (now - b.lastSeen) * Rate \in Nat
         /\ LevelAt(b, now) \in Nat
         /\ LevelAt(b, now) = IF Capacity <= b.tokens + (now - b.lastSeen) * Rate
                              THEN Capacity ELSE b.tokens + (now - b.lastSeen) * Rate
<1> DEFINE d == now - b.lastSeen
           s == b.tokens + d * Rate
<1>1. d \in Nat /\ Rate \in Nat /\ Capacity \in Nat /\ b.tokens \in Nat
  BY RateIs DEF Bkt
<1>2. LevelAt(b, now) = Least(Capacity, s)
  BY DEF LevelAt
<1> HIDE DEF d
<1>3. d * Rate \in Int /\ d * Rate >= 0
  BY <1>1, Products
<1>4. s \in Nat
  BY <1>1, <1>3
<1> HIDE DEF s
<1>5. LevelAt(b, now) \in Nat /\ LevelAt(b, now) = IF Capacity <= s THEN Capacity ELSE s
  BY <1>1, <1>2, <1>4, LeastIs
<1> QED BY <1>4, <1>5 DEF s, d

\* A bucket that may be collected is full.
LEMMA IdleLevel ==
  ASSUME NEW b \in Bkt, b # None, NEW now \in Nat, now - b.lastSeen >= IdleTimeout,
         BurstSeconds <= IdleTimeout
  PROVE  LevelAt(b, now) = Capacity
<1> DEFINE d == now - b.lastSeen
<1>1. /\ d \in Nat /\ BurstSeconds \in Nat /\ BurstSeconds <= d /\ b.lastSeen <= now
      /\ b.tokens \in Nat /\ Rate \in Nat /\ Capacity \in Nat
      /\ Capacity = Rate * BurstSeconds
  BY RateIs, ConstantsTyped, ConfigValid DEF Bkt
<1>2. /\ LevelAt(b, now) = IF Capacity <= b.tokens + d * Rate
                           THEN Capacity ELSE b.tokens + d * Rate
  BY <1>1, LevelIs
<1> HIDE DEF d
<1>3. /\ Rate * BurstSeconds <= Rate * d /\ Rate * d = d * Rate
      /\ d * Rate \in Int
  BY <1>1, Products
<1>4. Capacity <= b.tokens + d * Rate
  BY <1>1, <1>3
<1> QED BY <1>2, <1>4

\* Time passes and every bucket is refilled.
LEMMA TickRefills == ASSUME Typed, Tick PROVE Bucket!Refill
<1>1. clock \in Nat /\ clock' = clock + 1 /\ buckets' = buckets /\ verdict' = <<>>
      /\ Rate \in Nat /\ Capacity \in Nat
  BY RateIs DEF Tick, Typed
<1>2. ASSUME NEW t \in Tenants
      PROVE  LevelAt(buckets[t], clock + 1) =
                IF LevelAt(buckets[t], clock) + Rate < Capacity
                THEN LevelAt(buckets[t], clock) + Rate ELSE Capacity
  <2>1. CASE buckets[t] = None
    BY <1>1, <2>1 DEF LevelAt
  <2>2. CASE buckets[t] # None
    <3> DEFINE b == buckets[t]
               a == clock - b.lastSeen
               s == b.tokens + a * Rate
    <3>1. b \in Bkt /\ b.lastSeen <= clock /\ b.lastSeen \in Nat /\ b.tokens \in Nat
      BY <2>2 DEF Typed, Bkt
    <3>2. s \in Nat /\ LevelAt(b, clock) = IF Capacity <= s THEN Capacity ELSE s
      BY <1>1, <2>2, <3>1, LevelIs
    <3>3. (clock + 1) - b.lastSeen = a + 1 /\ a \in Int
      BY <1>1, <3>1
    <3> HIDE DEF a
    <3>4. (a + 1) * Rate = a * Rate + Rate /\ a * Rate \in Int
      <4>1. Rate * (a + 1) = Rate * a + Rate * 1 /\ Rate * a = a * Rate /\ Rate * a \in Int
        BY <1>1, <3>3, Products
      <4>2. Rate * (a + 1) = (a + 1) * Rate /\ Rate * 1 = Rate
        BY <1>1, <3>3, Products
      <4> QED BY <4>1, <4>2
    <3>5. b.tokens + ((clock + 1) - b.lastSeen) * Rate = s + Rate
      BY <1>1, <3>1, <3>3, <3>4
    <3>6. LevelAt(b, clock + 1) = IF Capacity <= s + Rate THEN Capacity ELSE s + Rate
      <4>1. clock + 1 \in Nat /\ b.lastSeen <= clock + 1
        BY <1>1, <3>1
      <4> DEFINE w == b.tokens + ((clock + 1) - b.lastSeen) * Rate
      <4>2. LevelAt(b, clock + 1) = IF Capacity <= w THEN Capacity ELSE w
        BY <2>2, <3>1, <4>1, LevelIs
      <4> QED BY <3>5, <4>2
    <3> HIDE DEF s, b
    <3>7. LevelAt(b, clock + 1) = IF LevelAt(b, clock) + Rate < Capacity
                                  THEN LevelAt(b, clock) + Rate ELSE Capacity
      BY <1>1, <3>2, <3>6
    <3> QED BY <3>7 DEF b
  <2> QED BY <2>1, <2>2
<1>3. Level = [t \in Tenants |-> LevelAt(buckets[t], clock)]
  BY DEF Level, LevelAt
<1>4. Level' = [t \in Tenants |-> LevelAt(buckets[t], clock + 1)]
  BY <1>1 DEF Level, LevelAt
<1>5. Level' = [t \in Tenants |-> IF Level[t] + Rate < Capacity THEN Level[t] + Rate
                                  ELSE Capacity]
  BY <1>2, <1>3, <1>4
<1> QED BY <1>1, <1>5 DEF Bucket!Refill

\* maybeGC at the present time changes no level.
LEMMA SweepIsSilent ==
  ASSUME Typed, BurstSeconds <= IdleTimeout, NEW t \in Tenants
  PROVE  LevelAt(maybeGC(clock)[t], clock) = LevelAt(buckets[t], clock)
<1>1. clock \in Nat
  BY DEF Typed
<1>2. CASE maybeGC(clock)[t] = buckets[t]
  BY <1>2
<1>3. CASE maybeGC(clock)[t] = None /\ buckets[t] # None
           /\ clock - buckets[t].lastSeen >= IdleTimeout
  <2>1. buckets[t] \in Bkt
    BY <1>3 DEF Typed
  <2>2. LevelAt(buckets[t], clock) = Capacity
    BY <1>1, <1>3, <2>1, IdleLevel
  <2> QED BY <1>3, <2>2 DEF LevelAt
<1> QED BY <1>1, <1>2, <1>3, Swept

\* refill at the present time, with the limit that stays, yields the level.
LEMMA RefillIsLevel ==
  ASSUME NEW b \in Bkt \cup {None}, NEW now \in Nat,
         b # None => b.rate = Rate /\ b.lastSeen <= now
  PROVE  refill(b, Rate, now).tokens = LevelAt(b, now)
<1>1. CASE b = None
  BY <1>1 DEF refill, LevelAt, Capacity
<1>2. CASE b # None
  <2> DEFINE d == now - b.lastSeen
  <2>1. d \in Nat
    BY <1>2 DEF Bkt
  <2>2. Max({0, d}) = d
    BY <2>1, MaxMinOfTwo
  <2>3. refill(b, Rate, now) =
           [tokens |-> Least(Rate * BurstSeconds, b.tokens + Max({0, d}) * Rate),
            rate |-> Rate, lastSeen |-> now]
    BY <1>2 DEF refill
  <2>4. refill(b, Rate, now).tokens = Least(Capacity, b.tokens + d * Rate)
    BY <2>2, <2>3 DEF Capacity
  <2> QED BY <1>2, <2>4 DEF LevelAt
<1> QED BY <1>1, <1>2

\* A take at its time, with the limit that stays, is one of the abstract bucket.
LEMMA TakeDecides ==
  ASSUME Typed, SameRate, BurstSeconds <= IdleTimeout, NEW r \in Requests, take(r),
         exact, req[r].now = clock, req[r].limit = Rate
  PROVE  Bucket!Admit(req[r].tenant, req[r].n) \/ Bucket!Reject(req[r].tenant, req[r].n)
<1> DEFINE t == req[r].tenant
           n == req[r].n
           f == Filled(r).tokens
           c == buckets'[t]
<1>1. clock \in Nat /\ clock' = clock /\ t \in Tenants /\ n \in Nat /\ f \in Nat
      /\ f <= Capacity /\ Capacity \in Nat /\ Rate \in Nat
  BY TakeReads, RateIs DEF Typed, take, Bkt
<1>2. Level = [u \in Tenants |-> LevelAt(buckets[u], clock)]
  BY DEF Level, LevelAt
<1>3. Level' = [u \in Tenants |-> LevelAt(buckets'[u], clock)]
  BY <1>1 DEF Level, LevelAt
<1>4. \A u \in Tenants \ {t} : Level'[u] = Level[u]
  <2> TAKE u \in Tenants \ {t}
  <2>1. buckets'[u] = maybeGC(clock)[u]
    BY TakeWrites
  <2>2. LevelAt(maybeGC(clock)[u], clock) = LevelAt(buckets[u], clock)
    BY SweepIsSilent
  <2> QED BY <1>2, <1>3, <2>1, <2>2
<1>5. Level[t] = f
  <2>1. Old(r) = maybeGC(clock)[t] /\ Old(r) \in Bkt \cup {None}
    BY TakeReads DEF Old
  <2>2. Old(r) # None => Old(r).rate = Rate /\ Old(r).lastSeen <= clock
    <3>1. Old(r) # None => Old(r) = buckets[t]
      BY TakeReads
    <3> QED BY <1>1, <3>1 DEF SameRate, Typed
  <2>3. f = LevelAt(Old(r), clock)
    BY <1>1, <2>1, <2>2, RefillIsLevel DEF Filled
  <2>4. LevelAt(Old(r), clock) = LevelAt(buckets[t], clock)
    BY <1>1, <2>1, SweepIsSilent
  <2> QED BY <1>1, <1>2, <2>3, <2>4
<1>6. Level'[t] = IF n <= f THEN f - n ELSE f
  <2>1. c \in Bkt /\ c # None /\ c.lastSeen = clock /\ c.tokens = IF n <= f THEN f - n ELSE f
    BY TakeWrites DEF Fits
  <2>2. LevelAt(c, clock) = Least(Capacity, c.tokens + (clock - clock) * Rate)
    BY <2>1 DEF LevelAt
  <2>3. c.tokens + (clock - clock) * Rate = c.tokens /\ c.tokens \in Nat /\ c.tokens <= Capacity
    <3>1. c.tokens \in Nat /\ c.tokens <= Capacity
      BY <1>1, <2>1
    <3>2. clock - clock = 0 /\ 0 * Rate = 0
      BY <1>1
    <3> QED BY <3>1, <3>2
  <2>4. Least(Capacity, c.tokens) = c.tokens
    <3> DEFINE x == c.tokens
    <3>1. x \in Nat /\ x <= Capacity
      BY <2>3
    <3> HIDE DEF x
    <3>2. Least(Capacity, x) = x
      BY <1>1, <3>1, LeastIs
    <3> QED BY <3>2 DEF x
  <2> QED BY <1>1, <1>3, <2>1, <2>2, <2>3, <2>4
<1>7. verdict' = <<t, n, IF n <= f THEN "allowed" ELSE "rejected">>
  BY DEF take, Filled, Old
<1> HIDE DEF f, c, n, t
<1>8. CASE n <= f
  <2>1. Level' = [Level EXCEPT ![t] = @ - n]
    BY <1>1, <1>2, <1>3, <1>4, <1>5, <1>6, <1>8
  <2>2. n <= Level[t] /\ verdict' = <<t, n, "allowed">>
    BY <1>5, <1>7, <1>8
  <2> QED BY <2>1, <2>2 DEF Bucket!Admit, t, n
<1>9. CASE ~(n <= f)
  <2>1. Level' = Level
    BY <1>1, <1>2, <1>3, <1>4, <1>5, <1>6, <1>9
  <2>2. n > Level[t] /\ verdict' = <<t, n, "rejected">>
    BY <1>1, <1>5, <1>7, <1>9
  <2> QED BY <2>1, <2>2 DEF Bucket!Reject, t, n
<1> QED BY <1>8, <1>9

\* Every step keeps the rates the same while exact holds.
LEMMA SameRateInductive == ASSUME Typed, SameRate, [Next]_vars PROVE SameRate'
<1>1. ASSUME NEW r \in Requests, take(r), exact' PROVE SameRate'
  <2>1. exact /\ req[r].limit = Rate
    BY <1>1 DEF take
  <2>2. req[r].now \in Nat
    BY <1>1, TakeReads
  <2>3. ASSUME NEW u \in Tenants, buckets'[u] # None PROVE buckets'[u].rate = Rate
    <3>1. CASE u = req[r].tenant
      BY <1>1, <2>1, <3>1, TakeWrites
    <3>2. CASE u # req[r].tenant
      <4>1. buckets'[u] = maybeGC(req[r].now)[u]
        BY <1>1, <3>2, TakeWrites
      <4>2. buckets'[u] = buckets[u]
        BY <2>2, <2>3, <4>1, Swept
      <4> QED BY <2>1, <2>3, <4>2 DEF SameRate
    <3> QED BY <3>1, <3>2
  <2> QED BY <2>3 DEF SameRate
<1>2. CASE UNCHANGED <<buckets, exact>>
  BY <1>2 DEF SameRate
<1>3. CASE ~exact'
  BY <1>3 DEF SameRate
<1> QED BY <1>1, <1>2, <1>3 DEF Next, Tick, admit, vars

\* As long as limits stay and requests do not wait for the mutex, lazy refills
\* and collected buckets cannot be told from the abstract bucket, if a bucket
\* that may be collected has had the time to fill up.
THEOREM RefinesTokenBucket ==
  ASSUME BurstSeconds <= IdleTimeout PROVE Spec => ImplementsTokenBucket
<1> DEFINE IInv == Typed /\ SameRate
<1>1. Init => IInv
  BY ConstantsTyped DEF Init, Typed, SameRate
<1>2. IInv /\ [Next]_vars => IInv'
  BY TypedInductive, SameRateInductive
<1>3. Init => Bucket!Init
  BY DEF Init, Bucket!Init, Level
<1>4. IInv /\ [Next]_vars => [exact' => exact /\ Bucket!Next]_(Bucket!vars)
  <2> SUFFICES ASSUME IInv, [Next]_vars
               PROVE  (exact' => exact /\ Bucket!Next) \/ UNCHANGED <<Level, verdict, exact>>
    BY DEF Bucket!vars
  <2>1. CASE Tick
    BY <2>1, TickRefills DEF Bucket!Next, Tick
  <2>2. ASSUME NEW r \in Requests, take(r), exact' PROVE exact /\ Bucket!Next
    <3>1. exact /\ req[r].now = clock /\ req[r].limit = Rate
      BY <2>2 DEF take
    <3>2. req[r].tenant \in Tenants /\ req[r].n \in Batches
      BY <2>2 DEF take, Typed, Request
    <3>3. \/ Bucket!Admit(req[r].tenant, req[r].n)
          \/ Bucket!Reject(req[r].tenant, req[r].n)
      BY <2>2, <3>1, TakeDecides
    <3> QED BY <3>1, <3>2, <3>3 DEF Bucket!Next
  <2>3. CASE UNCHANGED <<clock, buckets, verdict, exact>>
    BY <2>3 DEF Level
  <2> QED BY <2>1, <2>2, <2>3 DEF Next, admit, vars
<1> QED BY <1>1, <1>2, <1>3, <1>4, PTL DEF Spec, ImplementsTokenBucket, Bucket!Spec

=============================================================================
