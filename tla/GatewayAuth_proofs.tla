-------------------------- MODULE GatewayAuth_proofs --------------------------
(***************************************************************************)
(* How long a gateway may be behind the control plane, and that the list   *)
(* and the map of its cache agree, for every cache configuration and any   *)
(* number of keys and overlapping requests; and that the AuthService,      *)
(* which those requests ask, keeps the uses of keys (KeyUsage).            *)
(***************************************************************************)
EXTENDS GatewayAuth, KeyUsage, SequenceTheorems, TLAPS

Typed ==
    /\ clock \in Nat
    /\ key \in [Keys -> {"absent", "creating", "active", "revoked"}]
    /\ status \in [Customers -> {"active", "suspended", "deleted"}]
    /\ limit \in [Customers -> Limits]
    /\ entry \in [Keys -> Entry \cup {None}]
    /\ pc \in [Requests -> {"idle", "rpc", "answer"}]
    /\ rkey \in [Requests -> Keys \cup {None}]
    /\ rnow \in [Requests -> Nat] /\ resp \in [Requests -> Verdicts]
    /\ seen \in [Keys -> [Verdicts -> Nat \cup {None}]]

\* The history is up to date, and of the past.
SeenNow == \A k \in Keys : seen[k][Verdict(k)] = clock
SeenPast == \A k \in Keys, v \in Verdicts : seen[k][v] # None => seen[k][v] <= clock

\* A pending call has a key and is within its deadline, and an answer was the
\* verdict when or after the request took the time.
CallBacked(r) ==
    /\ rkey[r] \in Keys /\ rnow[r] <= clock /\ clock <= rnow[r] + Timeout
    /\ pc[r] = "answer" => /\ seen[rkey[r]][resp[r]] # None
                           /\ rnow[r] <= seen[rkey[r]][resp[r]]
CallsBacked == \A r \in Requests : pc[r] # "idle" => CallBacked(r)

\* No entry outlives its verdict by more than its lifetime.
EntryBacked(k, e) ==
    /\ seen[k][e.verdict] # None
    /\ e.verdict = Invalid => e.fresh <= seen[k][e.verdict] + NegativeTTL
    /\ e.verdict # Invalid => /\ e.fresh <= seen[k][e.verdict] + PositiveTTL
                              /\ e.stale <= seen[k][e.verdict] + StaleIfError
EntriesBacked == \A k \in Keys : entry[k] # None => EntryBacked(k, entry[k])

\* The three properties in one, for a decision taken now.
DecisionBacked(k, v, how) ==
    /\ seen[k][v] # None
    /\ how # "stale" /\ v # Invalid => Timely(k, v, PositiveTTL)
    /\ how = "stale" /\ v # Invalid => Within(k, v, StaleIfError + Timeout)
    /\ v = Invalid => Timely(k, v, NegativeTTL)
DecisionsBacked ==
    decision # None => DecisionBacked(decision.key, decision.verdict, decision.via)

Inv == /\ Typed /\ SeenNow /\ SeenPast
       /\ CallsBacked /\ EntriesBacked /\ DecisionsBacked

-----------------------------------------------------------------------------
(* Lemmas.                                                                 *)

\* A verdict is a limit or Invalid.
LEMMA VerdictTyped == ASSUME Typed PROVE \A k \in Keys : Verdict(k) \in Verdicts
  BY ConstantsTyped DEF Typed, Verdict, Verdicts

\* The lifetime of a positive entry is a natural number.
LEMMA PositiveTTLTyped == PositiveTTL \in Nat
  BY ConstantsTyped, ConfigValid DEF PositiveTTL

\* So are the other spans of time.
LEMMA SpansTyped == NegativeTTL \in Nat /\ StaleIfError \in Nat /\ Timeout \in Nat
  BY ConstantsTyped, ConfigValid

\* Recording what the control plane stands for keeps the history typed and only
\* moves it forward.
LEMMA ObserveForward ==
  ASSUME Inv, Observe, Typed', clock' >= clock
  PROVE  /\ SeenNow' /\ SeenPast'
         /\ \A k \in Keys, v \in Verdicts :
               seen[k][v] # None => seen'[k][v] # None /\ seen[k][v] <= seen'[k][v]
<1>1. clock \in Nat /\ clock' \in Nat
  BY DEF Inv, Typed
<1>2. \A k \in Keys : Verdict(k)' \in Verdicts
  BY ConstantsTyped DEF Typed, Verdict, Verdicts
<1>3. \A k \in Keys, v \in Verdicts :
         seen'[k][v] = IF v = Verdict(k)' THEN clock' ELSE seen[k][v]
  BY DEF Observe
<1>4. \A k \in Keys, v \in Verdicts :
         seen[k][v] # None => seen[k][v] \in Nat /\ seen[k][v] <= clock
  BY DEF Inv, Typed, SeenPast
<1>5. SeenNow'
  BY <1>2, <1>3 DEF SeenNow
<1>6. SeenPast'
  BY <1>1, <1>3, <1>4 DEF SeenPast
<1>7. \A k \in Keys, v \in Verdicts :
         seen[k][v] # None => seen'[k][v] # None /\ seen[k][v] <= seen'[k][v]
  BY <1>1, <1>3, <1>4, ConstantsTyped
<1>. QED  BY <1>5, <1>6, <1>7

\* A step that only moves time or changes the database keeps the rest backed, as
\* long as no call outlives its deadline.
LEMMA HistoryForward ==
  ASSUME Inv, Observe, Typed', clock' >= clock, UNCHANGED <<cache, request>>,
         decision' = None,
         \A r \in Requests : pc[r] # "idle" => clock' <= rnow[r] + Timeout
  PROVE  Inv'
<1>1. \A k \in Keys, v \in Verdicts :
         seen[k][v] # None => seen'[k][v] # None /\ seen[k][v] <= seen'[k][v]
  BY ObserveForward
<1>2. \A k \in Keys, v \in Verdicts : seen[k][v] # None => seen[k][v] \in Nat
  BY DEF Inv, Typed
<1>3. \A k \in Keys, v \in Verdicts : seen'[k][v] # None => seen'[k][v] \in Nat
  BY DEF Typed
<1>4. CallsBacked'
  <2>. SUFFICES ASSUME NEW r \in Requests, pc[r] # "idle" PROVE CallBacked(r)'
    BY DEF CallsBacked, request
  <2>1. CallBacked(r)
    BY DEF Inv, CallsBacked
  <2>2. rnow[r] \in Nat /\ resp[r] \in Verdicts /\ clock \in Nat /\ clock' \in Nat
    BY DEF Inv, Typed
  <2>. QED  BY <1>1, <1>2, <1>3, <2>1, <2>2 DEF CallBacked, request
<1>5. EntriesBacked'
  <2>. SUFFICES ASSUME NEW k \in Keys, entry[k] # None
                PROVE  EntryBacked(k, entry[k])'
    BY DEF EntriesBacked, cache
  <2>1. EntryBacked(k, entry[k])
    BY DEF Inv, EntriesBacked
  <2>2. entry[k] \in Entry
    BY DEF Inv, Typed
  <2>3. /\ entry[k].verdict \in Verdicts /\ entry[k].fresh \in Nat
        /\ entry[k].stale \in Nat
    BY <2>2 DEF Entry
  <2>4. StaleIfError \in Nat /\ NegativeTTL \in Nat /\ PositiveTTL \in Nat
    BY ConstantsTyped, ConfigValid, PositiveTTLTyped
  <2>5. entry'[k] = entry[k]
    BY DEF cache
  <2>6. PositiveTTL' = PositiveTTL
    BY DEF PositiveTTL
  <2>. QED  BY <1>1, <1>2, <1>3, <2>1, <2>3, <2>4, <2>5, <2>6 DEF EntryBacked
<1>6. SeenNow' /\ SeenPast'
  BY ObserveForward
<1>7. DecisionsBacked'
  BY DEF DecisionsBacked
<1>. QED  BY <1>4, <1>5, <1>6, <1>7 DEF Inv

\* The initial state.
LEMMA InitInv == Init => Inv
<1>. SUFFICES ASSUME Init PROVE Inv
  OBVIOUS
<1>1. Typed
  BY ConstantsTyped DEF Init, Typed, Verdicts
<1>2. SeenNow /\ SeenPast
  BY <1>1, VerdictTyped, ConstantsTyped DEF Init, SeenNow, SeenPast
<1>3. CallsBacked /\ EntriesBacked /\ DecisionsBacked
  BY DEF Init, CallsBacked, EntriesBacked, DecisionsBacked
<1>. QED  BY <1>1, <1>2, <1>3 DEF Inv

\* Time passes.
LEMMA TickKeeps == ASSUME Inv, Tick PROVE Inv'
<1>1. clock \in Nat /\ clock' = clock + 1
  BY DEF Inv, Typed, Tick
<1>2. Typed'
  <2>1. seen' \in [Keys -> [Verdicts -> Nat \cup {None}]]
    BY <1>1 DEF Inv, Typed, Tick, Observe
  <2>. QED  BY <1>1, <2>1 DEF Inv, Typed, Tick, db, cache, request
<1>3. \A r \in Requests : pc[r] # "idle" => clock' <= rnow[r] + Timeout
  BY <1>1, ConstantsTyped DEF Inv, Typed, Tick
<1>4. Observe /\ decision' = None /\ UNCHANGED <<cache, request>>
  BY DEF Tick
<1>. QED  BY <1>1, <1>2, <1>3, <1>4, HistoryForward

\* A change to a key or a customer.
LEMMA ChangeKeeps ==
  ASSUME Inv, Change,
         key' \in [Keys -> {"absent", "creating", "active", "revoked"}],
         status' \in [Customers -> {"active", "suspended", "deleted"}],
         limit' \in [Customers -> Limits]
  PROVE  Inv'
<1>1. clock \in Nat /\ clock' = clock
  BY DEF Inv, Typed, Change
<1>2. Typed'
  <2>1. seen' \in [Keys -> [Verdicts -> Nat \cup {None}]]
    BY <1>1 DEF Inv, Typed, Change, Observe
  <2>. QED  BY <1>1, <2>1 DEF Inv, Typed, Change, cache, request
<1>3. \A r \in Requests : pc[r] # "idle" => clock' <= rnow[r] + Timeout
  BY <1>1 DEF Inv, CallsBacked, CallBacked
<1>4. Observe /\ decision' = None /\ UNCHANGED <<cache, request>>
  BY DEF Change
<1>. QED  BY <1>1, <1>2, <1>3, <1>4, HistoryForward

\* The control plane answers a call with what it stands for now.
LEMMA AnswerKeeps ==
  ASSUME Inv, NEW r \in Requests, ValidateAPIKey(r) PROVE Inv'
<1>. DEFINE k == rkey[r]
<1>1. pc[r] = "rpc" /\ CallBacked(r) /\ k \in Keys
  BY DEF Inv, CallsBacked, CallBacked, ValidateAPIKey
<1>2. Verdict(k) \in Verdicts /\ seen[k][Verdict(k)] = clock
  BY <1>1, VerdictTyped DEF Inv, SeenNow
<1>3. Typed'
  BY <1>2 DEF Inv, Typed, ValidateAPIKey, db, cache
<1>4. \A j \in Keys : Verdict(j)' = Verdict(j)
  BY DEF ValidateAPIKey, db, Verdict
<1>5. SeenNow' /\ SeenPast'
  BY <1>4 DEF Inv, ValidateAPIKey, SeenNow, SeenPast
<1>6. CallsBacked'
  <2>. SUFFICES ASSUME NEW q \in Requests, pc'[q] # "idle" PROVE CallBacked(q)'
    BY DEF CallsBacked
  <2>1. CASE q = r
    <3>1. resp'[q] = Verdict(k) /\ rkey'[q] = k /\ rnow'[q] = rnow[q]
      BY <2>1 DEF ValidateAPIKey, Inv, Typed
    <3>2. clock' = clock /\ seen' = seen /\ clock \in Nat
      BY DEF ValidateAPIKey, Inv, Typed
    <3>. QED  BY <1>1, <1>2, <2>1, <3>1, <3>2, ConstantsTyped DEF CallBacked
  <2>2. CASE q # r
    <3>1. pc'[q] = pc[q] /\ resp'[q] = resp[q]
      BY <2>2 DEF ValidateAPIKey, Inv, Typed
    <3>2. CallBacked(q)
      BY <3>1 DEF Inv, CallsBacked
    <3>. QED  BY <3>1, <3>2 DEF CallBacked, ValidateAPIKey
  <2>. QED  BY <2>1, <2>2
<1>7. EntriesBacked' /\ DecisionsBacked'
  BY DEF Inv, EntriesBacked, EntryBacked, PositiveTTL, DecisionsBacked,
         ValidateAPIKey, cache
<1>. QED  BY <1>3, <1>5, <1>6, <1>7 DEF Inv

\* The parts of the invariant that a step of the extension leaves alone.
LEMMA GatewayStep ==
  ASSUME Inv, UNCHANGED <<clock, db, seen>> PROVE SeenNow' /\ SeenPast'
<1>1. \A j \in Keys : Verdict(j)' = Verdict(j)
  BY DEF db, Verdict
<1>. QED  BY <1>1 DEF Inv, SeenNow, SeenPast

\* A fresh entry decides, or a call starts.
LEMMA AuthenticateKeeps ==
  ASSUME Inv, NEW r \in Requests, NEW k \in Keys, Authenticate(r, k) PROVE Inv'
<1>1. SeenNow' /\ SeenPast'
  BY GatewayStep DEF Authenticate
<1>2. clock \in Nat /\ clock' = clock /\ seen' = seen /\ entry' = entry
  BY DEF Inv, Typed, Authenticate
<1>3. EntriesBacked'
  BY <1>2 DEF Inv, EntriesBacked, EntryBacked, PositiveTTL
<1>4. CASE /\ entry[k] # None /\ clock < entry[k].fresh
           /\ Decide(k, entry[k].verdict, "cache") /\ UNCHANGED request
  <2>. DEFINE v == entry[k].verdict
  <2>1. Typed' /\ CallsBacked'
    BY <1>2, <1>4 DEF Inv, Typed, Authenticate, db, request, CallsBacked, CallBacked
  <2>2. EntryBacked(k, entry[k]) /\ entry[k] \in Entry
    BY <1>4 DEF Inv, EntriesBacked, Typed
  <2>3. v \in Verdicts /\ entry[k].fresh \in Nat
    BY <2>2 DEF Entry
  <2>4. seen[k][v] \in Nat
    BY <2>2, <2>3 DEF EntryBacked, Inv, Typed
  <2>5. DecisionBacked(k, v, "cache")
    <3>1. /\ seen[k][v] # None
          /\ v = Invalid => entry[k].fresh <= seen[k][v] + NegativeTTL
          /\ v # Invalid => entry[k].fresh <= seen[k][v] + PositiveTTL
      BY <2>2, Zenon DEF EntryBacked
    <3>2. clock < entry[k].fresh
      BY <1>4
    <3>3. CASE v = Invalid
      <4>1. clock < seen[k][v] + NegativeTTL
        BY <1>2, <2>3, <2>4, <3>1, <3>2, <3>3, SpansTyped
      <4>. QED  BY <2>4, <3>1, <3>3, <4>1, Zenon DEF DecisionBacked, Timely, Within
    <3>4. CASE v # Invalid
      <4>1. clock < seen[k][v] + PositiveTTL
        BY <1>2, <2>3, <2>4, <3>1, <3>2, <3>4, PositiveTTLTyped
      <4>. QED  BY <2>4, <3>1, <3>4, <4>1 DEF DecisionBacked, Timely, Within
    <3>. QED  BY <3>3, <3>4
  <2>6. DecisionBacked(k, v, "cache")'
    BY <1>2, <2>5 DEF DecisionBacked, Timely, Within, PositiveTTL
  <2>7. /\ decision'.key = k /\ decision'.verdict = v
        /\ decision'.via = "cache"
    BY <1>4, Zenon DEF Decide
  <2>8. DecisionsBacked'
    BY <1>2, <2>6, <2>7 DEF DecisionsBacked
  <2>. QED  BY <1>1, <1>3, <2>1, <2>8 DEF Inv
<1>5. CASE /\ pc' = [pc EXCEPT ![r] = "rpc"] /\ rkey' = [rkey EXCEPT ![r] = k]
           /\ rnow' = [rnow EXCEPT ![r] = clock]
           /\ decision' = None /\ UNCHANGED resp
  <2>1. Typed'
    BY <1>2, <1>5 DEF Inv, Typed, Authenticate, db
  <2>2. CallsBacked'
    <3>. SUFFICES ASSUME NEW q \in Requests, pc'[q] # "idle" PROVE CallBacked(q)'
      BY DEF CallsBacked
    <3>1. CASE q = r
      <4>1. pc'[q] = "rpc" /\ rkey'[q] = k /\ rnow'[q] = clock
        BY <1>5, <3>1 DEF Inv, Typed
      <4>. QED  BY <1>2, <4>1, ConstantsTyped DEF CallBacked
    <3>2. CASE q # r
      <4>1. /\ pc'[q] = pc[q] /\ rkey'[q] = rkey[q] /\ rnow'[q] = rnow[q]
            /\ resp' = resp
        BY <1>5, <3>2 DEF Inv, Typed
      <4>2. CallBacked(q)
        BY <4>1 DEF Inv, CallsBacked
      <4>. QED  BY <1>2, <4>1, <4>2 DEF CallBacked
    <3>. QED  BY <3>1, <3>2
  <2>. QED  BY <1>1, <1>3, <1>5, <2>1, <2>2 DEF Inv, DecisionsBacked
<1>. QED  BY <1>4, <1>5 DEF Authenticate

\* A request that returns leaves the other requests as they are.
LEMMA ReturnKeeps ==
  ASSUME Inv, NEW r \in Requests, Return(r), UNCHANGED <<clock, seen>>
  PROVE  /\ CallsBacked'
         /\ pc' \in [Requests -> {"idle", "rpc", "answer"}]
         /\ rkey' \in [Requests -> Keys \cup {None}]
         /\ rnow' \in [Requests -> Nat] /\ resp' \in [Requests -> Verdicts]
<1>1. /\ pc' \in [Requests -> {"idle", "rpc", "answer"}]
      /\ rkey' \in [Requests -> Keys \cup {None}]
      /\ rnow' \in [Requests -> Nat] /\ resp' \in [Requests -> Verdicts]
  BY DEF Inv, Typed, Return, Verdicts
<1>2. CallsBacked'
  <2>. SUFFICES ASSUME NEW q \in Requests, pc'[q] # "idle" PROVE CallBacked(q)'
    BY DEF CallsBacked
  <2>1. q # r
    BY DEF Inv, Typed, Return
  <2>2. /\ pc'[q] = pc[q] /\ rkey'[q] = rkey[q] /\ rnow'[q] = rnow[q]
        /\ resp'[q] = resp[q]
    BY <2>1 DEF Inv, Typed, Return
  <2>3. CallBacked(q)
    BY <2>2 DEF Inv, CallsBacked
  <2>. QED  BY <2>2, <2>3 DEF CallBacked
<1>. QED  BY <1>1, <1>2

\* An answer is cached, and decides.
LEMMA AnsweredKeeps ==
  ASSUME Inv, NEW r \in Requests, Answered(r) PROVE Inv'
<1>. DEFINE k == rkey[r]  v == resp[r]  e == cacheEntry(rnow[r], v)
<1>1. pc[r] = "answer" /\ CallBacked(r) /\ k \in Keys /\ v \in Verdicts
  BY DEF Inv, Typed, CallsBacked, CallBacked, Answered
<1>2. clock \in Nat /\ clock' = clock /\ seen' = seen /\ rnow[r] \in Nat
  BY DEF Inv, Typed, Answered
<1>3. seen[k][v] \in Nat /\ rnow[r] <= seen[k][v]
  BY <1>1 DEF CallBacked, Inv, Typed
<1>4. clock <= seen[k][v] + Timeout
  BY <1>1, <1>2, <1>3, ConstantsTyped DEF CallBacked
<1>5. StaleIfError \in Nat /\ NegativeTTL \in Nat /\ PositiveTTL \in Nat
  BY ConstantsTyped, ConfigValid, PositiveTTLTyped
<1>6. /\ e \in Entry /\ e.verdict = v
      /\ v = Invalid => e.fresh = rnow[r] + NegativeTTL
      /\ v # Invalid => /\ e.fresh = rnow[r] + PositiveTTL
                        /\ e.stale = rnow[r] + StaleIfError
  BY <1>1, <1>2, <1>5 DEF cacheEntry, Entry
<1>7. EntryBacked(k, e)
  BY <1>2, <1>3, <1>5, <1>6, ConstantsTyped DEF EntryBacked
<1>8. \A j \in Keys : \/ j = k /\ entry'[j] = e
                      \/ entry'[j] = None
                      \/ entry'[j] = entry[j]
  BY <1>1, Zenon DEF Answered, Put, Inv, Typed
<1>9. entry' \in [Keys -> Entry \cup {None}]
  <2>1. \A j \in Keys : entry'[j] \in Entry \cup {None}
    BY <1>6, <1>8 DEF Inv, Typed
  <2>2. entry' = [j \in Keys |-> entry'[j]]
    BY <1>1, Zenon DEF Answered, Put, Inv, Typed
  <2>. QED  BY <2>1, <2>2
<1>10. Return(r) /\ UNCHANGED <<clock, seen>>
  BY DEF Answered
<1>11. Typed' /\ CallsBacked'
  BY <1>2, <1>9, <1>10, ReturnKeeps DEF Inv, Typed, Answered, db
<1>12. SeenNow' /\ SeenPast'
  BY GatewayStep DEF Answered
<1>13. EntriesBacked'
  <2>1. \A j \in Keys : entry'[j] # None => EntryBacked(j, entry'[j])
    BY <1>7, <1>8 DEF Inv, EntriesBacked
  <2>. QED  BY <1>2, <2>1 DEF EntriesBacked, EntryBacked, PositiveTTL
<1>14. DecisionsBacked'
  <2>1. Within(k, v, Timeout + 1)
    <3>1. clock < seen[k][v] + (Timeout + 1)
      BY <1>2, <1>3, <1>4, SpansTyped
    <3>. QED  BY <1>3, <3>1 DEF Within
  <2>2. DecisionBacked(k, v, "rpc")
    BY <1>3, <2>1, ConstantsTyped DEF DecisionBacked, Timely
  <2>3. decision' = [key |-> k, verdict |-> v, via |-> "rpc"]
    BY DEF Answered, Decide
  <2>4. decision'.key = k /\ decision'.verdict = v /\ decision'.via = "rpc"
    BY <2>3, Zenon
  <2>. QED  BY <1>2, <2>2, <2>4 DEF DecisionsBacked, DecisionBacked, Timely, Within,
                                    PositiveTTL
<1>. QED  BY <1>11, <1>12, <1>13, <1>14 DEF Inv

\* A call fails, and a stale entry may decide.
LEMMA UnavailableKeeps ==
  ASSUME Inv, NEW r \in Requests, Unavailable(r) PROVE Inv'
<1>. DEFINE k == rkey[r]  e == entry[k]
<1>1. CallBacked(r) /\ k \in Keys
  BY DEF Inv, CallsBacked, CallBacked, Unavailable
<1>2. /\ clock \in Nat /\ clock' = clock /\ seen' = seen /\ entry' = entry
      /\ rnow[r] \in Nat
  BY DEF Inv, Typed, Unavailable
<1>3. Return(r) /\ UNCHANGED <<clock, seen>>
  BY DEF Unavailable
<1>4. Typed' /\ CallsBacked'
  BY <1>2, <1>3, ReturnKeeps DEF Inv, Typed, Unavailable, db
<1>5. SeenNow' /\ SeenPast'
  BY GatewayStep DEF Unavailable
<1>6. EntriesBacked'
  BY <1>2 DEF Inv, EntriesBacked, EntryBacked, PositiveTTL
<1>7. CASE decision' = None
  BY <1>4, <1>5, <1>6, <1>7 DEF Inv, DecisionsBacked
<1>8. CASE /\ e # None /\ e.verdict # Invalid /\ rnow[r] < e.stale
           /\ Decide(k, e.verdict, "stale")
  <2>. DEFINE v == e.verdict
  <2>1. EntryBacked(k, e) /\ e \in Entry
    BY <1>1, <1>8 DEF Inv, EntriesBacked, Typed
  <2>2. v \in Verdicts /\ e.stale \in Nat
    BY <2>1 DEF Entry
  <2>3. seen[k][v] \in Nat
    BY <1>1, <2>1, <2>2 DEF EntryBacked, Inv, Typed
  <2>4. Within(k, v, StaleIfError + Timeout)
    <3>1. e.stale <= seen[k][v] + StaleIfError /\ rnow[r] < e.stale
      BY <1>8, <2>1 DEF EntryBacked
    <3>2. clock <= rnow[r] + Timeout
      BY <1>1 DEF CallBacked
    <3>3. clock < seen[k][v] + (StaleIfError + Timeout)
      BY <1>2, <2>2, <2>3, <3>1, <3>2, SpansTyped
    <3>. QED  BY <2>3, <3>3 DEF Within
  <2>5. DecisionBacked(k, v, "stale")
    BY <1>8, <2>3, <2>4, ConstantsTyped DEF DecisionBacked
  <2>6. decision' = [key |-> k, verdict |-> v, via |-> "stale"]
    BY <1>8 DEF Decide
  <2>7. decision'.key = k /\ decision'.verdict = v /\ decision'.via = "stale"
    BY <2>6, Zenon
  <2>8. DecisionsBacked'
    BY <1>2, <2>5, <2>7 DEF DecisionsBacked, DecisionBacked, Timely, Within, PositiveTTL
  <2>. QED  BY <1>4, <1>5, <1>6, <2>8 DEF Inv
<1>. QED  BY <1>7, <1>8 DEF Unavailable

\* Every step keeps the invariant.
LEMMA NextInv == Inv /\ [Next]_vars => Inv'
<1>. SUFFICES ASSUME Inv, [Next]_vars PROVE Inv'
  OBVIOUS
<1>1. CASE Tick
  BY <1>1, TickKeeps
<1>2. CASE \E k \in Keys : CreateAPIKey(k) \/ insertAPIKey(k) \/ RevokeAPIKey(k)
  BY <1>2, ChangeKeeps DEF CreateAPIKey, insertAPIKey, RevokeAPIKey, Inv, Typed
<1>3. CASE \E c \in Customers, s \in {"active", "suspended"}, l \in Limits :
              UpdateCustomer(c, s, l)
  BY <1>3, ChangeKeeps DEF UpdateCustomer, Inv, Typed
<1>4. CASE \E c \in Customers : SoftDeleteCustomer(c)
  BY <1>4, ChangeKeeps DEF SoftDeleteCustomer, Inv, Typed
<1>5. CASE \E r \in Requests, k \in Keys : Authenticate(r, k)
  BY <1>5, AuthenticateKeeps
<1>6. CASE \E r \in Requests : ValidateAPIKey(r) \/ Answered(r) \/ Unavailable(r)
  BY <1>6, AnswerKeeps, AnsweredKeeps, UnavailableKeeps
<1>7. CASE UNCHANGED vars
  BY <1>7, Zenon DEF vars, db, cache, request, Inv, Typed, SeenNow, SeenPast, Verdict,
     CallsBacked, CallBacked, EntriesBacked, EntryBacked, PositiveTTL,
     DecisionsBacked, DecisionBacked, Timely, Within
<1>. QED  BY <1>1, <1>2, <1>3, <1>4, <1>5, <1>6, <1>7 DEF Next

-----------------------------------------------------------------------------
(* The cache.                                                              *)

Distinct(l) == \A i, j \in DOMAIN l : l[i] = l[j] => i = j

CacheInv == lru \in Seq(Keys) /\ CacheConsistent

\* A list of keys holds keys.
LEMMA KeysOnly == ASSUME NEW l \in Seq(Keys) PROVE ToSet(l) \subseteq Keys
<1>1. \A i \in DOMAIN l : l[i] \in Keys
  OBVIOUS
<1> QED BY <1>1, Zenon DEF ToSet

\* A new key at the front of the list.
LEMMA Pushed ==
  ASSUME NEW l \in Seq(Keys), Distinct(l), NEW k \in Keys, k \notin ToSet(l)
  PROVE  /\ <<k>> \o l \in Seq(Keys) /\ Len(<<k>> \o l) = Len(l) + 1
         /\ (<<k>> \o l)[1] = k
         /\ Distinct(<<k>> \o l) /\ ToSet(<<k>> \o l) = ToSet(l) \cup {k}
<1> DEFINE m == <<k>> \o l
<1>1. m \in Seq(Keys) /\ Len(m) = Len(l) + 1 /\ DOMAIN m = 1..Len(l) + 1
      /\ DOMAIN l = 1..Len(l) /\ Len(l) \in Nat
  OBVIOUS
<1>2. \A i \in 1..1 + Len(l) : m[i] = IF i <= 1 THEN <<k>>[i] ELSE l[i - 1]
  <2>1. <<k>> \in Seq(Keys) /\ Len(<<k>>) = 1
    OBVIOUS
  <2> QED BY <2>1, ConcatProperties
<1> HIDE DEF m
<1>3. m[1] = k /\ \A i \in 1..Len(l) : m[i + 1] = l[i]
  <2>1. 1 \in 1..1 + Len(l) /\ <<k>>[1] = k
    BY <1>1
  <2>2. ASSUME NEW i \in 1..Len(l) PROVE m[i + 1] = l[i]
    <3>1. i + 1 \in 1..1 + Len(l) /\ ~(i + 1 <= 1) /\ (i + 1) - 1 = i
      BY <1>1
    <3> QED BY <1>2, <3>1
  <2> QED BY <1>2, <2>1, <2>2
<1>4. \A i \in DOMAIN m : i = 1 \/ (i - 1 \in 1..Len(l) /\ m[i] = l[i - 1])
  <2>1. ASSUME NEW i \in DOMAIN m, i # 1 PROVE i - 1 \in 1..Len(l) /\ m[i] = l[i - 1]
    <3>1. i \in 1..1 + Len(l) /\ i - 1 \in 1..Len(l) /\ ~(i <= 1)
      BY <1>1, <2>1
    <3> QED BY <1>2, <3>1
  <2> QED BY <2>1
<1>5. Distinct(m)
  BY <1>1, <1>3, <1>4 DEF Distinct, ToSet
<1>6. ToSet(m) \subseteq ToSet(l) \cup {k}
  BY <1>1, <1>3, <1>4 DEF ToSet
<1>7. ToSet(l) \cup {k} \subseteq ToSet(m)
  <2>1. k \in ToSet(m)
    BY <1>1, <1>3 DEF ToSet
  <2>2. \A i \in DOMAIN l : l[i] = m[i + 1] /\ i + 1 \in DOMAIN m
    BY <1>1, <1>3
  <2> QED BY <2>1, <2>2 DEF ToSet
<1> QED BY <1>1, <1>3, <1>5, <1>6, <1>7 DEF m

\* The list without one of its elements.
LEMMA Removed ==
  ASSUME NEW l \in Seq(Keys), Distinct(l), NEW p \in DOMAIN l
  PROVE  /\ RemoveAt(l, p) \in Seq(Keys) /\ Len(RemoveAt(l, p)) = Len(l) - 1
         /\ Distinct(RemoveAt(l, p)) /\ ToSet(RemoveAt(l, p)) = ToSet(l) \ {l[p]}
<1> DEFINE m == RemoveAt(l, p)
<1>1. p \in 1..Len(l) /\ DOMAIN l = 1..Len(l) /\ Len(l) \in Nat
  OBVIOUS
<1>2. /\ SubSeq(l, 1, p - 1) \in Seq(Keys) /\ Len(SubSeq(l, 1, p - 1)) = p - 1
      /\ \A i \in 1..p - 1 : SubSeq(l, 1, p - 1)[i] = l[i]
  BY <1>1, SubSeqProperties
<1>3. /\ SubSeq(l, p + 1, Len(l)) \in Seq(Keys)
      /\ Len(SubSeq(l, p + 1, Len(l))) = Len(l) - p
      /\ \A i \in 1..Len(l) - p : SubSeq(l, p + 1, Len(l))[i] = l[p + i]
  BY <1>1, SubSeqProperties
<1>4. /\ m \in Seq(Keys) /\ Len(m) = Len(l) - 1 /\ DOMAIN m = 1..Len(l) - 1
      /\ \A i \in 1..Len(l) - 1 : m[i] = IF i < p THEN l[i] ELSE l[i + 1]
  <2> DEFINE a == SubSeq(l, 1, p - 1)
             b == SubSeq(l, p + 1, Len(l))
  <2>1. m = a \o b
    BY DEF RemoveAt
  <2>2. /\ a \in Seq(Keys) /\ Len(a) = p - 1 /\ \A i \in 1..p - 1 : a[i] = l[i]
        /\ b \in Seq(Keys) /\ Len(b) = Len(l) - p
        /\ \A i \in 1..Len(l) - p : b[i] = l[p + i]
    BY <1>2, <1>3
  <2> HIDE DEF a, b, m
  <2>3. m \in Seq(Keys) /\ Len(m) = Len(l) - 1 /\ DOMAIN m = 1..Len(l) - 1
    <3>1. m \in Seq(Keys) /\ Len(m) = Len(a) + Len(b)
      BY <2>1, <2>2, ConcatProperties
    <3> QED BY <1>1, <2>2, <3>1
  <2>4. ASSUME NEW i \in 1..Len(l) - 1 PROVE m[i] = IF i < p THEN l[i] ELSE l[i + 1]
    <3>1. m[i] = IF i <= Len(a) THEN a[i] ELSE b[i - Len(a)]
      BY <1>1, <2>1, <2>2, <2>4
    <3>2. CASE i < p
      BY <1>1, <2>2, <3>1, <3>2
    <3>3. CASE ~(i < p)
      <4>1. i - (p - 1) \in 1..Len(l) - p /\ p + (i - (p - 1)) = i + 1
        BY <1>1, <2>4, <3>3
      <4>2. b[i - (p - 1)] = l[i + 1]
        BY <2>2, <4>1
      <4> QED BY <1>1, <2>2, <3>1, <3>3, <4>2
    <3> QED BY <3>2, <3>3
  <2> QED BY <2>3, <2>4
<1> HIDE DEF m
<1>5. Distinct(m)
  <2> SUFFICES ASSUME NEW i \in DOMAIN m, NEW j \in DOMAIN m, m[i] = m[j] PROVE i = j
    BY DEF Distinct
  <2> DEFINE at(x) == IF x < p THEN x ELSE x + 1
  <2>1. /\ at(i) \in DOMAIN l /\ at(j) \in DOMAIN l
        /\ m[i] = l[at(i)] /\ m[j] = l[at(j)]
    BY <1>1, <1>4
  <2>2. at(i) = at(j)
    BY <2>1 DEF Distinct
  <2> QED BY <1>1, <1>4, <2>2
<1>6. ToSet(m) \subseteq ToSet(l) \ {l[p]}
  BY <1>1, <1>4 DEF ToSet, Distinct
<1>7. ToSet(l) \ {l[p]} \subseteq ToSet(m)
  <2> SUFFICES ASSUME NEW i \in DOMAIN l, i # p PROVE l[i] \in ToSet(m)
    BY DEF ToSet
  <2>1. CASE i < p
    BY <1>1, <1>4, <2>1 DEF ToSet
  <2>2. CASE i > p
    <3>1. i - 1 \in DOMAIN m /\ m[i - 1] = l[i]
      BY <1>1, <1>4, <2>2
    <3> QED BY <3>1 DEF ToSet
  <2> QED BY <1>1, <2>1, <2>2
<1> QED BY <1>4, <1>5, <1>6, <1>7 DEF m

\* The list without its last element.
LEMMA FrontRemoves ==
  ASSUME NEW l \in Seq(Keys), Distinct(l), Len(l) \in DOMAIN l
  PROVE  /\ Front(l) \in Seq(Keys) /\ Len(Front(l)) = Len(l) - 1
         /\ Distinct(Front(l)) /\ ToSet(Front(l)) = ToSet(l) \ {Last(l)}
<1>1. Len(l) \in 1..Len(l) /\ DOMAIN l = 1..Len(l) /\ Len(l) \in Nat
  OBVIOUS
<1>2. /\ Front(l) \in Seq(Keys) /\ Len(Front(l)) = Len(l) - 1
      /\ DOMAIN Front(l) = 1..Len(l) - 1
      /\ \A i \in 1..Len(l) - 1 : Front(l)[i] = l[i]
  BY <1>1, SubSeqProperties DEF Front
<1>3. Distinct(Front(l))
  BY <1>1, <1>2 DEF Distinct
<1>4. ToSet(Front(l)) = ToSet(l) \ {Last(l)}
  BY <1>1, <1>2 DEF ToSet, Distinct, Last
<1> QED BY <1>2, <1>3, <1>4

\* MoveToFront permutes the list.
LEMMA Moved ==
  ASSUME CacheInv, NEW k \in Keys, entry[k] # None
  PROVE  /\ MoveToFront(k) \in Seq(Keys) /\ Len(MoveToFront(k)) = Len(lru)
         /\ Distinct(MoveToFront(k)) /\ ToSet(MoveToFront(k)) = ToSet(lru)
<1> DEFINE p == CHOOSE i \in DOMAIN lru : lru[i] = k
           l == RemoveAt(lru, p)
<1>1. lru \in Seq(Keys) /\ Distinct(lru) /\ k \in ToSet(lru) /\ Len(lru) \in Nat
  BY DEF CacheInv, CacheConsistent, Distinct
<1>2. p \in DOMAIN lru /\ lru[p] = k
  BY <1>1 DEF ToSet
<1>3. MoveToFront(k) = <<k>> \o l
  BY DEF MoveToFront
<1> HIDE DEF p
<1>4. /\ l \in Seq(Keys) /\ Len(l) = Len(lru) - 1
      /\ Distinct(l) /\ ToSet(l) = ToSet(lru) \ {k}
  BY <1>1, <1>2, Removed
<1> HIDE DEF l
<1>5. /\ <<k>> \o l \in Seq(Keys) /\ Len(<<k>> \o l) = Len(l) + 1
      /\ Distinct(<<k>> \o l) /\ ToSet(<<k>> \o l) = ToSet(l) \cup {k}
  BY <1>4, Pushed
<1>6. Len(<<k>> \o l) = Len(lru)
  BY <1>1, <1>4, <1>5
<1>7. ToSet(<<k>> \o l) = ToSet(lru)
  BY <1>1, <1>4, <1>5
<1> QED BY <1>3, <1>5, <1>6, <1>7

\* keyCache.get keeps the cache consistent.
LEMMA TouchKeepsCache ==
  ASSUME CacheInv, NEW k \in Keys, Touch(k), entry' = entry PROVE CacheInv'
<1>1. CASE entry[k] = None
  BY <1>1 DEF CacheInv, CacheConsistent, Touch
<1>2. CASE entry[k] # None
  <2>1. lru' = MoveToFront(k)
    BY <1>2 DEF Touch
  <2>2. /\ lru' \in Seq(Keys) /\ Len(lru') = Len(lru) /\ Distinct(lru')
        /\ ToSet(lru') = ToSet(lru)
    BY <1>2, <2>1, Moved
  <2> QED BY <2>2 DEF CacheInv, CacheConsistent, Distinct
<1> QED BY <1>1, <1>2

\* keyCache.put keeps the cache consistent: over MaxEntries, the last of the list
\* goes, which is not the key that was put.
LEMMA PutKeepsCache ==
  ASSUME CacheInv, entry \in [Keys -> Entry \cup {None}],
         NEW k \in Keys, NEW e \in Entry, Put(k, e)
  PROVE  CacheInv'
<1> DEFINE l == <<k>> \o lru
<1>1. lru \in Seq(Keys) /\ Distinct(lru) /\ Len(lru) \in Nat /\ Len(lru) <= MaxEntries
      /\ \A j \in Keys : (entry[j] # None) = (j \in ToSet(lru))
  BY DEF CacheInv, CacheConsistent, Distinct
<1>2. e # None
  BY ConstantsTyped
<1>3. MaxEntries \in Nat /\ MaxEntries >= 1
  BY ConfigValid
<1>4. CASE entry[k] # None
  <2>1. lru' = MoveToFront(k) /\ entry' = [entry EXCEPT ![k] = e]
    BY <1>4 DEF Put
  <2>2. /\ lru' \in Seq(Keys) /\ Len(lru') = Len(lru) /\ Distinct(lru')
        /\ ToSet(lru') = ToSet(lru)
    BY <1>4, <2>1, Moved
  <2>3. \A j \in Keys : (entry'[j] # None) = (entry[j] # None)
    BY <1>2, <1>4, <2>1
  <2>4. ToSet(lru') \subseteq Keys
    BY <2>2, KeysOnly
  <2>5. {j \in Keys : entry'[j] # None} = ToSet(lru')
    BY <1>1, <2>2, <2>3, <2>4
  <2> QED BY <1>1, <2>2, <2>5 DEF CacheInv, CacheConsistent, Distinct
<1>5. CASE entry[k] = None
  <2>1. /\ l \in Seq(Keys) /\ Len(l) = Len(lru) + 1 /\ l[1] = k
        /\ Distinct(l) /\ ToSet(l) = ToSet(lru) \cup {k}
    BY <1>1, <1>5, Pushed
  <2>2. /\ lru' = IF Len(l) > MaxEntries THEN Front(l) ELSE l
        /\ \A j \in Keys : entry'[j] =
              IF j = k THEN e
              ELSE IF Len(l) > MaxEntries /\ j = Last(l) THEN None ELSE entry[j]
    BY <1>5 DEF Put
  <2> HIDE DEF l
  <2>3. CASE ~(Len(l) > MaxEntries)
    <3>1. lru' = l /\ Len(l) <= MaxEntries
      <4>1. lru' = l
        BY <2>2, <2>3, Zenon
      <4>2. Len(l) \in Nat
        BY <1>1, <2>1
      <4> QED BY <1>3, <2>3, <4>1, <4>2
    <3>2. \A j \in Keys : (entry'[j] # None) = (j \in ToSet(l))
      BY <1>1, <1>2, <2>1, <2>2, <2>3
    <3>3. ToSet(l) \subseteq Keys
      BY <2>1, KeysOnly
    <3>4. {j \in Keys : entry'[j] # None} = ToSet(l)
      BY <3>2, <3>3
    <3> QED BY <2>1, <3>1, <3>4 DEF CacheInv, CacheConsistent, Distinct
  <2>4. CASE Len(l) > MaxEntries
    <3>1. Len(l) \in DOMAIN l /\ Len(l) - 1 = MaxEntries /\ Len(l) # 1
      BY <1>1, <1>3, <2>1, <2>4
    <3>2. Last(l) # k
      BY <1>1, <1>3, <2>1, <3>1 DEF Last, Distinct
    <3>3. /\ Front(l) \in Seq(Keys) /\ Len(Front(l)) = Len(l) - 1
          /\ Distinct(Front(l)) /\ ToSet(Front(l)) = ToSet(l) \ {Last(l)}
      BY <2>1, <3>1, FrontRemoves
    <3>4. ASSUME NEW j \in Keys PROVE (entry'[j] # None) = (j \in ToSet(Front(l)))
      <4>1. j \in ToSet(Front(l)) <=> (j = k \/ j \in ToSet(lru)) /\ j # Last(l)
        BY <2>1, <3>3, Zenon
      <4>2. entry'[j] = IF j = k THEN e ELSE IF j = Last(l) THEN None ELSE entry[j]
        BY <2>2, <2>4, Zenon
      <4>3. entry[j] # None <=> j \in ToSet(lru)
        BY <1>1
      <4>4. entry'[j] # None <=> j \in ToSet(Front(l))
        BY <1>2, <3>2, <4>1, <4>2, <4>3, Zenon
      <4> QED BY <4>4
    <3>5. ToSet(Front(l)) \subseteq Keys
      BY <3>3, KeysOnly
    <3>6. {j \in Keys : entry'[j] # None} = ToSet(Front(l))
      BY <3>4, <3>5
    <3>7. lru' = Front(l) /\ Len(Front(l)) = MaxEntries
      BY <2>2, <2>4, <3>1, <3>3
    <3> QED BY <1>3, <3>3, <3>6, <3>7 DEF CacheInv, CacheConsistent, Distinct
  <2> QED BY <2>3, <2>4
<1> QED BY <1>4, <1>5

\* cacheEntry makes an entry.
LEMMA EntryTyped ==
  ASSUME NEW now \in Nat, NEW v \in Verdicts
  PROVE  cacheEntry(now, v) \in Entry
<1>1. now + NegativeTTL \in Nat
  BY ConfigValid
<1>2. now + PositiveTTL \in Nat
  BY PositiveTTLTyped
<1>3. now + StaleIfError \in Nat
  BY ConstantsTyped
<1>4. CASE v = Invalid
  <2>1. cacheEntry(now, v) = [verdict |-> v, fresh |-> now + NegativeTTL, stale |-> 0]
    BY <1>4, Zenon DEF cacheEntry
  <2> QED BY <1>1, <2>1 DEF Entry
<1>5. CASE v # Invalid
  <2>1. cacheEntry(now, v) = [verdict |-> v, fresh |-> now + PositiveTTL,
                              stale |-> now + StaleIfError]
    BY <1>5, Zenon DEF cacheEntry
  <2> QED BY <1>2, <1>3, <2>1 DEF Entry
<1> QED BY <1>4, <1>5

\* The cache changes only in the steps of requests, and these keep it consistent.
LEMMA CacheKeeps == Inv /\ CacheInv /\ [Next]_vars => CacheInv'
<1> SUFFICES ASSUME Inv, CacheInv, [Next]_vars PROVE CacheInv'
  OBVIOUS
<1>1. ASSUME NEW r \in Requests, NEW k \in Keys, Authenticate(r, k) PROVE CacheInv'
  BY <1>1, TouchKeepsCache DEF Authenticate
<1>2. ASSUME NEW r \in Requests, Unavailable(r) PROVE CacheInv'
  <2>1. rkey[r] \in Keys
    BY <1>2 DEF Inv, CallsBacked, CallBacked, Unavailable
  <2> QED BY <1>2, <2>1, TouchKeepsCache DEF Unavailable
<1>3. ASSUME NEW r \in Requests, Answered(r) PROVE CacheInv'
  <2>1. rkey[r] \in Keys /\ rnow[r] \in Nat /\ resp[r] \in Verdicts
    BY <1>3 DEF Inv, Typed, CallsBacked, CallBacked, Answered
  <2>2. cacheEntry(rnow[r], resp[r]) \in Entry
    BY <2>1, EntryTyped
  <2>3. Put(rkey[r], cacheEntry(rnow[r], resp[r])) /\ entry \in [Keys -> Entry \cup {None}]
    BY <1>3 DEF Answered, Inv, Typed
  <2> QED BY <2>1, <2>2, <2>3, PutKeepsCache
<1>4. CASE UNCHANGED cache
  BY <1>4 DEF cache, CacheInv, CacheConsistent
<1> QED BY <1>1, <1>2, <1>3, <1>4, Zenon
        DEF Next, Tick, CreateAPIKey, insertAPIKey, RevokeAPIKey, UpdateCustomer,
            SoftDeleteCustomer, Change, ValidateAPIKey, vars

\* What is decided, and how many changes there were, has its type.
Counted ==
    /\ changes \in Nat
    /\ decision \in [key : Keys, verdict : Verdicts,
                     via : {"cache", "rpc", "stale"}] \cup {None}

\* A decision is about a key, with a verdict of the cache or of the control plane.
LEMMA CountedKeeps == Inv /\ Counted /\ [Next]_vars => Counted'
<1> SUFFICES ASSUME Inv, Counted, [Next]_vars PROVE Counted'
  OBVIOUS
<1>1. ASSUME NEW k \in Keys, NEW v \in Verdicts, NEW how \in {"cache", "rpc", "stale"},
             Decide(k, v, how), UNCHANGED changes
      PROVE  Counted'
  BY <1>1, Zenon DEF Decide, Counted
<1>2. CASE decision' = None /\ UNCHANGED changes
  BY <1>2, Zenon DEF Counted
<1>3. CASE Change
  <2>1. changes' \in Nat
    BY <1>3 DEF Change, Counted
  <2> QED BY <1>3, <2>1, Zenon DEF Change, Counted
<1>4. ASSUME NEW r \in Requests, NEW k \in Keys, Authenticate(r, k) PROVE Counted'
  <2>1. entry[k] # None => entry[k].verdict \in Verdicts
    BY DEF Inv, Typed, Entry
  <2> QED BY <1>1, <1>2, <1>4, <2>1, Zenon DEF Authenticate
<1>5. ASSUME NEW r \in Requests, Unavailable(r) PROVE Counted'
  <2>1. rkey[r] \in Keys
    BY <1>5 DEF Inv, CallsBacked, CallBacked, Unavailable
  <2>2. entry[rkey[r]] # None => entry[rkey[r]].verdict \in Verdicts
    BY <2>1 DEF Inv, Typed, Entry
  <2> QED BY <1>1, <1>2, <1>5, <2>1, <2>2, Zenon DEF Unavailable
<1>6. ASSUME NEW r \in Requests, Answered(r) PROVE Counted'
  <2>1. rkey[r] \in Keys /\ resp[r] \in Verdicts
    BY <1>6 DEF Inv, Typed, CallsBacked, CallBacked, Answered
  <2> QED BY <1>1, <1>6, <2>1, Zenon DEF Answered
<1>7. CASE UNCHANGED vars
  BY <1>7, Zenon DEF vars, Counted
<1> QED BY <1>2, <1>3, <1>4, <1>5, <1>6, <1>7, Zenon
        DEF Next, Tick, CreateAPIKey, insertAPIKey, RevokeAPIKey, UpdateCustomer,
            SoftDeleteCustomer, ValidateAPIKey

-----------------------------------------------------------------------------
(* Theorems.                                                               *)

\* The invariant holds in every reachable state.
THEOREM Inductive == Spec => []Inv
  BY InitInv, NextInv, PTL DEF Spec

\* Without an error of the control plane, no key is accepted on a verdict older
\* than the positive TTL, for every configuration, number of requests and order
\* of answers.
THEOREM AcceptanceIsTimely == Spec => []AcceptedWithinTTL
<1>1. Inv => AcceptedWithinTTL
  BY DEF Inv, DecisionsBacked, DecisionBacked, AcceptedWithinTTL, Accepts
<1>. QED  BY <1>1, Inductive, PTL

\* With errors, no key is accepted on a verdict older than stale_if_error when
\* the request started.
THEOREM FailOpenEnds == Spec => []StaleWithinLimit
<1>1. Inv => StaleWithinLimit
  BY DEF Inv, DecisionsBacked, DecisionBacked, StaleWithinLimit, Accepts
<1>. QED  BY <1>1, Inductive, PTL

\* No key is rejected on a verdict older than the negative TTL.
THEOREM RejectionIsTimely == Spec => []RejectedWithinNegativeTTL
<1>1. Inv => RejectedWithinNegativeTTL
  BY DEF Inv, DecisionsBacked, DecisionBacked, RejectedWithinNegativeTTL, Accepts
<1>. QED  BY <1>1, Inductive, PTL

\* The list and the map of the cache agree and hold at most max_entries keys,
\* whatever requests, late answers and errors do to it.
THEOREM CacheAgrees == Spec => []CacheConsistent
<1>1. Init => CacheInv
  BY ConfigValid DEF Init, CacheInv, CacheConsistent, ToSet
<1>2. CacheInv => CacheConsistent
  BY DEF CacheInv
<1> QED BY <1>1, <1>2, CacheKeeps, Inductive, PTL DEF Spec

\* The type invariant.
THEOREM TypeCorrect == Spec => []TypeOK
<1>1. Init => CacheInv /\ Counted
  <2>1. Init => CacheInv
    BY ConfigValid DEF Init, CacheInv, CacheConsistent, ToSet
  <2>2. Init => Counted
    BY DEF Init, Counted
  <2> QED BY <2>1, <2>2
<1>2. Inv /\ CacheInv /\ Counted => TypeOK
  BY Zenon DEF Inv, Typed, CacheInv, Counted, TypeOK, CallsBacked, CallBacked
<1> QED BY <1>1, <1>2, CacheKeeps, CountedKeeps, Inductive, PTL DEF Spec

-----------------------------------------------------------------------------
(* The other side of the AuthService: for any number of keys and           *)
(* concurrent calls, any length of time and any number of failing batches, *)
(* the latest use of a key is never lost.                                  *)

\* The types of what carries uses.  A call that begins now has a time, which the
\* zero time is not.
UsesTyped ==
    /\ clock \in Nat \ {0}
    /\ call \in [Calls -> [key : Keys, ts : Nat \ {0}] \cup {None}]
    /\ pending \in [Keys -> Nat] /\ batch \in [Keys -> Nat]
    /\ lastUsed \in [Keys -> Nat] /\ used \in [Keys -> Nat]
    /\ dropped \in [Keys -> Nat]

\* The types of the rest.
RunTyped ==
    /\ run \in {"waiting", "flush", "final", "returned"}
    /\ grpc \in {"serving", "draining", "stopped"}
    /\ cancelled \in BOOLEAN /\ faults \in Nat

\* Nothing is later than the latest use, and a waiting Run holds no batch: what
\* Flush swaps in replaces nothing, and a maximum that meets the latest use
\* returns it.
UsesBounded ==
    /\ \A k \in Keys : pending[k] <= used[k] /\ batch[k] <= used[k]
                       /\ lastUsed[k] <= used[k] /\ dropped[k] <= used[k]
    /\ run = "waiting" => batch = Nothing

UsesInv == UsesTyped /\ UsesBounded /\ UsageKept

\* Max of two times.
LEMMA MaxOfTwo ==
  ASSUME NEW a \in Nat, NEW b \in Nat PROVE Max({a, b}) = IF a >= b THEN a ELSE b
<1>1. ASSUME NEW m \in {a, b}, \A y \in {a, b} : m >= y
      PROVE  Max({a, b}) = m
  <2>1. \A x \in {a, b} : (\A y \in {a, b} : x >= y) => x = m
    BY <1>1
  <2>2. Max({a, b}) \in {a, b} /\ \A y \in {a, b} : Max({a, b}) >= y
    BY <1>1 DEF Max
  <2> QED BY <2>1, <2>2
<1>2. CASE a >= b
  <2>1. \A y \in {a, b} : a >= y
    BY <1>2
  <2> QED BY <1>1, <1>2, <2>1
<1>3. CASE ~(a >= b)
  <2>1. \A y \in {a, b} : b >= y
    BY <1>3
  <2> QED BY <1>1, <1>3, <2>1
<1> QED BY <1>2, <1>3

\* Later is the pointwise maximum.
LEMMA LaterIs ==
  ASSUME NEW f \in [Keys -> Nat], NEW g \in [Keys -> Nat]
  PROVE  /\ Later(f, g) \in [Keys -> Nat]
         /\ \A k \in Keys : Later(f, g)[k] = IF f[k] >= g[k] THEN f[k] ELSE g[k]
<1>1. \A k \in Keys : Later(f, g)[k] = IF f[k] >= g[k] THEN f[k] ELSE g[k]
  BY MaxOfTwo DEF Later
<1>2. Later(f, g) = [k \in Keys |-> Max({f[k], g[k]})]
  BY DEF Later
<1>3. \A k \in Keys : Max({f[k], g[k]}) \in Nat
  BY MaxOfTwo
<1> QED BY <1>1, <1>2, <1>3

\* Nothing has been used.
LEMMA UsesStart == UsageInit => UsesInv
<1>1. Nothing \in [Keys -> Nat] /\ \A k \in Keys : Nothing[k] = 0
  BY DEF Nothing
<1> QED BY <1>1 DEF UsageInit, UsesInv, UsesTyped, UsesBounded, UsageKept

\* recordUsage: the use goes into pending and into used, whatever is newer stays.
LEMMA RecordKeepsUses == ASSUME UsesInv, NEW c \in Calls, recordUsage(c) PROVE UsesInv'
<1> DEFINE u == [k \in Keys |-> IF k = call[c].key THEN call[c].ts ELSE 0]
<1>1. call[c] \in [key : Keys, ts : Nat \ {0}]
  BY DEF UsesInv, UsesTyped, recordUsage
<1>2. u \in [Keys -> Nat]
  BY <1>1
<1>3. pending' = Later(pending, u) /\ used' = Later(used, u)
      /\ call' = [call EXCEPT ![c] = None]
      /\ UNCHANGED <<clock, batch, run, lastUsed, dropped>>
  BY DEF recordUsage
<1> HIDE DEF u
<1>4. /\ pending' \in [Keys -> Nat] /\ used' \in [Keys -> Nat]
      /\ \A k \in Keys : /\ pending'[k] = IF pending[k] >= u[k] THEN pending[k] ELSE u[k]
                         /\ used'[k] = IF used[k] >= u[k] THEN used[k] ELSE u[k]
  BY <1>2, <1>3, LaterIs DEF UsesInv, UsesTyped
<1>5. UsesTyped'
  BY <1>3, <1>4 DEF UsesInv, UsesTyped
<1>6. ASSUME NEW k \in Keys
      PROVE  /\ pending'[k] <= used'[k] /\ batch[k] <= used'[k]
             /\ lastUsed[k] <= used'[k] /\ dropped[k] <= used'[k]
             /\ used'[k] \in {pending'[k], batch[k], lastUsed[k], dropped[k]}
  <2>1. /\ pending[k] \in Nat /\ batch[k] \in Nat /\ lastUsed[k] \in Nat
        /\ used[k] \in Nat /\ dropped[k] \in Nat /\ u[k] \in Nat
    BY <1>2 DEF UsesInv, UsesTyped
  <2>2. /\ pending[k] <= used[k] /\ batch[k] <= used[k]
        /\ lastUsed[k] <= used[k] /\ dropped[k] <= used[k]
        /\ used[k] \in {pending[k], batch[k], lastUsed[k], dropped[k]}
    BY Zenon DEF UsesInv, UsesBounded, UsageKept
  <2> QED BY <1>4, <2>1, <2>2
<1>7. UsesBounded' /\ UsageKept'
  BY <1>3, <1>6, Zenon DEF UsesInv, UsesBounded, UsageKept, Nothing
<1> QED BY <1>5, <1>7 DEF UsesInv

\* Swap: Run was waiting, so the batch it replaces is empty.
LEMMA SwapKeepsUses == ASSUME UsesInv, FlushTick \/ FlushFinal PROVE UsesInv'
<1>1. batch = Nothing /\ batch' = pending /\ pending' = Nothing /\ run' # "waiting"
      /\ UNCHANGED <<clock, call, lastUsed, used, dropped>>
  BY DEF FlushTick, FlushFinal, Swap, UsesInv, UsesBounded
<1>2. Nothing \in [Keys -> Nat] /\ \A k \in Keys : Nothing[k] = 0
  BY DEF Nothing
<1>3. UsesTyped'
  BY <1>1, <1>2 DEF UsesInv, UsesTyped
<1>4. UsesBounded' /\ UsageKept'
  BY <1>1, <1>2 DEF UsesInv, UsesTyped, UsesBounded, UsageKept
<1> QED BY <1>3, <1>4 DEF UsesInv

\* The batch goes to last_used_at, or to the failed ones.
LEMMA WriteKeepsUses == ASSUME UsesInv, TouchAPIKeys \/ TouchFails PROVE UsesInv'
<1>1. Nothing \in [Keys -> Nat] /\ \A k \in Keys : Nothing[k] = 0
  BY DEF Nothing
<1>2. batch' = Nothing /\ UNCHANGED <<clock, call, pending, used>>
  BY DEF TouchAPIKeys, TouchFails
<1>3. CASE lastUsed' = Later(lastUsed, batch) /\ UNCHANGED dropped
  <2>1. lastUsed' \in [Keys -> Nat] /\ \A k \in Keys :
           lastUsed'[k] = IF lastUsed[k] >= batch[k] THEN lastUsed[k] ELSE batch[k]
    BY <1>3, LaterIs DEF UsesInv, UsesTyped
  <2>2. UsesTyped'
    BY <1>1, <1>2, <1>3, <2>1 DEF UsesInv, UsesTyped
  <2>3. UsesBounded' /\ UsageKept'
    BY <1>1, <1>2, <1>3, <2>1 DEF UsesInv, UsesTyped, UsesBounded, UsageKept
  <2> QED BY <2>2, <2>3 DEF UsesInv
<1>4. CASE dropped' = Later(dropped, batch) /\ UNCHANGED lastUsed
  <2>1. dropped' \in [Keys -> Nat] /\ \A k \in Keys :
           dropped'[k] = IF dropped[k] >= batch[k] THEN dropped[k] ELSE batch[k]
    BY <1>4, LaterIs DEF UsesInv, UsesTyped
  <2>2. UsesTyped'
    BY <1>1, <1>2, <1>4, <2>1 DEF UsesInv, UsesTyped
  <2>3. UsesBounded' /\ UsageKept'
    BY <1>1, <1>2, <1>4, <2>1 DEF UsesInv, UsesTyped, UsesBounded, UsageKept
  <2> QED BY <2>2, <2>3 DEF UsesInv
<1> QED BY <1>3, <1>4 DEF TouchAPIKeys, TouchFails

\* The other steps move no use; a call that begins has a time and a key.
LEMMA RestKeepsUses ==
  ASSUME UsesInv, \/ UsageTick \/ Cancel \/ GracefulStop \/ Ended
                  \/ UNCHANGED usageVars
                  \/ \E c \in Calls, k \in Keys : ValidateAPIKeyUse(c, k)
  PROVE  UsesInv'
<1>1. UNCHANGED <<pending, batch, run, lastUsed, used, dropped>>
  BY DEF UsageTick, Cancel, GracefulStop, Ended,
         ValidateAPIKeyUse, usageVars
<1>2. clock' \in Nat \ {0} /\ call' \in [Calls -> [key : Keys, ts : Nat \ {0}] \cup {None}]
  <2>1. CASE UsageTick
    BY <2>1 DEF UsesInv, UsesTyped, UsageTick
  <2>2. CASE UNCHANGED <<clock, call>>
    BY <2>2 DEF UsesInv, UsesTyped
  <2>3. ASSUME NEW c \in Calls, NEW k \in Keys, ValidateAPIKeyUse(c, k)
        PROVE  clock' \in Nat \ {0}
               /\ call' \in [Calls -> [key : Keys, ts : Nat \ {0}] \cup {None}]
    BY <2>3, Zenon DEF UsesInv, UsesTyped, ValidateAPIKeyUse
  <2> QED BY <2>1, <2>2, <2>3, Zenon DEF Cancel, GracefulStop, Ended, usageVars
<1> QED BY <1>1, <1>2 DEF UsesInv, UsesTyped, UsesBounded, UsageKept, Nothing

\* Run and the server only go where UsageTypeOK says.
LEMMA RunKeeps == RunTyped /\ [UsageNext]_usageVars => RunTyped'
<1> SUFFICES ASSUME RunTyped, [UsageNext]_usageVars PROVE RunTyped'
  OBVIOUS
<1>1. CASE \/ UsageTick \/ Ended \/ UNCHANGED usageVars
           \/ \E c \in Calls : recordUsage(c) \/ \E k \in Keys : ValidateAPIKeyUse(c, k)
  BY <1>1, Zenon DEF RunTyped, usageVars, UsageTick, Ended,
                        recordUsage, ValidateAPIKeyUse
<1>2. CASE FlushTick \/ FlushFinal
  BY <1>2, Zenon DEF RunTyped, FlushTick, FlushFinal, Swap
<1>3. CASE TouchAPIKeys
  BY <1>3 DEF RunTyped, TouchAPIKeys
<1>4. CASE TouchFails
  <2>1. faults' \in Nat
    BY <1>4 DEF RunTyped, TouchFails
  <2> QED BY <1>4, <2>1, Zenon DEF RunTyped, TouchFails
<1>5. CASE Cancel \/ GracefulStop
  BY <1>5, Zenon DEF RunTyped, Cancel, GracefulStop
<1> QED BY <1>1, <1>2, <1>3, <1>4, <1>5 DEF UsageNext

\* The invariant holds in every reachable state.
LEMMA UsesInductive == UsageSpec => [](UsesInv /\ RunTyped)
<1>1. UsageInit => RunTyped
  <2>1. 0 \in Nat
    OBVIOUS
  <2> QED BY <2>1, Zenon DEF UsageInit, RunTyped
<1>2. UsesInv /\ [UsageNext]_usageVars => UsesInv'
  BY RecordKeepsUses, SwapKeepsUses, WriteKeepsUses, RestKeepsUses DEF UsageNext
<1> QED BY <1>1, <1>2, UsesStart, RunKeeps, PTL DEF UsageSpec

\* The latest use of a key is pending, in the batch being written, or stored,
\* unless its batch failed.
THEOREM UsesAreKept == UsageSpec => []UsageKept
<1>1. UsesInv => UsageKept
  BY DEF UsesInv
<1> QED BY <1>1, UsesInductive, PTL

\* Every use has a time that is not zero, and everything else its type.
THEOREM UsageTypeCorrect == UsageSpec => []UsageTypeOK
<1>1. UsesInv /\ RunTyped => UsageTypeOK
  BY DEF UsesInv, UsesTyped, RunTyped, UsageTypeOK
<1> QED BY <1>1, UsesInductive, PTL

=============================================================================
