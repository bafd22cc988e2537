------------------------------- MODULE KeyUsage -------------------------------
(***************************************************************************)
(* last_used_at of API keys: the AuthService collects uses in memory and   *)
(* Run writes them in batches, every minute and once more on shutdown      *)
(* (internal/ingestauth/service.go, TouchAPIKeys in internal/store/pg.go,  *)
(* the shutdown in cmd/otelfleet/main.go).  0 stands for never.            *)
(***************************************************************************)
EXTENDS ApiKeys, FiniteSetsExt

CONSTANTS
    Calls,
    MaxFaults  \* bound: failing batches

ASSUME FaultsBounded == MaxFaults \in Nat

VARIABLES
    call,       \* a ValidateAPIKey call between its time.Now() and the mutex
    pending,    \* Service.pending
    batch,      \* the local of Flush
    run,        \* Run: waiting, in a periodic flush, in the final one, returned
    cancelled,  \* the context of Run
    grpc,       \* the gRPC server: serving, draining, stopped
    lastUsed,   \* api_keys.last_used_at
    used,       \* history: the latest use of a key
    dropped,    \* history: the latest use of a key in a failed batch
    faults

usageVars == <<clock, call, pending, batch, run, cancelled, grpc,
               lastUsed, used, dropped, faults>>

Nothing == [k \in Keys |-> 0]

Later(f, g) == [k \in Keys |-> Max({f[k], g[k]})]

UsageInit ==
    /\ clock = 1 /\ call = [c \in Calls |-> None]
    /\ pending = Nothing /\ batch = Nothing /\ run = "waiting"
    /\ cancelled = FALSE /\ grpc = "serving"
    /\ lastUsed = Nothing /\ used = Nothing /\ dropped = Nothing /\ faults = 0

UsageTick ==
    /\ clock < Horizon /\ clock' = clock + 1
    /\ UNCHANGED <<call, pending, batch, run, cancelled, grpc,
                   lastUsed, used, dropped, faults>>

\* Mutant: the zero time.
ValidateZeroTime(c, k) ==
    /\ call[c] = None /\ grpc = "serving"
    /\ call' = [call EXCEPT ![c] = [key |-> k, ts |-> 0]]
    /\ UNCHANGED <<clock, pending, batch, run, cancelled, grpc,
                   lastUsed, used, dropped, faults>>

\* A valid key; the time is taken before the mutex.
ValidateAPIKeyUse(c, k) ==
    /\ call[c] = None /\ grpc = "serving"
    /\ call' = [call EXCEPT ![c] = [key |-> k, ts |-> clock]]
    /\ UNCHANGED <<clock, pending, batch, run, cancelled, grpc,
                   lastUsed, used, dropped, faults>>

recordUsage(c) ==
    LET u == [k \in Keys |-> IF k = call[c].key THEN call[c].ts ELSE 0] IN
    /\ call[c] # None /\ call' = [call EXCEPT ![c] = None]
    /\ pending' = Later(pending, u) /\ used' = Later(used, u)
    /\ UNCHANGED <<clock, batch, run, cancelled, grpc, lastUsed, dropped, faults>>

\* Flush, up to the unlock.
Swap(to) ==
    /\ run' = to /\ batch' = pending /\ pending' = Nothing
    /\ UNCHANGED <<clock, call, cancelled, grpc, lastUsed, used, dropped, faults>>

\* Run: the select takes either branch when both are ready.
FlushTick == run = "waiting" /\ Swap("flush")
FlushFinal == run = "waiting" /\ cancelled /\ Swap("final")

\* Mutant: pending is cleared after the write.
TouchClearsPending ==
    /\ run \in {"flush", "final"}
    /\ run = "flush" /\ cancelled => batch = Nothing
    /\ lastUsed' = Later(lastUsed, batch) /\ pending' = Nothing
    /\ batch' = Nothing /\ run' = IF run = "final" THEN "returned" ELSE "waiting"
    /\ UNCHANGED <<clock, call, cancelled, grpc, used, dropped, faults>>

\* Flush returns, with nothing to write or after TouchAPIKeys; the periodic flush
\* runs under the context of Run, and does not get through once that is
\* cancelled.
TouchAPIKeys ==
    /\ run \in {"flush", "final"}
    /\ run = "flush" /\ cancelled => batch = Nothing
    /\ lastUsed' = Later(lastUsed, batch)
    /\ batch' = Nothing /\ run' = IF run = "final" THEN "returned" ELSE "waiting"
    /\ UNCHANGED <<clock, call, pending, cancelled, grpc, used, dropped, faults>>

\* Mutant: an error ends the loop of Run.
TouchFailsReturns ==
    /\ run \in {"flush", "final"} /\ batch # Nothing
    /\ \/ run = "flush" /\ cancelled /\ UNCHANGED faults
       \/ faults < MaxFaults /\ faults' = faults + 1
    /\ dropped' = Later(dropped, batch)
    /\ batch' = Nothing /\ run' = "returned"
    /\ UNCHANGED <<clock, call, pending, cancelled, grpc, lastUsed, used>>

\* A failed batch is logged and dropped.
TouchFails ==
    /\ run \in {"flush", "final"} /\ batch # Nothing
    /\ \/ run = "flush" /\ cancelled /\ UNCHANGED faults
       \/ faults < MaxFaults /\ faults' = faults + 1
    /\ dropped' = Later(dropped, batch)
    /\ batch' = Nothing /\ run' = IF run = "final" THEN "returned" ELSE "waiting"
    /\ UNCHANGED <<clock, call, pending, cancelled, grpc, lastUsed, used>>

\* SIGTERM, or another goroutine of the group failed.
Cancel ==
    /\ ~cancelled /\ cancelled' = TRUE
    /\ UNCHANGED <<clock, call, pending, batch, run, grpc, lastUsed, used, dropped, faults>>

\* GracefulStop, after the ops and HTTP servers: no new calls, then the end of
\* the pending ones.
GracefulStop ==
    /\ cancelled
    /\ \/ grpc = "serving" /\ grpc' = "draining"
       \/ /\ grpc = "draining" /\ \A c \in Calls : call[c] = None
          /\ grpc' = "stopped"
    /\ UNCHANGED <<clock, call, pending, batch, run, cancelled,
                   lastUsed, used, dropped, faults>>

Exited == run = "returned" /\ grpc = "stopped"

\* The process has ended.
Ended == Exited /\ UNCHANGED usageVars

UsageNext ==
    \/ UsageTick
    \/ \E c \in Calls : recordUsage(c) \/ \E k \in Keys : ValidateAPIKeyUse(c, k)
    \/ FlushTick \/ FlushFinal \/ TouchAPIKeys \/ TouchFails
    \/ Cancel \/ GracefulStop \/ Ended

UsageSpec == UsageInit /\ [][UsageNext]_usageVars

\* Goroutines run, the ticker fires, and a write ends.
UsageFairness ==
    /\ \A c \in Calls : WF_usageVars(recordUsage(c))
    /\ WF_usageVars(FlushTick) /\ WF_usageVars(FlushFinal)
    /\ WF_usageVars(TouchAPIKeys \/ TouchFails)

UsageLiveSpec == UsageSpec /\ UsageFairness

-----------------------------------------------------------------------------
(* Properties.                                                             *)

\* Type invariant.
UsageTypeOK ==
    /\ clock \in Nat /\ faults \in Nat /\ cancelled \in BOOLEAN
    /\ call \in [Calls -> [key : Keys, ts : Nat \ {0}] \cup {None}]
    /\ {pending, batch, lastUsed, used, dropped} \subseteq [Keys -> Nat]
    /\ run \in {"waiting", "flush", "final", "returned"}
    /\ grpc \in {"serving", "draining", "stopped"}

\* The latest use of a key is pending, in the batch being written, or stored,
\* unless the batch it was in failed: calls that record while a batch is
\* written lose nothing, and uses recorded or written out of the order of their
\* times never take last_used_at back.
UsageKept ==
    \A k \in Keys :
        used[k] \in {pending[k], batch[k], lastUsed[k], dropped[k]}

\* A use is stored eventually, or a later one is, unless its batch fails or the
\* process is shutting down; a failed batch takes no later use with it.
UsageStored ==
    \A k \in Keys : \A t \in 1..Horizon :
        used[k] = t ~> lastUsed[k] >= t \/ dropped[k] >= t \/ cancelled

=============================================================================
