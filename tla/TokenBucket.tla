----------------------------- MODULE TokenBucket -----------------------------
(***************************************************************************)
(* What the tenantquota processor promises: each tenant has a bucket that  *)
(* holds Capacity items, refills by Rate with every unit of time, and      *)
(* admits a batch, as a whole, exactly when it fits.  The promise stands   *)
(* as long as its users keep to it: the first step after which kept is     *)
(* false ends it.                                                          *)
(***************************************************************************)
EXTENDS Naturals

CONSTANTS Tenants, Batches, Rate, Capacity

VARIABLES level, verdict, kept

vars == <<level, verdict, kept>>

Init == level = [t \in Tenants |-> Capacity] /\ verdict = <<>> /\ kept = TRUE

Refill ==
    /\ level' = [t \in Tenants |-> IF level[t] + Rate < Capacity
                                   THEN level[t] + Rate ELSE Capacity]
    /\ verdict' = <<>>

Admit(t, n) ==
    /\ n <= level[t]
    /\ level' = [level EXCEPT ![t] = @ - n] /\ verdict' = <<t, n, "allowed">>

Reject(t, n) == n > level[t] /\ UNCHANGED level /\ verdict' = <<t, n, "rejected">>

Next == Refill \/ \E t \in Tenants, n \in Batches : Admit(t, n) \/ Reject(t, n)

Spec == Init /\ [][kept' => kept /\ Next]_vars

=============================================================================
