---------------------------- MODULE MCTenantQuota ----------------------------
(* Small instances of TenantQuota. *)
EXTENDS TenantQuota, TLC

CONSTANTS t1, t2, r1, r2

\* A moment, an interval, and all of the time.
Intervals == {<<3, 3>>, <<1, 2>>, <<0, Horizon>>}
SomeWindows == {[tenant |-> t1, from |-> i[1], to |-> i[2]] : i \in Intervals}

RequestSymmetry == Permutations(Requests)

=============================================================================
