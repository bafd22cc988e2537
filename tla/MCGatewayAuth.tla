---------------------------- MODULE MCGatewayAuth ----------------------------
(* Small instances of GatewayAuth. *)
EXTENDS GatewayAuth, TLC

CONSTANTS c1, k1, k2, r1, r2

\* One customer with two keys, one of which expires.
TwoKeys == (k1 :> c1) @@ (k2 :> c1)
OneExpires == (k1 :> 2) @@ (k2 :> None)

RequestSymmetry == Permutations(Requests)

=============================================================================
