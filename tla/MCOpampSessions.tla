--------------------------- MODULE MCOpampSessions ---------------------------
(* Small fleets for OpampSessions: who runs where, with which credentials. *)
EXTENDS OpampSessions, TLC

CONSTANTS A, B, tA, tB, u1, p1, p2

\* Customer A's token tA, and customer B's token tB.
TwoCustomers == tA :> A @@ tB :> B
Unlimited == [t \in Tokens |-> 0]
\* tA is a single-use token.
SingleUse == tA :> 1 @@ tB :> 0

\* Every process reports the same instance UID (a cloned image).
SameUid == [p \in Procs |-> u1]

\* p1 enrolls with customer A, p2 with customer B.
OwnTokens == p1 :> tA @@ p2 :> tB
\* Everyone enrolls with tA.
TokenA == [p \in Procs |-> tA]

AllAccept == [p \in Procs |-> TRUE]

ConnSymmetry == Permutations(Conns)

=============================================================================
