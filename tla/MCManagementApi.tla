-------------------------- MODULE MCManagementApi --------------------------
(***************************************************************************)
(* Two customers; a pipeline and an edge agent of the second, a gateway.   *)
(***************************************************************************)
EXTENDS ManagementApi

CONSTANTS c1, c2, p, edge, gateway

MCOwner == p :> c2 @@ edge :> c2 @@ gateway :> None

MCAccounts == [role : Roles, disabled : {FALSE}, grants : {{}, {c1}, {c2}}]

Change(role, disabled, grants) ==
    [role |-> role, disabled |-> disabled, grants |-> grants]

\* Narrowing, widening and moving the scope with and without a change of role,
\* disabling and enabling.
MCUpdates ==
    {Change("viewer", None, {}), Change("operator", None, {c1}),
     Change("admin", FALSE, None), Change(None, TRUE, {c2})}

=============================================================================
