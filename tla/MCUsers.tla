------------------------------ MODULE MCUsers ------------------------------
(***************************************************************************)
(* Two admins, one of whom OTELFLEET_ADMIN_EMAILS names, a third address,  *)
(* two customers and a customer id that does not exist.                    *)
(***************************************************************************)
EXTENDS Users, TLC

CONSTANTS u1, u2, e1, e2, e3, c1, c2, lost, x1

MCFirst == (u1 :> e1) @@ (u2 :> e2)

MCInvites ==
    {[NoBody EXCEPT !.email = e3, !.role = "viewer", !.grants = g] : g \in {{c1}, {lost}}}

MCUpdates ==
    {[NoBody EXCEPT !.role = "viewer"],
     [NoBody EXCEPT !.role = "admin", !.disabled = FALSE],
     [NoBody EXCEPT !.disabled = TRUE, !.grants = {c1}],
     [NoBody EXCEPT !.grants = {c2}],
     [NoBody EXCEPT !.role = "viewer", !.grants = {lost}]}

MCCreates == {[NoBody EXCEPT !.email = e3, !.ext = x1]}

MCPuts ==
    {[NoBody EXCEPT !.ext = x1, !.attrs = TRUE, !.disabled = d] : d \in {None, TRUE}}

MCPatches ==
    {[NoBody EXCEPT !.attrs = TRUE], [NoBody EXCEPT !.disabled = TRUE]}

====
