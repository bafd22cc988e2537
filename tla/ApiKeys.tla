------------------------------- MODULE ApiKeys -------------------------------
(***************************************************************************)
(* What the two models of ingest authentication share: the API keys and    *)
(* the time.  GatewayAuth is about the verdicts on keys, KeyUsage about    *)
(* the record of their use.                                                *)
(***************************************************************************)
EXTENDS Naturals

CONSTANTS
    Keys,
    None,
    Horizon   \* bound: the clock

ASSUME HorizonTyped == Horizon \in Nat

VARIABLE clock

=============================================================================
