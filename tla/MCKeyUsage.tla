------------------------------ MODULE MCKeyUsage ------------------------------
(* Small instances of KeyUsage. *)
EXTENDS KeyUsage

CONSTANTS k1, k2, c1, c2

=============================================================================
