---------------------------- MODULE MCEdgeRollout ----------------------------
(* Small fleets for EdgeRollout: its constants are given in the .cfg files. *)
EXTENDS EdgeRollout

=============================================================================
