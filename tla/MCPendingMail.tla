--------------------------- MODULE MCPendingMail ---------------------------
(* Instances of PendingMail for TLC.  No symmetry: the runs check liveness. *)
EXTENDS PendingMail
=============================================================================
