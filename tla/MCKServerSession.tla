-------------------------- MODULE MCKServerSession --------------------------
(* The instance of KServerSession for TLC; its constants are in the cfg. *)
EXTENDS KServerSession

=============================================================================
