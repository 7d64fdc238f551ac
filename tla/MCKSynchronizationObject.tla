---------------------- MODULE MCKSynchronizationObject ----------------------
(* The instance of KSynchronizationObject for TLC; its constants are in the cfg. *)
EXTENDS KSynchronizationObject

=============================================================================
