-------------------------- MODULE MCKResourceLimit --------------------------
(* Instances of KResourceLimit for TLC.                                    *)
EXTENDS KResourceLimit, TLC

=============================================================================
