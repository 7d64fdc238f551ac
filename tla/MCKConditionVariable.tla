------------------------ MODULE MCKConditionVariable ------------------------
(***************************************************************************)
(* Instances of KConditionVariable for TLC.                                *)
(***************************************************************************)
EXTENDS KConditionVariable, TLC

CONSTANTS t1, t2, t3

Symmetry == Permutations(Thread)

=============================================================================
