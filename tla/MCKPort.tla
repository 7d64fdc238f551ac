------------------------------ MODULE MCKPort ------------------------------
(* Instances of KPort for TLC.                                             *)
EXTENDS KPort, TLC

Symmetry == Permutations(Thread)

=============================================================================
