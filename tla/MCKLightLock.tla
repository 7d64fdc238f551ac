---------------------------- MODULE MCKLightLock ----------------------------
(* Instances of KLightLock for TLC.                                        *)
EXTENDS KLightLock, TLC

ThreadSymmetry == Permutations(Thread)

=============================================================================
