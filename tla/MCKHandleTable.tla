--------------------------- MODULE MCKHandleTable ---------------------------
(* Instances of KHandleTable for TLC.                                      *)
EXTENDS KHandleTable, TLC

MCWatched == EncodeHandle(0, 2)
CallerSymmetry == Permutations(Caller)

=============================================================================
