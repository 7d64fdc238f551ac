---------------------------- MODULE MCThreadList ----------------------------
(* Instances of ThreadList for TLC. *)
EXTENDS ThreadList, TLC

CONSTANTS t1, t2, t3, o1, o2

Threads == {t1, t2, t3}
Objects == {o1, o2}
Symmetry == Permutations(Threads) \cup Permutations(Objects)
====
