---- MODULE MCCxxGuard ----
(* Instances of CxxGuard for TLC. *)
EXTENDS CxxGuard, TLC

CONSTANTS t1, t2, t3, g1

Symmetry == Permutations(Threads)
====
