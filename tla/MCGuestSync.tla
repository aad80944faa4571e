---- MODULE MCGuestSync ----
(* Instances of GuestSync for TLC. *)
EXTENDS GuestSync, TLC

CONSTANTS t1, t2, t3, m1, c1

Symmetry == Permutations(Threads)
====
