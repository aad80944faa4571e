---------------------------- MODULE MCCodeTracking ----------------------------
(* Model values for CodeTracking. *)
EXTENDS CodeTracking, TLC

CONSTANTS t1, t2

\* Only safety is checked: the threads are interchangeable.
Permuted == Permutations(Threads)
===============================================================================
