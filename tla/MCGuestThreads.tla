--------------------------- MODULE MCGuestThreads ---------------------------
(* Constants for the TLC runs of GuestThreads.                             *)
EXTENDS GuestThreads, TLC

CONSTANTS t1, t2, s1, s2

\* The pool elements are interchangeable, and so are the slots.
Symmetry == Permutations({t1, t2}) \cup Permutations({s1, s2})
=============================================================================
