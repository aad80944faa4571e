------------------------------ MODULE MCGnmStream ------------------------------
(* Model values for GnmStream. *)
EXTENDS GnmStream
=============================================================================
