---- MODULE MCAudioOut ----
(* Instances of AudioOut for TLC. *)
EXTENDS AudioOut, TLC

CONSTANTS t1, t2
====
