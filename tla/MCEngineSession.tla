---- MODULE MCEngineSession ----
(* Instances of EngineSession for TLC. *)
EXTENDS EngineSession, TLC

CONSTANTS a1, a2, v1, v2
====
