---- MODULE MCMemoryMap ----
(* Instances of MemoryMap for TLC: a window of three pages. *)
EXTENDS MemoryMap

CONSTANT loader

\* A guest asks for text, for data and for code it writes itself.
MCFlagSets == {{"x"}, {"r", "w"}, {"r", "w", "x"}}
====
