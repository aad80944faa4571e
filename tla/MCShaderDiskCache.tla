--------------------------- MODULE MCShaderDiskCache ---------------------------
(* Model values for ShaderDiskCache: two keys share a file name. *)
EXTENDS ShaderDiskCache

CONSTANTS k1, k2, v1, v2, p1, p2
SharedName == [k \in Keys |-> k1]
================================================================================
