---------------------------- MODULE MCShaderCapture ----------------------------
(* Model values for ShaderCapture. *)
EXTENDS ShaderCapture

TwoStages == <<"compute", "fragment">>
=============================================================================
