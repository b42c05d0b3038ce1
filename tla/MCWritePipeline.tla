--------------------------- MODULE MCWritePipeline ---------------------------
(* Small instances of WritePipeline for TLC.                               *)
EXTENDS WritePipeline
=============================================================================
