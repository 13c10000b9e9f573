---------------------------- MODULE MCPipeline ----------------------------
(* Pipeline with concrete bounds: see the .cfg files.                      *)
EXTENDS Pipeline
=============================================================================
