----------------------------- MODULE MCPipeline -----------------------------
(***************************************************************************)
(* An instance of Pipeline for TLC.  The properties that hold are checked  *)
(* in MCGateway, whose steps of a request are those of Pipeline.           *)
(***************************************************************************)
EXTENDS Pipeline
=============================================================================
