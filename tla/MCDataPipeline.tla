---------------------------- MODULE MCDataPipeline ----------------------------
(***************************************************************************)
(* A finite instance of the data pipeline, with the laws of its health.    *)
(***************************************************************************)
EXTENDS DataPipeline, PipelineHealth
=============================================================================
