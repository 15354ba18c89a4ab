-------------------------- MODULE MCFilterPipeline --------------------------
(***************************************************************************)
(* FilterPipeline on small instances.                                      *)
(***************************************************************************)
EXTENDS FilterPipelineInv
=============================================================================
