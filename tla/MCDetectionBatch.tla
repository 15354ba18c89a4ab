-------------------------- MODULE MCDetectionBatch --------------------------
(***************************************************************************)
(* DetectionBatchPipeline on small instances.                              *)
(***************************************************************************)
EXTENDS DetectionBatchInv
=============================================================================
