---------------------------- MODULE MCFramePool -----------------------------
(***************************************************************************)
(* FramePool on a small instance: three acquirers share three frames, so   *)
(* several sleep at once and releases come in any order.                   *)
(***************************************************************************)
EXTENDS FramePool
=============================================================================
