--------------------------- MODULE MCVideoSession ---------------------------
(***************************************************************************)
(* VideoSession on small instances.                                        *)
(***************************************************************************)
EXTENDS VideoSession
=============================================================================
