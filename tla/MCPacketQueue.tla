--------------------------- MODULE MCPacketQueue ----------------------------
(***************************************************************************)
(* PacketQueue on a small instance: two producers, two consumers, a ring   *)
(* of two cells and four packets, so that head and tail wrap and both      *)
(* condition variables have several sleepers.                              *)
(***************************************************************************)
EXTENDS PacketQueue
=============================================================================
