----------------------------- MODULE InOrderRun -----------------------------
(***************************************************************************)
(* What a run of a pipeline promises its caller, however many threads it   *)
(* has: the frames of the video are delivered one by one in ascending      *)
(* order, delivery stops when an outcome is returned, and the outcome "ok" *)
(* means that all of them were delivered.                                  *)
(***************************************************************************)
EXTENDS Naturals, Sequences

VARIABLES total,            (* how many frames there are to deliver          *)
          delivered,        (* the frames delivered so far, in order         *)
          outcome           (* "none" until the run returns                  *)

vars == <<total, delivered, outcome>>

Init == total \in Nat /\ delivered = <<>> /\ outcome = "none"

Deliver == /\ outcome = "none"
           /\ Len(delivered) < total
           /\ delivered' = Append(delivered, Len(delivered))
           /\ UNCHANGED <<total, outcome>>

Succeed == /\ outcome = "none"
           /\ Len(delivered) = total
           /\ outcome' = "ok"
           /\ UNCHANGED <<total, delivered>>

Break == /\ outcome = "none"
         /\ outcome' = "error"
         /\ UNCHANGED <<total, delivered>>

Next == Deliver \/ Succeed \/ Break

Spec == Init /\ [][Next]_vars
=============================================================================
