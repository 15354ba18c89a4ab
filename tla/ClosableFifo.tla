---------------------------- MODULE ClosableFifo ----------------------------
(***************************************************************************)
(* What every bounded hand-off between two pipeline stages promises its    *)
(* callers: a first-in first-out queue of at most Capacity packets that    *)
(* can be closed once.  A push returns 1 (the packet is in the queue) or,  *)
(* after the close, 0 (the caller still owns the packet).  A pop returns 1 *)
(* with the oldest packet, and 0 only once the queue is closed AND empty:  *)
(* what was pushed before the close is still handed out after it.          *)
(*                                                                         *)
(* PacketQueue implements this with a ring buffer, a mutex and two         *)
(* condition variables.  FilterPipeline uses it as it is stated here.      *)
(***************************************************************************)
EXTENDS Integers, Sequences

CONSTANTS Threads,    (* the threads that call the queue                    *)
          Packets,    (* the packets that can be handed over                *)
          Capacity    (* how many packets the queue holds                   *)

VARIABLES queue,      (* the packets in the queue, oldest first             *)
          closed,     (* has the queue been closed                          *)
          returned,   (* per thread: what its last call returned            *)
          delivered   (* the packets handed out so far, in that order       *)

vars == <<queue, closed, returned, delivered>>

(* The values of returned: a call has not returned yet, 0 or 1. *)
Outcomes == {"none", "refused", "done"}

Init == /\ queue = <<>>
        /\ closed = FALSE
        /\ returned = [t \in Threads |-> "none"]
        /\ delivered = <<>>

Returns(t, outcome) == returned' = [returned EXCEPT ![t] = outcome]

Push(t, packet) == /\ ~closed
                   /\ Len(queue) < Capacity
                   /\ queue' = Append(queue, packet)
                   /\ Returns(t, "done")
                   /\ UNCHANGED <<closed, delivered>>

PushRefused(t) == /\ closed
                  /\ Returns(t, "refused")
                  /\ UNCHANGED <<queue, closed, delivered>>

Pop(t) == /\ queue # <<>>
          /\ queue' = Tail(queue)
          /\ delivered' = Append(delivered, Head(queue))
          /\ Returns(t, "done")
          /\ UNCHANGED closed

PopRefused(t) == /\ closed
                 /\ queue = <<>>
                 /\ Returns(t, "refused")
                 /\ UNCHANGED <<queue, closed, delivered>>

(* A thread calls again: its last outcome is forgotten. *)
Call(t) == /\ Returns(t, "none")
           /\ UNCHANGED <<queue, closed, delivered>>

Close == /\ closed' = TRUE
         /\ UNCHANGED <<queue, returned, delivered>>

Next == \/ Close
        \/ \E t \in Threads :
              \/ \E packet \in Packets : Push(t, packet)
              \/ PushRefused(t)
              \/ Pop(t)
              \/ PopRefused(t)
              \/ Call(t)

Spec == Init /\ [][Next]_vars
=============================================================================
