--------------------------- MODULE InferenceLanes ---------------------------
(***************************************************************************)
(* The asynchronous lanes of the CUDA inference engines (slots_ of         *)
(* TensorRTYoloEngine): submit_device_async queues the work of one frame   *)
(* on the stream of a lane, is_lane_ready asks the event at its end,       *)
(* finish_lane waits for that event and reads the output.  The GPU works   *)
(* on its own.  A lane knows the frame it was given: its number goes into  *)
(* every detection of the result.                                          *)
(***************************************************************************)
EXTENDS Integers

CONSTANT LaneCount          (* slots_.size()                                 *)
ASSUME LaneAssumption == LaneCount \in Nat \ {0}

VARIABLE lanes              (* per lane: async_active, the stream, the frame *)

Lanes == 1 .. LaneCount
NoFrame == -1

(* gpu: nothing on the stream, work on it, or output_done recorded. *)
IdleLane == [active |-> FALSE, gpu |-> "idle", frame |-> NoFrame]
LaneStates(frames) == [active : BOOLEAN, gpu : {"idle", "running", "done"},
                       frame : frames \cup {NoFrame}]

InitLanes == lanes = [l \in Lanes |-> IdleLane]

(* submit_device_async.  It is refused on an active lane; when it fails    *)
(* before the first kernel is launched the stream is as it was, after it   *)
(* the stream still works on the frame, and the lane is not active.        *)
SubmitLane(l, frame) ==
    /\ ~lanes[l].active
    /\ lanes' = [lanes EXCEPT ![l] = [active |-> TRUE, gpu |-> "running", frame |-> frame]]
SubmitFails(l, frame) ==
    \/ lanes' = lanes
    \/ /\ ~lanes[l].active
       /\ lanes' = [lanes EXCEPT ![l] = [active |-> FALSE, gpu |-> "running", frame |-> frame]]

(* is_lane_ready. *)
LaneReady(l) == ~lanes[l].active \/ lanes[l].gpu = "done"

(* finish_lane: whatever it returns, the lane is free afterwards, unless    *)
(* it had no frame.  The result is that of the frame the lane was given.   *)
FinishLane(l) ==
    /\ lanes[l].active
    /\ lanes[l].gpu = "done"
    /\ lanes' = [lanes EXCEPT ![l] = IdleLane]

(* The GPU comes to the end of what is on the lane's stream. *)
LaneCompletes(l) ==
    /\ lanes[l].gpu = "running"
    /\ lanes' = [lanes EXCEPT ![l].gpu = "done"]
=============================================================================
