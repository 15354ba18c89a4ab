------------------------- MODULE FilterPipelineInv --------------------------
(***************************************************************************)
(* The inductive invariant of FilterPipeline: what has to be true of every *)
(* thread for the order of the output and the meaning of a successful      *)
(* return to be preserved by each step, then what frames, buffers and the  *)
(* joins need on top of it.  FilterPipelineProofs proves it; the runs check*)
(* it first.                                                               *)
(***************************************************************************)
EXTENDS FilterPipeline

CloseLabels == FailLabels \ {"fail"}

(* Who may be at which label inside and after pipeline_fail: the closes    *)
(* come after the flag, a pool is closed by nobody else, and the ways out  *)
(* that need a closed pool or a refused push exist only then.              *)
Failing ==
    /\ \A t \in Threads : pc[t] \in CloseLabels => failed
    /\ closed \cap {"rawPool", "processedPool"} # {} => failed
    /\ \A w \in Workers : pc[w] \in {"dropInput", "dropOutput"} => failed
    /\ pc[Encoder] = "discard" => failed
    /\ pc[Decoder] \in FailLabels => resume[Decoder] = "closing"
    /\ \A w \in Workers : pc[w] \in FailLabels => resume[w] = "finish"
    /\ pc[Encoder] \in FailLabels => resume[Encoder] \in {"drain", "leftovers", "discard"}
    /\ pc[Main] \in FailLabels => resume[Main] \in {"createWorkers", "join", "cleanup"}

(* The decoder never numbers a frame beyond the limit or the video.        *)
AtLimit == MaxFrames > 0 /\ decoded >= MaxFrames
DecoderInRange ==
    /\ pc[Decoder] = "read" => ~AtLimit
    /\ pc[Decoder] = "check" => decoded < Total
    /\ pc[Decoder] = "push" => decoded > 0

(* A frame in somebody's hands has an id of the video.                     *)
HeldIds ==
    /\ \A w \in HoldsInput \cup HoldsOutput : current[w] \in FrameIds
    /\ pc[Encoder] \in {"check", "insert"} => current[Encoder] \in FrameIds
    /\ pc[Encoder] \in {"giveBack", "drainGiveBack"} => next \in FrameIds

(* active_processors is the number of processors that have not finished.   *)
Counted == active = Cardinality({w \in Workers : pc[w] # "done"})

(* A thread that is not created yet has done nothing.                      *)
NotStarted ==
    /\ pc[Main] = "createDecoder" => pc[Decoder] = "none"
    /\ pc[Main] \in {"createDecoder", "createEncoder", "createEncoderOnly"} =>
          pc[Encoder] = "none" /\ \A w \in Workers : pc[w] = "none"

(* Without a failure the threads are created one after the other.          *)
Starting ==
    ~failed =>
       /\ pc[Main] # "createDecoder" /\ pc[Main] # "createEncoderOnly"
             /\ pc[Main] \notin FailLabels => pc[Decoder] # "none"
       /\ pc[Main] \in {"createWorkers", "join", "cleanup", "done", "undefined"} =>
             /\ pc[Encoder] # "none"
             /\ \A w \in Workers : pc[w] # "absent"
       /\ pc[Main] \in {"join", "cleanup", "done", "undefined"} =>
             \A w \in Workers : pc[w] # "none"

AfterLoop == {"drain", "drainWrite", "drainGiveBack", "leftovers", "flush", "done"}

(* Without a failure the stages end one after the other: the decoder at    *)
(* the end of the video, the processors once the raw queue is closed and   *)
(* empty, the encoder once the processed queue is.                         *)
Ending ==
    ~failed =>
       /\ pc[Decoder] \in {"drop", "closing", "done"} => decoded = Total
       /\ "rawQueue" \in closed => pc[Decoder] = "done"
       /\ \A w \in Workers : pc[w] \in {"finish", "done"} =>
             "rawQueue" \in closed /\ rawQueue = <<>>
       /\ "processedQueue" \in closed => \A w \in Workers : pc[w] = "done"
       /\ pc[Encoder] \in AfterLoop =>
             "processedQueue" \in closed /\ processedQueue = <<>>
       /\ pc[Encoder] \in {"flush", "done"} => pending = {}
       /\ pc[Encoder] = "done" => flushed # "no"

(* The next frame to write is the number of frames written, except between *)
(* a write and the increment, or after an error in between.                *)
NextToWrite ==
    /\ pc[Encoder] \in {"none", "pop", "check", "insert", "write", "drainWrite"} =>
          Len(written) = next
    /\ pc[Encoder] \in {"giveBack", "drainGiveBack"} => Len(written) = next + 1
    /\ pc[Encoder] = "drain" => failed \/ Len(written) = next

(* Until a stage fails, every frame the decoder has numbered is somewhere. *)
Unfailed == ~failed /\ \A t \in Stages : pc[t] # "fail"
Covered == Unfailed => 0 .. decoded - 1 \subseteq Places

(* No pool ever has more buffers than it was created with.                 *)
BuffersBounded == RawBuffers <= PoolCapacity /\ ProcessedBuffers <= PoolCapacity

(* A successful return is final.                                           *)
Succeeded ==
    result = "ok" => /\ ~failed
                     /\ pc[Main] = "done"
                     /\ Running = {}
                     /\ pc[Encoder] = "done"

(* The order of the output and the meaning of a successful return need     *)
(* only this much.                                                         *)
CoreInv == /\ TypeOK
           /\ Failing
           /\ DecoderInRange
           /\ HeldIds
           /\ Counted
           /\ NotStarted
           /\ Starting
           /\ Ending
           /\ OutputInOrder
           /\ NextToWrite
           /\ Covered
           /\ BuffersBounded
           /\ Succeeded
           /\ SuccessMeansComplete

(* A worker that frees its input instead of giving it back to the raw pool *)
(* takes no other frame, so while that pool is open it is short of a       *)
(* buffer at most for the workers that hold one or that have stopped.      *)
TakesNoMore == {w \in Workers : pc[w] \in FailLabels \cup {"finish", "done"}}
RawBuffersLast ==
    IsClosed("rawPool") \/ rawAvailable + Len(rawQueue) + DecoderHolds
                              + Cardinality(HoldsInput \cup TakesNoMore) >= PoolCapacity

(* Where the joins are sound, the main thread passes them only when every  *)
(* thread it has created has ended.                                        *)
JoinsAreSound == Platform = "win32" \/ "create" \notin Faults
Joined == JoinsAreSound =>
             /\ pc[Main] \in {"cleanup", "done"} => Running = {}
             /\ pc[Main] # "undefined"
             /\ pc[Main] \in FailLabels => resume[Main] # "cleanup"
             /\ "create" \notin Faults => \A w \in Workers : pc[w] # "absent"

(* An outcome is returned when every thread that was created has ended.    *)
Returned == result # "none" => pc[Main] = "done" /\ Running = {}

IInv == /\ CoreInv
        /\ EveryFrameInOnePlace
        /\ BuffersConserved
        /\ RawBuffersLast
        /\ Joined
        /\ Returned
=============================================================================
