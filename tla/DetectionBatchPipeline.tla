----------------------- MODULE DetectionBatchPipeline -----------------------
(***************************************************************************)
(* run_detection_pipeline_nvdec_cuda_blocking of pipeline_runner.c: a      *)
(* decoder thread, inference workers, and the main thread, which writes    *)
(* the output.  A fixed set of batches goes round:                         *)
(*                                                                         *)
(*   free queue -> decoder -> decoded queue -> workers -> completed queue  *)
(*        ^                                                     |          *)
(*        +------------- main thread (pending list) <-----------+          *)
(*                                                                         *)
(* The queues are the ones of ClosableFifo with room for every batch.      *)
(* ctx->failed is read and written under state_lock.  A batch is known by  *)
(* its place in the batches array and holds the frames decoded into it,    *)
(* each of them a surface of the hardware reader that has to be released.  *)
(***************************************************************************)
EXTENDS Integers, Sequences, FiniteSets

CONSTANTS Workers,           (* the inference workers                        *)
          Decoder, Main,
          ActiveBatches,     (* active_batches: batches that go round        *)
          BatchCapacity,     (* batch_capacity: frames a batch holds         *)
          LongestVideo,      (* the bound on the frames of the input video   *)
          MaxFrames,         (* --max-frames, 0 for all                      *)
          Faults             (* the calls that may fail                      *)

FaultKinds == {"create", "read", "infer", "alloc", "write", "encode", "finish"}
Batches == 1 .. ActiveBatches
Stages == Workers \cup {Decoder}
Threads == Stages \cup {Main}

ASSUME DetectionAssumption ==
    /\ IsFiniteSet(Workers)
    /\ Workers # {}
    /\ Decoder \notin Workers /\ Main \notin Workers /\ Decoder # Main
    /\ ActiveBatches \in Nat
    /\ Cardinality(Workers) <= ActiveBatches    (* worker_count is capped *)
    /\ BatchCapacity \in Nat \ {0}
    /\ LongestVideo \in Nat
    /\ MaxFrames \in Nat
    /\ Faults \subseteq FaultKinds

VARIABLES
    video,              (* the frames the input holds: nobody knows before   *)
    pc,                 (* per thread: where it is                           *)
    resume,             (* per thread: where it goes after detection_hw_fail *)
    failed,             (* ctx->failed                                       *)
    closed,             (* which queues are closed                           *)
    queue,              (* "free", "decoded", "completed": batches in order  *)
    hand,               (* per thread: the batch it holds, 0 for none        *)
    frames,             (* per batch: the frames in it, in order             *)
    decoded,            (* the decoder's frame_id                            *)
    atEnd,              (* the decoder's reached_eof                         *)
    active,             (* active_workers                                    *)
    pending,            (* the batches that came early                       *)
    next,               (* next_frame_id                                     *)
    slot,               (* the frame of its batch the main thread writes     *)
    rows,               (* the frames whose detections are written, in order *)
    result              (* what the pipeline returned                        *)

shared == <<failed, closed, active>>
decoding == <<decoded, atEnd>>
output == <<pending, next, slot, rows, result>>
vars == <<video, pc, resume, shared, queue, hand, frames, decoding, output>>

QueueNames == {"free", "decoded", "completed"}

(* The frames a run is to process. *)
Total == IF MaxFrames > 0 /\ MaxFrames < video THEN MaxFrames ELSE video
LimitReached == MaxFrames > 0 /\ decoded >= MaxFrames

Init == /\ video \in 0 .. LongestVideo
        /\ pc = [t \in Threads |-> IF t = Main THEN "createDecoder" ELSE "none"]
        /\ resume = [t \in Threads |-> "done"]
        /\ failed = FALSE
        /\ closed = {}
        /\ queue = [q \in QueueNames |->
                       IF q = "free" THEN [i \in Batches |-> i] ELSE <<>>]
        /\ hand = [t \in Threads |-> 0]
        /\ frames = [b \in Batches |-> <<>>]
        /\ decoded = 0
        /\ atEnd = FALSE
        /\ active = Cardinality(Workers)
        /\ pending = {}
        /\ next = 0
        /\ slot = 1
        /\ rows = <<>>
        /\ result = "none"

-----------------------------------------------------------------------------
Goto(t, to) == pc' = [pc EXCEPT ![t] = to]

(* Thread t calls detection_hw_fail and goes on at "to" afterwards. *)
Fail(t, to) == Goto(t, "fail") /\ resume' = [resume EXCEPT ![t] = to]

(* release_hw_frame_batch and frame_batch_clear. *)
Release(b) == frames' = [frames EXCEPT ![b] = <<>>]

Drop(t) == hand' = [hand EXCEPT ![t] = 0]

(* detection_batch_queue_pop into t's hand: a batch, or none from a closed  *)
(* and empty queue.                                                         *)
PopBatch(t, q) ==
    /\ queue[q] # <<>>
    /\ hand' = [hand EXCEPT ![t] = Head(queue[q])]
    /\ queue' = [queue EXCEPT ![q] = Tail(@)]
NoMoreBatches(q) == queue[q] = <<>> /\ q \in closed

(* detection_batch_queue_push of the batch in t's hand, into an open queue  *)
(* with room.                                                               *)
PushBatch(t, q) ==
    /\ q \notin closed
    /\ Len(queue[q]) < ActiveBatches
    /\ queue' = [queue EXCEPT ![q] = Append(@, hand[t])]
    /\ Drop(t)

CloseStep(t, at, q, to) ==
    /\ pc[t] = at
    /\ closed' = closed \cup {q}
    /\ Goto(t, to)
    /\ UNCHANGED <<video, resume, failed, active, queue, hand, frames, decoding, output>>

SetFailed(t) ==
    /\ pc[t] = "fail"
    /\ failed' = TRUE
    /\ Goto(t, "closeFree")
    /\ UNCHANGED <<video, resume, closed, active, queue, hand, frames, decoding, output>>

(* detection_hw_fail: the flag under its lock, then the three closes. *)
HwFail(t) == \/ SetFailed(t)
             \/ CloseStep(t, "closeFree", "free", "closeDecoded")
             \/ CloseStep(t, "closeDecoded", "decoded", "closeCompleted")
             \/ CloseStep(t, "closeCompleted", "completed", resume[t])

-----------------------------------------------------------------------------
(* detection_decoder_thread_main. *)
DecoderPop ==
    /\ pc[Decoder] = "pop"
    /\ \/ /\ LimitReached
          /\ Goto(Decoder, "close")
          /\ UNCHANGED <<queue, hand>>
       \/ /\ ~LimitReached
          /\ PopBatch(Decoder, "free")
          /\ Goto(Decoder, "check")
       \/ /\ ~LimitReached
          /\ NoMoreBatches("free")
          /\ Goto(Decoder, "close")
          /\ UNCHANGED <<queue, hand>>
    /\ UNCHANGED <<video, resume, shared, frames, decoding, output>>

DecoderCheck ==
    /\ pc[Decoder] = "check"
    /\ \/ failed /\ Drop(Decoder) /\ Fail(Decoder, "close")
       \/ ~failed /\ Goto(Decoder, "fill") /\ UNCHANGED <<hand, resume>>
    /\ UNCHANGED <<video, shared, queue, frames, decoding, output>>

DecoderFill ==
    LET left == Total - decoded
        room == IF left < BatchCapacity THEN left ELSE BatchCapacity
    IN  /\ pc[Decoder] = "fill"
        /\ decoded' = decoded + room
        /\ atEnd' = (room < BatchCapacity)
        /\ frames' = [frames EXCEPT ![hand[Decoder]] =
                                      [i \in 1 .. room |-> decoded + i - 1]]
        /\ Goto(Decoder, IF room = 0 THEN "giveBack" ELSE "push")
        /\ UNCHANGED <<video, resume, shared, queue, hand, output>>

(* A read fails: the frames already in the batch are released with it. *)
DecoderReadFails ==
    /\ pc[Decoder] = "fill"
    /\ "read" \in Faults
    /\ Release(hand[Decoder])
    /\ Drop(Decoder)
    /\ Fail(Decoder, "close")
    /\ UNCHANGED <<video, shared, queue, decoding, output>>

(* The video ended before the batch got a frame; a refusal is ignored. *)
DecoderGiveBack ==
    /\ pc[Decoder] = "giveBack"
    /\ \/ PushBatch(Decoder, "free")
       \/ "free" \in closed /\ Drop(Decoder) /\ UNCHANGED queue
    /\ Goto(Decoder, "close")
    /\ UNCHANGED <<video, resume, shared, frames, decoding, output>>

(* Mutated: a refused batch is dropped with its surfaces. *)
DecoderPushForgets ==
    /\ pc[Decoder] = "push"
    /\ \/ PushBatch(Decoder, "decoded")
       \/ "decoded" \in closed /\ Drop(Decoder) /\ UNCHANGED queue
    /\ Goto(Decoder, IF atEnd \/ "decoded" \in closed THEN "close" ELSE "pop")
    /\ UNCHANGED <<video, resume, shared, frames, decoding, output>>

DecoderPush ==
    /\ pc[Decoder] = "push"
    /\ \/ /\ PushBatch(Decoder, "decoded")
          /\ Goto(Decoder, IF atEnd THEN "close" ELSE "pop")
          /\ UNCHANGED frames
       \/ /\ "decoded" \in closed
          /\ Release(hand[Decoder])
          /\ Drop(Decoder)
          /\ Goto(Decoder, "close")
          /\ UNCHANGED queue
    /\ UNCHANGED <<video, resume, shared, decoding, output>>

DecoderClose == CloseStep(Decoder, "close", "decoded", "done")

DecoderNext == \/ DecoderPop \/ DecoderCheck \/ DecoderFill \/ DecoderReadFails
               \/ DecoderGiveBack \/ DecoderPush \/ DecoderClose
               \/ HwFail(Decoder)

-----------------------------------------------------------------------------
(* detection_inference_worker_main; its engine was created before it. *)
WorkerPop(w) ==
    /\ pc[w] = "pop"
    /\ \/ PopBatch(w, "decoded") /\ Goto(w, "check")
       \/ NoMoreBatches("decoded") /\ Goto(w, "finish") /\ UNCHANGED <<queue, hand>>
    /\ UNCHANGED <<video, resume, shared, frames, decoding, output>>

(* The batch is abandoned: its surfaces go back and the worker leaves. *)
Abandon(w) == /\ Release(hand[w])
              /\ Drop(w)
              /\ Fail(w, "finish")

WorkerCheck(w) ==
    /\ pc[w] = "check"
    /\ \/ failed /\ Abandon(w)
       \/ ~failed /\ Goto(w, "infer") /\ UNCHANGED <<resume, hand, frames>>
    /\ UNCHANGED <<video, shared, queue, decoding, output>>

WorkerInfer(w) ==
    /\ pc[w] = "infer"
    /\ \/ Goto(w, "push") /\ UNCHANGED <<resume, hand, frames>>
       \/ "infer" \in Faults /\ Abandon(w)
    /\ UNCHANGED <<video, shared, queue, decoding, output>>

WorkerPush(w) ==
    /\ pc[w] = "push"
    /\ \/ PushBatch(w, "completed") /\ Goto(w, "pop") /\ UNCHANGED frames
       \/ /\ "completed" \in closed
          /\ Release(hand[w])
          /\ Drop(w)
          /\ Goto(w, "refused")
          /\ UNCHANGED queue
    /\ UNCHANGED <<video, resume, shared, decoding, output>>

WorkerRefused(w) ==
    /\ pc[w] = "refused"
    /\ \/ failed /\ Goto(w, "finish") /\ UNCHANGED resume
       \/ ~failed /\ Fail(w, "finish")
    /\ UNCHANGED <<video, shared, queue, hand, frames, decoding, output>>

(* Mutated: the last worker closes nothing. *)
WorkerFinishOpen(w) ==
    /\ pc[w] = "finish"
    /\ active' = active - 1
    /\ Goto(w, "done")
    /\ UNCHANGED <<video, resume, failed, closed, queue, hand, frames, decoding, output>>

(* detection_inference_worker_finished: the last one closes the output. *)
WorkerFinish(w) ==
    /\ pc[w] = "finish"
    /\ active' = active - 1
    /\ Goto(w, IF active = 1 THEN "closing" ELSE "done")
    /\ UNCHANGED <<video, resume, failed, closed, queue, hand, frames, decoding, output>>

WorkerClose(w) == CloseStep(w, "closing", "completed", "done")

WorkerNext(w) == \/ WorkerPop(w) \/ WorkerCheck(w) \/ WorkerInfer(w)
                 \/ WorkerPush(w) \/ WorkerRefused(w) \/ WorkerFinish(w)
                 \/ WorkerClose(w) \/ HwFail(w)

-----------------------------------------------------------------------------
(* The main thread, run_detection_pipeline_nvdec_cuda_blocking: the threads *)
(* are started one by one.                                                 *)
MainKeeps == UNCHANGED <<video, shared, decoding>>

CreateFails == "create" \in Faults /\ Fail(Main, "cleanup")

CreateDecoder ==
    /\ pc[Main] = "createDecoder"
    /\ \/ pc' = [pc EXCEPT ![Main] = "createWorkers", ![Decoder] = "pop"]
          /\ UNCHANGED resume
       \/ CreateFails
    /\ UNCHANGED <<queue, hand, frames, output>>
    /\ MainKeeps

CreateWorkers ==
    /\ pc[Main] = "createWorkers"
    /\ LET unstarted == {w \in Workers : pc[w] = "none"} IN
       \/ unstarted = {} /\ Goto(Main, "pop") /\ UNCHANGED resume
       \/ \E w \in unstarted : pc' = [pc EXCEPT ![w] = "pop"] /\ UNCHANGED resume
       \/ unstarted # {} /\ CreateFails
    /\ UNCHANGED <<queue, hand, frames, output>>
    /\ MainKeeps

MainPop ==
    /\ pc[Main] = "pop"
    /\ \/ PopBatch(Main, "completed") /\ Goto(Main, "order")
       \/ NoMoreBatches("completed") /\ Goto(Main, "judge") /\ UNCHANGED <<queue, hand>>
    /\ UNCHANGED <<resume, frames, output>>
    /\ MainKeeps

(* detection_output_batch_ordered: a batch that came early waits. *)
Turn(b) == Head(frames[b]) = next

(* Mutated: batches are written as they come. *)
OutputAsItComes ==
    /\ pc[Main] = "order"
    /\ Goto(Main, "output")
    /\ UNCHANGED <<resume, queue, hand, frames, output>>
    /\ MainKeeps

OutputOrdered ==
    /\ pc[Main] = "order"
    /\ \/ /\ Turn(hand[Main])
          /\ Goto(Main, "output")
          /\ UNCHANGED <<resume, hand, pending>>
       \/ /\ ~Turn(hand[Main])
          /\ pending' = pending \cup {hand[Main]}
          /\ Drop(Main)
          /\ Goto(Main, "pop")
          /\ UNCHANGED resume
       \/ /\ ~Turn(hand[Main])
          /\ "alloc" \in Faults
          /\ Fail(Main, "recycleBroken")
          /\ UNCHANGED <<hand, pending>>
    /\ UNCHANGED <<queue, frames, next, slot, rows, result>>
    /\ MainKeeps

(* Mutated: next_frame_id stays behind. *)
OutputFrameInPlace ==
    LET batch == frames[hand[Main]]
        last == slot = Len(batch)
    IN  /\ pc[Main] = "output"
        /\ rows' = Append(rows, batch[slot])
        /\ slot' = IF last THEN 1 ELSE slot + 1
        /\ Goto(Main, IF last THEN "recycle" ELSE "output")
        /\ UNCHANGED <<resume, queue, hand, frames, pending, next, result>>
        /\ MainKeeps

(* One frame of detection_output_and_recycle_batch: its detections are     *)
(* written, then it is drawn, encoded and measured.  next_frame_id moves   *)
(* when the whole batch is out.                                            *)
OutputFrame ==
    LET batch == frames[hand[Main]]
        last == slot = Len(batch)
    IN  /\ pc[Main] = "output"
        /\ \/ /\ rows' = Append(rows, batch[slot])
              /\ slot' = IF last THEN 1 ELSE slot + 1
              /\ next' = IF last THEN next + Len(batch) ELSE next
              /\ Goto(Main, IF last THEN "recycle" ELSE "output")
              /\ UNCHANGED resume
           \/ /\ "write" \in Faults
              /\ Fail(Main, "recycleBroken")
              /\ UNCHANGED <<rows, slot, next>>
           \/ /\ "encode" \in Faults
              /\ rows' = Append(rows, batch[slot])
              /\ Fail(Main, "recycleBroken")
              /\ UNCHANGED <<slot, next>>
        /\ UNCHANGED <<queue, hand, frames, pending, result>>
        /\ MainKeeps

(* detection_recycle_batch: the surfaces are released first; after a       *)
(* failure the batch stays out of the free queue.                          *)
Recycle ==
    /\ pc[Main] = "recycle"
    /\ Release(hand[Main])
    /\ \/ failed /\ Drop(Main) /\ Goto(Main, "take")
       \/ ~failed /\ Goto(Main, "free") /\ UNCHANGED hand
    /\ UNCHANGED <<resume, queue, output>>
    /\ MainKeeps

FreeBatch ==
    /\ pc[Main] = "free"
    /\ \/ PushBatch(Main, "free")
       \/ "free" \in closed /\ Drop(Main) /\ UNCHANGED queue
    /\ Goto(Main, "take")
    /\ UNCHANGED <<resume, frames, output>>
    /\ MainKeeps

(* detection_pending_batch_take. *)
TakePending ==
    /\ pc[Main] = "take"
    /\ \/ \E b \in pending :
             /\ Turn(b)
             /\ pending' = pending \ {b}
             /\ hand' = [hand EXCEPT ![Main] = b]
             /\ Goto(Main, "output")
       \/ /\ \A b \in pending : ~Turn(b)
          /\ Goto(Main, "pop")
          /\ UNCHANGED <<pending, hand>>
    /\ UNCHANGED <<resume, queue, frames, next, slot, rows, result>>
    /\ MainKeeps

(* detection_recycle_batch after detection_hw_fail, and out of the loop. *)
RecycleBroken ==
    /\ pc[Main] = "recycleBroken"
    /\ Release(hand[Main])
    /\ Drop(Main)
    /\ Goto(Main, "cleanup")
    /\ UNCHANGED <<resume, queue, output>>
    /\ MainKeeps

(* Mutated: the end of the completed batches is taken for success. *)
JudgeBlindly ==
    /\ pc[Main] = "judge"
    /\ \/ pending # {} /\ Fail(Main, "cleanup")
       \/ pending = {} /\ Goto(Main, "join") /\ UNCHANGED resume
    /\ UNCHANGED <<queue, hand, frames, output>>
    /\ MainKeeps

Judge ==
    /\ pc[Main] = "judge"
    /\ \/ failed /\ Goto(Main, "cleanup") /\ UNCHANGED resume
       \/ ~failed /\ pending # {} /\ Fail(Main, "cleanup")
       \/ ~failed /\ pending = {} /\ Goto(Main, "join") /\ UNCHANGED resume
    /\ UNCHANGED <<queue, hand, frames, output>>
    /\ MainKeeps

Started == {s \in Stages : pc[s] # "none"}
AllReturned == \A s \in Started : pc[s] = "done"

(* The joins, and the flush of the encoder and the benchmark file. *)
Finish ==
    /\ pc[Main] = "join"
    /\ AllReturned
    /\ \/ result' = "ok"
       \/ "finish" \in Faults /\ result' = "error"
    /\ Goto(Main, "reap")
    /\ UNCHANGED <<resume, queue, hand, frames, pending, next, slot, rows>>
    /\ MainKeeps

(* The label cleanup, with threads still to join: they are told to stop. *)
Cleanup ==
    /\ pc[Main] = "cleanup"
    /\ result' = "error"
    /\ \/ Started # {} /\ Fail(Main, "reap")
       \/ Started = {} /\ Goto(Main, "reap") /\ UNCHANGED resume
    /\ UNCHANGED <<queue, hand, frames, pending, next, slot, rows>>
    /\ MainKeeps

(* The joins of the cleanup; then what the queues and the pending list     *)
(* still hold is released.                                                 *)
Queued == UNION {{queue[q][i] : i \in DOMAIN queue[q]} : q \in QueueNames}

(* Mutated: the batches of the pending list are not released. *)
ReapQueues ==
    /\ pc[Main] = "reap"
    /\ AllReturned
    /\ frames' = [b \in Batches |-> IF b \in Queued THEN <<>> ELSE frames[b]]
    /\ queue' = [q \in QueueNames |-> <<>>]
    /\ pending' = {}
    /\ Goto(Main, "done")
    /\ UNCHANGED <<resume, hand, next, slot, rows, result>>
    /\ MainKeeps

Reap ==
    /\ pc[Main] = "reap"
    /\ AllReturned
    /\ frames' = [b \in Batches |->
                     IF b \in Queued \cup pending THEN <<>> ELSE frames[b]]
    /\ queue' = [q \in QueueNames |-> <<>>]
    /\ pending' = {}
    /\ Goto(Main, "done")
    /\ UNCHANGED <<resume, hand, next, slot, rows, result>>
    /\ MainKeeps

MainNext == \/ CreateDecoder \/ CreateWorkers \/ MainPop \/ OutputOrdered
            \/ OutputFrame \/ Recycle \/ FreeBatch \/ TakePending
            \/ RecycleBroken \/ Judge \/ Finish \/ Cleanup \/ Reap
            \/ HwFail(Main)

(* The process has returned from the pipeline. *)
Returned == pc[Main] = "done" /\ UNCHANGED vars

Next == DecoderNext \/ (\E w \in Workers : WorkerNext(w)) \/ MainNext \/ Returned

(* Every thread is scheduled again and again; a pop or push that can go on  *)
(* is woken, the queues signalling under their lock at every change.        *)
Fairness == /\ WF_vars(DecoderNext)
            /\ \A w \in Workers : WF_vars(WorkerNext(w))
            /\ WF_vars(MainNext)

Spec == Init /\ [][Next]_vars /\ Fairness

-----------------------------------------------------------------------------
(* The places a batch is in: slots of queues, hands, the pending list.      *)
Places(b) == {p \in QueueNames \X Batches :
                  p[2] \in DOMAIN queue[p[1]] /\ queue[p[1]][p[2]] = b}
             \cup {<<t, 0>> : t \in {u \in Threads : hand[u] = b}}
             \cup {<<"pending", 0>> : p \in {b} \cap pending}

(* A batch is never in two places, so no two threads ever work on it, and   *)
(* a batch that holds surfaces of the hardware decoder is always in one:    *)
(* no failure path drops a batch (its pointer leaves every queue and hand)  *)
(* before its surfaces are released.                                        *)
EveryBatchOwned ==
    \A b \in Batches : /\ Cardinality(Places(b)) <= 1
                       /\ frames[b] # <<>> => Places(b) # {}

(* Whatever fails and when, no surface is left when the pipeline returns.   *)
NoSurfaceLeft ==
    pc[Main] = "done" => \A b \in Batches : frames[b] = <<>>

(* A failure in any thread is reported: the main thread looks at            *)
(* ctx->failed once, before the joins, and no thread can fail after that.   *)
FailureIsReported == failed /\ pc[Main] = "done" => result = "error"

(* Whenever batches wait in the pending list, the one whose turn it is is   *)
(* still on its way, or the run has failed: so the list is empty at the     *)
(* end of a run without failure.                                            *)
EarlyBatchesAreFollowed ==
    pc[Main] \in {"pop", "judge"} /\ pending # {} =>
        \/ failed
        \/ \E s \in Stages : pc[s] = "fail"
        \/ \E b \in Batches \ pending : frames[b] # <<>> /\ Turn(b)

(* The frames leave in ascending order, nothing is written after the        *)
(* return, and the pipeline returns 0 only when every frame of the video,   *)
(* up to --max-frames, has its detections written.                          *)
Run == INSTANCE InOrderRun WITH total <- Total, delivered <- rows,
           outcome <- IF pc[Main] = "done" THEN result ELSE "none"
ImplementsRun == Run!Spec

(* Whatever fails, in whatever thread, the pipeline returns: no thread      *)
(* waits for a batch that never comes.                                      *)
RunEnds == <>(pc[Main] = "done")
=============================================================================
