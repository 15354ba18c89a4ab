----------------------- MODULE DetectionAsyncPipeline -----------------------
(***************************************************************************)
(* run_detection_pipeline_nvdec_cuda_async of pipeline_runner.c.  Slots    *)
(* with one decoded frame each go round, five threads and the GPU work:    *)
(*                                                                         *)
(*  free -> decoder -> decoded -> scheduler -> completed -> main -> encode *)
(*   ^                           (lanes)                     |       |     *)
(*   +-------------------------------------------------------+-- encoder   *)
(*                                                                         *)
(* The main thread puts the frames in order and hands their detections to  *)
(* the metadata thread in records of a second, smaller round trip; the     *)
(* encoder (only with --draw-boxes) and, without it, the main thread send  *)
(* a second record per frame with its timing.  A slot is known by its      *)
(* number, its surface by the frame decoded into it.                       *)
(***************************************************************************)
EXTENDS Integers, Sequences, FiniteSets, InferenceLanes

CONSTANTS SlotCount,         (* active_frame_capacity                        *)
          EncodeCapacity,    (* encode_queue_capacity                        *)
          Configs,           (* draw_boxes and enable_benchmark              *)
          LongestVideo,      (* the bound on the frames of the input video   *)
          MaxFrames,         (* --max-frames, 0 for all                      *)
          Faults,            (* the calls that may fail                      *)
          MaxFailures,       (* the bound on how many of them do             *)
          LongestFailing     (* ... and on the video, with boxes or without  *)

FaultKinds == {"create", "read", "submit", "query", "collect", "alloc", "copy",
               "draw", "encode", "row", "timing", "finish"}

ASSUME AsyncAssumption ==
    /\ SlotCount \in Nat \ {0}
    /\ LaneCount <= SlotCount            (* lane_count is capped *)
    /\ EncodeCapacity \in 1 .. 2
    /\ Configs \subseteq [draw : BOOLEAN, benchmark : BOOLEAN]
    /\ LongestVideo \in Nat
    /\ MaxFrames \in Nat
    /\ Faults \subseteq FaultKinds
    /\ MaxFailures \in Nat /\ LongestFailing \in [BOOLEAN -> Nat]

VARIABLES
    config,             (* the options that change the flow                  *)
    video,              (* the frames the input holds                        *)
    pc,                 (* per thread: where it is                           *)
    resume,             (* per thread: where it goes after async_fail        *)
    failuresLeft,       (* the bound on calls that fail                      *)
    failed,             (* ctx->failed                                       *)
    closed,             (* which queues are closed                           *)
    queue,              (* free, decoded, completed, encode: slots in order  *)
    records,            (* metadata_records, in order                        *)
    freeRecords,        (* how many records free_metadata holds              *)
    hand,               (* per thread: the slot it holds, 0 for none         *)
    frame,              (* per slot: the frame decoded into it, or NoFrame   *)
    found,              (* per slot: the frame its detections are of         *)
    decoded,            (* the decoder's frame_id                            *)
    laneSlots,          (* the scheduler's lane_slots                        *)
    lane,               (* the lane its loop is at                           *)
    decodedClosed,      (* its decoded_closed                                *)
    pending,            (* the slots that came early                         *)
    next,               (* next_output_frame_id                              *)
    rows,               (* the frames whose detections are written, in order *)
    measured,           (* the frames with a benchmark row, in order         *)
    encoded,            (* the frames in the output video, in order          *)
    result              (* what the pipeline returned                        *)

given == <<config, video>>
control == <<pc, resume, failuresLeft>>
shared == <<failed, closed>>
meta == <<records, freeRecords>>
slots == <<queue, hand, frame>>
scheduling == <<laneSlots, lane, decodedClosed>>
ordering == <<pending, next>>
output == <<rows, measured, encoded>>
vars == <<given, control, shared, meta, slots, found, decoded, lanes, scheduling,
          ordering, output, result>>

Slots == 1 .. SlotCount
RecordCount == 2 * SlotCount + 4
Stages == {"metadata", "encoder", "decoder", "scheduler"}
Threads == Stages \cup {"main"}
SlotQueues == {"free", "decoded", "completed", "encode"}
FailOrder == <<"free", "decoded", "completed", "encode", "freeMetadata", "records">>
Capacity(q) == IF q = "encode" THEN EncodeCapacity ELSE SlotCount

Total == IF MaxFrames > 0 /\ MaxFrames < video THEN MaxFrames ELSE video

Init == /\ config \in Configs
        /\ video \in 0 .. LongestVideo
        /\ pc = [t \in Threads |-> IF t = "main" THEN "create" ELSE "none"]
        /\ resume = [t \in Threads |-> "done"]
        /\ failuresLeft = IF video <= LongestFailing[config.draw] THEN MaxFailures ELSE 0
        /\ failed = FALSE
        /\ closed = {}
        /\ queue = [q \in SlotQueues |->
                       IF q = "free" THEN [i \in Slots |-> i] ELSE <<>>]
        /\ records = <<>>
        /\ freeRecords = RecordCount
        /\ hand = [t \in Threads |-> 0]
        /\ frame = [s \in Slots |-> NoFrame]
        /\ found = [s \in Slots |-> NoFrame]
        /\ decoded = 0
        /\ InitLanes
        /\ laneSlots = [l \in Lanes |-> 0]
        /\ lane = 1
        /\ decodedClosed = FALSE
        /\ pending = {}
        /\ next = 0
        /\ rows = <<>> /\ measured = <<>> /\ encoded = <<>>
        /\ result = "none"

-----------------------------------------------------------------------------
(* The first of some positions, if there is one. *)
First(S) == {i \in S : \A j \in S : i <= j}

Goto(t, to) == pc' = [pc EXCEPT ![t] = to] /\ UNCHANGED <<resume, failuresLeft>>

MayFail(kind) == kind \in Faults /\ failuresLeft > 0

(* Thread t calls detection_async_fail and goes on at "to" afterwards. *)
Fail(t, to) == /\ pc' = [pc EXCEPT ![t] = "fail"]
               /\ resume' = [resume EXCEPT ![t] = to]
               /\ failuresLeft' = IF failuresLeft = 0 THEN 0 ELSE failuresLeft - 1

SetFailed(t) ==
    /\ pc[t] = "fail"
    /\ failed' = TRUE
    /\ Goto(t, "closing")
    /\ UNCHANGED closed
(* The next of the queues that is not closed yet. *)
CloseNext(t) ==
    LET left == {i \in DOMAIN FailOrder : FailOrder[i] \notin closed} IN
    /\ pc[t] = "closing"
    /\ closed' = closed \cup {FailOrder[i] : i \in First(left)}
    /\ IF left # First(left) THEN UNCHANGED <<pc, resume>>
       ELSE pc' = [pc EXCEPT ![t] = resume[t]] /\ resume' = [resume EXCEPT ![t] = "done"]
    /\ UNCHANGED <<failuresLeft, failed>>

(* detection_async_fail: the flag under its lock, then six closes. *)
AsyncFail(t) ==
    /\ SetFailed(t) \/ CloseNext(t)
    /\ UNCHANGED <<given, meta, slots, found, decoded, lanes, scheduling, ordering,
                   output, result>>

(* The slot queues.  A pop gets the oldest slot even of a closed queue; a  *)
(* push is refused by a closed queue and waits for room in an open one.    *)
Popped(q) == [queue EXCEPT ![q] = Tail(@)]
Pop(t, q) == /\ queue[q] # <<>>
             /\ hand' = [hand EXCEPT ![t] = Head(queue[q])]
             /\ queue' = Popped(q)
NoMore(q) == queue[q] = <<>> /\ q \in closed
(* Mutated: a push does not wait for room. *)
HasAnyRoom(q) == q \notin closed
HasRoom(q) == q \notin closed /\ Len(queue[q]) < Capacity(q)
Added(q, s) == [queue EXCEPT ![q] = Append(@, s)]
Drop(t) == hand' = [hand EXCEPT ![t] = 0]

(* Mutated: the slot is released and not used again. *)
RecycleOnce(rest, s) ==
    /\ frame' = [frame EXCEPT ![s] = NoFrame]
    /\ found' = [found EXCEPT ![s] = NoFrame]
    /\ queue' = rest

(* Mutated: the slot goes back with its surface. *)
RecycleHeld(rest, s) ==
    /\ \/ "free" \notin closed /\ queue' = [rest EXCEPT !["free"] = Append(@, s)]
       \/ failed /\ queue' = rest
    /\ UNCHANGED <<frame, found>>

(* release_and_recycle_slot: the surface goes back to the reader, and the  *)
(* slot to the free queue unless the run has failed.  ctx->failed is read  *)
(* before the push, which a queue closed in between refuses.  "rest" is    *)
(* what the queues hold without the slot.                                  *)
RecycleInto(rest, s) ==
    /\ frame' = [frame EXCEPT ![s] = NoFrame]
    /\ found' = [found EXCEPT ![s] = NoFrame]
    /\ \/ "free" \notin closed /\ queue' = [rest EXCEPT !["free"] = Append(@, s)]
       \/ failed /\ queue' = rest
Recycle(s) == RecycleInto(queue, s)

(* detection_async_enqueue_metadata: a record is taken from free_metadata, *)
(* filled and put in metadata_records.  "wanted" is one of its two flags.  *)
(* The record is lost when it is refused; a closed free_metadata still     *)
(* lends what it holds, so nothing can come in between.                    *)
Record(kind, f) == [kind |-> kind, frame |-> f]
Enqueue(record, wanted, ok, refused) ==
    \/ /\ wanted /\ freeRecords > 0 /\ "records" \notin closed
       /\ freeRecords' = freeRecords - 1
       /\ records' = Append(records, record)
       /\ ok
    \/ /\ wanted /\ freeRecords > 0 /\ "records" \in closed
       /\ freeRecords' = freeRecords - 1
       /\ UNCHANGED records
       /\ refused
    \/ /\ ~wanted \/ (freeRecords = 0 /\ "freeMetadata" \in closed)
       /\ UNCHANGED meta
       /\ refused
    \/ /\ wanted /\ freeRecords > 0 /\ record.kind = "detections" /\ MayFail("copy")
       /\ freeRecords' = IF "freeMetadata" \in closed THEN freeRecords - 1 ELSE freeRecords
       /\ UNCHANGED records
       /\ refused

Close(t, at, q, to) ==
    /\ pc[t] = at
    /\ closed' = closed \cup {q}
    /\ Goto(t, to)
    /\ UNCHANGED <<given, failed, meta, slots, found, decoded, lanes, scheduling,
                   ordering, output, result>>

-----------------------------------------------------------------------------
(* detection_async_decoder_thread_main. *)
DecoderKeeps == UNCHANGED <<given, shared, meta, lanes, scheduling, ordering, output, result>>

DecoderPop ==
    /\ pc["decoder"] = "pop"
    /\ \/ Pop("decoder", "free") /\ Goto("decoder", "read")
       \/ NoMore("free") /\ Goto("decoder", "close") /\ UNCHANGED <<queue, hand>>
    /\ UNCHANGED <<frame, found, decoded>>
    /\ DecoderKeeps

(* The read, the push of its slot and the test of the loop.  At the end of *)
(* the video the slot goes back (a refusal is ignored); an error or a      *)
(* refused push recycles it.                                               *)
DecoderRead ==
    LET s == hand["decoder"] IN
    /\ pc["decoder"] = "read"
    /\ Drop("decoder")
    /\ \/ /\ decoded = video
          /\ queue' = IF "free" \in closed THEN queue ELSE Added("free", s)
          /\ Goto("decoder", "close")
          /\ UNCHANGED <<frame, found, decoded>>
       \/ /\ MayFail("read")
          /\ Recycle(s)
          /\ Fail("decoder", "close")
          /\ UNCHANGED decoded
       \/ /\ decoded < video
          /\ HasRoom("decoded")
          /\ frame' = [frame EXCEPT ![s] = decoded]
          /\ queue' = Added("decoded", s)
          /\ decoded' = decoded + 1
          /\ Goto("decoder", IF failed \/ decoded' = MaxFrames THEN "close" ELSE "pop")
          /\ UNCHANGED found
       \/ /\ decoded < video
          /\ "decoded" \in closed
          /\ Recycle(s)
          /\ Goto("decoder", "close")
          /\ UNCHANGED decoded
    /\ DecoderKeeps

DecoderNext == \/ DecoderPop \/ DecoderRead
               \/ Close("decoder", "close", "decoded", "done")
               \/ AsyncFail("decoder")

-----------------------------------------------------------------------------
(* detection_async_inference_thread_main, the scheduler of the lanes. *)
SchedulerKeeps == UNCHANGED <<given, shared, meta, hand, decoded, ordering, output, result>>
Occupied == {l \in Lanes : laneSlots[l] # 0}

(* The top of the loop, taken with the step before it; "over" says that no  *)
(* more frames will come.                                                  *)
Round(over) == /\ lane' = 1
               /\ Goto("scheduler", IF failed \/ (over /\ Occupied = {}) THEN "drain"
                                    ELSE IF Occupied = {} THEN "fill" ELSE "collect")

SchedulerStart ==
    /\ pc["scheduler"] = "start"
    /\ \/ Round(FALSE)
       \/ MayFail("alloc") /\ Fail("scheduler", "close") /\ UNCHANGED lane
    /\ UNCHANGED <<queue, frame, found, lanes, laneSlots, decodedClosed>>
    /\ SchedulerKeeps

(* The first loop goes on with the next lane that has a slot. *)
Busy == {l \in Occupied : l >= lane}
AfterLane(l) == IF \E k \in Occupied : k > l
                THEN lane' = l + 1 /\ UNCHANGED control
                ELSE lane' = 1 /\ Goto("scheduler", "fill")

(* The result of lane l goes to its slot, the slot to the main thread. *)
Collect(l) ==
    LET s == laneSlots[l] IN
    /\ FinishLane(l)
    /\ laneSlots' = [laneSlots EXCEPT ![l] = 0]
    /\ \/ /\ HasRoom("completed")
          /\ found' = [found EXCEPT ![s] = lanes[l].frame]
          /\ queue' = Added("completed", s)
          /\ AfterLane(l)
          /\ UNCHANGED frame
       \/ /\ "completed" \in closed
          /\ Recycle(s)
          /\ Fail("scheduler", "drain")
          /\ UNCHANGED lane

(* Mutated: a lane is taken for ready while the GPU is at work. *)
SchedulerCollectEarly ==
    /\ pc["scheduler"] = "collect"
    /\ \E l \in First(Busy) :
          /\ laneSlots' = [laneSlots EXCEPT ![l] = 0]
          /\ lanes' = [lanes EXCEPT ![l].active = FALSE]
          /\ HasRoom("completed")
          /\ found' = [found EXCEPT ![laneSlots[l]] = lanes[l].frame]
          /\ queue' = Added("completed", laneSlots[l])
          /\ AfterLane(l)
    /\ UNCHANGED <<frame, decodedClosed>>
    /\ SchedulerKeeps

(* The first loop of a round: the lanes that have a slot are asked in turn.*)
SchedulerCollect ==
    /\ pc["scheduler"] = "collect"
    /\ \E l \in First(Busy) :
       \/ /\ ~LaneReady(l)
          /\ AfterLane(l)
          /\ UNCHANGED <<queue, frame, found, lanes, laneSlots>>
       \/ LaneReady(l) /\ Collect(l)
       \/ /\ MayFail("query")
          /\ Fail("scheduler", "drain")
          /\ UNCHANGED <<queue, frame, found, lanes, laneSlots, lane>>
       \/ /\ LaneReady(l) /\ MayFail("collect")
          /\ FinishLane(l)
          /\ Fail("scheduler", "drain")
          /\ UNCHANGED <<queue, frame, found, laneSlots, lane>>
    /\ UNCHANGED decodedClosed
    /\ SchedulerKeeps

(* The slot popped for lane l is submitted to the GPU, or recycled. *)
Submit(l, s) ==
    \/ /\ SubmitLane(l, frame[s])
       /\ queue' = Popped("decoded")
       /\ laneSlots' = [laneSlots EXCEPT ![l] = s]
       /\ lane' = l + 1
       /\ UNCHANGED <<control, frame, found>>
    \/ /\ MayFail("submit")
       /\ SubmitFails(l, frame[s])
       /\ RecycleInto(Popped("decoded"), s)
       /\ Fail("scheduler", "drain")
       /\ UNCHANGED <<laneSlots, lane>>

(* The second loop: the free lanes get a slot while there are any.  Only   *)
(* with no lane at work does the scheduler wait for one.                   *)
Empty == {l \in Lanes \ Occupied : l >= lane}

SchedulerFill ==
    /\ pc["scheduler"] = "fill"
    /\ \/ /\ Empty = {} \/ decodedClosed
          /\ Round(decodedClosed)
          /\ UNCHANGED <<queue, frame, found, lanes, laneSlots, decodedClosed>>
       \/ /\ ~decodedClosed /\ queue["decoded"] # <<>>
          /\ \E l \in First(Empty) : Submit(l, Head(queue["decoded"]))
          /\ UNCHANGED decodedClosed
       \/ /\ Empty # {} /\ ~decodedClosed /\ NoMore("decoded")
          /\ decodedClosed' = TRUE
          /\ Round(TRUE)
          /\ UNCHANGED <<queue, frame, found, lanes, laneSlots>>
       \/ /\ Empty # {} /\ ~decodedClosed /\ Occupied # {}
          /\ queue["decoded"] = <<>> /\ "decoded" \notin closed
          /\ Round(FALSE)
          /\ UNCHANGED <<queue, frame, found, lanes, laneSlots, decodedClosed>>
    /\ SchedulerKeeps

(* The label done: what the lanes hold is released, at work or not. *)
SchedulerDrain ==
    /\ pc["scheduler"] = "drain"
    /\ \/ /\ \E l \in First(Occupied) :
                /\ Recycle(laneSlots[l])
                /\ laneSlots' = [laneSlots EXCEPT ![l] = 0]
          /\ UNCHANGED control
       \/ /\ Occupied = {}
          /\ Goto("scheduler", "close")
          /\ UNCHANGED <<queue, frame, found, laneSlots>>
    /\ UNCHANGED <<lanes, lane, decodedClosed>>
    /\ SchedulerKeeps

SchedulerNext == \/ SchedulerStart \/ SchedulerCollect
                 \/ SchedulerFill \/ SchedulerDrain
                 \/ Close("scheduler", "close", "completed", "done")
                 \/ AsyncFail("scheduler")

GpuNext == /\ \E l \in Lanes : LaneCompletes(l)
           /\ UNCHANGED <<given, control, shared, meta, slots, found, decoded,
                          scheduling, ordering, output, result>>

-----------------------------------------------------------------------------
(* detection_async_encode_thread_main; ctx->failed is looked at before     *)
(* each of its three calls and after the slot is gone.                     *)
EncoderKeeps == UNCHANGED <<given, shared, decoded, lanes, scheduling, ordering,
                            rows, measured, result>>

EncoderStart ==
    /\ pc["encoder"] = "start"
    /\ \/ Goto("encoder", "pop")
       \/ MayFail("alloc") /\ Fail("encoder", "pop")
    /\ UNCHANGED <<meta, slots, found, encoded>>
    /\ EncoderKeeps

(* A slot is taken and drawn on. *)
EncoderDraw ==
    /\ pc["encoder"] = "pop"
    /\ \/ NoMore("encode") /\ Goto("encoder", "done") /\ UNCHANGED <<queue, hand>>
       \/ Pop("encoder", "encode") /\ Goto("encoder", IF failed THEN "recycle" ELSE "encode")
       \/ /\ ~failed /\ MayFail("draw")
          /\ Pop("encoder", "encode")
          /\ Fail("encoder", "recycle")
    /\ UNCHANGED <<meta, frame, found, encoded>>
    /\ EncoderKeeps

EncoderEncode ==
    /\ pc["encoder"] = "encode"
    /\ \/ /\ encoded' = Append(encoded, frame[hand["encoder"]])
          /\ Goto("encoder", IF failed THEN "recycle" ELSE "measure")
       \/ MayFail("encode") /\ Fail("encoder", "recycle") /\ UNCHANGED encoded
    /\ UNCHANGED <<meta, slots, found>>
    /\ EncoderKeeps

EncoderMeasure ==
    /\ pc["encoder"] = "measure"
    /\ Enqueue(Record("timing", frame[hand["encoder"]]), config.benchmark,
               Goto("encoder", "recycle"), Fail("encoder", "recycle"))
    /\ UNCHANGED <<slots, found, encoded>>
    /\ EncoderKeeps

EncoderRecycle ==
    /\ pc["encoder"] = "recycle"
    /\ Recycle(hand["encoder"])
    /\ Drop("encoder")
    /\ Goto("encoder", IF failed THEN "done" ELSE "pop")
    /\ UNCHANGED <<meta, encoded>>
    /\ EncoderKeeps

EncoderNext == \/ EncoderStart \/ EncoderDraw \/ EncoderEncode
               \/ EncoderMeasure \/ EncoderRecycle
               \/ AsyncFail("encoder")

-----------------------------------------------------------------------------
(* detection_async_metadata_thread_main: the files are its own. *)
MetadataKeeps == UNCHANGED <<given, shared, slots, found, decoded, lanes, scheduling,
                             ordering, encoded, result>>

(* A record is written and goes back; a run that has failed is left.  After *)
(* an error it does not go back: detection_async_fail has closed the queue.*)
MetadataWrite ==
    LET r == Head(records) IN
    /\ pc["metadata"] = "pop"
    /\ records # <<>>
    /\ records' = Tail(records)
    /\ \/ /\ IF r.kind = "detections"
             THEN rows' = Append(rows, r.frame) /\ UNCHANGED measured
             ELSE /\ measured' = IF failed THEN measured ELSE Append(measured, r.frame)
                  /\ UNCHANGED rows
          /\ freeRecords' = IF "freeMetadata" \in closed THEN freeRecords ELSE freeRecords + 1
          /\ Goto("metadata", IF failed THEN "done" ELSE "pop")
       \/ /\ r.kind = "detections" /\ MayFail("row")
          /\ Fail("metadata", "done")
          /\ UNCHANGED <<rows, measured, freeRecords>>
       \/ /\ r.kind = "timing" /\ ~failed /\ MayFail("timing")
          /\ Fail("metadata", "done")
          /\ UNCHANGED <<rows, measured, freeRecords>>
    /\ MetadataKeeps

MetadataEnd ==
    /\ pc["metadata"] = "pop"
    /\ records = <<>> /\ "records" \in closed
    /\ Goto("metadata", "done")
    /\ UNCHANGED <<meta, rows, measured>>
    /\ MetadataKeeps

MetadataNext == \/ MetadataWrite \/ MetadataEnd \/ AsyncFail("metadata")

-----------------------------------------------------------------------------
(* The main thread.  Its stages are created in this order; the first that  *)
(* cannot be created ends the run.                                         *)
MainKeeps == UNCHANGED <<given, failed, decoded, lanes, scheduling, output>>

CreateOrder == IF config.draw THEN <<"metadata", "encoder", "decoder", "scheduler">>
                              ELSE <<"metadata", "decoder", "scheduler">>
FirstPlace(t) == IF t \in {"metadata", "decoder"} THEN "pop" ELSE "start"
Started == {t \in Stages : pc[t] # "none"}
Returned(S) == \A t \in S \cap Started : pc[t] = "done"

Create ==
    LET left == {i \in DOMAIN CreateOrder : CreateOrder[i] \notin Started} IN
    /\ pc["main"] = "create"
    /\ \/ /\ \E i \in First(left) :
                pc' = [pc EXCEPT ![CreateOrder[i]] = FirstPlace(CreateOrder[i])]
          /\ UNCHANGED <<resume, failuresLeft>>
       \/ left # {} /\ MayFail("create") /\ Fail("main", "cleanup")
       \/ left = {} /\ Goto("main", "pop")
    /\ UNCHANGED <<closed, meta, slots, found, ordering, result>>
    /\ MainKeeps

Turn(s) == frame[s] = next

(* Mutated: frames are output as they come. *)
OrderAsTheyCome ==
    /\ pc["main"] = "pop"
    /\ \/ Pop("main", "completed") /\ Goto("main", "emit")
       \/ NoMore("completed") /\ Goto("main", "judgePending") /\ UNCHANGED <<queue, hand>>
    /\ UNCHANGED <<closed, meta, frame, found, ordering, result>>
    /\ MainKeeps

(* The loop of the main thread and output_slot_ordered: a slot that came   *)
(* early waits in the pending list.                                        *)
Order ==
    LET s == Head(queue["completed"]) IN
    /\ pc["main"] = "pop"
    /\ \/ /\ queue["completed"] # <<>> /\ Turn(s)
          /\ Pop("main", "completed")
          /\ Goto("main", "emit")
          /\ UNCHANGED <<frame, found, pending>>
       \/ /\ queue["completed"] # <<>> /\ ~Turn(s)
          /\ queue' = Popped("completed")
          /\ pending' = pending \cup {s}
          /\ UNCHANGED <<control, hand, frame, found>>
       \/ /\ queue["completed"] # <<>> /\ ~Turn(s) /\ MayFail("alloc")
          /\ RecycleInto(Popped("completed"), s)
          /\ Fail("main", "judgePending")
          /\ UNCHANGED <<hand, pending>>
       \/ /\ NoMore("completed")
          /\ Goto("main", "judgePending")
          /\ UNCHANGED <<slots, found, pending>>
    /\ UNCHANGED <<closed, meta, next, result>>
    /\ MainKeeps

(* emit_ordered_slot, first part: the detections.  On a failure the slot   *)
(* is left to the clean-up.                                                *)
EmitDetections ==
    /\ pc["main"] = "emit"
    /\ Enqueue(Record("detections", found[hand["main"]]), TRUE,
               Goto("main", IF config.draw THEN "emitEncode" ELSE "emitTiming") /\ UNCHANGED hand,
               Fail("main", "judgePending") /\ Drop("main"))
    /\ UNCHANGED <<closed, queue, frame, found, ordering, result>>
    /\ MainKeeps

(* The end of emit_ordered_slot: the pending slot whose turn it is, or the *)
(* next from the queue.                                                    *)
Emitted ==
    LET follows == {s \in pending : frame[s] = next + 1} IN
    /\ next' = next + 1
    /\ pending' = pending \ follows
    /\ \/ follows = {} /\ Drop("main") /\ Goto("main", "pop")
       \/ /\ \E s \in follows : hand' = [hand EXCEPT !["main"] = s]
          /\ Goto("main", "emit")

(* Its error path once the detections are out. *)
Abandon == /\ Recycle(hand["main"])
           /\ Drop("main")
           /\ Fail("main", "judgePending")
           /\ UNCHANGED ordering

(* With --draw-boxes the slot goes to the encoder. *)
EmitEncode ==
    /\ pc["main"] = "emitEncode"
    /\ \/ /\ HasRoom("encode")
          /\ queue' = Added("encode", hand["main"])
          /\ Emitted
          /\ UNCHANGED <<frame, found>>
       \/ "encode" \in closed /\ Abandon
    /\ UNCHANGED <<closed, meta, result>>
    /\ MainKeeps

(* Without it the timing is sent and the slot recycled here. *)
EmitTiming ==
    /\ \/ /\ pc["main"] = "emitTiming"
          /\ Enqueue(Record("timing", frame[hand["main"]]), config.benchmark,
                     Goto("main", "emitRecycle") /\ UNCHANGED <<slots, found, ordering>>, Abandon)
       \/ /\ pc["main"] = "emitRecycle"
          /\ Recycle(hand["main"])
          /\ Emitted
          /\ UNCHANGED meta
    /\ UNCHANGED <<closed, result>>
    /\ MainKeeps

JudgePending ==
    /\ pc["main"] = "judgePending"
    /\ IF pending # {} THEN Fail("main", "closeEncode") ELSE Goto("main", "closeEncode")
    /\ UNCHANGED <<closed, meta, slots, found, ordering, result>>
    /\ MainKeeps

(* The metadata thread is the last: the others send it records. *)
Join ==
    /\ pc["main"] = "join"
    /\ Returned({"decoder", "scheduler", "encoder"})
    /\ Goto("main", "closeRecords")
    /\ UNCHANGED <<closed, meta, slots, found, ordering, result>>
    /\ MainKeeps

(* The last join; then the flush and the benchmark file.    *)
Judge ==
    /\ pc["main"] = "joinMetadata"
    /\ Returned({"metadata"})
    /\ \/ ~failed /\ result' = "ok"
       \/ (failed \/ MayFail("finish")) /\ UNCHANGED result
    /\ Goto("main", "cleanup")
    /\ UNCHANGED <<closed, meta, slots, found, ordering>>
    /\ MainKeeps

(* The label cleanup: detection_async_fail even after a success. *)
Cleanup ==
    /\ pc["main"] = "cleanup"
    /\ Fail("main", "reap")
    /\ result' = IF result = "ok" THEN "ok" ELSE "error"
    /\ UNCHANGED <<closed, meta, slots, found, ordering>>
    /\ MainKeeps

(* The joins of the clean-up; then the pending list and every slot. *)
Reap ==
    /\ pc["main"] = "reap"
    /\ Returned(Stages)
    /\ frame' = [s \in Slots |-> NoFrame]
    /\ found' = [s \in Slots |-> NoFrame]
    /\ pending' = {}
    /\ Goto("main", "done")
    /\ UNCHANGED <<closed, meta, queue, hand, next, result>>
    /\ MainKeeps

MainNext == \/ Create \/ Order \/ EmitDetections \/ EmitEncode
            \/ EmitTiming \/ JudgePending
            \/ Close("main", "closeEncode", "encode", "join")
            \/ Join
            \/ Close("main", "closeRecords", "records", "joinMetadata")
            \/ Judge \/ Cleanup \/ Reap
            \/ AsyncFail("main")

(* The process has returned from the pipeline. *)
Stutter == pc["main"] = "done" /\ UNCHANGED vars

Next == \/ DecoderNext \/ SchedulerNext \/ EncoderNext \/ MetadataNext
        \/ MainNext \/ GpuNext \/ Stutter

(* The scheduler and the GPU go on, and so does one of the other threads:   *)
(* these only take as many steps as there are frames and records, so it    *)
(* does not matter which.                                                  *)
Fairness == /\ WF_vars(DecoderNext \/ EncoderNext \/ MetadataNext \/ MainNext)
            /\ WF_vars(SchedulerNext)
            /\ WF_vars(GpuNext)

Spec == Init /\ [][Next]_vars /\ Fairness

-----------------------------------------------------------------------------
Frames == 0 .. LongestVideo
Places == {"none", "create", "pop", "emit", "emitEncode", "emitTiming",
           "emitRecycle", "judgePending", "closeEncode", "join", "closeRecords",
           "joinMetadata", "cleanup", "reap", "done", "fail", "closing", "read",
           "close", "start", "collect", "fill", "drain", "encode",
           "measure", "recycle"}

(* Types, and the bounds of the queues: no record is lent twice.            *)
TypeOK ==
    /\ config \in Configs
    /\ video \in Frames
    /\ pc \in [Threads -> Places]
    /\ resume \in [Threads -> Places]
    /\ failed \in BOOLEAN
    /\ queue \in [SlotQueues -> Seq(Slots)]
    /\ \A q \in SlotQueues : Len(queue[q]) <= Capacity(q)
    /\ records \in Seq([kind : {"detections", "timing"}, frame : Frames])
    /\ freeRecords + Len(records) <= RecordCount
    /\ hand \in [Threads -> Slots \cup {0}]
    /\ frame \in [Slots -> Frames \cup {NoFrame}]
    /\ found \in [Slots -> Frames \cup {NoFrame}]
    /\ lanes \in [Lanes -> LaneStates(Frames)]
    /\ laneSlots \in [Lanes -> Slots \cup {0}]
    /\ pending \subseteq Slots
    /\ result \in {"none", "ok", "error"}

(* Some thread has called detection_async_fail. *)
Failing == failed \/ \E t \in Threads : pc[t] = "fail"

PlacesOf(s) == {p \in SlotQueues \X Slots :
                   p[2] \in DOMAIN queue[p[1]] /\ queue[p[1]][p[2]] = s}
               \cup {<<t, 0>> : t \in {u \in Threads : hand[u] = s}}
               \cup {<<"lane", l>> : l \in {k \in Lanes : laneSlots[k] = s}}
               \cup {<<"pending", p>> : p \in {s} \cap pending}

(* No two threads work on the same slot; a slot with a surface is dropped   *)
(* nowhere but in a run that has failed, where the clean-up finds it; and a *)
(* slot comes back to the decoder without a surface: slot_clear there       *)
(* would forget it.                                                         *)
EverySlotOwned ==
    \A s \in Slots :
       /\ Cardinality(PlacesOf(s)) <= 1
       /\ frame[s] # NoFrame => PlacesOf(s) # {} \/ Failing
       /\ (s = hand["decoder"] \/ \E i \in DOMAIN queue["free"] : queue["free"][i] = s)
             => frame[s] = NoFrame

(* While the GPU works on a frame, the slot of its lane keeps the surface:  *)
(* only the clean-up of a run that has failed releases surfaces under it.   *)
SurfaceStaysUnderGpu ==
    \A l \in Lanes : lanes[l].gpu = "running" =>
        \/ Failing
        \/ laneSlots[l] # 0 /\ frame[laneSlots[l]] = lanes[l].frame

(* Each output (the detections, the benchmark rows, the annotated video)    *)
(* has the frames in order without a gap, however the threads and the GPU   *)
(* are timed and whatever fails; a run that returns 0 has every output the  *)
(* options ask for to the last frame.                                       *)
AllFrames == [i \in 1 .. Total |-> i - 1]
InOrder(out) == Len(out) <= Total /\ out = SubSeq(AllFrames, 1, Len(out))
OutputsInOrder ==
    /\ InOrder(rows) /\ InOrder(measured) /\ InOrder(encoded)
    /\ pc["main"] = "done" /\ result = "ok" =>
          /\ rows = AllFrames
          /\ config.benchmark => measured = AllFrames
          /\ config.draw => encoded = AllFrames

(* Whatever fails, the pipeline returns. *)
RunEnds == <>(pc["main"] = "done")

(* A run in which no call fails returns 0, whatever the options:            *)
(* --no-benchmark only "Disable[s] benchmark output" (main.c).              *)
FaultlessRunSucceeds ==
    Faults = {} /\ pc["main"] = "done" => result = "ok"
=============================================================================
