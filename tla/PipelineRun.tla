----------------------------- MODULE PipelineRun -----------------------------
(***************************************************************************)
(* One run of the program, from the command line to the exit code: main,   *)
(* pipeline_config_parse_args, pipeline_run, the choice of a pipeline, its *)
(* set-up with an early return at every step, its frames, its clean-up and *)
(* the fallbacks from one pipeline to another, each of which opens all     *)
(* files anew.  The detections of frames decoded by the CPU, or copied to  *)
(* it, are modelled with the threads and lane buffers of the inference     *)
(* engine; the pipelines that have modules of their own (FilterPipeline,   *)
(* DetectionAsyncPipeline, DetectionBatchPipeline) keep InOrderRun here.   *)
(***************************************************************************)
EXTENDS ExecutionPlan

CONSTANTS CommandLines,     (* the command lines: sequences of options       *)
          Inputs,           (* the videos: bytes of a frame, rate, length    *)
          Machines,         (* what the hardware profile may say             *)
          LaneCount,        (* the lanes of a CUDA engine (3 in the code)    *)
          MaxFailures       (* the bound on calls that fail                  *)

Options == [name : STRING, word : STRING, num : Int]
ASSUME RunAssumption ==
    /\ CommandLines \subseteq Seq(Options)
    /\ Inputs \subseteq [bytes : Nat \ {0}, fps : Nat, frames : Nat]
    /\ Machines \subseteq Hardwares
    /\ LaneCount \in Nat \ {0} /\ MaxFailures \in Nat

VARIABLES
    line, config,           (* the options left, the configuration           *)
    pc, path, todo, open,   (* the pipeline, its set-up left, what is open   *)
    video, plan, sizes,     (* the input, the plan, the filter's buffers     *)
    batch, frame, eof,      (* the frames of the batch, the next, the end    *)
    surface,                (* a decoded surface is held                     *)
    lane, content, sized,   (* each lane's buffer, the frame last put into a *)
    fresh,                  (* buffer, frame_width_ is set, buffers so far   *)
    thread, found,          (* the calls of run, the detections of a slot    *)
    out, written,           (* the frames of the output; of them this batch's*)
    result, failures        (* what the pipeline returns; the calls failed   *)

setting == <<line, config>>
control == <<pc, path, todo, open>>
sizing == <<video, plan, sizes>>
reading == <<batch, frame, eof, surface>>
buffers == <<lane, content, sized, fresh>>
inferring == <<thread, found>>
writing == <<out, written>>
vars == <<setting, control, sizing, reading, buffers, inferring, writing, result, failures>>

NoSizes == [slots |-> 1, workers |-> 1]
Garbage == -1
LaneSet == 0 .. LaneCount - 1
Null == 0

-----------------------------------------------------------------------------
(* What the engine of a configuration is (inference_engine_create): which  *)
(* have lanes for parallel contexts, and for asynchronous submission.      *)
Cuda(c) == c.word.backend_device = "cuda"
HasLanes(c) == Runtime(c) = "tensorrt" \/ (Runtime(c) = "onnxruntime" /\ Cuda(c))
AsyncLanes(c) == IF Runtime(c) = "tensorrt" THEN LaneCount ELSE 0
Capability(c) == [input |-> MiB, output |-> MiB, parallel |-> HasLanes(c) /\ LaneCount > 1,
                  contexts |-> IF HasLanes(c) THEN LaneCount ELSE 1]

(* build_detection_topology *)
Draws(c) == "draw_boxes" \in c.flags
Nvdec(c) == c.word.decoder = "nvdec"
FallsBack(c) == c.word.decoder_fallback = "cpu"
Topology(c) == /\ Draws(c) => c.word.encoder = "h264_nvenc" /\ Nvdec(c) /\ Cuda(c)
               /\ Runtime(c) = "tensorrt" => Cuda(c)
FirstPath(c) == IF c.word.task = "filter" THEN "filter"
                ELSE IF ~Nvdec(c) THEN "cpu" ELSE IF Cuda(c) THEN "async" ELSE "bridge"
Profile(p, c, v) == [bytes |-> v.bytes, fps |-> v.fps,
                     upload |-> p = "cpu" /\ Cuda(c), download |-> p = "bridge"]

(* The calls of the set-up, in order.                                      *)
Steps == [filter |-> <<"reader", "buffers", "writer", "benchmark", "gpu">>,
          cpu |-> <<"paths", "reader", "csv", "benchmark", "engine", "plan", "buffers">>,
          bridge |-> <<"paths", "reader", "csv", "benchmark", "engine", "plan", "buffers">>,
          async |-> <<"paths", "reader", "csv", "benchmark", "engine", "lanes", "plan",
                      "writer", "buffers">>,
          blocking |-> <<"paths", "reader", "csv", "benchmark", "engine", "plan",
                         "engines", "buffers", "writer">>]
Needed(p, c, step) ==
    /\ step = "benchmark" => "benchmark" \in c.flags
    /\ step = "gpu" => c.word.mode = "gpu"
    /\ step = "writer" => p = "filter" \/ Draws(c)
Output(p) == IF p = "filter" THEN "writer" ELSE "csv"
Kept(step) == {step} \ {"paths", "lanes", "plan"}

-----------------------------------------------------------------------------
Init == /\ line \in CommandLines /\ config = DefaultConfig
        /\ pc = "main" /\ path = "none" /\ todo = <<>> /\ open = {}
        /\ video \in Inputs /\ plan = NoPlan /\ sizes = NoSizes
        /\ batch = <<>> /\ frame = 0 /\ eof = FALSE /\ surface = FALSE
        /\ lane = [l \in LaneSet |-> Null] /\ content = <<>> /\ sized = FALSE /\ fresh = 0
        /\ thread = <<>> /\ found = <<>> /\ out = <<>> /\ written = 0
        /\ result = 0 /\ failures = 0

Exit(code) == /\ pc' = "exit" /\ result' = code
              /\ UNCHANGED <<path, todo, open>>
Working == UNCHANGED <<sizing, reading, buffers, inferring, writing>>

(* main looks for --help and its like before it reads anything else.       *)
Aside == /\ pc = "main"
         /\ LET asked == {line[i].name : i \in DOMAIN line} \cap Asides
            IN  \/ asked # {} /\ Exit(0)
                \/ "matrix_report" \in asked /\ Exit(-1)
                \/ asked = {} /\ pc' = "parse" /\ UNCHANGED <<path, todo, open, result>>
         /\ Working /\ UNCHANGED <<setting, failures>>

ParseOption ==
    /\ pc = "parse" /\ line # <<>>
    /\ IF Accepted(Head(line))
       THEN /\ config' = Taken(config, Head(line)) /\ line' = Tail(line)
            /\ UNCHANGED <<control, result>>
       ELSE Exit(-1) /\ UNCHANGED setting
    /\ Working /\ UNCHANGED failures

(* A pipeline begins with the locals of its function.                      *)
Begin(p) == /\ pc' = "set_up" /\ path' = p /\ todo' = Steps[p] /\ result' = -1
            /\ batch' = <<>> /\ frame' = 0 /\ eof' = FALSE /\ plan' = NoPlan
            /\ UNCHANGED <<open, video, sizes, surface, buffers, inferring, writing>>

(* The end of the options: main and pipeline_run.                          *)
Dispatch ==
    /\ pc = "parse" /\ line = <<>>
    /\ LET detects == config.word.task = "detect"
           finds == Informs(config) \/ (detects /\ "profile_hardware" \in config.flags)
           refused == detects /\ ~Topology(config)
       IN  \/ ~Complete(config) /\ Exit(-1) /\ Working
           \/ Complete(config) /\ finds /\ Exit(0) /\ Working
           \/ Complete(config) /\ ~finds /\ refused /\ Exit(-1) /\ Working
           \/ Complete(config) /\ ~finds /\ ~refused /\ Begin(FirstPath(config))
    /\ UNCHANGED <<setting, failures>>

-----------------------------------------------------------------------------
CleanUpWith(code) == /\ pc' = "clean_up" /\ result' = code
                     /\ UNCHANGED <<path, todo, open>>
Fault == failures < MaxFailures /\ failures' = failures + 1
Fail == Fault /\ CleanUpWith(-1)

AtStep == pc = "set_up" /\ todo # <<>> /\ Needed(path, config, Head(todo))
Done(step) == /\ AtStep /\ Head(todo) = step
              /\ todo' = Tail(todo) /\ open' = open \union Kept(step)
              /\ UNCHANGED <<setting, pc, path, result, failures>>

OpenOther == /\ \E step \in {"paths", "reader", "benchmark", "gpu", "engines"} : Done(step)
             /\ Working
Skip == /\ pc = "set_up" /\ todo # <<>> /\ ~Needed(path, config, Head(todo))
        /\ todo' = Tail(todo)
        /\ Working /\ UNCHANGED <<setting, pc, path, open, result, failures>>

(* detection_writer_open, the filter's writer: the file is made anew.      *)
TruncateNothing == written' = 0 /\ UNCHANGED out  (* mutated: opened to append *)
Truncate == out' = <<>> /\ written' = 0
OpenOutput == /\ \E step \in {"csv", "writer"} : Done(step)
              /\ IF Head(todo) = Output(path) THEN Truncate ELSE UNCHANGED writing
              /\ UNCHANGED <<sizing, reading, buffers, inferring>>

(* A new engine has not seen a frame.                                      *)
NewEngine == /\ lane' = [l \in LaneSet |-> Null] /\ content' = <<>>
             /\ sized' = FALSE /\ fresh' = 0 /\ thread' = <<>> /\ found' = <<>>
CreateEngine == Done("engine") /\ NewEngine /\ UNCHANGED <<sizing, reading, writing>>

CountLanes ==
    /\ AtStep /\ Head(todo) = "lanes"
    /\ IF AsyncLanes(config) > 0 THEN Done("lanes") ELSE CleanUpWith(-2)
    /\ Working /\ UNCHANGED <<setting, failures>>

(* The plan, and what the pipeline makes of it.                            *)
PlanFor(p, c, v, h) ==
    LET e == Capability(c)
        b == Build(c, Profile(p, c, v), h, e)
    IN  CASE p = "async" -> OnLanes(b, AsyncLanes(c))
          [] p = "blocking" -> OnWorkers(b)
          [] OTHER -> Applied(b, e)
MakePlan == /\ Done("plan")
            /\ \E h \in Machines : plan' = PlanFor(path, config, video, h)
            /\ UNCHANGED <<video, sizes, reading, buffers, inferring, writing>>

(* RGB24 has twice the bytes of NV12.                                      *)
MakeBuffers ==
    /\ Done("buffers")
    /\ sizes' = IF path = "filter" THEN Sizing(config, 2 * video.bytes) ELSE sizes
    /\ UNCHANGED <<video, plan, reading, buffers, inferring, writing>>

(* A call of the set-up fails; the CSV or the video may be cut by then.    *)
SetUpFails ==
    /\ AtStep /\ Head(todo) # "lanes" /\ Fail
    /\ IF Head(todo) = Output(path) THEN Truncate \/ UNCHANGED writing ELSE UNCHANGED writing
    /\ UNCHANGED <<setting, sizing, reading, buffers, inferring>>

Start == /\ pc = "set_up" /\ todo = <<>>
         /\ pc' = IF path \in {"cpu", "bridge"} THEN "fill" ELSE "body"
         /\ Working /\ UNCHANGED <<setting, path, todo, open, result, failures>>

-----------------------------------------------------------------------------
(* The pipelines with threads of their own.  Without the benchmark the     *)
(* asynchronous one stops at its first frame (FaultlessRunSucceeds).       *)
Target == IF config.number.max_frames > 0
          THEN Smaller(config.number.max_frames, video.frames) ELSE video.frames
Run == INSTANCE InOrderRun WITH total <- Target, delivered <- out,
          outcome <- IF pc = "body" THEN "none" ELSE IF result = 0 THEN "ok" ELSE "error"
Hopeless == path = "async" /\ "benchmark" \notin config.flags /\ Target > 0

BodyDelivers == /\ pc = "body" /\ (Hopeless => out = <<>>)
                /\ UNCHANGED <<setting, control, sizing, reading, buffers, inferring, written,
                               result, failures>>
                /\ Run!Deliver
BodyEnds == /\ pc = "body" /\ Working /\ UNCHANGED setting
            /\ \/ CleanUpWith(0) /\ ~Hopeless /\ UNCHANGED failures /\ Run!Succeed
               \/ Fail /\ Run!Break
               \/ Hopeless /\ CleanUpWith(-1) /\ UNCHANGED failures /\ Run!Break

-----------------------------------------------------------------------------
(* The loop of the two pipelines without threads of their own: fill a      *)
(* batch, infer it, write its rows.                                        *)
AtLimit == config.number.max_frames > 0 /\ frame >= config.number.max_frames
Reads == pc = "fill" /\ ~eof /\ ~AtLimit /\ Len(batch) < plan.batch
Filled == batch' = Append(batch, frame) /\ frame' = frame + 1

ReadFrame ==
    /\ Reads /\ frame < video.frames
    /\ IF path = "cpu" THEN Filled /\ UNCHANGED <<pc, surface>>
       ELSE surface' = TRUE /\ pc' = "transfer" /\ UNCHANGED <<batch, frame>>
    /\ UNCHANGED <<setting, path, todo, open, sizing, eof, buffers, inferring, writing,
                   result, failures>>

(* The bridge copies the surface and releases it, also when the copy fails.*)
Transfer ==
    /\ pc = "transfer" /\ surface' = FALSE
    /\ \/ Filled /\ pc' = "fill" /\ UNCHANGED <<path, todo, open, result, failures>>
       \/ Fail /\ UNCHANGED <<batch, frame>>
    /\ UNCHANGED <<setting, sizing, eof, buffers, inferring, writing>>

ReadEnd == /\ Reads /\ frame = video.frames
           /\ eof' = TRUE
           /\ UNCHANGED <<setting, control, sizing, batch, frame, surface, buffers, inferring,
                          writing, result, failures>>

ReadFails == Reads /\ Fail /\ Working /\ UNCHANGED setting

Calls(state) == {i \in DOMAIN thread : thread[i].at = state}
Waiting == [at |-> "waiting", next |-> 0, buffer |-> Null]
EndFill ==
    /\ pc = "fill" /\ ~Reads
    /\ IF batch = <<>> THEN pc' = "finish" /\ UNCHANGED inferring
       ELSE /\ pc' = "infer"
            /\ thread' = [i \in DOMAIN batch |-> Waiting]
            /\ found' = [i \in DOMAIN batch |-> Garbage]
    /\ UNCHANGED <<setting, path, todo, open, sizing, reading, buffers, writing,
                   result, failures>>

-----------------------------------------------------------------------------
(* run_batch: the frames one after the other, or as many threads at a time *)
(* as there are contexts.  TensorRT sizes the lanes' buffers before that.  *)
Inferring == pc = "infer" /\ UNCHANGED <<setting, path, todo, open, sizing, reading, writing>>
Width == IF plan.contexts <= 1 \/ Len(batch) <= 1 THEN 1 ELSE plan.contexts
Chunk == LET first == CHOOSE i \in Calls("waiting") : \A j \in Calls("waiting") : i <= j
         IN  first .. Smaller(first + Width - 1, Len(batch))
Go(calls, place) == thread' = [i \in DOMAIN thread |->
                                 IF i \in calls THEN [thread[i] EXCEPT !.at = place] ELSE thread[i]]
Idle == Calls("waiting") \union Calls("done") = DOMAIN thread

SizeAll == /\ lane' = [l \in LaneSet |-> fresh + 1 + l] /\ fresh' = fresh + LaneCount
           /\ sized' = TRUE /\ UNCHANGED content
StartCalls ==
    /\ Inferring /\ Idle /\ Calls("waiting") # {}
    /\ Go(Chunk, IF HasLanes(config) THEN "check" ELSE "infer")
    /\ IF Runtime(config) = "tensorrt" /\ ~sized THEN SizeAll ELSE UNCHANGED buffers
    /\ UNCHANGED <<pc, found, result, failures>>

SizingFails == /\ Inferring /\ Idle /\ Runtime(config) = "tensorrt" /\ ~sized
               /\ Fail /\ UNCHANGED <<buffers, inferring>>

(* ensure_frame_buffers, from run: the size is set last, so every call that*)
(* looks before that frees and allocates the buffers of all lanes.         *)
CheckSize(i) ==
    /\ Inferring /\ i \in Calls("check")
    /\ thread' = [thread EXCEPT ![i].at = IF sized THEN "upload" ELSE "free"]
    /\ UNCHANGED <<pc, buffers, found, result, failures>>
FreeBuffer(i) ==
    /\ Inferring /\ i \in Calls("free")
    /\ lane' = [lane EXCEPT ![thread[i].next] = Null]
    /\ Go({i}, "allocate")
    /\ UNCHANGED <<pc, content, sized, fresh, found, result, failures>>
AllocateBuffer(i) ==
    /\ Inferring /\ i \in Calls("allocate")
    /\ lane' = [lane EXCEPT ![thread[i].next] = fresh + 1] /\ fresh' = fresh + 1
    /\ LET last == thread[i].next = LaneCount - 1
       IN  /\ sized' = (sized \/ last)
           /\ thread' = [thread EXCEPT ![i].at = IF last THEN "upload" ELSE "free",
                                       ![i].next = IF last THEN @ ELSE @ + 1]
    /\ UNCHANGED <<pc, content, found, result, failures>>

(* run: the frame goes to the buffer of the lane its index selects, and    *)
(* the kernels read from there.                                            *)
LaneOf(i) == batch[i] % LaneCount
Upload(i) ==
    /\ Inferring /\ i \in Calls("upload")
    /\ LET buffer == lane[LaneOf(i)]
       IN  IF buffer = Null THEN Go({i}, "failed") /\ UNCHANGED content
           ELSE /\ content' = [b \in DOMAIN content \union {buffer} |->
                                 IF b = buffer THEN batch[i] ELSE content[b]]
                /\ thread' = [thread EXCEPT ![i].at = "infer", ![i].buffer = buffer]
    /\ UNCHANGED <<pc, lane, sized, fresh, found, result, failures>>

Holds(i) == lane[LaneOf(i)] = thread[i].buffer
Infer(i) ==
    /\ Inferring /\ i \in Calls("infer")
    /\ found' = [found EXCEPT ![i] = IF ~HasLanes(config) THEN batch[i]
                                     ELSE IF Holds(i) THEN content[thread[i].buffer] ELSE Garbage]
    /\ Go({i}, "done")
    /\ UNCHANGED <<pc, buffers, result, failures>>
CallFails(i) ==
    /\ Inferring /\ i \in Calls("allocate") \union Calls("upload") \union Calls("infer")
    /\ Fault /\ Go({i}, "failed")
    /\ UNCHANGED <<pc, buffers, found, result>>

(* All threads of a chunk are joined, then one that failed ends the run.   *)
JoinCalls ==
    /\ Inferring /\ Calls("waiting") \union Calls("done") \union Calls("failed") = DOMAIN thread
    /\ IF Calls("failed") # {} THEN CleanUpWith(-1)
       ELSE Calls("waiting") = {} /\ pc' = "write" /\ UNCHANGED <<path, todo, open, result>>
    /\ UNCHANGED <<buffers, inferring, failures>>

-----------------------------------------------------------------------------
Unwritten == pc = "write" /\ written < Len(batch)
Row == out' = Append(out, found[written + 1])
WriteRow == /\ Unwritten /\ Row /\ written' = written + 1
            /\ UNCHANGED <<setting, control, sizing, reading, buffers, inferring, result, failures>>

(* The row, or the benchmark's after it, is not written.                   *)
WriteFails == /\ Unwritten /\ Fail /\ UNCHANGED written
              /\ Row \/ UNCHANGED out
              /\ UNCHANGED <<setting, sizing, reading, buffers, inferring>>

NextBatch == /\ pc = "write" /\ written = Len(batch)
             /\ written' = 0
             /\ IF eof THEN pc' = "finish" /\ UNCHANGED batch
                ELSE pc' = "fill" /\ batch' = <<>>
             /\ UNCHANGED <<setting, path, todo, open, sizing, frame, eof, surface, buffers,
                            inferring, out, result, failures>>

Finish == /\ pc = "finish"
          /\ \/ CleanUpWith(0) /\ UNCHANGED failures
             \/ "benchmark" \in config.flags /\ Fail
          /\ Working /\ UNCHANGED setting

CleanUp == /\ pc = "clean_up"
           /\ pc' = "back" /\ open' = {}
           /\ Working /\ UNCHANGED <<setting, path, todo, result, failures>>

(* run_detection_pipeline after a pipeline has returned.                   *)
MayFallBackBlindly ==                   (* mutated: whatever is drawn       *)
    result # 0 /\ FallsBack(config) /\ path \in {"bridge", "async", "blocking"}
MayFallBack == /\ result # 0 /\ FallsBack(config)
               /\ path = "bridge" \/ (path \in {"async", "blocking"} /\ ~Draws(config))
Return ==
    /\ pc = "back"
    /\ IF path = "async" /\ result = -2 THEN Begin("blocking")
       ELSE IF MayFallBack THEN Begin("cpu")
       ELSE Exit(IF result = 0 THEN 0 ELSE -1) /\ Working
    /\ UNCHANGED <<setting, failures>>

Exited == pc = "exit" /\ UNCHANGED vars

Threads == \E i \in DOMAIN thread :
              \/ CheckSize(i) \/ FreeBuffer(i) \/ AllocateBuffer(i)
              \/ Upload(i) \/ Infer(i) \/ CallFails(i)
Next == \/ Aside \/ ParseOption \/ Dispatch
        \/ OpenOther \/ Skip \/ OpenOutput \/ CreateEngine \/ CountLanes \/ MakePlan \/ MakeBuffers
        \/ SetUpFails \/ Start
        \/ BodyDelivers \/ BodyEnds
        \/ ReadFrame \/ Transfer \/ ReadEnd \/ ReadFails \/ EndFill
        \/ StartCalls \/ SizingFails \/ Threads \/ JoinCalls
        \/ WriteRow \/ WriteFails \/ NextBatch \/ Finish \/ CleanUp \/ Return \/ Exited

Spec == Init /\ [][Next]_vars

-----------------------------------------------------------------------------
(* Whatever fails and however often a pipeline falls back to another, the  *)
(* output holds the first frames of the video, each once, in order and     *)
(* with its own detections, nothing of an earlier attempt; and after a     *)
(* success it holds all of them up to the limit.                           *)
FirstFrames(n) == [i \in 1 .. n |-> i - 1]
OutputIsOfOneRun ==
    /\ out = FirstFrames(Len(out))
    /\ pc = "exit" /\ result = 0 /\ path # "none" => Len(out) = Target

(* A pipeline that succeeds has done what the options ask: boxes are drawn *)
(* into a video, the benchmark is kept, the GPU filters, the device infers,*)
(* and the decoder is the one asked for unless falling back is allowed.    *)
SuccessIsWhatWasAsked ==
    pc = "clean_up" /\ result = 0 =>
        /\ path = "filter" <=> config.word.task = "filter"
        /\ path = "filter" \/ Draws(config) => "writer" \in open
        /\ path = "filter" /\ config.word.mode = "gpu" => "gpu" \in open
        /\ "benchmark" \in config.flags => "benchmark" \in open
        /\ path \in {"async", "blocking"} => Nvdec(config) /\ Cuda(config)
        /\ path = "bridge" => Nvdec(config) /\ ~Cuda(config)
        /\ path = "cpu" /\ Nvdec(config) => FallsBack(config)

(* What a run takes is sound for every hardware and every option: batches  *)
(* chosen by the tuner fit the budget, the contexts are as many as frames  *)
(* can use and the engine accepts, a filter's buffers keep to the memory   *)
(* budget or are the fewest there are, and nothing stays open behind a     *)
(* pipeline, be it for the next one or at the end.                         *)
PlanFits(p, c, in, pl) ==
    LET e == Capability(c)
        v == Profile(p, c, in)
    IN  /\ pl.batch >= 1 /\ pl.inflight >= 1 /\ pl.active = pl.batch * pl.inflight
        /\ pl.contexts \in 1 .. pl.active
        /\ Takes(e, pl.contexts)
        /\ p = "blocking" => pl.contexts <= pl.inflight
        /\ c.setting.batch_size.auto /\ pl.batch > 1 => Estimate(v, e, pl.batch) <= pl.budget
        /\ c.setting.inflight_batches.auto /\ pl.inflight > 1 =>
               PerFrame(v, e) * pl.active <= pl.budget
SizesFit(c, in, sz) ==
    /\ sz.slots >= 1 /\ sz.workers >= 1
    /\ sz.slots <= c.number.frame_slots
    /\ c.number.memory_budget_mb > 0 /\ c.word.memory_profile # "manual" =>
           \/ sz = NoSizes
           \/ PoolBuffers(sz.slots, sz.workers) * (2 * in.bytes)
                 <= c.number.memory_budget_mb * MiB
NothingLeft == /\ pc \in {"main", "parse", "back", "exit"} => open = {}
               /\ surface <=> pc = "transfer"
ResourcesFit == /\ PlanFits(path, config, video, plan) /\ SizesFit(config, video, sizes)
                /\ NothingLeft

(* A call of run has its lane's buffer to itself from the upload to the    *)
(* detections: no other frees it or puts another frame into it.            *)
LanesOwnTheirBuffers ==
    pc = "infer" /\ HasLanes(config) =>
        \A i \in Calls("infer") : Holds(i) /\ content[thread[i].buffer] = batch[i]
=============================================================================
