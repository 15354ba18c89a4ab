# VideoComputePipeline in TLA+

VideoComputePipeline decodes a video, runs a filter or an object detector over its
frames and writes a video, a CSV file of detections, or both. Most modes are pipelines
of threads that pass buffers through bounded queues, all of it in
`src/VideoComputePipeline/src/pipeline/pipeline_runner.c` (called *runner* below).
This directory models those pipelines in TLA+, the readers and writers under them, the
program around them from the command line to the exit code, and the process runner of the
user interface. TLC checks them on small instances. TLAPS proves every safety property that a passing run
checks for every value of the constants: any number of threads, buffers and frames, any codec delay, command line,
machine and video. Two of them need a hypothesis, which section 4 explains. For each of the three
properties that the code violates, a theorem says without what the cause cannot arise. `PROJECT.json` ties every definition to the lines it models
("map"), every property to a mutation of the code that breaks it ("mutants"), and every
hazard of the code to the properties that would catch it ("hazards").

## 1. Inventory

| Component | State | Operations | Hard about it | Correct means |
|---|---|---|---|---|
| Packet queue (runner 83-315) | ring, `count`, `closed`, mutex, two condition variables | init, push, pop, close | signals wake one thread; close against sleepers; spurious wake-ups | a FIFO that refuses only when closed (push) or closed and empty (pop); nobody sleeps with work to do |
| Frame pool and slots (`frame_pool.c`, `frame_slot.c`) | slots, `available`, `closed`, mutex, one condition variable | init, acquire, release, close | released by another thread than acquired, also after the close | each frame in one place; an acquirer is never forgotten |
| Filter pipeline (runner 105-674, 3924-4259) | two queues, two pools, `failed`, `active_processors`, `next_frame_id`, the pending list | decoder, processor, encoder threads; creation and joins; `pipeline_fail` | out-of-order completion, a failure anywhere while others sleep, threads that are not created, unlocked reads of `failed` | frames written in order, none lost, 0 returned only for a complete video, every run ends |
| Blocking detection (runner 884-1499, 3451-3874) | three batch queues, the batches and the decoder surfaces in them, `failed`, `active_workers`, pending list | decoder, inference workers, output by the main thread; `detection_hw_fail` | batches overtake each other; a push refused by a close; one look at `failed` before the joins | surfaces are always released, output in order, failures reported, every run ends |
| Asynchronous detection (runner 1501-2512, 2955-3441) | slots, four queues, lanes of the inference engine, the metadata queue | decoder, scheduler, metadata and encode threads | submit and collect overlap; four queues shut down in sequence; failure with lanes in flight | as above, and a metadata row for each frame |
| CPU-decoded and bridge detection, dispatch (runner 2514-2953, 3443-3449, 3876-3922, 4261-4271) | one batch at a time, what is open, the result | choose, set up, read, infer, write, clean up, fall back | an early return at every step; a second pipeline on the files of the first | output of one attempt only; success of what was asked |
| Filter sizing, execution plan, profiles (runner 4016-4082, `pipeline_execution_plan.c`, `*_profile.c`) | configuration, hardware and video facts | pure functions | a plan changed again by each pipeline | within the budget, the frames and the engine's lanes |
| Configuration and command line (`pipeline_config.c`, `main.c`) | the configuration record | defaults, parse, check | options that change each other, in the order given | nothing out of range reaches a pipeline |
| Frame batch, frame queue, frame | containers | alloc, clear, free | ownership | as part of the pipelines |
| Inference engines (`inference_engine_*.cpp`) | lanes, their buffers and contexts | run, run a batch, submit, collect | lanes in flight; threads of a batch in one engine | each submitted lane collected once; a lane's buffer used by one call |
| Detection results and writer, YOLO post-processing | result arrays, the CSV | open, append, sort, suppress | growth, ties | rows in order |
| Video reader and writer, hardware reader and writer (`src/video`) | codec state | open, read, write, flush, close | codecs that delay; EAGAIN; opens that fail half-way | every frame once, in order; nothing leaks |
| Filters, CUDA frames, overlay | pixel buffers | filter, upload, download, draw | order of upload and release | the input is not used after its release |
| Benchmark, timers, logger, files | counters, files | add, summarise, close | late failure | - |
| User interface: process runner (`process_runner_*.cpp`) | child, pipes, three threads, status, log | start, stop, clear, quit | stop against exit; output cut anywhere; a pipeline that outlives its `sh` | log and status are of the run shown; a start never hangs |
| User interface: windows, command builder, progress parser | strings and widgets | - | - | - |

The stages of a pipeline share one context (`PipelineContext`,
`DetectionHwPipelineContext`). They call the queues and pools, which block; a stage that
fails sets `failed` and closes every queue and pool, which frees everybody who sleeps. The
last worker that ends closes the output queue. The encoder (filter) or the main thread
(detection) puts the results back in order with a list of frames or batches that came
early. `run_filter`, the GPU filter, calls back into the processor when the upload is
done, which gives the input buffer back to its pool while the kernel still runs. The user
interface starts the pipeline as a child process and reads its output.

## 2. Modules

| Module | Models |
|---|---|
| `ClosableFifo` | abstract: a bounded FIFO that can be closed, each call atomic |
| `PacketQueue` | the ring, its mutex and condition variables; implements `ClosableFifo` |
| `ClosablePool` | abstract: a pool of frames that can be closed |
| `FramePool` | `frame_pool.c` and `frame_slot.c`; implements `ClosablePool` |
| `InOrderRun` | abstract: what a run promises its caller, see below |
| `FilterPipeline` | the filter pipeline; implements `InOrderRun` |
| `DetectionBatchPipeline` | the blocking detection pipeline; implements `InOrderRun` |
| `InferenceLanes` | the lanes of the TensorRT engine, and the GPU behind them |
| `DetectionAsyncPipeline` | the asynchronous detection pipeline, over `InferenceLanes`; implements `InOrderRun` |
| `CodecContract` | external: what the program relies on of an FFmpeg codec |
| `VideoSession` | the readers and writers of `src/video`, over `CodecContract` |
| `CommandLine` | the configuration: defaults, options, checks |
| `ExecutionPlan` | the execution plan and the filter's sizing, over `CommandLine` |
| `PipelineRun` | one run of the program, over `ExecutionPlan` and `InOrderRun` |
| `ProcessRunner` | the process runner of the user interface and the processes it starts |
| `FilterPipelineInv`, `DetectionBatchInv`, `DetectionAsyncInv` | the inductive invariants of the three pipelines |
| `QueueContents` | for those: what a queue holds |
| `PacketQueueProofs`, `FramePoolProofs`, `FilterPipelineProofs`, `DetectionBatchProofs`, `DetectionAsyncProofs`, `PipelineRunProofs`, `VideoSessionProofs`, `ProcessRunnerProofs` | the theorems and their proofs |
| `MC...` | the modules TLC runs |

**How code becomes actions.** A critical section, from the lock or the return of a wait to
the unlock or the next wait, is one action of `PacketQueue` and `FramePool`: a caller
whose loop condition holds becomes "asleep", a signal makes one sleeper "woken" and a
broadcast all of them, and a woken thread competes for the mutex before it looks at the
condition again. A sleeper may also wake with no signal.

The pipelines use the queues and pools at the level of the abstract modules: a push or pop
is one action that is enabled when it would not wait. Each thread has a position `pc` named
after what it does next, and every access to shared state is an action of its own:
`pipeline_fail` is five (the flag, then four closes), `detection_hw_fail` four, and other
threads may run between any two. Work on data that only one thread can reach is merged with
its neighbour; the decoder of the detection pipeline fills a batch in one action, since the
batch is in nobody else's hands. The result of an external call (a read, a filter, an
inference, an encode) is a choice between its outcomes, the failures being those the
constant `Faults` allows. A frame is its number. What the source does before the first
thread exists (opening files, allocating, planning) is `PipelineRun`'s.

**`FilterPipeline`.** `rawQueue`, `processedQueue` are the queues; of a pool only the
number of available buffers is kept, since all buffers of a pool are alike. `current[w]` is the frame
id a processor or the encoder copied from its packet, `pending` the reorder list (a set:
`pending_take` searches by id), `written` what the video writer got, `flushed` whether its
flush was done ("yes"), failed ("lost", only logged by the code) or not tried. `Mode`
chooses `process_cpu` or `process_gpu`, which differ in when the input is released. `Platform`
chooses the creation and joining code: the Win32 build goes on after a thread that could
not be created and joins the others; the POSIX build returns without joining what runs
if the encoder is not created, and joins an uninitialised handle if a processor is not
created. Both outcomes are undefined and are the state "undefined" of `Main`.

`ctx->failed` is read and written there without a lock. The model treats the store as an
action and each read as exact. That loses nothing: a read that misses the store behaves as
one that came before it, and the storing thread next takes the lock of the raw queue,
after which whoever goes through a lock sees the flag; so every outcome of the race is that
of a later store.

**`DetectionBatchPipeline`.** A batch is its index, `frames[b]` are the frames it holds,
each a surface of the hardware decoder, `hand[t]` is the batch in a thread's local
variable, `queue` the three batch queues. `video`, the length of the input, is chosen in
`Init`, so one run checks every length up to `LongestVideo`, among them the empty video and
those that end exactly at, or inside, a batch. `rows` are the frames whose detections are
written. `ctx->failed` is under `state_lock` here. Fault "encode" stands for drawing,
encoding and the benchmark row, which all fail after the detections are written.

**`InOrderRun`** has the frames delivered so far and the outcome: frames 0, 1, 2, ... are
delivered one at a time, none after an outcome is returned, and "ok" is returned only when
all of them were. All three threaded pipelines implement it (`ImplementsRun`, `AsyncImplementsRun`), with
`delivered` the frames given to the video writer or, in the detection pipelines, to the detection writer, and
`outcome` the value returned.

**`DetectionAsyncPipeline`.** `slots[s]` is what a slot of the ring holds, and four queues carry
slots between decoder, scheduler, main thread and encoder; a fifth carries metadata records.
`InferenceLanes` has the lanes: `SubmitLane` puts work on one, `LaneCompletes` is the GPU, at
any time or, within a run, never too soon, and the scheduler polls and collects. Detections are
queued by the main thread, the timing of a frame by the encoder when boxes are drawn and by the
main thread otherwise; the metadata thread writes both. The configuration (boxes, benchmark) and the
length of the video are chosen in `Init`. `SurfaceStaysUnderGpu` is about runs that go well: after a
failure the code releases the surfaces of lanes in flight when it has joined its threads.

**`VideoSession`.** One session of a reader and a writer, each FFmpeg call with its outcomes.
A codec is a value of `CodecContract`: what is inside, how much of it can be received now, and
whether its input has ended; it may keep up to `MaxDelay` frames for later and decides anew at
each send. `held` are the objects FFmpeg has created and the program has to release; an open is a
list of calls with what each creates and what is released when it fails. The pipelines read in
one thread and write in another; reader and writer share no state, so the model takes frames
through them one after the other and loses no behaviour of either. A packet the decoder refuses
is dropped by the code (`video_reader.c:297`); `CodecsAccept` shows that this never happens.

**`CommandLine`, `ExecutionPlan`, `PipelineRun`.** An option is its name and its value. The
configuration after the last option, the video and the machine determine the plan, which is a
pure function (`Build`), with what each pipeline makes of it (`Applied`, `OnLanes`,
`OnWorkers`). Sizes are counted in a unit of which `MiB` make a mebibyte, ratios in thousandths,
bus speed in microseconds per unit; `hardware_profile.c` is asked once for each run. Fields of the plan that
are printed and not acted on (`execution_mode`, overlap, pinned bytes) are left out.
`PipelineRun` goes through `main`, the set-up of the chosen pipeline step by step (`todo`, `open`), its
frames, its clean-up and `run_detection_pipeline`'s fallbacks, with a failure possible at each
call. The two pipelines without threads of their own are modelled in full, with the threads
`run_batch` makes of a batch: `lane` is the frame buffer of each lane of the engine, numbered as
they are allocated, `content` what was last uploaded into a buffer, and `found` the frame each
slot's detections are of. The other three pipelines have modules of their own; here they deliver
frames as `InOrderRun` allows, which is what those modules are shown to do.

**`ProcessRunner`.** The window's thread presses Run, Stop, Clear logs or quits; `then` is
where a stop leads, since `start` and the destructor call it too. The child is the pipeline
itself (Win32, or an `sh` that has become it) or an `sh` that stays and has the pipeline as its
child, which a signal to `sh` does not reach. A pipe carries half-lines, so that every way to cut a
line in two is a read. Each critical section of the mutex is an action; `stop` is four,
because it looks at the status and at `childPid_` before it sets the status and kills.
`push_log` gives every line of both streams to `parse_progress_line`, which sets fields of the one
`progress_`: the plan is printed on stdout, frames done and the staged pipeline are logged on stderr, and
some fields are set from both. `progress` stands for any one field that lines set and is the line it was last set from; the constant
`Reports` says which lines tell of it (for the status line, all), so what is proved for every `Reports` holds for each field.
A line cut short by the end of the pipeline may no longer tell of it. Which of two streams sets a field last is up to the two
readers; what `LogIsOfThisRun` asks is what they can promise: the value is of this run, it is
never from a line before the last report the log shows, and when a reader has ended no report of its stream is lost. The lines
of a launch error count as one.

## 3. Runs

| Run | Instance | Shows |
|---|---|---|
| `packet_queue` | 2 producers, 2 consumers, 2 cells, 4 packets, close at any time | `ImplementsFifo`, `NoLostWakeup`, `CloseFreesEveryCaller` |
| `frame_pool` | 3 acquirers, 3 frames, close at any time | `ImplementsPool`, `NoLostWakeup`, `CloseFreesEveryAcquirer` |
| `filter_gpu` | 1 GPU worker, 1 slot, 4 frames, every fault, Win32 | nothing lost or released twice, success is complete, the decoder never waits for a buffer, the flush is last, every run ends |
| `filter_two_failing` | 2 CPU workers, 2 frames, filter and creation faults, Win32 | `IInv`, order, `ImplementsRun`, a failure ends the run |
| `filter_reorder_deadlock` | 2 CPU workers, 1 slot, 5 frames, no fault | **violated**: `RunEnds` |
| `detection_batch` | 2 workers, 3 batches of 2, videos of 0 to 6 frames under a limit of 5, every fault | `IInv`, `EveryBatchOwned`, `NoSurfaceLeft`, `FailureIsReported`, `EarlyBatchesAreFollowed`, `ImplementsRun`, `RunEnds` |
| `async_detection` | 2 lanes, 2 slots, with and without boxes and benchmark, videos of 0 to 3 frames, one fault of any kind | `IInv`, `EverySlotOwned`, `SurfaceStaysUnderGpu`, `OutputsInOrder`, `RunEnds` |
| `async_no_benchmark` | 1 lane, 1 slot, no fault | **violated**: `FaultlessRunSucceeds` |
| `video_session` | three kinds of reader and writer, videos of 0 to 4 frames, codecs that keep up to 2, every fault | `EveryFrameRead`, `FileComplete`, `CodecsAccept`, `NothingLeaks` |
| `process_runner` | 2 starts, 3 lines each, on both streams reports of the progress, a log of 2, Win32 and POSIX | `LogIsOfThisRun`, `NothingOfAnEarlierRun`, `StatusIsTrue`, `JoinsEnd` |
| `pipeline_run` | 537 command lines, 4 machines, 4 videos, up to 3 failing calls | `OutputIsOfOneRun`, `SuccessIsWhatWasAsked`, `ResourcesFit` |
| `onnx_lanes` | an ONNX model on CUDA, CPU decoder, batches of 2 | **violated**: `LanesOwnTheirBuffers` |

**The bounds.** `MaxPackets`, `VideoFrames`, `LongestVideo`, `MaxFailures`, `LongestFailing`,
`MaxDelay`, `OtherPackets`, `MaxRuns`, `LogLimit`, `MaxFrames` where it is a number of the instance, and the sizes of the
constant sets are the only ones; no reachable state is cut off by a constraint. A ring of two
cells and four packets wraps around twice and lets two producers and two consumers sleep, so a
signal has a choice. Two workers are enough for frames to overtake each other and for "the
last worker closes" to differ from "a worker closes"; four frames with one slot fill every
queue and empty it again, and with five frames the four buffers of a pool can run out,
which is what the deadlock needs. The order of the output with more frames or workers is proved
(`OutputOrdered`). In `detection_batch` five frames in batches of two make two full batches and
a short one, cut by the limit or by the end; three batches let two wait in the pending list. In
`async_detection` three frames use the two slots again; one failure (`MaxFailures`) is enough because every thread
stops at the first, and with a failure videos are at most `LongestFailing` long: 2 frames with boxes, when all five
threads run, and 1 without. Safety for every other length is proved. In
`video_session` a codec that keeps two of four frames fills, runs and empties;
`OtherPackets` = 2 puts packets of another stream anywhere between them. In
`process_runner` a second run is what can meet the leftovers of the first, and three lines
overflow a log of two. In its first run every line of both streams is a report (`MCReports`), so the readers overtake each
other on `progress`; in its second only one on stderr and the launch error are, so that a value
of the first would show. In `pipeline_run` three failures reach a second fallback
(asynchronous, blocking, CPU decoder) and fail there too; the command lines are chosen by
hand for every pipeline, backend and refusal, and contain every ordered pair of thirteen options
that act on each other, after each of three beginnings; `LaneCount` = 3 is the number in the
code, and `MiB` = 1 counts in mebibytes.

**Fairness.** Weak fairness of each thread: the operating system schedules every thread,
and a sleeper whose condition stays true is woken, which is what `packet_queue` establishes
for the queue under the same assumption. Nothing is assumed about who gets a packet or
a mutex, that a fault occurs or does not, or that a filter is quick. Spurious wake-ups
have no fairness. The GPU finishes what was submitted to it (`async_detection`). In
`process_runner` the window's thread, the reader and wait threads are fair, and a
pipeline ends at some time, and `sh` after it. That a pipeline ends is an assumption here. The runs with
`RunEnds` or `FailureEndsTheRun` support it for their configurations; `filter_reorder_deadlock`
refutes it for a CPU filter run with two workers, and such a pipeline, when it has outlived its `sh`, makes the next start and the end of the
program wait for ever, since they join its readers. `JoinsEnd` says that nothing else does.
Nobody is assumed to press a button. `VideoSession` and `PipelineRun` have no liveness
property and state no fairness.

**The deadlock.** A processor pops its input and only then asks for an output buffer. The
pool has `frame_slots + workers + 1` of them, and the encoder's list gives none back before
its frame's turn has come. With two workers, one slot and five frames, one worker may take frames
1 to 4 through the pool before the other asks for a buffer for frame 0; all buffers
are then in the list, which waits for frame 0, whose worker waits for a buffer.
`report.md:20` describes workers that finish out of order as the normal case.
With one worker, as the GPU mode always has, no processor ever waits for a buffer (`OneProcessorNeverWaits`).
The blocking detection pipeline puts batches in order too and does not deadlock, because a batch travels
in one buffer from the decoder to the output (`EarlyBatchesAreFollowed`).

**Without the benchmark.** `detection_async_enqueue_metadata` refuses a record that asks for
nothing (runner 2003), and with `--no-benchmark` the record of a frame's timing asks for nothing;
the caller takes the refusal for a failure, so the asynchronous pipeline ends with an error at its first
frame. `main.c:22` describes the option as one that disables the benchmark output. `PipelineRun`
takes this over (`Hopeless`): such a run falls back to the CPU decoder where that is allowed. It is the only way for a
run to fail without a failing call (`BenchmarkedRunsSucceed`).

**The lanes of an ONNX engine.** `run_batch` of `CudaYoloRuntimeEngine` (TensorRT's file, 1148-1183) starts
its threads without sizing the frame buffers, as TensorRT's own `run_batch` does first (698-701). In the first batch
every thread finds them unsized and reallocates those of all lanes; the later one frees what
the earlier one reads from. `ui_app.cpp:764` says that each lane owns its backend resources.
`OutputIsOfOneRun` is checked for command lines that do not reach this race, and proved for all of those
(`OutputIsAlwaysOfOneRun`).

## 4. Proofs

All theorems are for every value of the constants that the named assumption of the module
allows, and these say no more than what the code's own set-up ensures:

- `QueueAssumption`, `PoolAssumption`: the capacity is positive (`packet_queue_init` and
  `frame_pool_init` reject 0), the threads are finitely many.
- `FilterAssumption`: the threads are distinct, the workers finite and not empty, `FrameSlots`
  is positive, the numbers are naturals, GPU mode has one worker.
- `DetectionAssumption`: the same, and no more workers than batches (`worker_count` is capped).
- `AsyncAssumption`, `LaneAssumption`: a slot and a lane, no more lanes than slots
  (`lane_count` is capped), an encode queue of one or two.
- `RunAssumption`, `MiBAssumption`: the constants have their types, a frame has at least a byte,
  there is a lane.
- `SessionAssumption`, `DelayAssumption`, `RunnerAssumption`: the bounds are naturals, the faults are among those
  named, the log has room for a line, a report is a line of a run and a stream; which lines are reports is left open.

| Module | Theorem | Says |
|---|---|---|
| `PacketQueueProofs` | `Inductive` | `Spec => []IInv` |
| | `NeverALostWakeup` | `Spec => []NoLostWakeup` |
| | `QueueIsFifo` | `Spec => ImplementsFifo` |
| `FramePoolProofs` | `Inductive` | `Spec => []IInv` |
| | `NeverALostWakeup` | `Spec => []NoLostWakeup` |
| | `SlotsArePool` | `Spec => ImplementsPool` |
| `FilterPipelineProofs` | `TypeCorrect` | `Spec => []TypeOK`, in which queues keep to `frame_slots` and pools to their buffers |
| | `OutputOrdered` | `Spec => []OutputInOrder` |
| | `SuccessIsComplete` | `Spec => []SuccessMeansComplete` |
| | `FlushIsLast` | `Spec => FlushComesLast` |
| | `Inductive` | `Spec => []IInv` |
| | `FramesAreKept` | `Spec => []EveryFrameInOnePlace` |
| | `BuffersAreKept` | `Spec => []BuffersConserved` |
| | `RawPoolIsLargeEnough` | `Spec => []DecoderNeverWaitsForBuffer` |
| | `ContextOutlivesThreads` | `JoinsAreSound` gives `Spec => []NoThreadOutlivesContext` |
| | `FilterImplementsRun` | `Spec => ImplementsRun` |
| | `OneProcessorNeverWaits` | `OneProcessor` gives `Spec => []ProcessorNeverWaitsForBuffer` |
| `DetectionBatchProofs` | `Inductive` | `Spec => []IInv` |
| | `BatchesHaveOneOwner` | `Spec => []EveryBatchOwned` |
| | `SurfacesAreReleased` | `Spec => []NoSurfaceLeft` |
| | `FailuresAreReported` | `Spec => []FailureIsReported` |
| | `EarlyBatchesFollowed` | `Spec => []EarlyBatchesAreFollowed` |
| | `BatchImplementsRun` | `Spec => ImplementsRun` |
| `DetectionAsyncProofs` | `Inductive` | `Spec => []IInv` |
| | `TypesAreKept` | `Spec => []TypeOK`, in which no queue exceeds its ring |
| | `SlotsHaveOneOwner` | `Spec => []EverySlotOwned` |
| | `SurfacesStay` | `Spec => []SurfaceStaysUnderGpu` |
| | `OutputsAreInOrder` | `Spec => []OutputsInOrder` |
| | `AsyncImplementsRun` | `Spec => Run!Spec`, `InOrderRun` with the detections as what is delivered |
| | `BenchmarkedRunsSucceed` | `Spec => [](config.benchmark => FaultlessRunSucceeds)` |
| `PipelineRunProofs` | `ResourcesAlwaysFit` | `Spec => []ResourcesFit` |
| | `SuccessIsAlwaysWhatWasAsked` | `Spec => []SuccessIsWhatWasAsked` |
| | `OutputIsAlwaysOfOneRun` | `Spec => [](~Racing(config) => OutputIsOfOneRun /\ LanesOwnTheirBuffers)` |
| `VideoSessionProofs` | `Inductive` | `Spec => []IInv` |
| | `ObjectsAreReleased` | `Spec => []NothingLeaks` |
| | `FramesAreRead` | `Spec => []EveryFrameRead` |
| | `FileIsComplete` | `Spec => []FileComplete` |
| | `CodecsAlwaysAccept` | `Spec => []CodecsAccept` |
| `ProcessRunnerProofs` | `Inductive` | `Spec => []IInv` |
| | `NothingIsLeft` | `Spec => []NothingOfAnEarlierRun` |
| | `StatusTellsTheTruth` | `Spec => []StatusIsTrue` |
| | `LogIsTrue` | `Spec => []LogIsOfThisRun` |

Four theorems have a hypothesis, and each is needed because the code goes wrong without it. `JoinsAreSound` is Win32, or
POSIX without the fault that a thread cannot be created: otherwise the code joins a handle that was never set
(section 5). `OneProcessor`, `config.benchmark` and `~Racing(config)` each keep away from one of the three findings above: the
violated run shows that the defect is there, the theorem that it needs what the hypothesis excludes. `Racing` is ONNX Runtime on
CUDA with `--parallel-inference` on or automatic, and an engine of several lanes.

In each component `IInv` is the conjunction of named parts, each with a lemma `...Step` that it is
preserved, by a case for each thread and, where needed, each action. `Begin` (or
`InvInit`) and `Step` put them together. TLC checks each pipeline's `IInv` first, in `filter_two_failing`,
`detection_batch` and `async_detection`. The other inductive invariants are defined in the modules of the proofs.

**The queue and the pool.** `RingIsWhole` says that the cells from `head` on are the packets still
in the queue and `tail` is `count` cells further; with it `EnqueueAppends` and
`DequeueTakesHead` turn an operation on the ring into one on a sequence, which is the refinement.
`NoLostWakeup` is inductive with the types alone: a step changes the number of packets and the number of woken
threads by one at most (`SignalWakesOne`), and a thread sleeps only when it has looked.

**The filter.** That a successful return means a complete video depends on
all the threads together: the decoder stops at the end of the video unless something
failed; the raw queue is closed by it alone unless something failed; the processors end
when that queue is closed and empty; the last of them closes the processed queue, which
needs `active` to be the number that has not ended (`Counted`); the encoder ends when that queue
is closed and empty. `Ending` is this chain, `Starting` says who exists at that point,
`Failing` that no close and no way out of a loop happens before `failed` is set except
those, and `Covered` that, until a thread fails, every number below `decoded` is in a
place. When the encoder is past its loop and nothing has failed, all places but `written`
are empty, so all frames are written (`AllWritten`). `NextToWrite` ties
`next_frame_id` to the length of `written`, from which the order follows.

`CoreInv` is this much. That no frame is in two places needs one more fact: the frame that the
encoder inserts is not in its list yet. The model's list is a set, so a second insert would go unseen; `InsertIsNew`
shows by counting that it does not happen: the places hold `decoded` frames together, and all of the `decoded` numbers
are in them. `BuffersConserved` counts buffers in the same way. `RawBuffersLast` is
what the sizing of the raw pool rests on: a worker that frees its buffer instead of giving it back has failed
and takes no other (`TakesNoMore`), so while the pool is open it is short of one buffer for a worker at most.
`Joined` and `Returned` speak of the threads that are left when `ctx` is freed and when the outcome is
known; each step then maps to `InOrderRun`: `EncoderWrite` to a delivery, `MainReturn` to the outcome,
all others to a stutter.

With one processor `InLine` says that the frames stand one behind the other: those written, the one the encoder has, those in the
processed queue, the one in the processor, those in the raw queue. So the list holds a frame only while the encoder
writes it, and of `frame_slots + 2` buffers at most `frame_slots + 1` are away when the processor asks for one (`BufferForTheOne`).
Several processors break the first link of that chain, which is the deadlock.

**Blocking detection.** Ownership comes first: `Owned` (no batch in two places), `Holding` (who has one in
its hand), `Filled` and `Placed` (which have frames, and that one with frames is not dropped). The order of the rows needs what is in
the batches: a batch is a block of consecutive numbers and blocks do not overlap (`Blocks`); those not yet
written begin at `next` or later (`StillToCome`); and until something fails they
leave no gap: where the output has got to, and where a block ends, another begins or the decoder goes on (`NoGap`). So
the batch whose turn it is exists. `NoneMissed` adds that it is not in the pending list while the main
thread waits for another, which makes `EarlyBatchesAreFollowed` true with any number of batches: it is with the workers or
in a queue, and these move. `Judged` says what was true when the main thread looked at `failed`: all
stages done, all frames written; it looks once, and the joins after it cannot change the answer.

**Asynchronous detection.** A slot is moved by five threads between four queues, the lanes, the list
and the hands. `Held` gives each of these `Holders` a set of slots, and every action that moves a slot is one
`Carries` lemma: the slot leaves a holder, enters another, nobody else is touched. `Owned` and `Covered`
follow from that alone, and `Filled` from it and from what the holders promise about the frame in a slot
(none on the way to the decoder, one below `next` at the encoder, one from `next` on before). `Scheduling` ties a lane's work to its slot,
which gives `SurfaceStaysUnderGpu`.

There are three outputs. The encoder takes what the main thread queued: `Encoding` says that the frames it has encoded, the one
it holds and those in its queue are the numbers up to `next`, as long as it has skipped none. The two files of the metadata
thread come from one queue of records, to which two threads write: `Recording` says for each kind that the records on their way hold,
in order, the frames between what is written and what has been sent (`Sent`), and `MainSent` and
`TimingSent` who has sent how much at each place of its loop. `Judged` again says what was true at the
verdict; that all frames are in every output follows with `Ending`, since the stages have ended one after the other on
closed and empty queues. `AsyncImplementsRun` takes the detections as what is delivered.

`BenchmarkedRunsSucceed` is the converse of the verdict: not only is 0 never returned wrongly, a run without faults does return
0. A thread enters `detection_async_fail` by itself when a push meets a closed queue or when frames are left in the list at the end.
`Shut` says who can have closed a queue before anything failed, namely the stage before it, which has ended; `NoneIsPending`
that nothing is left, since all numbers below `next` have been output and no frame is anywhere else (`NoneIsLeft`). What
remains is the record that asks for nothing, which only `--no-benchmark` makes.

**A run of the program.** The plan is made in the middle of a run from a
configuration that was made option by option, so `ResourcesFit` needs to know what the
parser lets through: `RInv` adds `ConfigOK` (every batch setting is positive, the ratio is between
nothing and the whole, every word is one of its list, whatever the options and their order),
that nothing is planned before the options end, and that a plan is the one of the present pipeline.
`BuildFits` then is the lemma about the plan alone and `PlanForFits` about what the pipelines
make of it, each following the code's chain of minima. `SuccessIsWhatWasAsked` speaks of the end
of a pipeline whose set-up has long been done: `SInv` says of every place in between that the steps still
`todo` together with what is open contain all that must be open (and is kept until the clean-up),
and that the path is one the topology allows, also after a fallback (`PathOK`), which is where the
refusal to fall back when boxes are drawn is used.

`OutputIsOfOneRun` follows the frames through the pipelines that `PipelineRun` has in full. `ReadOK`: the batch holds the
frames just before the next one. `LanesOK`: no two lanes have one buffer, and a new buffer is none of those in use. `CallsOK`: a
call that infers has its own frame in its own buffer, because calls that run together have a lane each and, with TensorRT,
`run_batch` has sized the buffers before. `WriteOK`: the rows are those before the batch and of the part of it that is
written, and the file is emptied by the first step that opens it again after a fallback. The first two hold for every
engine; the third fails where two calls resize the buffers under each other, hence `~Racing`. `PlanOK`, from the
plan, says that every other engine without sizing has one context and so one call at a time.

**Readers and writers.** `HInv` says of an open that it holds no more than its calls so far have created, and of the session that it
holds no more than the two closes release, from which `NothingLeaks` follows. For the frames, a codec is tied to what went
in and came out: what is inside the decoder are the frames between those delivered and those demuxed (`DFrames`), what is inside
the encoder those between the packets in the file and the frames numbered (`EFrames`). `DPlaces` and the encoder's part of
`EFrames` say at which calls a codec has nothing ready, which is `CodecsAccept`; `DLimit` and `DOutcome` say how far the
reader has got when the session leaves its loop. `Inductive` is their conjunction.

**The process runner.** `PInv`: threads exist only between the step of `start` that creates them and the next join, a thread that
waits holds its handle, and where a reader has ended, or none was created yet, nobody is left who could write. That is why a
start, which joins the readers first, meets no pipeline of an earlier run, even one that outlived its `sh`. `SInv`
follows the exit code from the child to the status. `LInv` is about what is read: a reader has taken a number of whole
lines (`Taken`), what it has read of the next and what is in the pipe follow on them without a gap (`Pieces`), and the lines
the log has of that stream are consecutive and end with the last one taken (`Shown`), which the lines dropped from its front,
a clear and the lines of the other stream leave true. Of the lines taken no report is lost (`Caught`): `progress` is
another stream's, or no older than the last of them. It is of this run from the moment the readers are created (`OfThisRun`), since
`start` resets it before, and as new as the last report in the log (`Reported`), since both change under one lock.

**Only model-checked**: the liveness properties `RunEnds` (`filter_gpu`, `detection_batch`, `async_detection`),
`FailureEndsTheRun`, `JoinsEnd`, `CloseFreesEveryCaller` and `CloseFreesEveryAcquirer`, since proofs under fairness are outside
what the prover's backends do; and the three violations. `OneProcessorNeverWaits` and
`EarlyBatchesAreFollowed` are the safety half of "every run ends": they exclude the known way to wait for ever, not every
way. `OutputIsAlwaysOfOneRun` relies, as the model does, on the threaded pipelines delivering as `InOrderRun`
allows; that they do is `FilterImplementsRun`, `BatchImplementsRun` and `AsyncImplementsRun`.

## 5. Not modelled

The components that `PROJECT.json` lists as not_modelled or partly, each with its reason. Inside
what is modelled:

- Pixel data, model arithmetic, timings and log messages. Non-maximum suppression is
  floating-point arithmetic on one thread; a model over integers would be another algorithm.
- Options for paths, thresholds, class filters, thread counts of the codecs and the output format; the printed summary.
- The queries behind the hardware profile: a machine is a constant of the run.
- Numbers have no width in `ExecutionPlan`; the products that could overflow an `int` need values
  far above what the allocation after them grants.
- Checks for null pointers that no caller passes; the failure of a mutex call; freeing memory after all
  threads have ended (`PipelineRun` has the clean-up as one action).
- An inference worker without an engine: the main thread creates all engines first or starts no thread.
- `frame_queue.c`, which no pipeline uses.
- The second release of a scaling context after `sws_getCachedContext` has failed
  (`video_reader.c:229`): `VideoSession` holds objects as a set.
- The result of `av_write_trailer`, which both writers ignore (`video_writer.c:340`, `video_hw_writer.cpp:334`): `FileComplete` counts
  the packets handed to FFmpeg, and a trailer that cannot be written leaves the run a success.
- The wording and the layout of the user interface; `poll`, which updates elapsed times.

Four hazards have no property. Two are in the model, and no document of the repository says what should happen instead: the
undefined joins of the POSIX filter run (state "undefined" of `Main`) and a failed flush that is only logged (`flushed` =
"lost"). Two are outside it: the second release of a scaling context (above), and rows, or the trailer, that a library loses when
`detection_writer_close` or a writer closes its file, whose result nobody looks at. The model also has a signal that `stop` sends to a
number that is no longer the child's (`stray`), of which nothing is claimed.

## 6. Plan

What is planned above is done. What could come next:

1. Growth of a detection result and the labels of the CSV writer (`detection_result.c`, `detection_writer.c`).
2. The queue and the pool inside the pipelines by composition: the pipelines use the calls of `ClosableFifo` and
   `ClosablePool` as steps of their own, and that each step is one of those modules is by reading, not by proof.
3. Liveness by hand-written ranking arguments, should a prover for fairness become available.
