--------------------------- MODULE FilterPipeline ---------------------------
(***************************************************************************)
(* run_filter_pipeline of pipeline_runner.c: one decoder thread, a set of  *)
(* processor threads, one encoder thread and the main thread that creates  *)
(* and joins them.                                                         *)
(*                                                                         *)
(*   raw pool -> decoder -> raw queue -> processors -> processed queue     *)
(*      ^                                    |   ^          |              *)
(*      +------------------------------------+   |          v              *)
(*                       processed pool <--------+------ encoder           *)
(*                                                                         *)
(* The queues and pools are the ones of ClosableFifo and ClosablePool,     *)
(* which PacketQueue and FramePool implement; a frame is its global frame  *)
(* id and a pool is the number of its available buffers.  Each call that   *)
(* takes a lock is an action of its own, so that the threads interleave    *)
(* between any two of them.                                                *)
(*                                                                         *)
(* ctx->failed is written and read without a lock.  A read that misses a   *)
(* store happens before it: the storing thread does nothing else until it  *)
(* locks raw_queue, so the outcomes of the race are those of delaying the  *)
(* store, and the store is an action of its own, before the four closes.   *)
(***************************************************************************)
EXTENDS Integers, Sequences, FiniteSets

CONSTANTS Workers,            (* the processor threads                       *)
          Decoder, Encoder, Main,
          FrameSlots,         (* effective_frame_slots                       *)
          VideoFrames,        (* frames the input video holds                *)
          MaxFrames,          (* --max-frames, 0 for all                     *)
          Mode,               (* "cpu" or "gpu"                              *)
          Platform,           (* "win32" or "posix"                          *)
          Faults              (* the calls that may fail                     *)

FaultKinds == {"create", "read", "process", "alloc", "write", "benchmark", "flush"}
Stages == Workers \cup {Decoder, Encoder}
Threads == Stages \cup {Main}

ASSUME FilterAssumption ==
    /\ IsFiniteSet(Workers)
    /\ Workers # {}                        (* processor_workers >= 1 *)
    /\ Decoder \notin Workers /\ Encoder \notin Workers /\ Main \notin Workers
    /\ Decoder # Encoder /\ Decoder # Main /\ Encoder # Main
    /\ FrameSlots \in Nat \ {0}
    /\ VideoFrames \in Nat
    /\ MaxFrames \in Nat
    /\ Mode \in {"cpu", "gpu"}
    /\ Mode = "gpu" => Cardinality(Workers) = 1
    /\ Platform \in {"win32", "posix"}
    /\ Faults \subseteq FaultKinds

VARIABLES
    pc,                 (* per thread: where it is                           *)
    resume,             (* per thread: where it goes after pipeline_fail     *)
    failed,             (* ctx->failed                                       *)
    closed,             (* which queues and pools are closed                 *)
    rawQueue, processedQueue,          (* frame ids, oldest first            *)
    rawAvailable, processedAvailable,  (* buffers in each pool               *)
    active,             (* active_processors                                 *)
    decoded,            (* the decoder's global_frame_id                     *)
    current,            (* per worker and encoder: the frame it popped last  *)
    pending,            (* the encoder's list of frames that came early      *)
    next,               (* next_frame_id                                     *)
    written,            (* the frames given to the video writer, in order    *)
    flushed,            (* "no", "yes" or "lost"                             *)
    result              (* what run_filter_pipeline returned                 *)

queues == <<rawQueue, processedQueue>>
pools == <<rawAvailable, processedAvailable>>
output == <<pending, next, written, flushed>>
global == <<failed, closed, active, result>>
vars == <<pc, resume, global, queues, pools, decoded, current, output>>

Shared == {"rawQueue", "processedQueue", "rawPool", "processedPool"}
(* Mutated: no buffer for the stage that fills the pool. *)
TightPoolCapacity == FrameSlots + Cardinality(Workers)

PoolCapacity == FrameSlots + Cardinality(Workers) + 1
Total == IF MaxFrames > 0 /\ MaxFrames < VideoFrames THEN MaxFrames ELSE VideoFrames

Init == /\ pc = [t \in Threads |-> IF t = Main THEN "createDecoder" ELSE "none"]
        /\ resume = [t \in Threads |-> "done"]
        /\ failed = FALSE
        /\ closed = {}
        /\ rawQueue = <<>>
        /\ processedQueue = <<>>
        /\ rawAvailable = PoolCapacity
        /\ processedAvailable = PoolCapacity
        /\ active = Cardinality(Workers)
        /\ decoded = 0
        /\ current = [t \in Workers \cup {Encoder} |-> 0]
        /\ pending = {}
        /\ next = 0
        /\ written = <<>>
        /\ flushed = "no"
        /\ result = "none"

-----------------------------------------------------------------------------
Goto(t, to) == pc' = [pc EXCEPT ![t] = to]

(* Thread t calls pipeline_fail and goes on at "to" afterwards. *)
Fail(t, to) == /\ Goto(t, "fail")
               /\ resume' = [resume EXCEPT ![t] = to]

IsClosed(object) == object \in closed

(* pipeline_fail: the flag, then the four closes in this order. *)
SetFailed(t) ==
    /\ pc[t] = "fail"
    /\ failed' = TRUE
    /\ Goto(t, "closeRawQueue")
    /\ UNCHANGED <<resume, closed, queues, pools, active, decoded, current, output, result>>

CloseStep(t, at, object, to) ==
    /\ pc[t] = at
    /\ closed' = closed \cup {object}
    /\ Goto(t, to)
    /\ UNCHANGED <<resume, failed, queues, pools, active, decoded, current, output, result>>

(* Mutated: the processed queue is left open. *)
HalfPipelineFail(t) ==
    \/ SetFailed(t)
    \/ CloseStep(t, "closeRawQueue", "rawQueue", "closeRawPool")
    \/ CloseStep(t, "closeRawPool", "rawPool", "closeProcessedPool")
    \/ CloseStep(t, "closeProcessedPool", "processedPool", resume[t])

PipelineFail(t) ==
    \/ SetFailed(t)
    \/ CloseStep(t, "closeRawQueue", "rawQueue", "closeProcessedQueue")
    \/ CloseStep(t, "closeProcessedQueue", "processedQueue", "closeRawPool")
    \/ CloseStep(t, "closeRawPool", "rawPool", "closeProcessedPool")
    \/ CloseStep(t, "closeProcessedPool", "processedPool", resume[t])

(* frame_pool_release: a buffer given back after the close is freed. *)
ReleaseRaw ==
    /\ rawAvailable' = IF IsClosed("rawPool") THEN rawAvailable ELSE rawAvailable + 1
    /\ UNCHANGED processedAvailable
ReleaseProcessed ==
    /\ processedAvailable' =
          IF IsClosed("processedPool") THEN processedAvailable ELSE processedAvailable + 1
    /\ UNCHANGED rawAvailable

-----------------------------------------------------------------------------
(* The decoder thread.                                                     *)

(* Top of the loop: the frame limit, then a buffer from the raw pool. *)
DecoderAcquire ==
    /\ pc[Decoder] = "acquire"
    /\ \/ /\ MaxFrames > 0 /\ decoded >= MaxFrames
          /\ Goto(Decoder, "closing")
          /\ UNCHANGED pools
       \/ /\ ~(MaxFrames > 0 /\ decoded >= MaxFrames)
          /\ IsClosed("rawPool")
          /\ Goto(Decoder, "closing")
          /\ UNCHANGED pools
       \/ /\ ~(MaxFrames > 0 /\ decoded >= MaxFrames)
          /\ ~IsClosed("rawPool")
          /\ rawAvailable > 0
          /\ rawAvailable' = rawAvailable - 1
          /\ Goto(Decoder, "read")
          /\ UNCHANGED processedAvailable
    /\ UNCHANGED <<resume, global, queues, decoded, current, output>>

(* video_reader_read_frame: a frame, the end of the video, or an error. *)
DecoderRead ==
    /\ pc[Decoder] = "read"
    /\ \/ /\ decoded < VideoFrames
          /\ Goto(Decoder, "check")
       \/ /\ decoded = VideoFrames
          /\ Goto(Decoder, "drop")
       \/ /\ "read" \in Faults
          /\ Goto(Decoder, "dropAndFail")
    /\ UNCHANGED <<resume, global, queues, pools, decoded, current, output>>

(* The unlocked read of ctx->failed; a good frame gets the next id. *)
DecoderCheck ==
    /\ pc[Decoder] = "check"
    /\ IF failed
       THEN Goto(Decoder, "drop") /\ UNCHANGED decoded
       ELSE Goto(Decoder, "push") /\ decoded' = decoded + 1
    /\ UNCHANGED <<resume, global, queues, pools, current, output>>

DecoderPush ==
    /\ pc[Decoder] = "push"
    /\ \/ /\ IsClosed("rawQueue")
          /\ Goto(Decoder, "drop")
          /\ UNCHANGED queues
       \/ /\ ~IsClosed("rawQueue")
          /\ Len(rawQueue) < FrameSlots
          /\ rawQueue' = Append(rawQueue, decoded - 1)
          /\ Goto(Decoder, "acquire")
          /\ UNCHANGED processedQueue
    /\ UNCHANGED <<resume, global, pools, decoded, current, output>>

(* The decoder gives its buffer back and leaves the loop. *)
DecoderDrop ==
    /\ \/ pc[Decoder] = "drop" /\ Goto(Decoder, "closing") /\ UNCHANGED resume
       \/ pc[Decoder] = "dropAndFail" /\ Fail(Decoder, "closing")
    /\ ReleaseRaw
    /\ UNCHANGED <<global, queues, decoded, current, output>>

DecoderClose == CloseStep(Decoder, "closing", "rawQueue", "done")

DecoderNext == \/ DecoderAcquire \/ DecoderRead \/ DecoderCheck \/ DecoderPush
               \/ DecoderDrop \/ DecoderClose \/ PipelineFail(Decoder)

-----------------------------------------------------------------------------
(* A processor thread.                                                     *)

WorkerPop(w) ==
    /\ pc[w] = "pop"
    /\ \/ /\ rawQueue # <<>>
          /\ current' = [current EXCEPT ![w] = Head(rawQueue)]
          /\ rawQueue' = Tail(rawQueue)
          /\ Goto(w, "check")
       \/ /\ rawQueue = <<>>
          /\ IsClosed("rawQueue")
          /\ Goto(w, "finish")
          /\ UNCHANGED <<rawQueue, current>>
    /\ UNCHANGED <<resume, global, processedQueue, pools, decoded, output>>

(* A popped frame is freed, not pooled, when the pipeline has failed. *)
WorkerCheck(w) ==
    /\ pc[w] = "check"
    /\ IF failed THEN Fail(w, "finish") ELSE Goto(w, "acquire") /\ UNCHANGED resume
    /\ UNCHANGED <<global, queues, pools, decoded, current, output>>

WorkerAcquire(w) ==
    /\ pc[w] = "acquire"
    /\ \/ /\ IsClosed("processedPool")
          /\ Goto(w, "dropInput")
          /\ UNCHANGED pools
       \/ /\ ~IsClosed("processedPool")
          /\ processedAvailable > 0
          /\ processedAvailable' = processedAvailable - 1
          /\ Goto(w, "process")
          /\ UNCHANGED rawAvailable
    /\ UNCHANGED <<resume, global, queues, decoded, current, output>>

(* The filter: on the CPU it runs to its end with the input in hand; on the *)
(* GPU the upload comes first.                                              *)
WorkerProcess(w) ==
    /\ pc[w] = "process"
    /\ \/ Goto(w, IF Mode = "cpu" THEN "processed" ELSE "uploaded")
       \/ "process" \in Faults /\ Goto(w, "badInput")
    /\ UNCHANGED <<resume, global, queues, pools, decoded, current, output>>

(* The input goes back to the raw pool: after process_cpu, from the upload  *)
(* callback of process_gpu, or on the way out.  It is then invalid, so no   *)
(* later branch releases it again.                                          *)
AfterInput == [processed |-> "push", uploaded |-> "kernel",
               badInput |-> "badOutput", dropInput |-> "finish"]
WorkerReleaseInput(w) ==
    /\ pc[w] \in DOMAIN AfterInput
    /\ Goto(w, AfterInput[pc[w]])
    /\ ReleaseRaw
    /\ UNCHANGED <<resume, global, queues, decoded, current, output>>

(* Kernel and download, after the callback has released the input. *)
WorkerKernel(w) ==
    /\ pc[w] = "kernel"
    /\ \/ Goto(w, "push")
       \/ "process" \in Faults /\ Goto(w, "badOutput")
    /\ UNCHANGED <<resume, global, queues, pools, decoded, current, output>>

(* Mutated: the index is taken from the input, which its release has reset. *)
WorkerPushResetIndex(w) ==
    /\ pc[w] = "push"
    /\ ~IsClosed("processedQueue")
    /\ Len(processedQueue) < FrameSlots
    /\ processedQueue' = Append(processedQueue, 0)
    /\ Goto(w, "pop")
    /\ UNCHANGED <<rawQueue, resume, global, pools, decoded, current, output>>

WorkerPush(w) ==
    /\ pc[w] = "push"
    /\ \/ /\ IsClosed("processedQueue")
          /\ Goto(w, "dropOutput")
          /\ UNCHANGED queues
       \/ /\ ~IsClosed("processedQueue")
          /\ Len(processedQueue) < FrameSlots
          /\ processedQueue' = Append(processedQueue, current[w])
          /\ Goto(w, "pop")
          /\ UNCHANGED rawQueue
    /\ UNCHANGED <<resume, global, pools, decoded, current, output>>

(* Mutated: a failed frame ends the worker without pipeline_fail. *)
WorkerReleaseOutputQuietly(w) ==
    /\ pc[w] \in {"dropOutput", "badOutput"}
    /\ Goto(w, "finish")
    /\ ReleaseProcessed
    /\ UNCHANGED <<resume, global, queues, decoded, current, output>>

(* The output goes back to the processed pool on the way out. *)
WorkerReleaseOutput(w) ==
    /\ \/ pc[w] = "dropOutput" /\ Goto(w, "finish") /\ UNCHANGED resume
       \/ pc[w] = "badOutput" /\ Fail(w, "finish")
    /\ ReleaseProcessed
    /\ UNCHANGED <<global, queues, decoded, current, output>>

(* Mutated: the first processor that finishes closes the processed queue. *)
WorkerFinishFirst(w) ==
    /\ pc[w] = "finish"
    /\ active' = active - 1
    /\ closed' = closed \cup {"processedQueue"}
    /\ Goto(w, "done")
    /\ UNCHANGED <<resume, failed, queues, pools, decoded, current, output, result>>

(* Mutated: no processor closes the processed queue. *)
WorkerFinishOpen(w) ==
    /\ pc[w] = "finish"
    /\ active' = active - 1
    /\ Goto(w, "done")
    /\ UNCHANGED <<resume, failed, closed, queues, pools, decoded, current, output, result>>

(* processor_finished: the last processor closes the processed queue. *)
WorkerFinish(w) ==
    /\ pc[w] = "finish"
    /\ active' = active - 1
    /\ closed' = IF active' = 0 THEN closed \cup {"processedQueue"} ELSE closed
    /\ Goto(w, "done")
    /\ UNCHANGED <<resume, failed, queues, pools, decoded, current, output, result>>

WorkerNext(w) == \/ WorkerPop(w) \/ WorkerCheck(w) \/ WorkerAcquire(w)
                 \/ WorkerProcess(w) \/ WorkerReleaseInput(w) \/ WorkerKernel(w)
                 \/ WorkerPush(w) \/ WorkerReleaseOutput(w) \/ WorkerFinish(w)
                 \/ PipelineFail(w)

-----------------------------------------------------------------------------
(* The encoder thread.                                                     *)

(* Mutated: a closed queue refuses to pop although packets are left in it. *)
EncoderPopImpatient ==
    /\ pc[Encoder] = "pop"
    /\ \/ /\ processedQueue # <<>>
          /\ current' = [current EXCEPT ![Encoder] = Head(processedQueue)]
          /\ processedQueue' = Tail(processedQueue)
          /\ Goto(Encoder, "check")
       \/ /\ IsClosed("processedQueue")
          /\ Goto(Encoder, "drain")
          /\ UNCHANGED <<processedQueue, current>>
    /\ UNCHANGED <<resume, global, rawQueue, pools, decoded, output>>

EncoderPop ==
    /\ pc[Encoder] = "pop"
    /\ \/ /\ processedQueue # <<>>
          /\ current' = [current EXCEPT ![Encoder] = Head(processedQueue)]
          /\ processedQueue' = Tail(processedQueue)
          /\ Goto(Encoder, "check")
       \/ /\ processedQueue = <<>>
          /\ IsClosed("processedQueue")
          /\ Goto(Encoder, "drain")
          /\ UNCHANGED <<processedQueue, current>>
    /\ UNCHANGED <<resume, global, rawQueue, pools, decoded, output>>

EncoderCheck ==
    /\ pc[Encoder] = "check"
    /\ IF failed THEN Fail(Encoder, "drain")
                 ELSE Goto(Encoder, "insert") /\ UNCHANGED resume
    /\ UNCHANGED <<global, queues, pools, decoded, current, output>>

(* pending_insert; pending_take searches by id, so the list is a set. *)
EncoderInsert ==
    /\ pc[Encoder] = "insert"
    /\ \/ /\ pending' = pending \cup {current[Encoder]}
          /\ Goto(Encoder, "write")
          /\ UNCHANGED resume
       \/ /\ "alloc" \in Faults
          /\ Fail(Encoder, "drain")
          /\ UNCHANGED pending
    /\ UNCHANGED <<global, queues, pools, decoded, current, next, written, flushed>>

(* write_available_ordered runs in the loop and once more after it.  Where  *)
(* each of the two goes on: after a write, with nothing to write, and after *)
(* an error.                                                                *)
WriteLoop == [write |-> [wrote |-> "giveBack", empty |-> "pop", error |-> "drain"],
              drainWrite |-> [wrote |-> "drainGiveBack", empty |-> "leftovers",
                              error |-> "leftovers"]]

(* Mutated: the smallest pending frame is written, expected or not. *)
EncoderWriteEager ==
    /\ pc[Encoder] \in DOMAIN WriteLoop
    /\ LET loop == WriteLoop[pc[Encoder]] IN
       \/ /\ pending = {}
          /\ Goto(Encoder, loop.empty)
          /\ UNCHANGED <<pending, written>>
       \/ \E f \in pending :
             /\ \A g \in pending : f <= g
             /\ pending' = pending \ {f}
             /\ written' = Append(written, f)
             /\ Goto(Encoder, loop.wrote)
    /\ UNCHANGED <<resume, global, queues, pools, decoded, current, next, flushed>>

(* One turn of write_available_ordered: pending_take, then write_packet,    *)
(* whose benchmark row may fail after the frame is in the video.            *)
EncoderWrite ==
    /\ pc[Encoder] \in DOMAIN WriteLoop
    /\ LET loop == WriteLoop[pc[Encoder]] IN
       \/ /\ next \notin pending
          /\ Goto(Encoder, loop.empty)
          /\ UNCHANGED <<resume, pending, written>>
       \/ /\ next \in pending
          /\ pending' = pending \ {next}
          /\ \/ /\ written' = Append(written, next)
                /\ Goto(Encoder, loop.wrote)
                /\ UNCHANGED resume
             \/ /\ "write" \in Faults
                /\ Fail(Encoder, loop.error)
                /\ UNCHANGED written
             \/ /\ "benchmark" \in Faults
                /\ written' = Append(written, next)
                /\ Fail(Encoder, loop.error)
    /\ UNCHANGED <<global, queues, pools, decoded, current, next, flushed>>

(* Mutated: the written frame is freed instead of pooled. *)
EncoderGiveNothingBack ==
    /\ \/ pc[Encoder] = "giveBack" /\ Goto(Encoder, "write")
       \/ pc[Encoder] = "drainGiveBack" /\ Goto(Encoder, "drainWrite")
    /\ next' = next + 1
    /\ UNCHANGED <<resume, global, queues, pools, decoded, current, pending, written, flushed>>

EncoderGiveBack ==
    /\ \/ pc[Encoder] = "giveBack" /\ Goto(Encoder, "write")
       \/ pc[Encoder] = "drainGiveBack" /\ Goto(Encoder, "drainWrite")
    /\ ReleaseProcessed
    /\ next' = next + 1
    /\ UNCHANGED <<resume, global, queues, decoded, current, pending, written, flushed>>

(* After the loop: write what is left unless the pipeline has failed. *)
EncoderDrain ==
    /\ pc[Encoder] = "drain"
    /\ Goto(Encoder, IF failed THEN "leftovers" ELSE "drainWrite")
    /\ UNCHANGED <<resume, global, queues, pools, decoded, current, output>>

(* Frames still waiting for a missing predecessor make the run fail. *)
EncoderLeftovers ==
    /\ pc[Encoder] = "leftovers"
    /\ IF pending # {} THEN Fail(Encoder, "discard")
                       ELSE Goto(Encoder, "flush") /\ UNCHANGED resume
    /\ UNCHANGED <<global, queues, pools, decoded, current, output>>

EncoderDiscard ==
    /\ pc[Encoder] = "discard"
    /\ pending' = {}
    /\ Goto(Encoder, "flush")
    /\ UNCHANGED <<resume, global, queues, pools, decoded, current, next, written, flushed>>

(* A failing flush is only logged. *)
EncoderFlush ==
    /\ pc[Encoder] = "flush"
    /\ \/ failed /\ UNCHANGED flushed
       \/ ~failed /\ flushed' = "yes"
       \/ ~failed /\ "flush" \in Faults /\ flushed' = "lost"
    /\ Goto(Encoder, "done")
    /\ UNCHANGED <<resume, global, queues, pools, decoded, current, pending, next, written>>

EncoderNext == \/ EncoderPop \/ EncoderCheck \/ EncoderInsert \/ EncoderWrite
               \/ EncoderGiveBack \/ EncoderDrain \/ EncoderLeftovers
               \/ EncoderDiscard \/ EncoderFlush \/ PipelineFail(Encoder)

-----------------------------------------------------------------------------
(* The main thread.                                                        *)

Entry(t) == IF t = Decoder THEN "acquire" ELSE "pop"

(* CreateThread or pthread_create of stage t.  The POSIX build stops at the *)
(* first of the decoder and the encoder that is not created and then skips  *)
(* all the joins; the Win32 build tries both and joins what it created.     *)
Create(t, at, to) ==
    /\ pc[Main] = at
    /\ pc' = [pc EXCEPT ![t] = Entry(t), ![Main] = to]
    /\ UNCHANGED <<resume, global, queues, pools, decoded, current, output>>

CreateFails(at, to) ==
    /\ pc[Main] = at
    /\ "create" \in Faults
    /\ IF Platform = "posix" THEN Fail(Main, "cleanup") ELSE to
    /\ UNCHANGED <<global, queues, pools, decoded, current, output>>

MainCreateDecoder ==
    \/ Create(Decoder, "createDecoder", "createEncoder")
    \/ CreateFails("createDecoder", Goto(Main, "createEncoderOnly") /\ UNCHANGED resume)

MainCreateEncoder ==
    \/ Create(Encoder, "createEncoder", "createWorkers")
    \/ CreateFails("createEncoder", Fail(Main, "join"))

(* Win32, without a decoder: the encoder is created all the same. *)
MainCreateEncoderOnly ==
    /\ pc[Main] = "createEncoderOnly"
    /\ \/ pc' = [pc EXCEPT ![Encoder] = "pop", ![Main] = "fail"]
       \/ "create" \in Faults /\ Goto(Main, "fail")
    /\ resume' = [resume EXCEPT ![Main] = "join"]
    /\ UNCHANGED <<global, queues, pools, decoded, current, output>>

(* One turn of the loop that creates the processors: a failure calls        *)
(* pipeline_fail and the loop goes on.                                      *)
MainCreateWorker(w) ==
    /\ pc[Main] = "createWorkers"
    /\ pc[w] = "none"
    /\ \/ pc' = [pc EXCEPT ![w] = "pop"] /\ UNCHANGED resume
       \/ /\ "create" \in Faults
          /\ pc' = [pc EXCEPT ![w] = "absent", ![Main] = "fail"]
          /\ resume' = [resume EXCEPT ![Main] = "createWorkers"]
    /\ UNCHANGED <<global, queues, pools, decoded, current, output>>

MainCreated ==
    /\ pc[Main] = "createWorkers"
    /\ \A w \in Workers : pc[w] # "none"
    /\ Goto(Main, "join")
    /\ UNCHANGED <<resume, global, queues, pools, decoded, current, output>>

Running == {t \in Stages : pc[t] \notin {"none", "absent", "done"}}

(* Mutated: only the encoder, the last stage, is joined. *)
MainJoinEncoder ==
    /\ pc[Main] = "join"
    /\ pc[Encoder] \in {"none", "done"}
    /\ Goto(Main, "cleanup")
    /\ UNCHANGED <<resume, global, queues, pools, decoded, current, output>>

(* The joins.  The Win32 build skips the handles that are NULL; the POSIX   *)
(* build joins every element of processor_threads, created or not, which    *)
(* is undefined for one that was not.                                       *)
MainJoin ==
    /\ pc[Main] = "join"
    /\ Running = {}
    /\ Goto(Main, IF Platform = "posix" /\ \E w \in Workers : pc[w] = "absent"
                  THEN "undefined" ELSE "cleanup")
    /\ UNCHANGED <<resume, global, queues, pools, decoded, current, output>>

(* benchmark_close_csv may fail the run; then everything the threads use is *)
(* freed (undefined while one still runs) and the outcome is returned.      *)
MainReturn ==
    /\ pc[Main] = "cleanup"
    /\ \/ UNCHANGED failed
       \/ "benchmark" \in Faults /\ failed' = TRUE
    /\ IF Running # {}
       THEN Goto(Main, "undefined") /\ UNCHANGED result
       ELSE Goto(Main, "done") /\ result' = IF failed' THEN "error" ELSE "ok"
    /\ UNCHANGED <<resume, closed, queues, pools, active, decoded, current, output>>

MainNext == \/ MainCreateDecoder \/ MainCreateEncoder \/ MainCreateEncoderOnly
            \/ \E w \in Workers : MainCreateWorker(w)
            \/ MainCreated \/ MainJoin \/ MainReturn \/ PipelineFail(Main)

Ended == pc[Main] \in {"done", "undefined"}
Stutter == Ended /\ UNCHANGED vars

Next == \/ DecoderNext \/ EncoderNext \/ MainNext \/ Stutter
        \/ \E w \in Workers : WorkerNext(w)

(* Every thread is scheduled: one that can take a step takes one in the end.*)
Fairness == /\ WF_vars(DecoderNext) /\ WF_vars(EncoderNext) /\ WF_vars(MainNext)
            /\ \A w \in Workers : WF_vars(WorkerNext(w))

Spec == Init /\ [][Next]_vars /\ Fairness

-----------------------------------------------------------------------------
FailLabels == {"fail", "closeRawQueue", "closeProcessedQueue", "closeRawPool",
               "closeProcessedPool"}
DecoderLabels == {"none", "acquire", "read", "check", "push", "drop",
                  "dropAndFail", "closing", "done"} \cup FailLabels
WorkerLabels == {"none", "absent", "pop", "check", "acquire", "process",
                 "processed", "uploaded", "kernel", "push", "badInput", "badOutput",
                 "dropInput", "dropOutput", "finish", "done"} \cup FailLabels
EncoderLabels == {"none", "pop", "check", "insert", "write", "giveBack", "drain",
                  "drainWrite", "drainGiveBack", "leftovers", "discard", "flush",
                  "done"} \cup FailLabels
MainLabels == {"createDecoder", "createEncoder", "createEncoderOnly",
               "createWorkers", "join", "cleanup", "done", "undefined"} \cup FailLabels

FrameIds == 0 .. Total - 1

Labels == DecoderLabels \cup WorkerLabels \cup EncoderLabels \cup MainLabels
Resumes == {"closing", "finish", "drain", "leftovers", "discard", "createWorkers",
            "join", "cleanup", "done"}

LabelsOK ==
    /\ pc \in [Threads -> Labels]
    /\ pc[Decoder] \in DecoderLabels
    /\ pc[Encoder] \in EncoderLabels
    /\ pc[Main] \in MainLabels
    /\ \A w \in Workers : pc[w] \in WorkerLabels
    /\ resume \in [Threads -> Resumes]

FlagsOK ==
    /\ failed \in BOOLEAN
    /\ closed \subseteq Shared
    /\ flushed \in {"no", "yes", "lost"}
    /\ result \in {"none", "ok", "error"}

FramesOK ==
    /\ rawQueue \in Seq(FrameIds)
    /\ processedQueue \in Seq(FrameIds)
    /\ decoded \in 0 .. Total
    /\ current \in [Workers \cup {Encoder} -> Nat]
    /\ pending \subseteq FrameIds
    /\ next \in 0 .. Total
    /\ written \in Seq(FrameIds)

BoundsOK ==
    /\ Len(rawQueue) <= FrameSlots
    /\ Len(processedQueue) <= FrameSlots
    /\ rawAvailable \in 0 .. PoolCapacity
    /\ processedAvailable \in 0 .. PoolCapacity
    /\ active \in 0 .. Cardinality(Workers)

TypeOK == LabelsOK /\ FlagsOK /\ FramesOK /\ BoundsOK

(* No error has happened so far: the flag is not set and nobody is about to *)
(* set it.                                                                  *)
Healthy == ~failed /\ \A t \in Threads : pc[t] # "fail"

(* The workers that hold a raw buffer, and those that hold a processed one. *)
HoldsInput == {w \in Workers : pc[w] \in {"check", "acquire", "process", "processed",
                                          "uploaded", "badInput", "dropInput"}}
HoldsOutput == {w \in Workers : pc[w] \in {"process", "processed", "uploaded", "kernel",
                                           "push", "badInput", "badOutput", "dropOutput"}}

(* Where a decoded frame can be. *)
IdsIn(queue) == {queue[i] : i \in 1 .. Len(queue)}
InDecoder == IF pc[Decoder] = "push" THEN {decoded - 1} ELSE {}
InRawQueue == IdsIn(rawQueue)
InWorkers == {current[w] : w \in HoldsInput \cup HoldsOutput}
InProcessedQueue == IdsIn(processedQueue)
InEncoder == IF pc[Encoder] \in {"check", "insert"} THEN {current[Encoder]} ELSE {}
Written == IdsIn(written)
Places == InDecoder \cup InRawQueue \cup InWorkers \cup InProcessedQueue \cup InEncoder
             \cup pending \cup Written

(* Until something fails, no frame the decoder has numbered is dropped,     *)
(* duplicated or invented on its way through the two queues, the workers    *)
(* and the encoder's list: each id is in exactly one of those places.       *)
EveryFrameInOnePlace ==
    Healthy =>
       /\ Places = 0 .. decoded - 1
       /\ Cardinality(InDecoder) + Len(rawQueue)
             + Cardinality(HoldsInput \cup HoldsOutput) + Len(processedQueue)
             + Cardinality(InEncoder) + Cardinality(pending) + Len(written) = decoded

(* Workers finish in any order, with errors at any point, and the video     *)
(* still receives frames 0, 1, 2, ... without a gap or a repetition.        *)
OutputInOrder == \A i \in 1 .. Len(written) : written[i] = i - 1

(* run_filter_pipeline returns 0 only if every frame of the video (up to    *)
(* the limit) reached the writer, and the flush was at least attempted.     *)
SuccessMeansComplete ==
    result = "ok" => Len(written) = Total /\ flushed # "no"

(* The promise of InOrderRun: the frames reach the writer one by one in     *)
(* ascending order, none does after the return, and 0 is returned only when *)
(* all of them did.                                                         *)
Run == INSTANCE InOrderRun WITH total <- Total, delivered <- written,
                                outcome <- result
ImplementsRun == Run!Spec

(* The buffers of a pool: available, queued, in a worker, pending, and the  *)
(* one that the decoder fills or the encoder takes.                         *)
DecoderHolds ==
    IF pc[Decoder] \in {"read", "check", "push", "drop", "dropAndFail"} THEN 1 ELSE 0
EncoderHolds ==
    IF pc[Encoder] \in {"check", "insert", "giveBack", "drainGiveBack"} THEN 1 ELSE 0
RawBuffers == rawAvailable + Len(rawQueue) + Cardinality(HoldsInput) + DecoderHolds
ProcessedBuffers == processedAvailable + Len(processedQueue) + Cardinality(HoldsOutput)
                       + Cardinality(pending) + EncoderHolds

(* Until something fails no buffer leaks and none is released twice: each   *)
(* buffer of a pool is available, held by one thread, queued or pending.    *)
BuffersConserved == Healthy => RawBuffers = PoolCapacity /\ ProcessedBuffers = PoolCapacity

(* The raw pool is large enough: frame_slots + workers + 1 buffers mean the *)
(* decoder never waits for one, only for room in the raw queue.             *)
DecoderNeverWaitsForBuffer ==
    pc[Decoder] = "acquire" => IsClosed("rawPool") \/ rawAvailable > 0

(* The flush, after which the writer takes no more frames, comes last: no   *)
(* thread still holds or produces a frame then.                             *)
FlushComesLast ==
    [][flushed' # flushed => /\ Len(written) = Total
                             /\ pending = {}
                             /\ \A w \in Workers : pc[w] = "done"]_vars

(* ctx lives on the stack of run_filter_pipeline: it is freed only when no  *)
(* thread runs any more, and only created threads are joined.               *)
NoThreadOutlivesContext == pc[Main] # "undefined"

(* Once a run has failed, the closes get every thread out of its wait and   *)
(* run_filter_pipeline returns an error.                                    *)
FailureEndsTheRun == failed ~> (Ended /\ result # "ok")

(* A run ends: no thread waits for ever for a packet, for room or for a     *)
(* buffer.                                                                  *)
RunEnds == <>Ended
=============================================================================
