---------------------------- MODULE ExecutionPlan ----------------------------
(***************************************************************************)
(* The execution plan of a detection (pipeline_execution_plan.c): how many *)
(* frames in a batch, how many batches at once and how many inference      *)
(* contexts, from the configuration, the video, the hardware and what the  *)
(* inference engine says it can do; and the buffers of a filter run.       *)
(***************************************************************************)
EXTENDS CommandLine

CONSTANT MiB                (* 2^20 bytes, in the unit sizes are counted in  *)
ASSUME MiBAssumption == MiB \in Nat \ {0}

Larger(a, b) == IF a > b THEN a ELSE b
Smaller(a, b) == IF a < b THEN a ELSE b

(* VideoProfile, HardwareProfile, InferenceBatchCapability.  up and down   *)
(* are microseconds for a unit over the bus, 0 when not measured.          *)
Videos == [bytes : Nat \ {0}, fps : Nat, upload : BOOLEAN, download : BOOLEAN]
Hardwares == [cuda : BOOLEAN, total : Nat, free : Nat, concurrent : BOOLEAN,
              up : Nat, down : Nat]
Capabilities == [input : Nat, output : Nat, parallel : BOOLEAN, contexts : Nat \ {0}]
Plans == [budget : Nat, batch : Nat, inflight : Nat, active : Nat, contexts : Nat]

(* pipeline_execution_plan_init *)
NoPlan == [budget |-> 0, batch |-> 1, inflight |-> 1, active |-> 1, contexts |-> 1]

PerFrame(v, e) == v.bytes + e.input + e.output + Larger(v.bytes \div 4, 4 * MiB)
Estimate(v, e, k) == PerFrame(v, e) * k + 16 * MiB

(* The time the bus may take: a quarter of the time k frames last, against *)
(* 50 microseconds and the bytes for each direction used.                  *)
Fps(c, v) == IF c.number.target_fps > 0 THEN c.number.target_fps
             ELSE IF v.fps > 0 THEN v.fps ELSE 30
Over(used, rate, v, k) == IF used THEN v.bytes * k * rate + 50 ELSE 0
TransferFits(c, v, h, k) ==
    \/ h.up = 0 \/ h.down = 0
    \/ 4 * Fps(c, v) * (Over(v.upload, h.up, v, k) + Over(v.download, h.down, v, k))
          <= 1000000 * k

Reserve(c, h) == IF c.number.vram_reserve_mb > 0 THEN c.number.vram_reserve_mb * MiB
                 ELSE Larger(512 * MiB, h.total \div 5)
FreeBudget(c, h) == IF h.free > Reserve(c, h) THEN h.free - Reserve(c, h) ELSE 0
VramBudget(c, h) ==
    IF h.cuda /\ h.total > 0
    THEN Smaller((h.total * c.number.vram_budget_ratio) \div Whole, FreeBudget(c, h)) ELSE 0
Budget(c, v, h, e) == IF VramBudget(c, h) = 0 THEN 2 * PerFrame(v, e) ELSE VramBudget(c, h)

Candidates == {1, 2, 3, 4, 6, 8}
(* Mutated: only the bus is looked at.                                     *)
FittingTheBus(c, v, h, e) == {k \in Candidates : TransferFits(c, v, h, k)}
Fitting(c, v, h, e) == {k \in Candidates : /\ Estimate(v, e, k) <= Budget(c, v, h, e)
                                           /\ TransferFits(c, v, h, k)}
Tuned(c) == "auto_tune" \in c.flags
BatchSize(c, v, h, e) ==
    IF ~c.setting.batch_size.auto THEN c.setting.batch_size.n
    ELSE IF Tuned(c) /\ Fitting(c, v, h, e) # {}
    THEN CHOOSE k \in Fitting(c, v, h, e) : \A j \in Fitting(c, v, h, e) : j <= k
    ELSE 1

Inflight(c, v, h, e) ==
    IF ~c.setting.inflight_batches.auto THEN c.setting.inflight_batches.n
    ELSE IF Tuned(c) /\ Budget(c, v, h, e) >= PerFrame(v, e) * BatchSize(c, v, h, e) * 4
    THEN 2 ELSE 1

MaxContexts(c, h, e) ==
    IF ~h.concurrent /\ c.word.parallel_inference = "auto" THEN 1 ELSE e.contexts
Requested(c, batch, inflight) ==
    IF ~c.setting.inference_contexts.auto THEN c.setting.inference_contexts.n
    ELSE IF batch > 1 THEN batch ELSE inflight
Contexts(c, h, e, batch, inflight) ==
    IF c.word.parallel_inference # "off" /\ e.parallel
    THEN Smaller(Smaller(Requested(c, batch, inflight), MaxContexts(c, h, e)), batch * inflight)
    ELSE 1

(* pipeline_execution_plan_build *)
Build(c, v, h, e) ==
    LET batch == BatchSize(c, v, h, e)
        inflight == Inflight(c, v, h, e)
        contexts == Contexts(c, h, e, batch, inflight)
    IN  [budget |-> Budget(c, v, h, e), batch |-> batch, inflight |-> inflight,
         active |-> batch * inflight, contexts |-> contexts]

-----------------------------------------------------------------------------
(* What the pipelines make of the plan.  Decoded by the CPU: the engine    *)
(* takes the contexts or the run has one.  Asynchronous: no more lanes than*)
(* the engine has and frames are active.  Blocking: a worker for a batch.  *)
Takes(e, n) == n >= 1 /\ n <= e.contexts
Applied(p, e) == IF Takes(e, p.contexts) THEN p ELSE [p EXCEPT !.contexts = 1]
OnLanes(p, lanes) == [p EXCEPT !.contexts = Larger(Smaller(Smaller(@, lanes), p.active), 1)]
OnWorkers(p) == [p EXCEPT !.contexts = Smaller(@, p.inflight)]

(* The buffers and threads of a filter run (run_filter_pipeline).          *)
Low(c) == \/ c.word.memory_profile = "low"
          \/ c.word.memory_profile = "auto" /\ "lossless" \in c.flags
Slots(c) == IF Low(c) THEN Smaller(c.number.frame_slots, 1) ELSE c.number.frame_slots
Workers(c) ==
    LET most == IF Low(c) THEN 1
                ELSE IF c.word.memory_profile = "balanced" THEN 2
                ELSE c.number.processor_workers
    IN  IF c.word.mode = "gpu" THEN 1 ELSE Smaller(c.number.processor_workers, most)
PoolBuffers(slots, workers) == 2 * (slots + workers + 1)
TooMuch(c, bytes) ==
    /\ c.number.memory_budget_mb > 0
    /\ PoolBuffers(Slots(c), Workers(c)) * bytes > c.number.memory_budget_mb * MiB
Sizing(c, bytes) ==
    IF TooMuch(c, bytes) /\ c.word.memory_profile # "manual"
    THEN [slots |-> 1, workers |-> 1] ELSE [slots |-> Slots(c), workers |-> Workers(c)]
=============================================================================
