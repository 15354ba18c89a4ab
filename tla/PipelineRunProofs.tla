-------------------------- MODULE PipelineRunProofs --------------------------
(***************************************************************************)
(* For every command line, video, machine and engine: the plan of a        *)
(* detection and the buffers of a filter are sound (ResourcesFit), a       *)
(* pipeline that succeeds has done what the options ask                    *)
(* (SuccessIsWhatWasAsked), and, but for the engine whose calls race for   *)
(* their buffers, the output is that of one run (OutputIsOfOneRun).        *)
(*                                                                         *)
(* The first rests on what the parser lets through (ConfigOK), the second  *)
(* on the choice of a pipeline (PathOK) and on the steps of the set-up that*)
(* are still to come (SInv); the third on the frames of the batch (ReadOK),*)
(* the buffers of the lanes (LanesOK), the calls of run_batch (CallsOK) and*)
(* the rows of the file (WriteOK).                                         *)
(***************************************************************************)
EXTENDS PipelineRun, FiniteSetTheorems, TLAPS

(* What the parser lets through: words of its lists, numbers from their    *)
(* least on, settings of at least one.                                     *)
ConfigOK(c) == /\ c \in Configs
               /\ \A n \in DOMAIN Words : c.word[n] \in Words[n]
               /\ \A n \in DOMAIN Least : c.number[n] >= Least[n]
               /\ \A s \in Settings : c.setting[s].n >= 1

(* The names of the options, by what they take: no name is in two kinds.    *)
LEMMA Names ==
  /\ DOMAIN Words = {"task", "mode", "decoder", "decoder_fallback", "backend_device", "runtime",
                     "model", "encoder", "memory_profile", "pipeline_overlap",
                     "parallel_inference"}
  /\ DOMAIN Least = {"max_frames", "frame_slots", "processor_workers", "memory_budget_mb",
                     "target_fps", "vram_reserve_mb", "vram_budget_ratio"}
  /\ DOMAIN Switches = {"no_benchmark", "lossless", "lossy", "draw_boxes", "no_draw_boxes",
                        "list_backends", "model_info", "profile_hardware"}
  /\ Settings = {"batch_size", "inflight_batches", "inference_contexts"}
  BY DEF Words, Least, Switches, Settings

(* The configuration before any option is one the parser lets through.     *)
LEMMA DefaultOK == ConfigOK(DefaultConfig)
<1>1. DefaultConfig.word \in [DOMAIN Words -> AnyWord]
  <2> DEFINE w == DefaultConfig.word
  <2>1. w = [x \in DOMAIN Words |-> w[x]]
    BY Names DEF DefaultConfig
  <2>2. \A x \in DOMAIN Words : w[x] \in Words[x]
    BY DEF DefaultConfig, Words, RuntimeOf
  <2> HIDE DEF w
  <2>3. \A x \in DOMAIN Words : w[x] \in AnyWord
    BY <2>2 DEF AnyWord
  <2> QED BY <2>1, <2>3 DEF w
<1>2. DefaultConfig.number \in [DOMAIN Least -> Int]
  BY Names DEF DefaultConfig
<1>3. DefaultConfig.setting \in [Settings -> [auto : BOOLEAN, n : Int]]
  <2> DEFINE t == DefaultConfig.setting
             S == [auto : BOOLEAN, n : Int]
  <2>1. t = [x \in Settings |-> t[x]]
    BY Names DEF DefaultConfig
  <2>2. \A x \in Settings : t[x] = Setting(FALSE, 1) \/ t[x] = Setting(TRUE, 1)
    <3>1. /\ t.batch_size = Setting(FALSE, 1) /\ t.inflight_batches = Setting(FALSE, 1)
          /\ t.inference_contexts = Setting(TRUE, 1)
      BY DEF DefaultConfig
    <3> HIDE DEF t
    <3> QED BY <3>1, Names
  <2>3. \A b \in BOOLEAN : Setting(b, 1) \in S
    BY DEF Setting
  <2> HIDE DEF t, S
  <2>4. t \in [Settings -> S]
    BY <2>1, <2>2, <2>3
  <2> QED BY <2>4 DEF t, S
<1>4. DefaultConfig.flags \subseteq Flags
  BY DEF DefaultConfig, Flags
<1>5. DefaultConfig \in Configs
  BY <1>1, <1>2, <1>3, <1>4 DEF DefaultConfig, Configs
<1>6. \A n \in DOMAIN Least : DefaultConfig.number[n] >= Least[n]
  BY DEF DefaultConfig, Least
<1>7. \A s \in Settings : DefaultConfig.setting[s].n >= 1
  BY DEF DefaultConfig, Settings, Setting
<1>8. \A n \in DOMAIN Words : DefaultConfig.word[n] \in Words[n]
  BY DEF DefaultConfig, Words, RuntimeOf
<1> QED BY <1>5, <1>6, <1>7, <1>8 DEF ConfigOK

(* What one option changes, by its kind.                                   *)
LEMMA TakenIs ==
  ASSUME NEW c, NEW o, Accepted(o)
  PROVE  \/ TakesWord(o) /\ Taken(c, o) = [c EXCEPT !.word = [@ EXCEPT ![o.name] = o.word]]
         \/ TakesNumber(o) /\ Taken(c, o) = [c EXCEPT !.number = [@ EXCEPT ![o.name] = o.num]]
         \/ /\ TakesSetting(o)
            /\ Taken(c, o) = [c EXCEPT !.setting = [@ EXCEPT ![o.name] = TakenSetting(o)]]
         \/ Taken(c, o) = [c EXCEPT !.word = [@ EXCEPT !["decoder_fallback"] = "none"]]
         \/ Taken(c, o) = AutoTuned(c)
         \/ /\ o.name \in DOMAIN Switches
            /\ Taken(c, o) = [c EXCEPT !.flags = (@ \ Switches[o.name][2])
                                                  \union Switches[o.name][1]]
<1>1. CASE o.name \in DOMAIN Words
  <2>1. TakesWord(o) /\ ~TakesNumber(o) /\ ~TakesSetting(o)
        /\ o.name # "no_decoder_fallback" /\ o.name # "auto_tune"
    BY <1>1, Names DEF Accepted, TakesWord, TakesNumber, TakesSetting
  <2> QED BY <2>1 DEF Taken
<1>2. CASE o.name \in DOMAIN Least
  <2>1. ~TakesWord(o) /\ TakesNumber(o) /\ ~TakesSetting(o)
        /\ o.name # "no_decoder_fallback" /\ o.name # "auto_tune"
    BY <1>2, Names DEF Accepted, TakesWord, TakesNumber, TakesSetting
  <2> QED BY <2>1 DEF Taken
<1>3. CASE o.name \in Settings
  <2>1. ~TakesWord(o) /\ ~TakesNumber(o) /\ TakesSetting(o)
        /\ o.name # "no_decoder_fallback" /\ o.name # "auto_tune"
    BY <1>3, Names DEF Accepted, TakesWord, TakesNumber, TakesSetting
  <2> QED BY <2>1 DEF Taken
<1>4. CASE o.name \in DOMAIN Switches \union {"no_decoder_fallback", "auto_tune"}
  <2>1. ~TakesWord(o) /\ ~TakesNumber(o) /\ ~TakesSetting(o)
    BY <1>4, Names DEF TakesWord, TakesNumber, TakesSetting
  <2>2. CASE o.name = "no_decoder_fallback"
    BY <2>1, <2>2 DEF Taken
  <2>3. CASE o.name = "auto_tune"
    BY <2>1, <2>3 DEF Taken
  <2>4. CASE o.name \in DOMAIN Switches
    <3>1. o.name # "no_decoder_fallback" /\ o.name # "auto_tune"
      BY <2>4, Names
    <3> QED BY <2>1, <2>4, <3>1 DEF Taken
  <2> QED BY <1>4, <2>2, <2>3, <2>4
<1> QED BY <1>1, <1>2, <1>3, <1>4 DEF Accepted, TakesWord, TakesNumber, TakesSetting

(* A part of the configuration changed for another of its kind.            *)
LEMMA PartsOK ==
  ASSUME NEW c, ConfigOK(c)
  PROVE  /\ \A w \in [DOMAIN Words -> AnyWord] :
               (\A x \in DOMAIN Words : w[x] \in Words[x]) => ConfigOK([c EXCEPT !.word = w])
         /\ \A f \in SUBSET Flags : ConfigOK([c EXCEPT !.flags = f])
         /\ \A n \in [DOMAIN Least -> Int] :
               (\A x \in DOMAIN Least : n[x] >= Least[x]) => ConfigOK([c EXCEPT !.number = n])
         /\ \A t \in [Settings -> [auto : BOOLEAN, n : Int]] :
               (\A x \in Settings : t[x].n >= 1) => ConfigOK([c EXCEPT !.setting = t])
  BY DEF ConfigOK, Configs

(* An accepted option keeps it so: no number below its least, no setting   *)
(* below one, whatever came before.                                        *)
LEMMA TakenOK ==
  ASSUME NEW c, ConfigOK(c), NEW o \in Options, Accepted(o)
  PROVE  ConfigOK(Taken(c, o))
<1>0. /\ c.word \in [DOMAIN Words -> AnyWord]
      /\ \A x \in DOMAIN Words : c.word[x] \in Words[x]
      /\ c.flags \in SUBSET Flags
      /\ c.number \in [DOMAIN Least -> Int]
      /\ c.setting \in [Settings -> [auto : BOOLEAN, n : Int]]
      /\ \A x \in DOMAIN Least : c.number[x] >= Least[x]
      /\ \A x \in Settings : c.setting[x].n >= 1
  BY DEF ConfigOK, Configs
<1>1. o.num \in Int
  BY DEF Options
<1>3. ASSUME TakesWord(o), Taken(c, o) = [c EXCEPT !.word = [@ EXCEPT ![o.name] = o.word]]
      PROVE  ConfigOK(Taken(c, o))
  <2> DEFINE w == [c.word EXCEPT ![o.name] = o.word]
  <2>1. o.word \in Words[o.name] /\ o.word \in AnyWord
    BY <1>3 DEF TakesWord, AnyWord
  <2>2. w \in [DOMAIN Words -> AnyWord] /\ \A x \in DOMAIN Words : w[x] \in Words[x]
    BY <1>0, <2>1
  <2>3. Taken(c, o) = [c EXCEPT !.word = w]
    BY <1>3
  <2> HIDE DEF w
  <2> QED BY <2>2, <2>3, PartsOK
<1>4. ASSUME TakesNumber(o), Taken(c, o) = [c EXCEPT !.number = [@ EXCEPT ![o.name] = o.num]]
      PROVE  ConfigOK(Taken(c, o))
  <2> DEFINE n == [c.number EXCEPT ![o.name] = o.num]
  <2>1. n \in [DOMAIN Least -> Int] /\ \A x \in DOMAIN Least : n[x] >= Least[x]
    BY <1>0, <1>1, <1>4 DEF TakesNumber
  <2>2. Taken(c, o) = [c EXCEPT !.number = n]
    BY <1>4
  <2> HIDE DEF n
  <2> QED BY <2>1, <2>2, PartsOK
<1>5. ASSUME TakesSetting(o),
             Taken(c, o) = [c EXCEPT !.setting = [@ EXCEPT ![o.name] = TakenSetting(o)]]
      PROVE  ConfigOK(Taken(c, o))
  <2> DEFINE S == [auto : BOOLEAN, n : Int]
             t == [c.setting EXCEPT ![o.name] = TakenSetting(o)]
  <2>1. TakenSetting(o) \in S /\ TakenSetting(o).n >= 1
    BY <1>1, <1>5 DEF TakesSetting, TakenSetting, Setting
  <2>2. t \in [Settings -> S]
    <3> HIDE DEF S
    <3> QED BY <1>0, <2>1 DEF S
  <2>3. \A x \in Settings : t[x].n >= 1
    BY <1>0, <2>1
  <2>4. Taken(c, o) = [c EXCEPT !.setting = t]
    BY <1>5
  <2> HIDE DEF t
  <2> QED BY <2>2, <2>3, <2>4, PartsOK
<1>6. ASSUME Taken(c, o) = [c EXCEPT !.word = [@ EXCEPT !["decoder_fallback"] = "none"]]
      PROVE  ConfigOK(Taken(c, o))
  <2> DEFINE n == "decoder_fallback"
             w == [c.word EXCEPT ![n] = "none"]
  <2>2. w \in [DOMAIN Words -> AnyWord] /\ \A x \in DOMAIN Words : w[x] \in Words[x]
    <3>1. "none" \in AnyWord /\ "none" \in Words[n]
      BY DEF AnyWord, Words
    <3> HIDE DEF n
    <3> QED BY <1>0, <3>1
  <2>3. Taken(c, o) = [c EXCEPT !.word = w]
    BY <1>6
  <2> HIDE DEF w
  <2> QED BY <2>2, <2>3, PartsOK
<1>7. ASSUME Taken(c, o) = AutoTuned(c)
      PROVE  ConfigOK(Taken(c, o))
  <2> DEFINE f == c.flags \union {"auto_tune"}
             t == [c.setting EXCEPT !["batch_size"].auto = TRUE,
                                    !["inflight_batches"].auto = TRUE]
  <2>1. "batch_size" \in Settings /\ "inflight_batches" \in Settings
    BY Names
  <2>2. f \in SUBSET Flags
    BY <1>0 DEF Flags
  <2>3. t \in [Settings -> [auto : BOOLEAN, n : Int]]
    BY <1>0, <2>1
  <2>4. \A x \in Settings : t[x].n >= 1
    BY <1>0, <2>1
  <2> DEFINE b == [c EXCEPT !.flags = f]
  <2>5. ConfigOK(b)
    BY <2>2, PartsOK
  <2>6. AutoTuned(c) = [[c EXCEPT !.flags = f] EXCEPT !.setting = t]
    BY DEF AutoTuned, ConfigOK, Configs
  <2>7. Taken(c, o) = [b EXCEPT !.setting = t]
    BY <1>7, <2>6
  <2> HIDE DEF t, b
  <2> QED BY <2>3, <2>4, <2>5, <2>7, PartsOK
<1>8. ASSUME o.name \in DOMAIN Switches,
             Taken(c, o) = [c EXCEPT !.flags = (@ \ Switches[o.name][2])
                                               \union Switches[o.name][1]]
      PROVE  ConfigOK(Taken(c, o))
  <2>1. Switches[o.name][1] \subseteq Flags
    BY <1>8 DEF Switches, Flags
  <2>2. (c.flags \ Switches[o.name][2]) \union Switches[o.name][1] \in SUBSET Flags
    BY <1>0, <2>1
  <2> QED BY <1>8, <2>2, PartsOK
<1> QED BY TakenIs, <1>3, <1>4, <1>5, <1>6, <1>7, <1>8

-----------------------------------------------------------------------------
(* What a run takes.                                                       *)

(* The sizes the plan is computed from are numbers.                        *)
LEMMA BudgetIsNumber ==
  ASSUME NEW c, ConfigOK(c), NEW v \in Videos, NEW h \in Hardwares, NEW e \in Capabilities
  PROVE  PerFrame(v, e) \in Nat /\ Budget(c, v, h, e) \in Int
<1>1. PerFrame(v, e) \in Nat
  <2>1. v.bytes \in Nat /\ e.input \in Nat /\ e.output \in Nat /\ 4 * MiB \in Nat
    BY MiBAssumption DEF Videos, Capabilities
  <2>2. v.bytes \div 4 \in Nat
    BY <2>1
  <2> QED BY <2>1, <2>2 DEF PerFrame, Larger
<1>2. c.number.vram_reserve_mb \in Int /\ c.number.vram_budget_ratio \in Int
  BY Names DEF ConfigOK, Configs
<1>3. h.total \in Nat /\ h.free \in Nat
  BY DEF Hardwares
<1>4. Reserve(c, h) \in Int
  BY <1>2, <1>3, MiBAssumption DEF Reserve, Larger
<1>5. FreeBudget(c, h) \in Int
  BY <1>3, <1>4 DEF FreeBudget
<1>6. VramBudget(c, h) \in Int
  <2>1. (h.total * c.number.vram_budget_ratio) \div Whole \in Int
    BY <1>2, <1>3 DEF Whole
  <2> QED BY <1>5, <2>1 DEF VramBudget, Smaller
<1> QED BY <1>1, <1>6 DEF Budget

(* A set of candidates that is not empty has a greatest one.               *)
LEMMA GreatestCandidate ==
  ASSUME NEW S, S \subseteq Candidates, S # {}
  PROVE  (CHOOSE k \in S : \A j \in S : j <= k) \in S
<1>1. S \subseteq {1, 2, 3, 4, 6, 8}
  BY DEF Candidates
<1>2. \E k \in S : \A j \in S : j <= k
  <2>1. CASE 8 \in S
    BY <1>1, <2>1
  <2>2. CASE 8 \notin S /\ 6 \in S
    BY <1>1, <2>2
  <2>3. CASE 8 \notin S /\ 6 \notin S /\ 4 \in S
    BY <1>1, <2>3
  <2>4. CASE 8 \notin S /\ 6 \notin S /\ 4 \notin S
    <3>1. S \subseteq {1, 2, 3}
      BY <1>1, <2>4
    <3>2. CASE 3 \in S
      BY <3>1, <3>2
    <3>3. CASE 3 \notin S /\ 2 \in S
      BY <3>1, <3>3
    <3>4. CASE 3 \notin S /\ 2 \notin S
      <4>1. PICK x \in S : TRUE
        OBVIOUS
      <4> QED BY <3>1, <3>4, <4>1
    <3> QED BY <3>2, <3>3, <3>4
  <2> QED BY <2>1, <2>2, <2>3, <2>4
<1> QED BY <1>2

(* The tuner's batch is at least one frame, and more only when they fit.   *)
LEMMA BatchFits ==
  ASSUME NEW c, ConfigOK(c), NEW v \in Videos, NEW h \in Hardwares, NEW e \in Capabilities
  PROVE  LET k == BatchSize(c, v, h, e)
         IN  /\ k \in Nat /\ k >= 1
             /\ c.setting.batch_size.auto /\ k > 1 => Estimate(v, e, k) <= Budget(c, v, h, e)
<1> DEFINE k == BatchSize(c, v, h, e)
           F == Fitting(c, v, h, e)
<1>1. CASE ~c.setting.batch_size.auto
  <2>1. c.setting.batch_size.n \in Int /\ c.setting.batch_size.n >= 1
    BY Names DEF ConfigOK, Configs
  <2> QED BY <1>1, <2>1 DEF BatchSize
<1>2. CASE c.setting.batch_size.auto /\ Tuned(c) /\ F # {}
  <2>1. F \subseteq Candidates
    BY DEF Fitting
  <2>2. k = (CHOOSE x \in F : \A y \in F : y <= x)
    BY <1>2 DEF BatchSize
  <2>3. k \in F
    <3> HIDE DEF k, F
    <3> QED BY <1>2, <2>1, <2>2, GreatestCandidate
  <2>4. Estimate(v, e, k) <= Budget(c, v, h, e)
    BY <2>3 DEF Fitting
  <2>5. k \in {1, 2, 3, 4, 6, 8}
    BY <2>1, <2>3 DEF Candidates
  <2> HIDE DEF k
  <2> QED BY <2>4, <2>5 DEF k
<1>3. CASE c.setting.batch_size.auto /\ ~(Tuned(c) /\ F # {})
  BY <1>3 DEF BatchSize
<1> QED BY <1>1, <1>2, <1>3

(* A second batch only when four of them fit, and by choice one or two.    *)
LEMMA InflightFits ==
  ASSUME NEW c, ConfigOK(c), NEW v \in Videos, NEW h \in Hardwares, NEW e \in Capabilities
  PROVE  LET k == BatchSize(c, v, h, e)
             n == Inflight(c, v, h, e)
         IN  /\ n \in Nat /\ n >= 1
             /\ c.setting.inflight_batches.auto /\ n > 1 =>
                    PerFrame(v, e) * (k * n) <= Budget(c, v, h, e)
<1> DEFINE k == BatchSize(c, v, h, e)
           n == Inflight(c, v, h, e)
           P == PerFrame(v, e)
           B == Budget(c, v, h, e)
<1>1. CASE ~c.setting.inflight_batches.auto
  <2>1. c.setting.inflight_batches.n \in Int /\ c.setting.inflight_batches.n >= 1
    BY Names DEF ConfigOK, Configs
  <2> QED BY <1>1, <2>1 DEF Inflight
<1>2. CASE c.setting.inflight_batches.auto /\ Tuned(c) /\ B >= P * k * 4
  <2>1. n = 2
    BY <1>2 DEF Inflight
  <2>2. P \in Nat /\ k \in Nat /\ B \in Int
    BY BudgetIsNumber, BatchFits
  <2> HIDE DEF n, P, k, B
  <2>3. P * k \in Nat
    BY <2>2
  <2>4. P * (k * 2) = (P * k) * 2
    BY <2>2
  <2>5. P * (k * n) <= B
    BY <1>2, <2>1, <2>2, <2>3, <2>4
  <2> QED BY <2>1, <2>5 DEF n, P, k, B
<1>3. CASE c.setting.inflight_batches.auto /\ ~(Tuned(c) /\ B >= P * k * 4)
  BY <1>3 DEF Inflight
<1> QED BY <1>1, <1>2, <1>3

(* The contexts are as many as frames can use and the engine accepts.      *)
LEMMA ContextsFit ==
  ASSUME NEW c, ConfigOK(c), NEW h, NEW e \in Capabilities,
         NEW k \in Nat \ {0}, NEW n \in Nat \ {0}
  PROVE  /\ Contexts(c, h, e, k, n) \in 1 .. (k * n)
         /\ Contexts(c, h, e, k, n) <= e.contexts
<1>1. k * n \in Nat /\ k * n >= 1
  OBVIOUS
<1>2. c.setting.inference_contexts.n \in Int /\ c.setting.inference_contexts.n >= 1
  BY Names DEF ConfigOK, Configs
<1>3. Requested(c, k, n) \in Nat /\ Requested(c, k, n) >= 1
  BY <1>2 DEF Requested
<1>4. e.contexts \in Nat /\ e.contexts >= 1
  BY DEF Capabilities
<1>5. MaxContexts(c, h, e) \in 1 .. e.contexts
  BY <1>4 DEF MaxContexts
<1> QED BY <1>1, <1>3, <1>4, <1>5 DEF Contexts, Smaller

(* pipeline_execution_plan_build, for every configuration the parser lets  *)
(* through, every video, machine and engine.                               *)
LEMMA BuildFits ==
  ASSUME NEW c, ConfigOK(c), NEW v \in Videos, NEW h \in Hardwares, NEW e \in Capabilities
  PROVE  LET b == Build(c, v, h, e)
         IN  /\ b \in [budget : Int, batch : Nat \ {0}, inflight : Nat \ {0}, active : Nat \ {0},
                      contexts : Nat \ {0}]
             /\ b.active = b.batch * b.inflight
             /\ b.contexts <= b.active /\ b.contexts <= e.contexts
             /\ c.setting.batch_size.auto /\ b.batch > 1 => Estimate(v, e, b.batch) <= b.budget
             /\ c.setting.inflight_batches.auto /\ b.inflight > 1 =>
                    PerFrame(v, e) * b.active <= b.budget
<1> DEFINE k == BatchSize(c, v, h, e)
           n == Inflight(c, v, h, e)
           x == Contexts(c, h, e, k, n)
           B == Budget(c, v, h, e)
           b == Build(c, v, h, e)
<1>1. b = [budget |-> B, batch |-> k, inflight |-> n, active |-> k * n, contexts |-> x]
  BY DEF Build
<1>2. /\ k \in Nat \ {0}
      /\ c.setting.batch_size.auto /\ k > 1 => Estimate(v, e, k) <= B
  BY BatchFits
<1>3. /\ n \in Nat \ {0}
      /\ c.setting.inflight_batches.auto /\ n > 1 => PerFrame(v, e) * (k * n) <= B
  BY InflightFits
<1>4. B \in Int
  BY BudgetIsNumber
<1>5. x \in 1 .. (k * n) /\ x <= e.contexts
  <2> HIDE DEF k, n
  <2> QED BY <1>2, <1>3, ContextsFit
<1>6. k * n \in Nat \ {0}
  <2> HIDE DEF k, n
  <2> QED BY <1>2, <1>3
<1> HIDE DEF k, n, x, B, b
<1>7. b \in [budget : Int, batch : Nat \ {0}, inflight : Nat \ {0}, active : Nat \ {0},
             contexts : Nat \ {0}]
  BY <1>1, <1>2, <1>3, <1>4, <1>5, <1>6
<1> QED BY <1>1, <1>2, <1>3, <1>5, <1>7 DEF b

(* The engines of inference_engine_create.                                 *)
LEMMA Engines ==
  ASSUME NEW c
  PROVE  Capability(c) \in Capabilities /\ (AsyncLanes(c) > 0 => AsyncLanes(c) = LaneCount)
<1>1. MiB \in Nat /\ LaneCount \in Nat \ {0}
  BY MiBAssumption, RunAssumption
<1>2. (HasLanes(c) /\ LaneCount > 1) \in BOOLEAN
  BY DEF HasLanes
<1>3. (IF HasLanes(c) THEN LaneCount ELSE 1) \in Nat \ {0}
  BY <1>1
<1> QED BY <1>1, <1>2, <1>3 DEF Capability, Capabilities, AsyncLanes

(* The plan, and what each pipeline makes of it.                           *)
LEMMA PlanForFits ==
  ASSUME NEW p, NEW c, ConfigOK(c), NEW in \in Inputs, NEW h \in Machines
  PROVE  PlanFits(p, c, in, PlanFor(p, c, in, h))
<1> DEFINE e == Capability(c)
           v == Profile(p, c, in)
           b == Build(c, v, h, e)
           pl == PlanFor(p, c, in, h)
<1>1. e \in Capabilities /\ e.contexts \in Nat \ {0}
  BY Engines DEF Capabilities
<1>2. v \in Videos
  <2>1. in.bytes \in Nat \ {0} /\ in.fps \in Nat
    BY RunAssumption
  <2>2. (p = "cpu" /\ Cuda(c)) \in BOOLEAN /\ (p = "bridge") \in BOOLEAN
    BY DEF Cuda
  <2> QED BY <2>1, <2>2 DEF Profile, Videos
<1>3. h \in Hardwares
  BY RunAssumption
<1> HIDE DEF e, v
<1>4. /\ b \in [budget : Int, batch : Nat \ {0}, inflight : Nat \ {0}, active : Nat \ {0},
                contexts : Nat \ {0}]
      /\ b.active = b.batch * b.inflight
      /\ b.contexts <= b.active /\ b.contexts <= e.contexts
      /\ c.setting.batch_size.auto /\ b.batch > 1 => Estimate(v, e, b.batch) <= b.budget
      /\ c.setting.inflight_batches.auto /\ b.inflight > 1 =>
             PerFrame(v, e) * b.active <= b.budget
  BY <1>1, <1>2, <1>3, BuildFits
<1> HIDE DEF b
<1>5. \E x : /\ pl = [b EXCEPT !.contexts = x]
             /\ x \in 1 .. b.active /\ x <= e.contexts
             /\ p = "blocking" => x <= b.inflight
  <2>1. CASE p = "async"
    <3> DEFINE l == AsyncLanes(c)
    <3>1. l \in Nat
      BY RunAssumption DEF AsyncLanes
    <3>2. pl = OnLanes(b, l)
      BY <2>1 DEF PlanFor, b, e, v
    <3> HIDE DEF l, pl
    <3> QED BY <1>1, <1>4, <2>1, <3>1, <3>2 DEF OnLanes, Larger, Smaller
  <2>2. CASE p = "blocking"
    <3>1. pl = OnWorkers(b)
      BY <2>2 DEF PlanFor, b, e, v
    <3> HIDE DEF pl
    <3> QED BY <1>1, <1>4, <2>2, <3>1 DEF OnWorkers, Smaller
  <2>3. CASE p # "async" /\ p # "blocking"
    <3>1. pl = Applied(b, e)
      BY <2>3 DEF PlanFor, b, e, v
    <3>2. Takes(e, b.contexts)
      BY <1>4 DEF Takes
    <3>3. pl = [b EXCEPT !.contexts = b.contexts]
      BY <1>4, <3>1, <3>2 DEF Applied
    <3> HIDE DEF pl
    <3> QED BY <1>1, <1>4, <2>3, <3>3
  <2> QED BY <2>1, <2>2, <2>3
<1>6. PICK x : /\ pl = [b EXCEPT !.contexts = x]
               /\ x \in 1 .. b.active /\ x <= e.contexts
               /\ p = "blocking" => x <= b.inflight
  BY <1>5
<1> HIDE DEF pl
<1>7. /\ pl.batch = b.batch /\ pl.inflight = b.inflight /\ pl.active = b.active
      /\ pl.budget = b.budget /\ pl.contexts = x
  BY <1>4, <1>6
<1>8. Takes(e, pl.contexts)
  BY <1>4, <1>6, <1>7 DEF Takes
<1> QED BY <1>4, <1>6, <1>7, <1>8 DEF PlanFits, pl, e, v

(* The buffers of a filter.                                                *)
LEMMA SizingFits ==
  ASSUME NEW c, ConfigOK(c), NEW in \in Inputs
  PROVE  SizesFit(c, in, Sizing(c, 2 * in.bytes))
<1> DEFINE s == Slots(c)
           w == Workers(c)
           B == 2 * in.bytes
           sz == Sizing(c, B)
<1>1. /\ c.number.frame_slots \in Int /\ c.number.frame_slots >= 1
      /\ c.number.processor_workers \in Int /\ c.number.processor_workers >= 1
  BY Names DEF ConfigOK, Configs, Least
<1>2. s \in Int /\ s >= 1 /\ s <= c.number.frame_slots
  BY <1>1 DEF Slots, Smaller
<1>3. w \in Int /\ w >= 1
  BY <1>1 DEF Workers, Smaller
<1>4. B \in Nat
  <2>1. in.bytes \in Nat
    BY RunAssumption
  <2> QED BY <2>1
<1>5. PoolBuffers(s, w) * B \in Int /\ c.number.memory_budget_mb * MiB \in Int
  <2>1. PoolBuffers(s, w) \in Int
    BY <1>2, <1>3 DEF PoolBuffers
  <2>2. c.number.memory_budget_mb \in Int /\ MiB \in Int
    BY Names, MiBAssumption DEF ConfigOK, Configs
  <2> QED BY <1>4, <2>1, <2>2
<1>6. CASE sz = NoSizes
  <2>1. sz.slots = 1 /\ sz.workers = 1
    BY <1>6 DEF NoSizes
  <2> HIDE DEF sz
  <2> QED BY <1>1, <1>6, <2>1 DEF SizesFit, sz
<1>7. CASE sz = [slots |-> s, workers |-> w] /\ ~(TooMuch(c, B) /\ c.word.memory_profile # "manual")
  <2>1. sz.slots = s /\ sz.workers = w
    BY <1>7
  <2>2. c.number.memory_budget_mb > 0 /\ c.word.memory_profile # "manual" =>
            PoolBuffers(s, w) * B <= c.number.memory_budget_mb * MiB
    BY <1>5, <1>7 DEF TooMuch
  <2> HIDE DEF sz, s, w
  <2> QED BY <1>2, <1>3, <2>1, <2>2 DEF SizesFit, sz
<1> QED BY <1>6, <1>7 DEF Sizing, NoSizes

(* Before a pipeline begins nothing is taken, and that is always sound.    *)
LEMMA NothingFits ==
  ASSUME NEW p, NEW c, ConfigOK(c), NEW in \in Inputs
  PROVE  PlanFits(p, c, in, NoPlan) /\ SizesFit(c, in, NoSizes)
<1>1. Capability(c).contexts \in Nat \ {0}
  BY Engines DEF Capabilities
<1>2. c.number.frame_slots >= 1
  BY Names DEF ConfigOK, Least
<1> HIDE DEF Capability
<1> QED BY <1>1, <1>2 DEF PlanFits, SizesFit, NoPlan, NoSizes, Takes

(* The inductive invariant of ResourcesFit: the options left and those     *)
(* taken are what the parser lets through, and as long as it reads them    *)
(* nothing is planned yet.                                                 *)
Parsing == {"main", "parse"}
RInv == /\ line \in Seq(Options) /\ ConfigOK(config) /\ video \in Inputs
        /\ pc \in Parsing => plan = NoPlan /\ sizes = NoSizes
        /\ ResourcesFit

(* Before main the options are whole and nothing is taken.                 *)
LEMMA RInit == Init => RInv
<1> SUFFICES ASSUME Init PROVE RInv
  OBVIOUS
<1>1. line \in Seq(Options) /\ ConfigOK(config) /\ video \in Inputs
  BY DefaultOK, RunAssumption DEF Init
<1>2. plan = NoPlan /\ sizes = NoSizes /\ open = {} /\ pc = "main" /\ surface = FALSE
  BY DEF Init
<1>3. NothingLeft
  BY <1>2 DEF NothingLeft
<1> QED BY <1>1, <1>2, <1>3, NothingFits DEF RInv, ResourcesFit

(* A step that changes neither the configuration nor what is taken.        *)
LEMMA RKept ==
  ASSUME RInv, UNCHANGED <<line, config, video, plan, sizes, path>>,
         pc' \in Parsing => pc \in Parsing, NothingLeft'
  PROVE  RInv'
  BY DEF RInv, ResourcesFit

(* A step that begins a pipeline.                                          *)
LEMMA RBegun ==
  ASSUME RInv, NEW p, Begin(p), UNCHANGED <<line, config>>, pc \in {"parse", "back"}
  PROVE  RInv'
<1>1. /\ plan' = NoPlan /\ sizes' = sizes /\ video' = video /\ pc' = "set_up" /\ path' = p
      /\ surface' = surface
  BY DEF Begin
<1>2. NothingLeft'
  BY <1>1 DEF RInv, ResourcesFit, NothingLeft
<1>3. PlanFits(p, config, video, NoPlan) /\ SizesFit(config, video, sizes)
  BY NothingFits DEF RInv, ResourcesFit
<1>4. (PlanFits(path, config, video, plan) /\ SizesFit(config, video, sizes))'
  BY <1>1, <1>3
<1> QED BY <1>1, <1>2, <1>4 DEF RInv, ResourcesFit, Parsing

(* Every step of the program keeps the invariant.                          *)
LEMMA RStep == RInv /\ [Next]_vars => RInv'
<1> SUFFICES ASSUME RInv, [Next]_vars PROVE RInv'
  OBVIOUS
<1>0. NothingLeft
  BY DEF RInv, ResourcesFit
<1> DEFINE Same == UNCHANGED <<line, config, video, plan, sizes, path>>
           Later == pc' \in Parsing => pc \in Parsing
<1>13. ASSUME Same, Later, NothingLeft' PROVE RInv'
  BY <1>13, RKept
<1> USE DEF setting, control, sizing, reading
<1>1. CASE Aside
  <2>1. Same
    BY <1>1 DEF Aside, Exit, Working
  <2>2. Later /\ NothingLeft'
    BY <1>0, <1>1 DEF Aside, Exit, Working, NothingLeft, Parsing
  <2> QED BY <1>13, <2>1, <2>2
<1>2. CASE ParseOption
  <2>1. pc = "parse" /\ UNCHANGED <<video, plan, sizes, path, open, surface>>
        /\ pc' \in {"parse", "exit"}
    BY <1>2 DEF ParseOption, Exit, Working
  <2>2. NothingLeft'
    BY <1>0, <2>1 DEF NothingLeft
  <2>3. plan = NoPlan /\ sizes = NoSizes
    BY <2>1 DEF RInv, Parsing
  <2>4. line' \in Seq(Options) /\ ConfigOK(config')
    <3>1. CASE Accepted(Head(line))
      <4>1. Head(line) \in Options /\ Tail(line) \in Seq(Options)
        BY <1>2 DEF ParseOption, RInv
      <4>2. ConfigOK(config)
        BY DEF RInv
      <4>3. config' = Taken(config, Head(line)) /\ line' = Tail(line)
        BY <1>2, <3>1 DEF ParseOption
      <4> QED BY <3>1, <4>1, <4>2, <4>3, TakenOK
    <3>2. CASE ~Accepted(Head(line))
      BY <1>2, <3>2 DEF ParseOption, RInv
    <3> QED BY <3>1, <3>2
  <2>5. PlanFits(path, config', video, NoPlan) /\ SizesFit(config', video, NoSizes)
    BY <2>4, NothingFits DEF RInv
  <2>6. (PlanFits(path, config, video, plan) /\ SizesFit(config, video, sizes))'
    BY <2>1, <2>3, <2>5
  <2> QED BY <2>1, <2>2, <2>3, <2>4, <2>6 DEF RInv, ResourcesFit
<1>3. CASE Dispatch
  <2>1. CASE Begin(FirstPath(config))
    BY <1>3, <2>1, RBegun DEF Dispatch
  <2>2. CASE \E code \in {0, -1} : Exit(code) /\ Working
    <3>1. Same /\ Later /\ NothingLeft'
      BY <1>0, <1>3, <2>2 DEF Dispatch, Exit, Working, NothingLeft, Parsing
    <3> QED BY <1>13, <3>1
  <2> QED BY <1>3, <2>1, <2>2 DEF Dispatch
<1>4. CASE Return
  <2>1. CASE \E p \in {"blocking", "cpu"} : Begin(p)
    BY <1>4, <2>1, RBegun DEF Return
  <2>2. CASE \E code \in {0, -1} : Exit(code) /\ Working
    <3>1. Same /\ Later /\ NothingLeft'
      BY <1>0, <1>4, <2>2 DEF Return, Exit, Working, NothingLeft, Parsing
    <3> QED BY <1>13, <3>1
  <2> QED BY <1>4, <2>1, <2>2 DEF Return
<1>5. CASE MakePlan
  <2>1. /\ UNCHANGED <<line, config, video, sizes, path, surface, pc>> /\ pc = "set_up"
        /\ \E h \in Machines : plan' = PlanFor(path, config, video, h)
    BY <1>5 DEF MakePlan, Done, AtStep
  <2>2. NothingLeft'
    BY <1>0, <2>1 DEF NothingLeft
  <2>3. ConfigOK(config) /\ video \in Inputs /\ line \in Seq(Options)
    BY DEF RInv
  <2>4. PlanFits(path, config, video, plan') /\ SizesFit(config, video, sizes)
    BY <2>1, <2>3, PlanForFits DEF RInv, ResourcesFit
  <2>5. (PlanFits(path, config, video, plan) /\ SizesFit(config, video, sizes))'
    BY <2>1, <2>4
  <2> QED BY <2>1, <2>2, <2>3, <2>5 DEF RInv, ResourcesFit, Parsing
<1>6. CASE MakeBuffers
  <2>1. /\ UNCHANGED <<line, config, video, plan, path, surface, pc>> /\ pc = "set_up"
        /\ sizes' = IF path = "filter" THEN Sizing(config, 2 * video.bytes) ELSE sizes
    BY <1>6 DEF MakeBuffers, Done, AtStep
  <2>2. NothingLeft'
    BY <1>0, <2>1 DEF NothingLeft
  <2>3. ConfigOK(config) /\ video \in Inputs /\ line \in Seq(Options)
    BY DEF RInv
  <2>4. PlanFits(path, config, video, plan) /\ SizesFit(config, video, sizes')
    BY <2>1, <2>3, SizingFits DEF RInv, ResourcesFit
  <2>5. (PlanFits(path, config, video, plan) /\ SizesFit(config, video, sizes))'
    BY <2>1, <2>4
  <2> QED BY <2>1, <2>2, <2>3, <2>5 DEF RInv, ResourcesFit, Parsing
<1> DEFINE Inner == {"set_up", "body", "fill", "infer", "write", "finish", "clean_up"}
<1>14. ASSUME Same, pc \in Inner, pc' \in Inner, surface' = surface PROVE RInv'
  BY <1>0, <1>13, <1>14 DEF NothingLeft, Parsing
<1>7. CASE OpenOther \/ Skip \/ OpenOutput \/ CreateEngine \/ CountLanes \/ SetUpFails \/ Start
  <2>1. ASSUME Fail PROVE pc' = "clean_up" /\ path' = path
    BY <2>1 DEF Fail, CleanUpWith
  <2>2. ASSUME NEW step, Done(step) PROVE pc = "set_up" /\ UNCHANGED <<line, config, pc, path>>
    BY <2>2 DEF Done, AtStep
  <2>3. CASE OpenOther
    <3>1. PICK step : Done(step)
      BY <2>3 DEF OpenOther
    <3>2. Working
      BY <2>3 DEF OpenOther
    <3> QED BY <1>14, <2>2, <3>1, <3>2 DEF Working
  <2>4. CASE OpenOutput
    <3>1. PICK step : Done(step)
      BY <2>4 DEF OpenOutput
    <3>2. UNCHANGED <<sizing, reading>>
      BY <2>4 DEF OpenOutput
    <3> QED BY <1>14, <2>2, <3>1, <3>2
  <2>5. CASE CreateEngine
    <3>1. Done("engine") /\ UNCHANGED <<sizing, reading>>
      BY <2>5 DEF CreateEngine
    <3> QED BY <1>14, <2>2, <3>1
  <2>6. CASE Skip \/ CountLanes \/ Start
    BY <1>14, <2>2, <2>6 DEF Skip, CountLanes, Start, AtStep, CleanUpWith, Working
  <2>7. CASE SetUpFails
    <3>1. pc = "set_up" /\ Fail /\ UNCHANGED <<setting, sizing, reading>>
      BY <2>7 DEF SetUpFails, AtStep
    <3> QED BY <1>14, <2>1, <3>1
  <2> QED BY <1>7, <2>3, <2>4, <2>5, <2>6, <2>7
<1>8. CASE BodyDelivers \/ BodyEnds
  <2>1. CASE BodyDelivers
    BY <1>14, <2>1 DEF BodyDelivers
  <2>2. CASE BodyEnds
    <3>1. pc = "body" /\ Working /\ UNCHANGED setting /\ pc' = "clean_up" /\ path' = path
      BY <2>2 DEF BodyEnds, Fail, CleanUpWith
    <3> QED BY <1>14, <3>1 DEF Working
  <2> QED BY <1>8, <2>1, <2>2
<1>9. CASE ReadFrame \/ Transfer \/ ReadEnd \/ ReadFails \/ EndFill
  <2>1. CASE ReadFrame
    <3>1. CASE path = "cpu"
      BY <1>14, <2>1, <3>1 DEF ReadFrame, Reads
    <3>2. CASE path # "cpu"
      <4>1. Same /\ pc' = "transfer" /\ surface' = TRUE
        BY <2>1, <3>2 DEF ReadFrame
      <4>2. Later /\ NothingLeft'
        BY <4>1 DEF NothingLeft, Parsing
      <4> QED BY <1>13, <4>1, <4>2
    <3> QED BY <3>1, <3>2
  <2>2. CASE Transfer
    <3>1. Same /\ pc = "transfer" /\ pc' \in {"fill", "clean_up"} /\ surface' = FALSE
      BY <2>2 DEF Transfer, Fail, CleanUpWith
    <3>2. Later /\ NothingLeft'
      BY <1>0, <3>1 DEF NothingLeft, Parsing
    <3> QED BY <1>13, <3>1, <3>2
  <2>3. CASE ReadEnd
    BY <1>14, <2>3 DEF ReadEnd, Reads
  <2>4. CASE ReadFails
    <3>1. pc = "fill" /\ Working /\ UNCHANGED setting /\ pc' = "clean_up" /\ path' = path
      BY <2>4 DEF ReadFails, Reads, Fail, CleanUpWith
    <3> QED BY <1>14, <3>1 DEF Working
  <2>5. CASE EndFill
    BY <1>14, <2>5 DEF EndFill
  <2> QED BY <1>9, <2>1, <2>2, <2>3, <2>4, <2>5
<1>10. CASE StartCalls \/ SizingFails \/ Threads \/ JoinCalls
  <2>1. Same /\ pc = "infer" /\ surface' = surface /\ pc' \in {"infer", "write", "clean_up"}
    BY <1>10 DEF StartCalls, SizingFails, Threads, JoinCalls, CheckSize, FreeBuffer,
       AllocateBuffer, Upload, Infer, CallFails, Inferring, Fail, CleanUpWith
  <2>2. Later /\ NothingLeft'
    BY <1>0, <2>1 DEF NothingLeft, Parsing
  <2> QED BY <1>13, <2>1, <2>2
<1>11. CASE WriteRow \/ WriteFails \/ NextBatch \/ Finish \/ CleanUp
  <2>1. CASE WriteRow
    BY <1>14, <2>1 DEF WriteRow, Unwritten
  <2>2. CASE WriteFails
    BY <1>14, <2>2 DEF WriteFails, Unwritten, Fail, CleanUpWith
  <2>3. CASE NextBatch
    BY <1>14, <2>3 DEF NextBatch
  <2>4. CASE Finish
    <3>1. pc = "finish" /\ Working /\ UNCHANGED setting /\ pc' = "clean_up" /\ path' = path
      BY <2>4 DEF Finish, Fail, CleanUpWith
    <3> QED BY <1>14, <3>1 DEF Working
  <2>5. CASE CleanUp
    <3>1. Same /\ pc = "clean_up" /\ pc' = "back" /\ open' = {} /\ surface' = surface
      BY <2>5 DEF CleanUp, Working
    <3>2. Later /\ NothingLeft'
      BY <1>0, <3>1 DEF NothingLeft, Parsing
    <3> QED BY <1>13, <3>1, <3>2
  <2> QED BY <1>11, <2>1, <2>2, <2>3, <2>4, <2>5
<1>12. CASE Exited \/ UNCHANGED vars
  <2>1. Same /\ Later /\ NothingLeft'
    BY <1>0, <1>12 DEF Exited, vars, NothingLeft
  <2> QED BY <1>13, <2>1
<1> QED
  BY <1>1, <1>2, <1>3, <1>4, <1>5, <1>6, <1>7, <1>8, <1>9, <1>10, <1>11, <1>12 DEF Next

(* Whatever the options, the video, the hardware and the failures: the     *)
(* plan, the filter's buffers and what is open keep to ResourcesFit.       *)
THEOREM ResourcesAlwaysFit == Spec => []ResourcesFit
<1>1. RInv => ResourcesFit
  BY DEF RInv
<1> QED BY RInit, RStep, <1>1, PTL DEF Spec

-----------------------------------------------------------------------------
(* What a success means.                                                   *)

Pipelines == {"filter", "cpu", "bridge", "async", "blocking"}
AllSteps == {"paths", "reader", "buffers", "writer", "benchmark", "gpu", "csv", "engine", "lanes",
             "plan", "engines"}
Has(s, x) == \E i \in DOMAIN s : s[i] = x

(* The pipelines a configuration may get to, by dispatch or by fallback.   *)
PathOK(p, c) == /\ p = "filter" <=> c.word.task = "filter"
                /\ p \in {"async", "blocking"} => Nvdec(c) /\ Cuda(c)
                /\ p = "bridge" => Nvdec(c) /\ ~Cuda(c)
                /\ p = "cpu" => (Nvdec(c) => FallsBack(c))
                /\ p \in {"cpu", "bridge"} => ~Draws(c)

(* What a success of a pipeline is to have open.                           *)
Must(p, c, x) == \/ x = "writer" /\ (p = "filter" \/ Draws(c))
                 \/ x = "gpu" /\ p = "filter" /\ c.word.mode = "gpu"
                 \/ x = "benchmark" /\ "benchmark" \in c.flags

(* The inductive invariant of SuccessIsWhatWasAsked: during the set-up     *)
(* what must be open is open or still to come, and from then on it is open.*)
Loop == {"body", "fill", "transfer", "infer", "write", "finish"}
SInv == /\ todo \in Seq(AllSteps)
        /\ pc \in Parsing => path = "none"
        /\ pc \notin Parsing \union {"exit"} => path \in Pipelines /\ PathOK(path, config)
        /\ pc = "set_up" => \A x : Must(path, config, x) => x \in open \/ Has(todo, x)
        /\ pc \in Loop \/ (pc = "clean_up" /\ result = 0) =>
               \A x : Must(path, config, x) => x \in open

(* The invariant at the clean-up after a success.                          *)
LEMMA SInvIsEnough == SInv => SuccessIsWhatWasAsked
  BY DEF SInv, SuccessIsWhatWasAsked, PathOK, Must, Parsing

(* The tail of a sequence; a member of it is its head or in its tail.      *)
LEMMA TailOf ==
  ASSUME NEW S, NEW s \in Seq(S), s # <<>>
  PROVE  Tail(s) \in Seq(S)
  OBVIOUS

LEMMA HeadOrTail ==
  ASSUME NEW S, NEW s \in Seq(S), s # <<>>, NEW x, Has(s, x)
  PROVE  x = Head(s) \/ Has(Tail(s), x)
<1>1. PICK i \in 1 .. Len(s) : s[i] = x
  BY DEF Has
<1>2. CASE i = 1
  BY <1>1, <1>2
<1>3. CASE i # 1
  <2>1. i - 1 \in DOMAIN Tail(s) /\ Tail(s)[i - 1] = x
    BY <1>1, <1>3
  <2> QED BY <2>1 DEF Has
<1> QED BY <1>2, <1>3

(* Every pipeline has the steps that open what a success must have.        *)
LEMMA StepsHave ==
  ASSUME NEW p \in Pipelines, NEW c, PathOK(p, c)
  PROVE  Steps[p] \in Seq(AllSteps) /\ \A x : Must(p, c, x) => Has(Steps[p], x)
<1>1. CASE p = "filter"
  <2>1. Steps[p] = <<"reader", "buffers", "writer", "benchmark", "gpu">>
    BY <1>1 DEF Steps
  <2>2. Has(Steps[p], "writer") /\ Has(Steps[p], "benchmark") /\ Has(Steps[p], "gpu")
    <3>1. 3 \in DOMAIN Steps[p] /\ 4 \in DOMAIN Steps[p] /\ 5 \in DOMAIN Steps[p]
      BY <2>1
    <3> QED BY <2>1, <3>1 DEF Has
  <2>3. Steps[p] \in Seq(AllSteps)
    BY <2>1 DEF AllSteps
  <2> QED BY <2>2, <2>3 DEF Must
<1>2. CASE p \in {"cpu", "bridge"}
  <2>1. Steps[p] = <<"paths", "reader", "csv", "benchmark", "engine", "plan", "buffers">>
    BY <1>2 DEF Steps
  <2>2. Has(Steps[p], "benchmark")
    BY <2>1 DEF Has
  <2>3. Steps[p] \in Seq(AllSteps)
    BY <2>1 DEF AllSteps
  <2>4. ~Draws(c) /\ p # "filter"
    BY <1>2 DEF PathOK
  <2> QED BY <2>2, <2>3, <2>4 DEF Must
<1>3. CASE p = "async"
  <2>1. Steps[p] = <<"paths", "reader", "csv", "benchmark", "engine", "lanes", "plan", "writer",
                     "buffers">>
    BY <1>3 DEF Steps
  <2>2. Has(Steps[p], "benchmark") /\ Has(Steps[p], "writer")
    <3>1. 4 \in DOMAIN Steps[p] /\ 8 \in DOMAIN Steps[p]
      BY <2>1
    <3> QED BY <2>1, <3>1 DEF Has
  <2>3. Steps[p] \in Seq(AllSteps)
    BY <2>1 DEF AllSteps
  <2> QED BY <1>3, <2>2, <2>3 DEF Must
<1>4. CASE p = "blocking"
  <2>1. Steps[p] = <<"paths", "reader", "csv", "benchmark", "engine", "plan", "engines", "buffers",
                     "writer">>
    BY <1>4 DEF Steps
  <2>2. Has(Steps[p], "benchmark") /\ Has(Steps[p], "writer")
    <3>1. 4 \in DOMAIN Steps[p] /\ 9 \in DOMAIN Steps[p]
      BY <2>1
    <3> QED BY <2>1, <3>1 DEF Has
  <2>3. Steps[p] \in Seq(AllSteps)
    BY <2>1 DEF AllSteps
  <2> QED BY <1>4, <2>2, <2>3 DEF Must
<1> QED BY <1>1, <1>2, <1>3, <1>4 DEF Pipelines

(* Before main no pipeline has begun.                                      *)
LEMMA SInit == Init => SInv
  BY DEF Init, SInv, Parsing, Loop

(* A step within the set-up that leaves the steps to come as they are or   *)
(* takes the first of them, having opened it if it must be open.           *)
LEMMA SStepTaken ==
  ASSUME SInv, pc = "set_up", UNCHANGED <<pc, path, config>>, todo # <<>>, todo' = Tail(todo),
         open \subseteq open', Must(path, config, Head(todo)) => Head(todo) \in open'
  PROVE  SInv'
<1>1. todo' \in Seq(AllSteps)
  <2>1. todo \in Seq(AllSteps)
    BY DEF SInv
  <2> QED BY <2>1, TailOf
<1>2. ASSUME NEW x, Must(path, config, x) PROVE x \in open' \/ Has(todo', x)
  <2>1. x \in open \/ Has(todo, x)
    BY <1>2 DEF SInv
  <2>2. CASE Has(todo, x)
    <3>1. x = Head(todo) \/ Has(Tail(todo), x)
      BY <2>2, HeadOrTail DEF SInv
    <3> QED BY <1>2, <3>1
  <2> QED BY <2>1, <2>2
<1> QED BY <1>1, <1>2 DEF SInv, Parsing, Loop

(* A pipeline begins that the configuration may get to.                    *)
LEMMA SBegun ==
  ASSUME SInv, NEW p \in Pipelines, Begin(p), config' = config, PathOK(p, config)
  PROVE  SInv'
<1>1. pc' = "set_up" /\ path' = p /\ todo' = Steps[p]
  BY DEF Begin
<1>2. Steps[p] \in Seq(AllSteps) /\ \A x : Must(p, config, x) => Has(Steps[p], x)
  BY StepsHave
<1> QED BY <1>1, <1>2 DEF SInv, Parsing, Loop

(* A step that ends a pipeline, or that stays within one.                  *)
LEMMA SEnded ==
  ASSUME SInv, pc \notin Parsing \union {"exit"}, UNCHANGED <<path, todo, config>>,
         \/ pc' = "clean_up" /\ result' # 0
         \/ pc' \in {"exit", "back"}
         \/ pc \in Loop /\ pc' \in Loop \union {"clean_up"} /\ open' = open
  PROVE  SInv'
  BY DEF SInv, Parsing, Loop

(* The results of a failure are not that of a success.                     *)
LEMMA Negative == -1 # 0 /\ -2 # 0
  OBVIOUS

(* No step is left in an empty set-up.                                     *)
LEMMA EmptyHas == \A x : ~Has(<<>>, x)
  BY DEF Has

(* Every step of the program keeps the invariant.                          *)
LEMMA SStep == RInv /\ SInv /\ [Next]_vars => SInv'
<1> SUFFICES ASSUME RInv, SInv, [Next]_vars PROVE SInv'
  OBVIOUS
<1> USE DEF setting, control
<1>0. config.word.task \in {"filter", "detect"}
  BY Names DEF RInv, ConfigOK, Words
<1>1. CASE Aside
  <2>1. /\ pc = "main" /\ pc' \in {"parse", "exit"} /\ UNCHANGED <<path, todo, config>>
    BY <1>1 DEF Aside, Exit
  <2> QED BY <2>1 DEF SInv, Parsing, Loop
<1>2. CASE ParseOption
  <2>1. /\ pc = "parse" /\ pc' \in {"parse", "exit"} /\ UNCHANGED <<path, todo>>
    BY <1>2 DEF ParseOption, Exit
  <2> QED BY <2>1 DEF SInv, Parsing, Loop
<1>3. CASE Dispatch
  <2>1. CASE \E code \in {0, -1} : Exit(code)
    <3>1. /\ pc = "parse" /\ pc' = "exit" /\ UNCHANGED <<path, todo, config>>
      BY <1>3, <2>1 DEF Dispatch, Exit
    <3> QED BY <3>1 DEF SInv, Parsing, Loop
  <2>2. CASE /\ Begin(FirstPath(config)) /\ config' = config
             /\ config.word.task = "detect" => Topology(config)
    <3>1. FirstPath(config) \in Pipelines /\ PathOK(FirstPath(config), config)
      BY <1>0, <2>2 DEF FirstPath, PathOK, Topology, Pipelines
    <3> QED BY <2>2, <3>1, SBegun
  <2> QED BY <1>3, <2>1, <2>2 DEF Dispatch
<1>4. CASE Return
  <2>0. pc = "back" /\ config' = config /\ path \in Pipelines /\ PathOK(path, config)
    BY <1>4 DEF Return, SInv, Parsing
  <2>1. CASE path = "async" /\ Begin("blocking")
    <3>1. PathOK("blocking", config)
      BY <2>0, <2>1 DEF PathOK
    <3> QED BY <2>0, <2>1, <3>1, SBegun DEF Pipelines
  <2>2. CASE MayFallBack /\ Begin("cpu")
    <3>1. PathOK("cpu", config)
      BY <2>0, <2>2 DEF PathOK, MayFallBack
    <3> QED BY <2>0, <2>2, <3>1, SBegun DEF Pipelines
  <2>3. CASE \E code \in {0, -1} : Exit(code)
    BY <2>0, <2>3, SEnded DEF Exit, Parsing
  <2> QED BY <1>4, <2>1, <2>2, <2>3 DEF Return
<1>5. ASSUME Fail, UNCHANGED setting, pc \notin Parsing \union {"exit"} PROVE SInv'
  <2>1. pc' = "clean_up" /\ result' = -1 /\ UNCHANGED <<path, todo>>
    BY <1>5 DEF Fail, CleanUpWith
  <2>2. result' # 0
    BY <2>1, Negative, Zenon
  <2> QED BY <1>5, <2>1, <2>2, SEnded
<1>6. ASSUME NEW step, Done(step) PROVE SInv'
  <2>1. /\ pc = "set_up" /\ UNCHANGED <<pc, path, config>> /\ todo # <<>> /\ todo' = Tail(todo)
        /\ Head(todo) = step /\ open' = open \union Kept(step)
    BY <1>6 DEF Done, AtStep
  <2>2. Must(path, config, step) => step \in Kept(step)
    BY DEF Must, Kept
  <2> QED BY <2>1, <2>2, SStepTaken
<1>7. CASE OpenOther \/ OpenOutput \/ CreateEngine \/ MakePlan \/ MakeBuffers
  BY <1>6, <1>7 DEF OpenOther, OpenOutput, CreateEngine, MakePlan, MakeBuffers
<1>8. CASE Skip
  <2>1. /\ pc = "set_up" /\ UNCHANGED <<pc, path, config>> /\ todo # <<>> /\ todo' = Tail(todo)
        /\ open' = open /\ ~Needed(path, config, Head(todo))
    BY <1>8 DEF Skip
  <2>2. Must(path, config, Head(todo)) => Needed(path, config, Head(todo))
    BY DEF Must, Needed
  <2> QED BY <2>1, <2>2, SStepTaken
<1>9. CASE CountLanes
  <2>1. CASE Done("lanes")
    BY <1>6, <2>1
  <2>2. CASE AtStep /\ CleanUpWith(-2) /\ config' = config
    <3>1. /\ pc = "set_up" /\ pc' = "clean_up" /\ result' = -2
          /\ UNCHANGED <<path, todo, config>>
      BY <2>2 DEF AtStep, CleanUpWith
    <3>2. result' # 0
      BY <3>1, Negative, Zenon
    <3> QED BY <3>1, <3>2, SEnded DEF Parsing
  <2> QED BY <1>9, <2>1, <2>2 DEF CountLanes
<1>10. CASE SetUpFails
  BY <1>5, <1>10 DEF SetUpFails, AtStep, Parsing
<1>11. CASE Start
  <2>1. /\ pc = "set_up" /\ todo = <<>> /\ pc' \in Loop /\ UNCHANGED <<path, todo, open, config>>
    BY <1>11 DEF Start, Loop
  <2>2. \A x : ~Has(todo, x)
    BY <2>1, EmptyHas
  <2> QED BY <2>1, <2>2 DEF SInv, Parsing, Loop
<1>12. ASSUME pc \in Loop, pc' \in Loop \union {"clean_up"}, UNCHANGED <<config, path, todo, open>>
       PROVE  SInv'
  BY <1>12, SEnded DEF Parsing, Loop
<1>13. ASSUME pc \in Loop, Fail, UNCHANGED setting PROVE SInv'
  BY <1>5, <1>13 DEF Parsing, Loop
<1>14. CASE BodyDelivers \/ ReadEnd \/ WriteRow
  BY <1>12, <1>14 DEF BodyDelivers, ReadEnd, WriteRow, Reads, Unwritten, Loop
<1>15. CASE BodyEnds
  <2>1. pc = "body" /\ UNCHANGED setting /\ (Fail \/ \E code \in {0, -1} : CleanUpWith(code))
    BY <1>15 DEF BodyEnds
  <2> QED BY <1>12, <1>13, <2>1 DEF CleanUpWith, Loop
<1>16. CASE ReadFrame \/ EndFill \/ NextBatch
  BY <1>12, <1>16 DEF ReadFrame, EndFill, NextBatch, Reads, Loop
<1>17. CASE Transfer
  <2>1. pc = "transfer" /\ UNCHANGED setting
    BY <1>17 DEF Transfer
  <2>2. Fail \/ (pc' = "fill" /\ UNCHANGED <<path, todo, open>>)
    BY <1>17 DEF Transfer
  <2> QED BY <1>12, <1>13, <2>1, <2>2 DEF Loop
<1>18. CASE ReadFails \/ WriteFails
  BY <1>13, <1>18 DEF ReadFails, WriteFails, Reads, Unwritten, Loop
<1>19. CASE StartCalls \/ Threads
  <2>1. pc = "infer" /\ UNCHANGED <<config, path, todo, open, pc>>
    BY <1>19 DEF StartCalls, Threads, CheckSize, FreeBuffer, AllocateBuffer, Upload, Infer,
       CallFails, Inferring
  <2> QED BY <1>12, <2>1 DEF Loop
<1>20. CASE SizingFails
  BY <1>13, <1>20 DEF SizingFails, Inferring, Loop
<1>21. CASE JoinCalls
  <2>1. pc = "infer" /\ pc' \in {"write", "clean_up"} /\ UNCHANGED <<config, path, todo, open>>
    BY <1>21 DEF JoinCalls, Inferring, CleanUpWith
  <2> QED BY <1>12, <2>1 DEF Loop
<1>22. CASE Finish
  <2>1. pc = "finish" /\ UNCHANGED setting /\ (Fail \/ CleanUpWith(0))
    BY <1>22 DEF Finish
  <2> QED BY <1>12, <1>13, <2>1 DEF CleanUpWith, Loop
<1>23. CASE CleanUp
  BY <1>23, SEnded DEF CleanUp, Parsing
<1>24. CASE Exited \/ UNCHANGED vars
  BY <1>24 DEF Exited, vars, SInv, Has, PathOK, Must, Nvdec, Cuda, Draws, FallsBack
<1> QED
  BY <1>1, <1>2, <1>3, <1>4, <1>7, <1>8, <1>9, <1>10, <1>11, <1>14, <1>15, <1>16, <1>17, <1>18,
     <1>19, <1>20, <1>21, <1>22, <1>23, <1>24 DEF Next

(* Whatever fails and whichever pipelines are tried, a pipeline that       *)
(* succeeds has done what the options ask (SuccessIsWhatWasAsked).         *)
THEOREM SuccessIsAlwaysWhatWasAsked == Spec => []SuccessIsWhatWasAsked
<1>1. Init => RInv /\ SInv
  BY RInit, SInit
<1>2. RInv /\ SInv /\ [Next]_vars => (RInv /\ SInv)'
  BY RStep, SStep
<1>3. RInv /\ SInv => SuccessIsWhatWasAsked
  BY SInvIsEnough
<1> QED BY <1>1, <1>2, <1>3, PTL DEF Spec

-----------------------------------------------------------------------------
(* What the output holds.                                                  *)

(* The engine whose calls, run in parallel, free and allocate the buffers  *)
(* of all lanes under each other: its first frames may be lost that way    *)
(* (LanesOwnTheirBuffers is violated), so that nothing is shown of it.     *)
Racing(c) == /\ Runtime(c) = "onnxruntime" /\ Cuda(c) /\ LaneCount > 1
             /\ c.word.parallel_inference # "off"

(* As many calls at a time as there are lanes, and without TensorRT one.   *)
PlanOK(c, p, pl) ==
    /\ pl.batch \in Nat \ {0} /\ pl.contexts \in 1 .. LaneCount
    /\ p \in {"cpu", "bridge"} /\ ~Racing(c) /\ Runtime(c) # "tensorrt" => pl.contexts = 1

(* The batch holds the frames before the next one, and no frame is read    *)
(* beyond the video or the limit.                                          *)
Batching == {"fill", "transfer", "infer", "write", "finish"}
ReadOK ==
    /\ pc = "set_up" => batch = <<>> /\ frame = 0 /\ eof = FALSE
    /\ pc \in Batching =>
          /\ path \in {"cpu", "bridge"}
          /\ frame \in Nat /\ frame <= video.frames
          /\ config.number.max_frames > 0 => frame <= config.number.max_frames
          /\ Len(batch) \in Nat /\ Len(batch) <= frame
          /\ batch = [i \in 1 .. Len(batch) |-> frame - Len(batch) + i - 1]
          /\ eof \in BOOLEAN /\ (eof = TRUE => frame = video.frames)
    /\ pc = "transfer" => frame < video.frames /\ ~AtLimit

(* No two lanes share a buffer, and a new buffer is none of those in use.  *)
LanesOK == /\ lane \in [LaneSet -> Nat] /\ fresh \in Nat /\ sized \in BOOLEAN
           /\ \A l \in LaneSet : lane[l] <= fresh
           /\ \A l, m \in LaneSet : lane[l] = lane[m] /\ lane[l] # Null => l = m

(* Calls that run at the same time have a lane each, the buffers of which  *)
(* TensorRT has sized before; a call that infers reads its own frame.      *)
Places == {"waiting", "check", "free", "allocate", "upload", "infer", "done", "failed"}
CallStates == [at : Places, next : Nat, buffer : Nat]
Running == {i \in DOMAIN thread : thread[i].at \notin {"waiting", "done", "failed"}}
Shares(i, j) == i # j /\ ~(Runtime(config) = "tensorrt" /\ LaneOf(i) # LaneOf(j))
Resizes(i) == thread[i].at \in {"free", "allocate"}
Owns(i) == /\ thread[i].buffer \in DOMAIN content \ {Null} /\ Holds(i)
           /\ content[thread[i].buffer] = batch[i]
CallsOK ==
    /\ pc \in {"infer", "write"} =>
          /\ thread \in [1 .. Len(batch) -> CallStates]
          /\ found \in [1 .. Len(batch) -> Int]
          /\ \A i \in 1 .. Len(batch) : thread[i].at = "done" => found[i] = batch[i]
    /\ pc = "write" => \A i \in 1 .. Len(batch) : found[i] = batch[i]
    /\ pc = "infer" =>
          /\ \A i, j \in Running : ~Shares(i, j)
          /\ Runtime(config) = "tensorrt" =>
                 \A i \in Running : sized = TRUE /\ ~Resizes(i)
          /\ HasLanes(config) => \A i \in Calls("infer") : Owns(i)

(* The rows of the output are those of the frames before the batch and of  *)
(* the part of the batch that is written, from a new file on.              *)
WriteOK ==
    /\ Len(out) \in Nat /\ out = FirstFrames(Len(out))
    /\ pc = "set_up" /\ path \in {"cpu", "bridge"} =>
           Has(todo, "csv") \/ (out = <<>> /\ written = 0)
    /\ pc \in {"fill", "transfer", "infer", "write"} =>
           /\ written \in 0 .. Len(batch) /\ (pc # "write" => written = 0)
           /\ Len(out) = frame - Len(batch) + written
    /\ pc = "finish" => Len(out) = Target
    /\ pc \in {"clean_up", "back", "exit"} /\ result = 0 /\ path # "none" => Len(out) = Target

(* The inductive invariant of OutputIsOfOneRun.                            *)
OInv == /\ pc \in Parsing => out = <<>>
        /\ PlanOK(config, path, plan) /\ ReadOK /\ LanesOK
        /\ ~Racing(config) => CallsOK /\ WriteOK

(* What the numbers of a run are.                                          *)
LEMMA NumbersOf ==
  ASSUME RInv
  PROVE  /\ video.frames \in Nat /\ config.number.max_frames \in Int
         /\ LaneCount \in Nat \ {0}
  BY Names, RunAssumption DEF RInv, ConfigOK, Configs

(* The invariant at the end of a run.                                      *)
LEMMA OInvIsEnough ==
  SInv /\ OInv => (~Racing(config) => OutputIsOfOneRun /\ LanesOwnTheirBuffers)
  BY DEF OInv, WriteOK, CallsOK, OutputIsOfOneRun, LanesOwnTheirBuffers, Owns, Calls

(* A frame read: the batch is longer by the frame that was next.           *)
LEMMA BatchFilled ==
  ASSUME NEW f \in Nat, NEW b, Len(b) \in Nat,
         b = [i \in 1 .. Len(b) |-> f - Len(b) + i - 1]
  PROVE  /\ Len(Append(b, f)) = Len(b) + 1
         /\ Append(b, f) = [i \in 1 .. Len(b) + 1 |-> (f + 1) - (Len(b) + 1) + i - 1]
<1> DEFINE n == Len(b)
<1>1. b \in Seq(Int)
  <2>1. \A i \in 1 .. n : f - n + i - 1 \in Int
    OBVIOUS
  <2> QED BY <2>1
<1>2. Len(Append(b, f)) = n + 1 /\ Append(b, f) = [i \in 1 .. n + 1 |-> Append(b, f)[i]]
  <2> DEFINE x == Append(b, f)
  <2>1. x \in Seq(Int) /\ Len(x) = Len(b) + 1
    BY <1>1
  <2> HIDE DEF x
  <2>2. x = [i \in 1 .. Len(x) |-> x[i]]
    BY <2>1
  <2> QED BY <2>1, <2>2 DEF x
<1>3. ASSUME NEW i \in 1 .. n + 1 PROVE Append(b, f)[i] = (f + 1) - (n + 1) + i - 1
  <2>1. CASE i = n + 1
    BY <1>1, <2>1
  <2>2. CASE i # n + 1
    <3>1. i \in 1 .. n
      BY <2>2
    <3>2. Append(b, f)[i] = b[i] /\ b[i] = f - n + i - 1
      BY <1>1, <3>1
    <3> QED BY <3>1, <3>2
  <2> QED BY <2>1, <2>2
<1> QED BY <1>2, <1>3

(* A row written: the output is longer by the frame that was next.         *)
LEMMA RowAppended ==
  ASSUME NEW o, Len(o) \in Nat, o = FirstFrames(Len(o))
  PROVE  /\ Len(Append(o, Len(o))) = Len(o) + 1
         /\ Append(o, Len(o)) = FirstFrames(Len(o) + 1)
<1> DEFINE n == Len(o)
<1>1. o = [i \in 1 .. n |-> i - 1]
  BY DEF FirstFrames
<1>2. o \in Seq(Int)
  <2>1. \A i \in 1 .. n : i - 1 \in Int
    OBVIOUS
  <2> QED BY <1>1, <2>1
<1>3. Len(Append(o, n)) = n + 1 /\ Append(o, n) = [i \in 1 .. n + 1 |-> Append(o, n)[i]]
  <2> DEFINE x == Append(o, n)
  <2>1. x \in Seq(Int) /\ Len(x) = Len(o) + 1
    BY <1>2
  <2> HIDE DEF x
  <2>2. x = [i \in 1 .. Len(x) |-> x[i]]
    BY <2>1
  <2> QED BY <2>1, <2>2 DEF x
<1>4. ASSUME NEW i \in 1 .. n + 1 PROVE Append(o, n)[i] = i - 1
  <2>1. CASE i = n + 1
    BY <1>2, <2>1
  <2>2. CASE i # n + 1
    <3>1. i \in 1 .. n
      BY <2>2
    <3> QED BY <1>1, <1>2, <3>1
  <2> QED BY <2>1, <2>2
<1> QED BY <1>3, <1>4 DEF FirstFrames

LEMMA NoRows == Len(<<>>) = 0 /\ <<>> = FirstFrames(0)
  BY DEF FirstFrames

(* Frames less than the number of lanes apart are on different lanes.      *)
LEMMA QuotientOf ==
  ASSUME NEW n \in Nat \ {0}, NEW a \in Nat
  PROVE  a % n \in 0 .. n - 1 /\ a \div n \in Nat /\ a = n * (a \div n) + (a % n)
  OBVIOUS

LEMMA LanesApart ==
  ASSUME NEW n \in Nat \ {0}, NEW a \in Nat, NEW b \in Nat, a < b, b < a + n
  PROVE  a % n # b % n
<1> SUFFICES ASSUME a % n = b % n PROVE FALSE
  OBVIOUS
<1> DEFINE q == a \div n
           p == b \div n
           r == a % n
<1>1. /\ q \in Nat /\ p \in Nat /\ r \in Nat
      /\ a = n * q + r /\ b = n * p + r
  <2>1. q \in Nat /\ r \in 0 .. n - 1 /\ a = n * q + r
    BY QuotientOf
  <2>2. p \in Nat /\ b = n * p + (b % n)
    BY QuotientOf
  <2> QED BY <2>1, <2>2
<1> HIDE DEF q, p, r
<1>2. n * q \in Nat /\ n * p \in Nat
  BY <1>1
<1>3. n * p - n * q = b - a
  BY <1>1, <1>2
<1>4. CASE p <= q
  <2>1. n * (q - p) \in Nat
    BY <1>1, <1>4
  <2>2. n * (q - p) = n * q - n * p
    BY <1>1
  <2> QED BY <1>2, <1>3, <2>1, <2>2
<1>5. CASE p >= q + 1
  <2>1. n * (p - q - 1) \in Nat
    BY <1>1, <1>5
  <2>2. n * (p - q - 1) = n * p - n * q - n
    BY <1>1
  <2> QED BY <1>2, <1>3, <2>1, <2>2
<1> QED BY <1>1, <1>4, <1>5

(* The first of some places of a batch.                                    *)
LEMMA LeastOf ==
  ASSUME NEW n \in Nat, NEW S, S \subseteq 1 .. n, S # {}
  PROVE  \E i \in S : \A j \in S : i <= j
<1> DEFINE Below(i) == {j \in S : j < i}
           T == {Below(i) : i \in S}
<1>1. IsFiniteSet(S)
  <2>1. IsFiniteSet(1 .. n)
    BY FS_Interval
  <2> QED BY <2>1, FS_Subset
<1>2. FiniteSubsetsOf(S) = SUBSET S
  BY <1>1, FS_FiniteSubsetsOfFinite
<1>3. IsWellFoundedOn(StrictSubsetOrdering(S), SUBSET S)
  BY <1>2, FS_StrictSubsetOrderingWellFounded
<1>4. T \subseteq SUBSET S /\ T # {}
  OBVIOUS
<1>5. \E x \in T : \A y \in T : <<y, x>> \notin StrictSubsetOrdering(S)
  <2> HIDE DEF T
  <2> QED BY <1>3, <1>4, WFMin
<1>6. PICK i \in S : \A k \in S : <<Below(k), Below(i)>> \notin StrictSubsetOrdering(S)
  BY <1>5
<1>7. ASSUME NEW k \in S, k < i PROVE FALSE
  <2>1. i \in Int /\ k \in Int /\ \A j \in S : j \in Int
    OBVIOUS
  <2>2. k \in Below(i) /\ k \notin Below(k)
    BY <1>7, <2>1
  <2>3. Below(k) \subseteq Below(i)
    <3>1. \A j \in S : j < k => j < i
      BY <1>7, <2>1
    <3> QED BY <3>1
  <2>4. <<Below(k), Below(i)>> \in StrictSubsetOrdering(S)
    BY <2>2, <2>3 DEF StrictSubsetOrdering
  <2> QED BY <1>6, <2>4
<1>8. \A k \in S : i <= k
  <2>1. i \in Int /\ \A j \in S : j \in Int
    OBVIOUS
  <2> QED BY <1>7, <2>1
<1> QED BY <1>8

(* The plan a pipeline goes by: a batch of at least one frame, at most as  *)
(* many contexts as lanes, and one where only TensorRT could have more.    *)
LEMMA PlanForOK ==
  ASSUME NEW p, NEW c, ConfigOK(c), NEW in \in Inputs, NEW h \in Machines
  PROVE  PlanOK(c, p, PlanFor(p, c, in, h))
<1> DEFINE e == Capability(c)
           v == Profile(p, c, in)
           b == Build(c, v, h, e)
           pl == PlanFor(p, c, in, h)
<1>1. e \in Capabilities /\ e.contexts \in Nat \ {0} /\ LaneCount \in Nat \ {0}
  BY Engines, RunAssumption DEF Capabilities
<1>2. v \in Videos
  <2>1. in.bytes \in Nat \ {0} /\ in.fps \in Nat
    BY RunAssumption
  <2>2. (p = "cpu" /\ Cuda(c)) \in BOOLEAN /\ (p = "bridge") \in BOOLEAN
    BY DEF Cuda
  <2> QED BY <2>1, <2>2 DEF Profile, Videos
<1>3. h \in Hardwares
  BY RunAssumption
<1>4. e.contexts <= LaneCount /\ e.parallel = (HasLanes(c) /\ LaneCount > 1)
  BY <1>1 DEF Capability
<1> HIDE DEF e, v
<1>5. /\ b.batch \in Nat \ {0} /\ b.inflight \in Nat \ {0} /\ b.active \in Nat \ {0}
      /\ b.contexts \in Nat \ {0} /\ b.contexts <= e.contexts
  BY <1>1, <1>2, <1>3, BuildFits
<1>6. b = [budget |-> b.budget, batch |-> b.batch, inflight |-> b.inflight, active |-> b.active,
           contexts |-> b.contexts]
  BY DEF Build
<1>7. c.word.parallel_inference = "off" \/ e.parallel = FALSE => b.contexts = 1
  BY DEF Build, Contexts
<1> HIDE DEF b
<1>8. CASE p = "async"
  <2> DEFINE l == AsyncLanes(c)
  <2>1. l \in Nat /\ l <= LaneCount
    BY <1>1 DEF AsyncLanes
  <2>2. pl = OnLanes(b, l)
    BY <1>8 DEF PlanFor, b, e, v
  <2> HIDE DEF l, pl
  <2>3. pl.batch = b.batch /\ pl.contexts = Larger(Smaller(Smaller(b.contexts, l), b.active), 1)
    BY <1>6, <2>2 DEF OnLanes
  <2>4. pl.contexts \in 1 .. LaneCount
    BY <1>1, <1>5, <2>1, <2>3 DEF Larger, Smaller
  <2> QED BY <1>5, <1>8, <2>3, <2>4 DEF PlanOK, pl
<1>9. CASE p = "blocking"
  <2>1. pl = OnWorkers(b)
    BY <1>9 DEF PlanFor, b, e, v
  <2> HIDE DEF pl
  <2>2. pl.batch = b.batch /\ pl.contexts = Smaller(b.contexts, b.inflight)
    BY <1>6, <2>1 DEF OnWorkers
  <2>3. pl.contexts \in 1 .. LaneCount
    BY <1>1, <1>4, <1>5, <2>2 DEF Smaller
  <2> QED BY <1>5, <1>9, <2>2, <2>3 DEF PlanOK, pl
<1>10. CASE p # "async" /\ p # "blocking"
  <2>1. pl = Applied(b, e)
    BY <1>10 DEF PlanFor, b, e, v
  <2>2. Takes(e, b.contexts)
    BY <1>5 DEF Takes
  <2>3. pl = b
    BY <2>1, <2>2 DEF Applied
  <2>4. pl.contexts \in 1 .. LaneCount
    BY <1>1, <1>4, <1>5, <2>3
  <2>5. ~Racing(c) /\ Runtime(c) # "tensorrt" => b.contexts = 1
    BY <1>1, <1>4, <1>7 DEF Racing, HasLanes
  <2> HIDE DEF pl
  <2> QED BY <1>5, <2>3, <2>4, <2>5 DEF PlanOK, pl
<1> QED BY <1>8, <1>9, <1>10

(* Before it has one, it goes by a batch of one frame.                     *)
LEMMA NoPlanOK ==
  ASSUME NEW p, NEW c
  PROVE  PlanOK(c, p, NoPlan)
  BY RunAssumption DEF PlanOK, NoPlan

(* What a step of each kind leaves alone.                                  *)
LEMMA FailLeaves ==
  ASSUME Fail
  PROVE  pc' = "clean_up" /\ result' # 0 /\ path' = path
<1>1. pc' = "clean_up" /\ result' = -1 /\ path' = path
  BY DEF Fail, CleanUpWith
<1> QED BY <1>1, Negative, Zenon

LEMMA DoneLeaves ==
  ASSUME NEW step, Done(step)
  PROVE  /\ pc = "set_up" /\ pc' = "set_up" /\ UNCHANGED <<config, path, result>>
         /\ todo # <<>> /\ Head(todo) = step /\ todo' = Tail(todo)
  BY DEF Done, AtStep, setting

LEMMA BeginLeaves ==
  ASSUME NEW p, Begin(p)
  PROVE  /\ pc' = "set_up" /\ path' = p /\ todo' = Steps[p]
         /\ batch' = <<>> /\ frame' = 0 /\ eof' = FALSE /\ plan' = NoPlan
         /\ UNCHANGED <<video, lane, content, sized, fresh, out, written>>
  BY DEF Begin, buffers, writing

LEMMA CallLeaves ==
  ASSUME StartCalls \/ Threads
  PROVE  /\ pc = "infer" /\ pc' = "infer"
         /\ UNCHANGED <<config, path, todo, video, plan, batch, frame, eof, out, written, result>>
  BY DEF StartCalls, Threads, CheckSize, FreeBuffer, AllocateBuffer, Upload, Infer, CallFails,
     Inferring, setting, sizing, reading, writing

LEMMA SizingFailsLeaves ==
  ASSUME SizingFails
  PROVE  /\ pc = "infer" /\ pc' = "clean_up" /\ result' # 0
         /\ UNCHANGED <<config, path, video, plan, out, lane, content, sized, fresh>>
<1>1. pc = "infer" /\ Fail /\ UNCHANGED <<config, path, video, plan, out>>
  BY DEF SizingFails, Inferring, setting, sizing, writing
<1>2. UNCHANGED <<lane, content, sized, fresh>>
  BY DEF SizingFails, buffers
<1> QED BY <1>1, <1>2, FailLeaves

LEMMA JoinLeaves ==
  ASSUME JoinCalls
  PROVE  /\ pc = "infer"
         /\ \/ pc' = "clean_up" /\ result' # 0
            \/ /\ pc' = "write" /\ result' = result
               /\ Calls("failed") = {} /\ Calls("waiting") = {} /\ Calls("done") = DOMAIN thread
         /\ UNCHANGED <<config, path, video, plan, batch, frame, eof, out, written,
                        lane, content, sized, fresh, thread, found>>
<1>1. /\ pc = "infer"
      /\ UNCHANGED <<config, path, video, plan, batch, frame, eof, out, written,
                     lane, content, sized, fresh, thread, found>>
  BY DEF JoinCalls, Inferring, setting, sizing, reading, writing, buffers, inferring
<1>2. Calls("waiting") \union Calls("done") \union Calls("failed") = DOMAIN thread
  BY DEF JoinCalls
<1>3. CASE Calls("failed") # {}
  <2>1. pc' = "clean_up" /\ result' = -1
    BY <1>3 DEF JoinCalls, CleanUpWith
  <2>2. result' # 0
    BY <2>1, Negative, Zenon
  <2> QED BY <1>1, <2>1, <2>2
<1>4. CASE Calls("failed") = {}
  <2>1. Calls("waiting") = {} /\ pc' = "write" /\ result' = result
    BY <1>4 DEF JoinCalls
  <2> QED BY <1>1, <1>2, <1>4, <2>1
<1> QED BY <1>3, <1>4

LEMMA BodyEndsLeaves ==
  ASSUME BodyEnds
  PROVE  /\ pc = "body" /\ pc' = "clean_up" /\ path' = path
         /\ UNCHANGED <<config, video, plan, out, lane, content, sized, fresh>>
         /\ result' = 0 => Len(out) = Target
<1>1. pc = "body" /\ UNCHANGED <<config, video, plan, out, lane, content, sized, fresh>>
  BY DEF BodyEnds, Working, setting, sizing, writing, buffers
<1>2. CASE CleanUpWith(0) /\ Run!Succeed
  BY <1>1, <1>2 DEF CleanUpWith, Run!Succeed
<1>3. CASE Fail
  BY <1>1, <1>3, FailLeaves
<1>4. CASE CleanUpWith(-1)
  <2>1. pc' = "clean_up" /\ result' = -1 /\ path' = path
    BY <1>4 DEF CleanUpWith
  <2>2. result' # 0
    BY <2>1, Negative, Zenon
  <2> QED BY <1>1, <2>1, <2>2
<1> QED BY <1>2, <1>3, <1>4 DEF BodyEnds

LEMMA CountLanesLeaves ==
  ASSUME CountLanes
  PROVE  /\ pc = "set_up"
         /\ Done("lanes") \/ (pc' = "clean_up" /\ result' # 0)
         /\ UNCHANGED <<config, path, video, plan, batch, frame, eof, out, written,
                        lane, content, sized, fresh>>
<1>1. UNCHANGED <<config, video, plan, batch, frame, eof, out, written,
                  lane, content, sized, fresh>>
  BY DEF CountLanes, Working, setting, sizing, reading, writing, buffers
<1>2. CASE Done("lanes")
  BY <1>1, <1>2, DoneLeaves
<1>3. CASE AtStep /\ CleanUpWith(-2)
  <2>1. pc = "set_up" /\ pc' = "clean_up" /\ result' = -2 /\ path' = path
    BY <1>3 DEF AtStep, CleanUpWith
  <2>2. result' # 0
    BY <2>1, Negative, Zenon
  <2> QED BY <1>1, <2>1, <2>2
<1> QED BY <1>2, <1>3 DEF CountLanes

LEMMA SetUpFailsLeaves ==
  ASSUME SetUpFails
  PROVE  /\ pc = "set_up" /\ pc' = "clean_up" /\ result' # 0
         /\ UNCHANGED <<config, path, video, plan, lane, content, sized, fresh>>
         /\ out' = out \/ out' = <<>>
<1>1. /\ pc = "set_up" /\ Fail
      /\ UNCHANGED <<config, video, plan, lane, content, sized, fresh>>
  BY DEF SetUpFails, AtStep, setting, sizing, buffers
<1>2. out' = out \/ out' = <<>>
  BY DEF SetUpFails, Truncate, writing
<1> QED BY <1>1, <1>2, FailLeaves

LEMMA EndLeaves ==
  ASSUME Finish \/ CleanUp
  PROVE  /\ UNCHANGED <<config, path, video, plan, out, lane, content, sized, fresh>>
         /\ \/ pc = "finish" /\ pc' = "clean_up"
            \/ pc = "clean_up" /\ pc' = "back" /\ result' = result
<1> USE DEF Working, setting, sizing, writing, buffers
<1>1. CASE Finish
  <2>1. pc = "finish" /\ UNCHANGED <<config, video, plan, out, lane, content, sized, fresh>>
    BY <1>1 DEF Finish
  <2>2. pc' = "clean_up" /\ path' = path
    BY <1>1, FailLeaves DEF Finish, CleanUpWith
  <2> QED BY <2>1, <2>2
<1>2. CASE CleanUp
  BY <1>2 DEF CleanUp
<1> QED BY <1>1, <1>2

LEMMA ReadFailsLeaves ==
  ASSUME ReadFails \/ WriteFails
  PROVE  /\ pc \in {"fill", "write"} /\ pc' = "clean_up" /\ result' # 0
         /\ UNCHANGED <<config, path, video, plan, lane, content, sized, fresh>>
<1> USE DEF Working, setting, sizing, buffers
<1>1. CASE ReadFails
  <2>1. pc = "fill" /\ Fail /\ UNCHANGED <<config, video, plan, lane, content, sized, fresh>>
    BY <1>1 DEF ReadFails, Reads
  <2> QED BY <2>1, FailLeaves
<1>2. CASE WriteFails
  <2>1. pc = "write" /\ Fail /\ UNCHANGED <<config, video, plan, lane, content, sized, fresh>>
    BY <1>2 DEF WriteFails, Unwritten
  <2> QED BY <2>1, FailLeaves
<1> QED BY <1>1, <1>2

LEMMA TransferLeaves ==
  ASSUME Transfer
  PROVE  /\ pc = "transfer"
         /\ UNCHANGED <<config, path, video, plan, eof, out, written, lane, content, sized, fresh>>
         /\ \/ pc' = "fill" /\ Filled /\ result' = result
            \/ pc' = "clean_up" /\ result' # 0
<1> USE DEF setting, sizing, writing, buffers
<1>1. pc = "transfer" /\ UNCHANGED <<config, video, plan, eof, out, written, lane, content,
                                     sized, fresh>>
  BY DEF Transfer
<1>2. CASE Fail
  BY <1>1, <1>2, FailLeaves
<1>3. CASE Filled /\ pc' = "fill" /\ UNCHANGED <<path, result>>
  BY <1>1, <1>3
<1> QED BY <1>2, <1>3 DEF Transfer

(* The end of the options, and of a pipeline: another begins or the program*)
(* ends.                                                                   *)
LEMMA DispatchLeaves ==
  ASSUME Dispatch
  PROVE  /\ pc = "parse" /\ config' = config
         /\ \/ Begin(FirstPath(config))
            \/ pc' = "exit" /\ UNCHANGED <<path, video, plan, out, lane, content, sized, fresh>>
  BY DEF Dispatch, Exit, Working, setting, sizing, writing, buffers

LEMMA ReturnLeaves ==
  ASSUME Return
  PROVE  /\ pc = "back" /\ config' = config
         /\ \/ \E p \in {"blocking", "cpu"} : Begin(p)
            \/ /\ pc' = "exit" /\ UNCHANGED <<path, video, plan, out, lane, content, sized, fresh>>
               /\ result' = 0 => result = 0
<1>1. pc = "back" /\ config' = config
  BY DEF Return, setting
<1>2. CASE \E p \in {"blocking", "cpu"} : Begin(p)
  BY <1>1, <1>2
<1>3. CASE Exit(IF result = 0 THEN 0 ELSE -1) /\ Working
  <2>1. /\ pc' = "exit" /\ UNCHANGED <<path, video, plan, out, lane, content, sized, fresh>>
        /\ result' = IF result = 0 THEN 0 ELSE -1
    BY <1>3 DEF Exit, Working, sizing, writing, buffers
  <2>2. result' = 0 => result = 0
    BY <2>1, Negative, Zenon
  <2> QED BY <1>1, <2>1, <2>2
<1> QED BY <1>2, <1>3 DEF Return

(* The output is empty while the options are read.                         *)
LEMMA EarlyStep ==
  ASSUME pc \in Parsing => out = <<>>, [Next]_vars
  PROVE  pc' \in Parsing => out' = <<>>
<1> USE DEF Parsing, setting, control, sizing, reading, writing
<1>1. CASE Aside \/ ParseOption
  BY <1>1 DEF Aside, ParseOption, Exit, Working
<1>2. CASE Dispatch \/ Return
  BY <1>2, DispatchLeaves, ReturnLeaves, BeginLeaves
<1>3. CASE OpenOther \/ OpenOutput \/ CreateEngine \/ MakePlan \/ MakeBuffers
  <2>1. \E step : Done(step)
    BY <1>3 DEF OpenOther, OpenOutput, CreateEngine, MakePlan, MakeBuffers
  <2> QED BY <2>1, DoneLeaves
<1>4. CASE Skip \/ Start \/ BodyDelivers \/ ReadFrame \/ ReadEnd \/ EndFill
  BY <1>4 DEF Skip, Start, BodyDelivers, ReadFrame, ReadEnd, EndFill, Reads
<1>5. CASE CountLanes
  BY <1>5, CountLanesLeaves, DoneLeaves
<1>6. CASE SetUpFails \/ BodyEnds \/ Transfer \/ ReadFails \/ WriteFails
  BY <1>6, SetUpFailsLeaves, BodyEndsLeaves, TransferLeaves, ReadFailsLeaves
<1>7. CASE StartCalls \/ Threads \/ SizingFails \/ JoinCalls
  BY <1>7, CallLeaves, SizingFailsLeaves, JoinLeaves
<1>8. CASE WriteRow \/ NextBatch
  BY <1>8 DEF WriteRow, NextBatch, Unwritten
<1>9. CASE Finish \/ CleanUp
  BY <1>9, EndLeaves
<1>10. CASE Exited \/ UNCHANGED vars
  BY <1>10 DEF Exited, vars
<1> QED BY <1>1, <1>2, <1>3, <1>4, <1>5, <1>6, <1>7, <1>8, <1>9, <1>10 DEF Next

(* The plan is made once for a pipeline, for its configuration.            *)
LEMMA PlanStep ==
  ASSUME RInv, PlanOK(config, path, plan), [Next]_vars
  PROVE  PlanOK(config, path, plan)'
<1> DEFINE Same == UNCHANGED <<config, path, plan>>
<1>0. ASSUME Same PROVE PlanOK(config, path, plan)'
  BY <1>0 DEF PlanOK
<1>12. ASSUME NEW p, Begin(p) PROVE PlanOK(config, path, plan)'
  <2>1. plan' = NoPlan
    BY <1>12, BeginLeaves
  <2>2. PlanOK(config', path', NoPlan)
    BY NoPlanOK
  <2> QED BY <2>1, <2>2
<1> USE DEF setting, control, sizing
<1>1. CASE ParseOption
  <2>1. plan' = plan /\ plan = NoPlan
    BY <1>1 DEF ParseOption, Working, RInv, Parsing
  <2>2. PlanOK(config', path', NoPlan)
    BY NoPlanOK
  <2> QED BY <2>1, <2>2
<1>2. CASE Dispatch \/ Return
  BY <1>0, <1>12, <1>2, DispatchLeaves, ReturnLeaves
<1>3. CASE MakePlan
  <2>1. PICK h \in Machines : plan' = PlanFor(path, config, video, h)
    BY <1>3 DEF MakePlan
  <2>2. UNCHANGED <<config, path>>
    BY <1>3, DoneLeaves DEF MakePlan
  <2>3. ConfigOK(config) /\ video \in Inputs
    BY DEF RInv
  <2>4. PlanOK(config, path, PlanFor(path, config, video, h))
    BY <2>3, PlanForOK
  <2> QED BY <2>1, <2>2, <2>4
<1>4. CASE OpenOther \/ OpenOutput \/ CreateEngine \/ MakeBuffers
  <2>1. \E step : Done(step)
    BY <1>4 DEF OpenOther, OpenOutput, CreateEngine, MakeBuffers
  <2>2. plan' = plan
    BY <1>4 DEF OpenOther, OpenOutput, CreateEngine, MakeBuffers, Working
  <2> QED BY <1>0, <2>1, <2>2, DoneLeaves
<1>5. CASE Aside \/ Skip \/ Start \/ BodyDelivers \/ ReadFrame \/ ReadEnd \/ EndFill
  BY <1>0, <1>5 DEF Aside, Exit, Working, Skip, Start, BodyDelivers, ReadFrame, ReadEnd, EndFill
<1>6. CASE CountLanes \/ SetUpFails \/ BodyEnds
  BY <1>0, <1>6, CountLanesLeaves, SetUpFailsLeaves, BodyEndsLeaves
<1>7. CASE Transfer \/ ReadFails \/ WriteFails
  BY <1>0, <1>7, TransferLeaves, ReadFailsLeaves
<1>8. CASE StartCalls \/ Threads \/ SizingFails \/ JoinCalls
  BY <1>0, <1>8, CallLeaves, SizingFailsLeaves, JoinLeaves
<1>9. CASE WriteRow \/ NextBatch
  BY <1>0, <1>9 DEF WriteRow, NextBatch
<1>10. CASE Finish \/ CleanUp
  BY <1>0, <1>10, EndLeaves
<1>11. CASE Exited \/ UNCHANGED vars
  BY <1>0, <1>11 DEF Exited, vars
<1> QED BY <1>1, <1>2, <1>3, <1>4, <1>5, <1>6, <1>7, <1>8, <1>9, <1>10, <1>11 DEF Next

(* A buffer freed, and one allocated.                                      *)
LEMMA BufferFreed ==
  ASSUME LanesOK, NEW n, lane' = [lane EXCEPT ![n] = Null], fresh' = fresh, sized' = sized
  PROVE  LanesOK'
<1>1. lane \in [LaneSet -> Nat] /\ fresh \in Nat
  BY DEF LanesOK
<1>2. lane' \in [LaneSet -> Nat]
  BY <1>1 DEF Null
<1>3. \A l \in LaneSet : lane'[l] = lane[l] \/ lane'[l] = Null
  BY <1>1
<1>4. \A l \in LaneSet : lane'[l] <= fresh'
  BY <1>1, <1>3 DEF LanesOK, Null
<1>5. \A l, m \in LaneSet : lane'[l] = lane'[m] /\ lane'[l] # Null => l = m
  BY <1>3 DEF LanesOK
<1>6. sized' \in BOOLEAN
  BY DEF LanesOK
<1> QED BY <1>1, <1>2, <1>4, <1>5, <1>6 DEF LanesOK

LEMMA BufferMade ==
  ASSUME LanesOK, NEW n, lane' = [lane EXCEPT ![n] = fresh + 1], fresh' = fresh + 1,
         sized' \in BOOLEAN
  PROVE  LanesOK'
<1>0. lane \in [LaneSet -> Nat] /\ fresh + 1 \in Nat
  BY DEF LanesOK
<1>1. fresh' \in Nat /\ lane' \in [LaneSet -> Nat]
  BY <1>0
<1>2. \A l \in LaneSet : (l # n => lane'[l] = lane[l]) /\ (l = n => lane'[l] = fresh + 1)
  BY DEF LanesOK
<1>3. \A l \in LaneSet : lane[l] \in Nat /\ lane[l] <= fresh
  BY DEF LanesOK
<1>4. \A l \in LaneSet : lane'[l] <= fresh'
  BY <1>2, <1>3 DEF LanesOK
<1>5. ASSUME NEW l \in LaneSet, NEW m \in LaneSet, lane'[l] = lane'[m], lane'[l] # Null PROVE l = m
  <2>1. fresh \in Nat
    BY DEF LanesOK
  <2>2. CASE l # n /\ m # n
    BY <1>2, <1>5, <2>2 DEF LanesOK
  <2>3. CASE l = n \/ m = n
    BY <1>2, <1>3, <1>5, <2>1, <2>3
  <2> QED BY <2>2, <2>3
<1> QED BY <1>1, <1>4, <1>5 DEF LanesOK

LEMMA AllBuffersMade ==
  ASSUME LanesOK, SizeAll
  PROVE  LanesOK'
<1>1. /\ fresh \in Nat /\ LaneCount \in Nat \ {0}
      /\ lane' = [l \in LaneSet |-> fresh + 1 + l] /\ fresh' = fresh + LaneCount
  BY RunAssumption DEF LanesOK, SizeAll
<1>2. \A l \in LaneSet : l \in Nat /\ l < LaneCount
  BY <1>1 DEF LaneSet
<1>3. \A l \in LaneSet : lane'[l] = fresh + 1 + l /\ lane'[l] \in Nat /\ lane'[l] <= fresh'
  BY <1>1, <1>2
<1>4. lane' \in [LaneSet -> Nat]
  <2>1. \A l \in LaneSet : fresh + 1 + l \in Nat
    BY <1>1, <1>2
  <2> QED BY <1>1, <2>1
<1>5. \A l, m \in LaneSet : lane'[l] = lane'[m] => l = m
  BY <1>1, <1>2, <1>3
<1>6. fresh' \in Nat /\ sized' \in BOOLEAN
  BY <1>1 DEF SizeAll
<1> QED BY <1>3, <1>4, <1>5, <1>6 DEF LanesOK

(* Every step leaves each lane a buffer of its own.                        *)
LEMMA LanesStep ==
  ASSUME LanesOK, [Next]_vars
  PROVE  LanesOK'
<1>0. ASSUME UNCHANGED <<lane, fresh, sized>> PROVE LanesOK'
  BY <1>0 DEF LanesOK
<1> USE DEF buffers
<1>1. CASE Aside \/ ParseOption
  BY <1>0, <1>1 DEF Aside, ParseOption, Working
<1>2. CASE Dispatch \/ Return
  BY <1>0, <1>2, DispatchLeaves, ReturnLeaves, BeginLeaves
<1>3. CASE CreateEngine
  <2>1. lane' = [l \in LaneSet |-> Null] /\ fresh' = 0 /\ sized' = FALSE
    BY <1>3 DEF CreateEngine, NewEngine
  <2>2. lane' \in [LaneSet -> Nat] /\ \A l \in LaneSet : lane'[l] = Null
    BY <2>1 DEF Null
  <2>3. \A l \in LaneSet : lane'[l] <= fresh'
    BY <2>1, <2>2 DEF Null
  <2> QED BY <2>1, <2>2, <2>3 DEF LanesOK
<1>4. CASE OpenOther \/ OpenOutput \/ MakePlan \/ MakeBuffers
  BY <1>0, <1>4 DEF OpenOther, OpenOutput, MakePlan, MakeBuffers, Working
<1>5. CASE Skip \/ Start \/ BodyDelivers \/ ReadFrame \/ ReadEnd \/ EndFill
  BY <1>0, <1>5 DEF Skip, Start, Working, BodyDelivers, ReadFrame, ReadEnd, EndFill
<1>6. CASE CountLanes \/ SetUpFails \/ BodyEnds
  BY <1>0, <1>6, CountLanesLeaves, SetUpFailsLeaves, BodyEndsLeaves
<1>7. CASE Transfer \/ ReadFails \/ WriteFails
  BY <1>0, <1>7, TransferLeaves, ReadFailsLeaves
<1>8. CASE StartCalls
  BY <1>0, <1>8, AllBuffersMade DEF StartCalls
<1>9. CASE Threads
  <2>1. PICK i \in DOMAIN thread : \/ CheckSize(i) \/ FreeBuffer(i) \/ AllocateBuffer(i)
                                   \/ Upload(i) \/ Infer(i) \/ CallFails(i)
    BY <1>9 DEF Threads
  <2>2. CASE CheckSize(i) \/ Upload(i) \/ Infer(i) \/ CallFails(i)
    BY <1>0, <2>2 DEF CheckSize, Upload, Infer, CallFails
  <2>3. CASE FreeBuffer(i)
    BY <2>3, BufferFreed DEF FreeBuffer
  <2>4. CASE AllocateBuffer(i)
    <3>1. sized' \in BOOLEAN
      BY <2>4 DEF AllocateBuffer
    <3> QED BY <2>4, <3>1, BufferMade DEF AllocateBuffer
  <2> QED BY <2>1, <2>2, <2>3, <2>4
<1>10. CASE SizingFails \/ JoinCalls
  BY <1>0, <1>10, SizingFailsLeaves, JoinLeaves
<1>11. CASE WriteRow \/ NextBatch
  BY <1>0, <1>11 DEF WriteRow, NextBatch
<1>12. CASE Finish \/ CleanUp
  BY <1>0, <1>12, EndLeaves
<1>13. CASE Exited \/ UNCHANGED vars
  BY <1>0, <1>13 DEF Exited, vars
<1> QED BY <1>1, <1>2, <1>3, <1>4, <1>5, <1>6, <1>7, <1>8, <1>9, <1>10, <1>11, <1>12, <1>13
        DEF Next

(* Outside of the set-up and the loop nothing is said of the batch.        *)
LEMMA ReadQuiet ==
  ASSUME pc' \notin Batching \union {"set_up"}
  PROVE  ReadOK'
  BY DEF ReadOK, Batching

LEMMA ReadKept ==
  ASSUME ReadOK, UNCHANGED <<config, path, video, batch, frame, eof>>,
         pc \in Batching, pc' \in Batching \ {"transfer"} \/ pc' = pc
  PROVE  ReadOK'
  BY DEF ReadOK, Batching, AtLimit

(* A frame goes into the batch when there is one and the limit allows it.  *)
LEMMA ReadFilled ==
  ASSUME RInv, ReadOK, UNCHANGED <<config, path, video, eof>>, Filled,
         pc \in Batching, pc' = "fill", frame < video.frames, ~AtLimit
  PROVE  ReadOK'
<1> DEFINE max == config.number.max_frames
<1>1. video.frames \in Nat /\ max \in Int
  BY NumbersOf
<1>2. /\ path \in {"cpu", "bridge"} /\ frame \in Nat
      /\ Len(batch) \in Nat /\ Len(batch) <= frame
      /\ batch = [i \in 1 .. Len(batch) |-> frame - Len(batch) + i - 1]
      /\ eof = TRUE => frame = video.frames
  BY DEF ReadOK
<1>8. ~(eof = TRUE)
  BY <1>1, <1>2
<1>3. batch' = Append(batch, frame) /\ frame' = frame + 1
  BY DEF Filled
<1>4. /\ Len(batch') = Len(batch) + 1
      /\ batch' = [i \in 1 .. Len(batch) + 1 |-> (frame + 1) - (Len(batch) + 1) + i - 1]
  BY <1>2, <1>3, BatchFilled
<1>5. batch' = [i \in 1 .. Len(batch') |-> frame' - Len(batch') + i - 1]
  BY <1>3, <1>4
<1>6. Len(batch') \in Nat /\ Len(batch') <= frame' /\ frame' \in Nat /\ frame' <= video.frames
  BY <1>1, <1>2, <1>3, <1>4
<1>7. max > 0 => frame' <= max
  BY <1>1, <1>2, <1>3 DEF AtLimit
<1> QED BY <1>2, <1>5, <1>6, <1>7, <1>8 DEF ReadOK

LEMMA ReadBegun ==
  ASSUME NEW p, Begin(p)
  PROVE  ReadOK'
<1>1. pc' = "set_up" /\ batch' = <<>> /\ frame' = 0 /\ eof' = FALSE
  BY BeginLeaves
<1> QED BY <1>1 DEF ReadOK, Batching

(* Every step of the program keeps the batch in order.                     *)
LEMMA ReadStep ==
  ASSUME RInv, ReadOK, [Next]_vars
  PROVE  ReadOK'
<1> USE DEF setting, control, sizing, reading
<1>1. CASE Aside \/ ParseOption
  <2>1. (pc \in {"main", "parse"} /\ pc' = pc) \/ pc' \in {"parse", "exit"}
    BY <1>1 DEF Aside, ParseOption, Exit
  <2> QED BY <2>1, ReadQuiet DEF Batching
<1>2. CASE Dispatch \/ Return
  <2>1. pc' = "exit" \/ \E p : Begin(p)
    BY <1>2, DispatchLeaves, ReturnLeaves
  <2> QED BY <2>1, ReadQuiet, ReadBegun DEF Batching
<1>3. ASSUME pc = "set_up", pc' = "set_up", UNCHANGED <<batch, frame, eof>> PROVE ReadOK'
  BY <1>3 DEF ReadOK, Batching
<1>4. CASE OpenOther \/ OpenOutput \/ CreateEngine \/ MakePlan \/ MakeBuffers
  <2>1. \E step : Done(step)
    BY <1>4 DEF OpenOther, OpenOutput, CreateEngine, MakePlan, MakeBuffers
  <2>2. UNCHANGED <<batch, frame, eof>>
    BY <1>4 DEF OpenOther, OpenOutput, CreateEngine, MakePlan, MakeBuffers, Working
  <2> QED BY <1>3, <2>1, <2>2, DoneLeaves
<1>5. CASE Skip
  BY <1>3, <1>5 DEF Skip, Working
<1>6. CASE CountLanes
  BY <1>3, <1>6, CountLanesLeaves, DoneLeaves, ReadQuiet DEF Batching
<1>7. CASE Start
  <2>1. pc = "set_up" /\ UNCHANGED <<config, path, video, batch, frame, eof>>
    BY <1>7 DEF Start, Working
  <2>2. CASE path \in {"cpu", "bridge"}
    <3>1. pc' = "fill" /\ batch' = <<>> /\ frame' = 0 /\ eof' = FALSE
      BY <1>7, <2>1, <2>2 DEF Start, ReadOK
    <3>2. video.frames \in Nat /\ config.number.max_frames \in Int
      BY NumbersOf
    <3>3. Len(batch') = 0 /\ batch' = [i \in 1 .. 0 |-> frame' - Len(batch') + i - 1]
      BY <3>1
    <3>4. eof' \in BOOLEAN /\ ~(eof' = TRUE)
      BY <3>1
    <3>5. /\ frame' \in Nat /\ Len(batch') \in Nat /\ Len(batch') <= frame'
          /\ frame' <= video'.frames
          /\ config'.number.max_frames > 0 => frame' <= config'.number.max_frames
      BY <2>1, <3>1, <3>2, <3>3
    <3>6. batch' = [i \in 1 .. Len(batch') |-> frame' - Len(batch') + i - 1]
      BY <3>3
    <3> QED BY <2>1, <2>2, <3>1, <3>4, <3>5, <3>6 DEF ReadOK
  <2>3. CASE path \notin {"cpu", "bridge"}
    <3>1. pc' = "body"
      BY <1>7, <2>3 DEF Start
    <3> QED BY <3>1, ReadQuiet DEF Batching
  <2> QED BY <2>2, <2>3
<1>8. CASE BodyDelivers \/ BodyEnds
  <2>1. pc' \in {"body", "clean_up"}
    BY <1>8, BodyEndsLeaves DEF BodyDelivers
  <2> QED BY <2>1, ReadQuiet DEF Batching
<1>9. CASE ReadFrame
  <2>1. /\ pc = "fill" /\ ~AtLimit /\ frame < video.frames /\ eof' = eof
        /\ UNCHANGED <<config, path, video>>
    BY <1>9 DEF ReadFrame, Reads
  <2>2. CASE path = "cpu"
    BY <1>9, <2>1, <2>2, ReadFilled DEF ReadFrame, Batching
  <2>3. CASE path # "cpu"
    <3>1. pc' = "transfer" /\ UNCHANGED <<batch, frame>>
      BY <1>9, <2>3 DEF ReadFrame
    <3> QED BY <2>1, <3>1 DEF ReadOK, Batching, AtLimit
  <2> QED BY <2>2, <2>3
<1>10. CASE Transfer
  <2>1. CASE pc' = "fill" /\ Filled
    <3>1. frame < video.frames /\ ~AtLimit
      BY <1>10, TransferLeaves DEF ReadOK
    <3> QED BY <1>10, <2>1, <3>1, TransferLeaves, ReadFilled DEF Batching
  <2>2. CASE pc' = "clean_up"
    BY <2>2, ReadQuiet DEF Batching
  <2> QED BY <1>10, <2>1, <2>2, TransferLeaves
<1>11. CASE ReadEnd
  <2>1. pc = "fill" /\ frame = video.frames /\ UNCHANGED <<config, pc, path, video, batch, frame>>
    BY <1>11 DEF ReadEnd, Reads
  <2>2. eof' \in BOOLEAN
    BY <1>11 DEF ReadEnd
  <2> QED BY <2>1, <2>2 DEF ReadOK, Batching
<1>12. CASE ReadFails \/ WriteFails \/ SizingFails \/ SetUpFails
  BY <1>12, ReadFailsLeaves, SizingFailsLeaves, SetUpFailsLeaves, ReadQuiet DEF Batching
<1>13. CASE EndFill
  BY <1>13, ReadKept DEF EndFill, Batching
<1>14. CASE StartCalls \/ Threads \/ JoinCalls
  BY <1>14, CallLeaves, JoinLeaves, ReadKept, ReadQuiet DEF Batching
<1>15. CASE WriteRow
  BY <1>15, ReadKept DEF WriteRow, Unwritten, Batching
<1>16. CASE NextBatch
  <2>1. pc = "write" /\ UNCHANGED <<config, path, video, frame, eof>>
    BY <1>16 DEF NextBatch
  <2>2. CASE eof
    BY <1>16, <2>1, <2>2, ReadKept DEF NextBatch, Batching
  <2>3. CASE ~eof
    <3>1. pc' = "fill" /\ batch' = <<>>
      BY <1>16, <2>3 DEF NextBatch
    <3>2. Len(batch') = 0 /\ batch' = [i \in 1 .. 0 |-> frame' - Len(batch') + i - 1]
      BY <3>1
    <3> QED BY <2>1, <3>1, <3>2 DEF ReadOK, Batching
  <2> QED BY <2>2, <2>3
<1>17. CASE Finish \/ CleanUp
  BY <1>17, EndLeaves, ReadQuiet DEF Batching
<1>18. CASE Exited \/ UNCHANGED vars
  BY <1>18 DEF Exited, vars, ReadOK, AtLimit
<1> QED BY <1>1, <1>2, <1>4, <1>5, <1>6, <1>7, <1>8, <1>9, <1>10, <1>11, <1>12, <1>13, <1>14,
           <1>15, <1>16, <1>17, <1>18 DEF Next

(* What the frames of a batch and the calls for them are.                  *)
LEMMA BatchIs ==
  ASSUME RInv, ReadOK, pc \in Batching
  PROVE  /\ Len(batch) \in Nat /\ DOMAIN batch = 1 .. Len(batch)
         /\ \A i \in 1 .. Len(batch) : /\ batch[i] \in Nat
                                       /\ batch[i] = frame - Len(batch) + i - 1
                                       /\ LaneOf(i) \in LaneSet
<1> DEFINE n == Len(batch)
<1>1. /\ n \in Nat /\ frame \in Nat /\ n <= frame
      /\ batch = [i \in 1 .. n |-> frame - n + i - 1]
  BY DEF ReadOK
<1>2. LaneCount \in Nat \ {0}
  BY NumbersOf
<1>3. DOMAIN batch = 1 .. n
  BY <1>1
<1>4. \A i \in 1 .. n : batch[i] = frame - n + i - 1
  BY <1>1
<1> HIDE DEF n
<1>5. \A i \in 1 .. n : batch[i] \in Nat
  BY <1>1, <1>4
<1>6. \A i \in 1 .. n : batch[i] % LaneCount \in 0 .. LaneCount - 1
  BY <1>2, <1>5, QuotientOf
<1> QED BY <1>1, <1>3, <1>4, <1>5, <1>6 DEF LaneOf, LaneSet, n

LEMMA CallsAre ==
  ASSUME CallsOK, pc = "infer"
  PROVE  /\ thread \in [1 .. Len(batch) -> CallStates] /\ DOMAIN thread = 1 .. Len(batch)
         /\ found \in [1 .. Len(batch) -> Int] /\ DOMAIN found = 1 .. Len(batch)
         /\ \A i \in 1 .. Len(batch) : thread[i] \in CallStates
         /\ \A i \in 1 .. Len(batch) : thread[i].at = "done" => found[i] = batch[i]
  BY DEF CallsOK

(* A running call has moved, and the others have what they had.            *)
CallMoves(i) ==
    /\ pc = "infer" /\ pc' = "infer" /\ UNCHANGED <<config, batch>> /\ i \in Running
    /\ thread' \in [1 .. Len(batch) -> CallStates] /\ found' \in [1 .. Len(batch) -> Int]
    /\ \A j \in 1 .. Len(batch) : j # i => thread'[j] = thread[j] /\ found'[j] = found[j]
    /\ thread'[i].at = "done" => found'[i] = batch[i]
    /\ Runtime(config) = "tensorrt" =>
          /\ sized' = sized \/ sized' = TRUE
          /\ i \in Running' => sized' = TRUE /\ ~Resizes(i)'
    /\ HasLanes(config) => \A j \in Calls("infer")' : Owns(j)'

LEMMA CallMovesOK ==
  ASSUME CallsOK, NEW i, CallMoves(i)
  PROVE  CallsOK'
<1> DEFINE n == Len(batch)
           rest == {"waiting", "done", "failed"}
<1>1. /\ pc = "infer" /\ pc' = "infer" /\ UNCHANGED <<config, batch>> /\ i \in Running
      /\ thread' \in [1 .. n -> CallStates] /\ found' \in [1 .. n -> Int]
      /\ \A j \in 1 .. n : j # i => thread'[j] = thread[j] /\ found'[j] = found[j]
      /\ thread'[i].at = "done" => found'[i] = batch[i]
  BY DEF CallMoves
<1>2. /\ DOMAIN thread = 1 .. n
      /\ \A j \in 1 .. n : thread[j].at = "done" => found[j] = batch[j]
  BY <1>1, CallsAre
<1>3. DOMAIN thread' = 1 .. n /\ Len(batch') = n
  BY <1>1
<1>4. i \in 1 .. n /\ Runtime(config') = Runtime(config) /\ HasLanes(config') = HasLanes(config)
  BY <1>1, <1>2 DEF Running
<1> HIDE DEF n
<1>5. \A j \in 1 .. n : thread'[j].at = "done" => found'[j] = batch[j]
  BY <1>1, <1>2
<1>6. Running' \subseteq Running
  BY <1>1, <1>2, <1>3 DEF Running
<1>7. \A j, k \in Running' : ~Shares(j, k)'
  <2>1. \A j, k \in Running : ~Shares(j, k)
    BY <1>1 DEF CallsOK
  <2> QED BY <1>1, <1>6, <2>1 DEF Shares, LaneOf
<1>8. ASSUME Runtime(config') = "tensorrt", NEW j \in Running' PROVE sized' = TRUE /\ ~Resizes(j)'
  <2>1. CASE j = i
    BY <1>4, <1>8, <2>1 DEF CallMoves
  <2>2. CASE j # i
    <3>1. j \in Running /\ j \in 1 .. n
      BY <1>3, <1>6 DEF Running
    <3>2. sized = TRUE /\ ~Resizes(j)
      BY <1>1, <1>4, <1>8, <3>1 DEF CallsOK
    <3>3. sized' = sized \/ sized' = TRUE
      BY <1>4, <1>8 DEF CallMoves
    <3>4. thread'[j] = thread[j]
      BY <1>1, <2>2, <3>1
    <3> QED BY <3>2, <3>3, <3>4 DEF Resizes
  <2> QED BY <2>1, <2>2
<1>9. HasLanes(config') => \A j \in Calls("infer")' : Owns(j)'
  BY <1>4 DEF CallMoves
<1> QED BY <1>1, <1>3, <1>5, <1>7, <1>8, <1>9 DEF CallsOK

(* The moves that change only the place of a call, its next lane or its    *)
(* buffer.                                                                 *)
LEMMA Placed ==
  ASSUME NEW n, thread \in [1 .. n -> CallStates], NEW i \in 1 .. n, NEW place \in Places,
         Go({i}, place)
  PROVE  /\ thread' \in [1 .. n -> CallStates] /\ DOMAIN thread' = 1 .. n
         /\ thread'[i].at = place
         /\ \A j \in 1 .. n : j # i => thread'[j] = thread[j]
<1>1. \A j \in 1 .. n : thread[j] \in CallStates /\ [thread[j] EXCEPT !.at = place] \in CallStates
  BY DEF CallStates
<1>2. thread' = [j \in 1 .. n |-> IF j \in {i} THEN [thread[j] EXCEPT !.at = place] ELSE thread[j]]
  BY DEF Go
<1>3. [thread[i] EXCEPT !.at = place].at = place
  BY DEF CallStates
<1> QED BY <1>1, <1>2, <1>3

LEMMA Fields ==
  ASSUME NEW x \in CallStates
  PROVE  x.next \in Nat /\ x.buffer \in Nat
  BY DEF CallStates

LEMMA NextSet ==
  ASSUME NEW x \in CallStates, NEW p, NEW v
  PROVE  [[x EXCEPT !.at = p] EXCEPT !.next = v] = [at |-> p, next |-> v, buffer |-> x.buffer]
<1> DEFINE y == [x EXCEPT !.at = p]
<1>1. x = [at |-> x.at, next |-> x.next, buffer |-> x.buffer]
  BY DEF CallStates
<1>2. y = [at |-> p, next |-> x.next, buffer |-> x.buffer]
  BY <1>1
<1> HIDE DEF y
<1>3. [y EXCEPT !.next = v] = [at |-> p, next |-> v, buffer |-> x.buffer]
  BY <1>2
<1> QED BY <1>3 DEF y

LEMMA BufferSet ==
  ASSUME NEW x \in CallStates, NEW p, NEW v
  PROVE  [[x EXCEPT !.at = p] EXCEPT !.buffer = v] = [at |-> p, next |-> x.next, buffer |-> v]
<1> DEFINE y == [x EXCEPT !.at = p]
<1>1. x = [at |-> x.at, next |-> x.next, buffer |-> x.buffer]
  BY DEF CallStates
<1>2. y = [at |-> p, next |-> x.next, buffer |-> x.buffer]
  BY <1>1
<1> HIDE DEF y
<1>3. [y EXCEPT !.buffer = v] = [at |-> p, next |-> x.next, buffer |-> v]
  BY <1>2
<1> QED BY <1>3 DEF y

LEMMA Set ==
  ASSUME NEW n, thread \in [1 .. n -> CallStates], NEW i \in 1 .. n, NEW place \in Places,
         NEW next \in Nat, NEW buffer \in Nat,
         thread' = [thread EXCEPT ![i] = [at |-> place, next |-> next, buffer |-> buffer]]
  PROVE  /\ thread' \in [1 .. n -> CallStates] /\ DOMAIN thread' = 1 .. n
         /\ thread'[i] = [at |-> place, next |-> next, buffer |-> buffer]
         /\ \A j \in 1 .. n : j # i => thread'[j] = thread[j]
<1>1. [at |-> place, next |-> next, buffer |-> buffer] \in CallStates
  BY DEF CallStates
<1> QED BY <1>1

(* What a call that makes a step knows of itself and of the others.        *)
LEMMA CallerIs ==
  ASSUME CallsOK, pc = "infer", NEW place, place \notin {"waiting", "done", "failed"},
         NEW i \in Calls(place)
  PROVE  /\ i \in 1 .. Len(batch) /\ i \in Running /\ thread[i].at = place
         /\ \A j \in Running : ~Shares(i, j)
         /\ Runtime(config) = "tensorrt" => sized = TRUE /\ ~Resizes(i)
<1>1. DOMAIN thread = 1 .. Len(batch)
  BY CallsAre
<1>2. i \in DOMAIN thread /\ thread[i].at = place
  BY DEF Calls
<1>3. i \in Running
  BY <1>2 DEF Running
<1> QED BY <1>1, <1>2, <1>3 DEF CallsOK

LEMMA OwnersAre ==
  ASSUME CallsOK, pc = "infer", HasLanes(config), NEW j \in Calls("infer")
  PROVE  j \in Running /\ Owns(j)
  BY DEF CallsOK, Calls, Running

LEMMA OwnsKept ==
  ASSUME NEW j, Owns(j), UNCHANGED <<lane, content, batch>>, thread'[j] = thread[j]
  PROVE  Owns(j)'
  BY DEF Owns, Holds, LaneOf

(* The other calls that infer keep their buffers when no lane changes.     *)
LEMMA OthersOwn ==
  ASSUME CallsOK, pc = "infer", HasLanes(config), UNCHANGED <<lane, content, batch>>,
         NEW i, DOMAIN thread' = 1 .. Len(batch),
         \A j \in 1 .. Len(batch) : j # i => thread'[j] = thread[j],
         thread'[i].at # "infer"
  PROVE  \A j \in Calls("infer")' : Owns(j)'
<1> SUFFICES ASSUME NEW j \in Calls("infer")' PROVE Owns(j)'
  OBVIOUS
<1>1. j \in 1 .. Len(batch) /\ thread'[j].at = "infer"
  BY DEF Calls
<1>2. thread'[j] = thread[j]
  BY <1>1
<1>3. j \in Calls("infer")
  BY <1>1, <1>2, CallsAre DEF Calls
<1> QED BY <1>2, <1>3, OwnersAre, OwnsKept

(* When TensorRT does not run, one call runs: nobody infers while it sizes.*)
LEMMA NobodyInfers ==
  ASSUME CallsOK, pc = "infer", Runtime(config) # "tensorrt", NEW i \in Running,
         DOMAIN thread' = 1 .. Len(batch),
         \A j \in 1 .. Len(batch) : j # i => thread'[j] = thread[j],
         thread'[i].at # "infer"
  PROVE  Calls("infer")' = {}
<1> SUFFICES ASSUME NEW j \in Calls("infer")' PROVE FALSE
  OBVIOUS
<1>1. j \in 1 .. Len(batch) /\ thread'[j].at = "infer"
  BY DEF Calls
<1>2. j # i /\ thread[j].at = "infer"
  BY <1>1
<1>3. j \in Running
  BY <1>1, <1>2, CallsAre DEF Running
<1>4. ~Shares(i, j)
  BY <1>3 DEF CallsOK
<1> QED BY <1>2, <1>4 DEF Shares

LEMMA InferringIs ==
  ASSUME Inferring
  PROVE  pc = "infer" /\ UNCHANGED <<config, batch>>
  BY DEF Inferring, setting, reading

LEMMA CheckMoves ==
  ASSUME CallsOK, NEW i, CheckSize(i)
  PROVE  CallMoves(i)
<1> DEFINE place == IF sized THEN "upload" ELSE "free"
<1>1. /\ pc = "infer" /\ pc' = "infer" /\ UNCHANGED <<config, batch, lane, content, found>>
      /\ sized' = sized /\ i \in Calls("check")
      /\ thread' = [thread EXCEPT ![i].at = place]
  BY InferringIs DEF CheckSize, buffers
<1>2. /\ i \in 1 .. Len(batch) /\ i \in Running
      /\ Runtime(config) = "tensorrt" => sized = TRUE
  BY <1>1, CallerIs
<1>3. place \in Places /\ place \in {"upload", "free"} /\ (sized = TRUE => place = "upload")
  BY DEF Places
<1> HIDE DEF place
<1>4. /\ thread \in [1 .. Len(batch) -> CallStates]
      /\ DOMAIN thread = 1 .. Len(batch) /\ found \in [1 .. Len(batch) -> Int]
  BY <1>1, CallsAre
<1>5. Go({i}, place)
  BY <1>1, <1>2, <1>4 DEF Go
<1>6. /\ thread' \in [1 .. Len(batch) -> CallStates] /\ DOMAIN thread' = 1 .. Len(batch)
      /\ thread'[i].at = place
      /\ \A j \in 1 .. Len(batch) : j # i => thread'[j] = thread[j]
  BY <1>2, <1>3, <1>4, <1>5, Placed
<1>7. HasLanes(config) => \A j \in Calls("infer")' : Owns(j)'
  BY <1>1, <1>3, <1>6, OthersOwn
<1>8. Runtime(config) = "tensorrt" => sized' = TRUE /\ ~Resizes(i)'
  BY <1>1, <1>2, <1>3, <1>6 DEF Resizes
<1> QED BY <1>1, <1>2, <1>3, <1>4, <1>6, <1>7, <1>8 DEF CallMoves

LEMMA FreeMoves ==
  ASSUME CallsOK, NEW i, FreeBuffer(i)
  PROVE  CallMoves(i)
<1>1. /\ pc = "infer" /\ pc' = "infer" /\ UNCHANGED <<config, batch, found>>
      /\ i \in Calls("free") /\ Go({i}, "allocate")
  BY InferringIs DEF FreeBuffer
<1>2. /\ i \in 1 .. Len(batch) /\ i \in Running /\ thread[i].at = "free"
      /\ Runtime(config) = "tensorrt" => ~Resizes(i)
  BY <1>1, CallerIs
<1>3. Runtime(config) # "tensorrt"
  BY <1>2 DEF Resizes
<1>4. thread \in [1 .. Len(batch) -> CallStates] /\ found \in [1 .. Len(batch) -> Int]
  BY <1>1, CallsAre
<1>5. /\ thread' \in [1 .. Len(batch) -> CallStates] /\ DOMAIN thread' = 1 .. Len(batch)
      /\ thread'[i].at = "allocate"
      /\ \A j \in 1 .. Len(batch) : j # i => thread'[j] = thread[j]
  BY <1>1, <1>2, <1>4, Placed DEF Places
<1>6. Calls("infer")' = {}
  BY <1>1, <1>2, <1>3, <1>5, NobodyInfers
<1> QED BY <1>1, <1>2, <1>3, <1>4, <1>5, <1>6 DEF CallMoves

LEMMA AllocateMoves ==
  ASSUME CallsOK, NEW i, AllocateBuffer(i)
  PROVE  CallMoves(i)
<1> DEFINE last == thread[i].next = LaneCount - 1
           place == IF last THEN "upload" ELSE "free"
           next == IF last THEN thread[i].next ELSE thread[i].next + 1
<1>1. /\ pc = "infer" /\ pc' = "infer" /\ UNCHANGED <<config, batch, found>>
      /\ i \in Calls("allocate")
      /\ thread' = [thread EXCEPT ![i].at = place, ![i].next = next]
  BY InferringIs DEF AllocateBuffer
<1>2. /\ i \in 1 .. Len(batch) /\ i \in Running /\ thread[i].at = "allocate"
      /\ Runtime(config) = "tensorrt" => ~Resizes(i)
  BY <1>1, CallerIs
<1>3. Runtime(config) # "tensorrt"
  BY <1>2 DEF Resizes
<1>4. thread \in [1 .. Len(batch) -> CallStates] /\ found \in [1 .. Len(batch) -> Int]
  BY <1>1, CallsAre
<1>5. thread[i] \in CallStates /\ thread[i].next \in Nat /\ thread[i].buffer \in Nat
  BY <1>2, <1>4, Fields
<1>6. next \in Nat /\ place \in Places /\ place # "infer" /\ place # "done"
  BY <1>5 DEF Places
<1> HIDE DEF place, next, last
<1>7. thread' = [thread EXCEPT ![i] = [at |-> place, next |-> next, buffer |-> thread[i].buffer]]
  <2> DEFINE r == [[thread[i] EXCEPT !.at = place] EXCEPT !.next = next]
  <2>1. r = [at |-> place, next |-> next, buffer |-> thread[i].buffer]
    BY <1>5, NextSet, Zenon
  <2>2. thread' = [thread EXCEPT ![i] = r]
    BY <1>1, <1>2, <1>4
  <2> QED BY <2>1, <2>2
<1>8. /\ thread' \in [1 .. Len(batch) -> CallStates] /\ DOMAIN thread' = 1 .. Len(batch)
      /\ thread'[i].at = place
      /\ \A j \in 1 .. Len(batch) : j # i => thread'[j] = thread[j]
  BY <1>2, <1>4, <1>5, <1>6, <1>7, Set
<1>9. Calls("infer")' = {}
  BY <1>1, <1>2, <1>3, <1>6, <1>8, NobodyInfers
<1> QED BY <1>1, <1>2, <1>3, <1>4, <1>6, <1>8, <1>9 DEF CallMoves

LEMMA CallFailsMoves ==
  ASSUME CallsOK, NEW i, CallFails(i)
  PROVE  CallMoves(i)
<1>1. /\ pc = "infer" /\ pc' = "infer" /\ UNCHANGED <<config, batch, found, lane, content>>
      /\ sized' = sized /\ Go({i}, "failed")
      /\ \E place \in {"allocate", "upload", "infer"} : i \in Calls(place)
  BY InferringIs DEF CallFails, buffers
<1>2. i \in 1 .. Len(batch) /\ i \in Running
  BY <1>1, CallerIs
<1>4. thread \in [1 .. Len(batch) -> CallStates] /\ found \in [1 .. Len(batch) -> Int]
  BY <1>1, CallsAre
<1>5. /\ thread' \in [1 .. Len(batch) -> CallStates] /\ DOMAIN thread' = 1 .. Len(batch)
      /\ thread'[i].at = "failed"
      /\ \A j \in 1 .. Len(batch) : j # i => thread'[j] = thread[j]
  BY <1>1, <1>2, <1>4, Placed DEF Places
<1>6. HasLanes(config) => \A j \in Calls("infer")' : Owns(j)'
  BY <1>1, <1>5, OthersOwn
<1>7. i \notin Running'
  BY <1>5 DEF Running
<1> QED BY <1>1, <1>2, <1>4, <1>5, <1>6, <1>7 DEF CallMoves

LEMMA UploadMoves ==
  ASSUME RInv, ReadOK, LanesOK, CallsOK, NEW i, Upload(i)
  PROVE  CallMoves(i)
<1> DEFINE buffer == lane[LaneOf(i)]
<1>1. /\ pc = "infer" /\ pc' = "infer" /\ UNCHANGED <<config, batch, found, lane, sized>>
      /\ i \in Calls("upload")
  BY InferringIs DEF Upload
<1>2. /\ i \in 1 .. Len(batch) /\ i \in Running /\ thread[i].at = "upload"
      /\ \A j \in Running : ~Shares(i, j)
      /\ Runtime(config) = "tensorrt" => sized = TRUE
  BY <1>1, CallerIs
<1>3. thread \in [1 .. Len(batch) -> CallStates] /\ found \in [1 .. Len(batch) -> Int]
  BY <1>1, CallsAre
<1>4. /\ LaneOf(i) \in LaneSet /\ buffer \in Nat
      /\ \A j \in 1 .. Len(batch) : LaneOf(j) \in LaneSet
  BY <1>1, <1>2, BatchIs DEF Batching, LanesOK
<1>5. CASE buffer = Null
  <2>1. Go({i}, "failed") /\ content' = content
    BY <1>5 DEF Upload
  <2>2. /\ thread' \in [1 .. Len(batch) -> CallStates] /\ DOMAIN thread' = 1 .. Len(batch)
        /\ thread'[i].at = "failed"
        /\ \A j \in 1 .. Len(batch) : j # i => thread'[j] = thread[j]
    BY <1>2, <1>3, <2>1, Placed DEF Places
  <2>3. HasLanes(config) => \A j \in Calls("infer")' : Owns(j)'
    BY <1>1, <2>1, <2>2, OthersOwn
  <2>4. i \notin Running'
    BY <2>2 DEF Running
  <2> QED BY <1>1, <1>2, <1>3, <2>2, <2>3, <2>4 DEF CallMoves
<1>6. CASE buffer # Null
  <2>1. /\ content' = [b \in DOMAIN content \union {buffer} |->
                         IF b = buffer THEN batch[i] ELSE content[b]]
        /\ thread' = [thread EXCEPT ![i].at = "infer", ![i].buffer = buffer]
    BY <1>6 DEF Upload
  <2> HIDE DEF buffer
  <2>2. thread[i] \in CallStates /\ thread[i].next \in Nat
    BY <1>2, <1>3, Fields
  <2>3. thread' = [thread EXCEPT ![i] =
                     [at |-> "infer", next |-> thread[i].next, buffer |-> buffer]]
    <3> DEFINE r == [[thread[i] EXCEPT !.at = "infer"] EXCEPT !.buffer = buffer]
    <3>1. r = [at |-> "infer", next |-> thread[i].next, buffer |-> buffer]
      BY <2>2, BufferSet, Zenon
    <3>2. thread' = [thread EXCEPT ![i] = r]
      BY <1>2, <1>3, <2>1
    <3> QED BY <3>1, <3>2
  <2>4. /\ thread' \in [1 .. Len(batch) -> CallStates] /\ DOMAIN thread' = 1 .. Len(batch)
        /\ thread'[i] = [at |-> "infer", next |-> thread[i].next, buffer |-> buffer]
        /\ \A j \in 1 .. Len(batch) : j # i => thread'[j] = thread[j]
    BY <1>2, <1>3, <1>4, <2>2, <2>3, Set DEF Places
  <2>5. thread'[i].at = "infer" /\ thread'[i].buffer = buffer
    BY <2>4
  <2>6. Owns(i)'
    <3>1. buffer \in DOMAIN content' /\ content'[buffer] = batch[i]
      BY <2>1
    <3>2. Holds(i)'
      BY <1>1, <2>5 DEF Holds, LaneOf, buffer
    <3> QED BY <1>1, <1>6, <2>5, <3>1, <3>2 DEF Owns
  <2>7. ASSUME HasLanes(config), NEW j \in Calls("infer")', j # i PROVE Owns(j)'
    <3>1. j \in 1 .. Len(batch) /\ thread'[j].at = "infer" /\ thread'[j] = thread[j]
      BY <2>4, <2>7 DEF Calls
    <3>2. j \in Calls("infer")
      BY <1>1, <3>1, CallsAre DEF Calls
    <3>3. j \in Running /\ Owns(j)
      BY <1>1, <2>7, <3>2, OwnersAre
    <3>4. LaneOf(i) # LaneOf(j)
      BY <1>2, <2>7, <3>3 DEF Shares
    <3>5. /\ thread[j].buffer \in DOMAIN content \ {Null} /\ lane[LaneOf(j)] = thread[j].buffer
          /\ content[thread[j].buffer] = batch[j]
      BY <3>3 DEF Owns, Holds
    <3>6. thread[j].buffer # buffer
      <4>1. \A l, m \in LaneSet : lane[l] = lane[m] /\ lane[l] # Null => l = m
        BY DEF LanesOK
      <4> QED BY <1>4, <3>1, <3>4, <3>5, <4>1 DEF buffer
    <3>7. thread[j].buffer \in DOMAIN content' /\ content'[thread[j].buffer] = batch[j]
      BY <2>1, <3>5, <3>6
    <3> QED BY <1>1, <3>1, <3>5, <3>7 DEF Owns, Holds, LaneOf
  <2>8. ~Resizes(i)'
    BY <2>5 DEF Resizes
  <2> QED BY <1>1, <1>2, <1>3, <2>4, <2>5, <2>6, <2>7, <2>8 DEF CallMoves
<1> QED BY <1>5, <1>6

LEMMA InferMoves ==
  ASSUME RInv, ReadOK, CallsOK, NEW i, Infer(i)
  PROVE  CallMoves(i)
<1> DEFINE v == IF ~HasLanes(config) THEN batch[i]
                ELSE IF Holds(i) THEN content[thread[i].buffer] ELSE Garbage
<1>1. /\ pc = "infer" /\ pc' = "infer" /\ UNCHANGED <<config, batch, lane, content, sized>>
      /\ i \in Calls("infer") /\ Go({i}, "done") /\ found' = [found EXCEPT ![i] = v]
  BY InferringIs DEF Infer, buffers
<1>2. i \in 1 .. Len(batch) /\ i \in Running
  BY <1>1, CallerIs
<1>3. thread \in [1 .. Len(batch) -> CallStates] /\ found \in [1 .. Len(batch) -> Int]
  BY <1>1, CallsAre
<1>4. v = batch[i]
  <2>1. HasLanes(config) => Owns(i)
    BY <1>1, OwnersAre
  <2> QED BY <2>1 DEF Owns
<1> HIDE DEF v
<1>5. batch[i] \in Int
  BY <1>1, <1>2, BatchIs DEF Batching
<1>6. /\ found' \in [1 .. Len(batch) -> Int] /\ found'[i] = batch[i]
      /\ \A j \in 1 .. Len(batch) : j # i => found'[j] = found[j]
  BY <1>1, <1>2, <1>3, <1>4, <1>5
<1>7. /\ thread' \in [1 .. Len(batch) -> CallStates] /\ DOMAIN thread' = 1 .. Len(batch)
      /\ thread'[i].at = "done"
      /\ \A j \in 1 .. Len(batch) : j # i => thread'[j] = thread[j]
  BY <1>1, <1>2, <1>3, Placed DEF Places
<1>8. HasLanes(config) => \A j \in Calls("infer")' : Owns(j)'
  BY <1>1, <1>7, OthersOwn
<1>9. i \notin Running'
  BY <1>7 DEF Running
<1> QED BY <1>1, <1>2, <1>6, <1>7, <1>8, <1>9 DEF CallMoves

(* Outside of the inference nothing is said of the calls.                  *)
LEMMA CallsQuiet ==
  ASSUME pc' \notin {"infer", "write"}
  PROVE  CallsOK'
  BY DEF CallsOK

(* The calls that are started together are for frames less than the number *)
(* of lanes apart, and there is one of them where only TensorRT has more.  *)
LEMMA ChunkIs ==
  ASSUME RInv, PlanOK(config, path, plan), ~Racing(config), ReadOK, CallsOK, pc = "infer",
         Calls("waiting") # {}, NEW i \in Chunk, NEW j \in Chunk,
         i \in 1 .. Len(batch), j \in 1 .. Len(batch)
  PROVE  ~Shares(i, j)
<1> DEFINE first == CHOOSE x \in Calls("waiting") : \A y \in Calls("waiting") : x <= y
           n == Len(batch)
<1>1. n \in Nat /\ DOMAIN thread = 1 .. n
  BY BatchIs, CallsAre DEF Batching
<1>2. Calls("waiting") \subseteq 1 .. n
  BY <1>1 DEF Calls
<1>3. \E x \in Calls("waiting") : \A y \in Calls("waiting") : x <= y
  <2> DEFINE S == Calls("waiting")
  <2>1. S \subseteq 1 .. n /\ S # {}
    BY <1>2
  <2> HIDE DEF S, n
  <2>2. \E x \in S : \A y \in S : x <= y
    BY <1>1, <2>1, LeastOf
  <2> QED BY <2>2 DEF S
<1>4. first \in 1 .. n
  BY <1>2, <1>3
<1>5. Chunk = first .. Smaller(first + Width - 1, n)
  BY DEF Chunk
<1>6. /\ plan.contexts \in 1 .. LaneCount /\ LaneCount \in Nat \ {0}
      /\ Runtime(config) # "tensorrt" => plan.contexts = 1
  BY NumbersOf DEF PlanOK, ReadOK, Batching
<1>7. /\ Width \in 1 .. LaneCount
      /\ Runtime(config) # "tensorrt" => Width = 1
  <2> HIDE DEF n
  <2> QED BY <1>6 DEF Width
<1> HIDE DEF first, n
<1>8. /\ i \in Int /\ j \in Int /\ first <= i /\ first <= j
      /\ i <= first + Width - 1 /\ j <= first + Width - 1
  <2>1. \A x \in Chunk : x \in Int /\ first <= x /\ x <= Smaller(first + Width - 1, n)
    BY <1>1, <1>4, <1>5, <1>7 DEF Smaller
  <2>2. Smaller(first + Width - 1, n) <= first + Width - 1
    BY <1>1, <1>4, <1>7 DEF Smaller
  <2>3. Smaller(first + Width - 1, n) \in Int
    BY <1>1, <1>4, <1>7 DEF Smaller
  <2> QED BY <1>4, <1>7, <2>1, <2>2, <2>3
<1>9. CASE i = j
  BY <1>9 DEF Shares
<1>10. CASE i # j
  <2>1. Runtime(config) = "tensorrt"
    BY <1>4, <1>7, <1>8, <1>10
  <2>2. LaneCount \in Nat \ {0} /\ i - j < LaneCount /\ j - i < LaneCount
    BY <1>4, <1>6, <1>7, <1>8
  <2>3. batch[i] \in Nat /\ batch[j] \in Nat /\ batch[i] - batch[j] = i - j
    <3>1. /\ batch[i] \in Nat /\ batch[i] = frame - n + i - 1
          /\ batch[j] \in Nat /\ batch[j] = frame - n + j - 1
      BY BatchIs DEF Batching, n
    <3>2. frame \in Nat
      BY DEF ReadOK, Batching
    <3> QED BY <1>1, <1>8, <3>1, <3>2
  <2>4. batch[i] % LaneCount # batch[j] % LaneCount
    <3> DEFINE a == batch[i]
               b == batch[j]
    <3>0. a \in Nat /\ b \in Nat /\ a - b = i - j
      BY <2>3
    <3> HIDE DEF a, b
    <3>1. CASE i < j
      <4>1. a < b /\ b < a + LaneCount
        BY <1>8, <2>2, <3>0, <3>1
      <4>2. a % LaneCount # b % LaneCount
        BY <2>2, <3>0, <4>1, LanesApart
      <4> QED BY <4>2 DEF a, b
    <3>2. CASE j < i
      <4>1. b < a /\ a < b + LaneCount
        BY <1>8, <2>2, <3>0, <3>2
      <4>2. b % LaneCount # a % LaneCount
        BY <2>2, <3>0, <4>1, LanesApart
      <4> QED BY <4>2 DEF a, b
    <3> QED BY <1>8, <1>10, <3>1, <3>2
  <2> QED BY <2>1, <2>4 DEF Shares, LaneOf
<1> QED BY <1>9, <1>10

LEMMA StartCallsOK ==
  ASSUME RInv, PlanOK(config, path, plan), ~Racing(config), ReadOK, LanesOK, CallsOK, StartCalls
  PROVE  CallsOK'
<1> DEFINE place == IF HasLanes(config) THEN "check" ELSE "infer"
           n == Len(batch)
<1>1. /\ pc = "infer" /\ pc' = "infer" /\ UNCHANGED <<config, batch, found>>
      /\ Idle /\ Calls("waiting") # {} /\ Go(Chunk, place)
  BY InferringIs DEF StartCalls
<1>2. /\ thread \in [1 .. n -> CallStates] /\ DOMAIN thread = 1 .. n /\ found \in [1 .. n -> Int]
      /\ \A i \in 1 .. n : thread[i].at = "done" => found[i] = batch[i]
  BY <1>1, CallsAre
<1>3. place \in Places \ {"done", "waiting", "failed", "free", "allocate"}
  BY DEF Places
<1>16. HasLanes(config) => place # "infer"
  OBVIOUS
<1>4. Runtime(config) = "tensorrt" => sized' = TRUE
  <2>0. sized = TRUE \/ sized = FALSE
    BY DEF LanesOK
  <2>1. ASSUME Runtime(config) = "tensorrt", sized = FALSE PROVE sized' = TRUE
    BY <2>1 DEF StartCalls, SizeAll
  <2>2. ASSUME sized = TRUE PROVE sized' = TRUE
    BY <2>2 DEF StartCalls, buffers, SizeAll
  <2> QED BY <2>0, <2>1, <2>2
<1> HIDE DEF place, n
<1>5. thread' = [i \in 1 .. n |-> IF i \in Chunk THEN [thread[i] EXCEPT !.at = place]
                                  ELSE thread[i]]
  BY <1>1, <1>2 DEF Go
<1>6. \A i \in 1 .. n : /\ thread[i] \in CallStates
                        /\ [thread[i] EXCEPT !.at = place] \in CallStates
                        /\ [thread[i] EXCEPT !.at = place].at = place
  BY <1>2, <1>3 DEF CallStates
<1>7. thread' \in [1 .. n -> CallStates] /\ DOMAIN thread' = 1 .. n
  BY <1>5, <1>6
<1>8. \A i \in 1 .. n : IF i \in Chunk THEN thread'[i].at = place ELSE thread'[i] = thread[i]
  BY <1>5, <1>6
<1>9. \A i \in 1 .. n : thread[i].at \in {"waiting", "done"}
  BY <1>1, <1>2 DEF Idle, Calls
<1>10. \A i \in Running' : i \in 1 .. n /\ i \in Chunk /\ thread'[i].at = place
  BY <1>7, <1>8, <1>9 DEF Running
<1>11. \A i \in 1 .. n : thread'[i].at = "done" => found'[i] = batch'[i]
  BY <1>1, <1>2, <1>3, <1>8
<1>12. \A i, j \in Running' : ~Shares(i, j)'
  <2>1. ASSUME NEW i \in Running', NEW j \in Running' PROVE ~Shares(i, j)'
    <3>1. ~Shares(i, j)
      BY <1>1, <1>10, ChunkIs DEF n
    <3> QED BY <1>1, <3>1 DEF Shares, LaneOf
  <2> QED BY <2>1
<1>13. Runtime(config') = "tensorrt" => \A i \in Running' : sized' = TRUE /\ ~Resizes(i)'
  BY <1>1, <1>3, <1>4, <1>10 DEF Resizes
<1>14. HasLanes(config') => \A i \in Calls("infer")' : Owns(i)'
  <2>1. ASSUME HasLanes(config), NEW i \in Calls("infer")' PROVE FALSE
    <3>1. i \in 1 .. n /\ thread'[i].at = "infer"
      BY <1>7 DEF Calls
    <3> QED BY <1>8, <1>9, <1>16, <2>1, <3>1
  <2> QED BY <1>1, <2>1
<1>15. Len(batch') = n
  BY <1>1 DEF n
<1> QED BY <1>1, <1>2, <1>7, <1>11, <1>12, <1>13, <1>14, <1>15 DEF CallsOK

(* A batch is complete: no call has been made for it.                      *)
LEMMA EndFillCallsOK ==
  ASSUME RInv, ReadOK, EndFill
  PROVE  CallsOK'
<1>1. pc = "fill" /\ batch' = batch
  BY DEF EndFill, reading
<1>2. CASE batch = <<>>
  <2>1. pc' = "finish"
    BY <1>2 DEF EndFill
  <2> QED BY <2>1, CallsQuiet
<1>3. CASE batch # <<>>
  <2> DEFINE n == Len(batch)
  <2>1. n \in Nat /\ DOMAIN batch = 1 .. n
    BY <1>1, BatchIs DEF Batching
  <2>2. /\ pc' = "infer" /\ thread' = [i \in DOMAIN batch |-> Waiting]
        /\ found' = [i \in DOMAIN batch |-> Garbage]
    BY <1>3 DEF EndFill
  <2>3. Waiting \in CallStates /\ Waiting.at = "waiting" /\ Garbage \in Int
    BY DEF Waiting, CallStates, Places, Null, Garbage
  <2>4. Len(batch') = n
    BY <1>1
  <2> HIDE DEF n, Waiting, Garbage
  <2>5. thread' \in [1 .. n -> CallStates] /\ found' \in [1 .. n -> Int]
    BY <2>1, <2>2, <2>3
  <2>6. DOMAIN thread' = 1 .. n /\ \A i \in 1 .. n : thread'[i].at = "waiting"
    BY <2>1, <2>2, <2>3
  <2>7. Running' = {} /\ Calls("infer")' = {}
    BY <2>6 DEF Running, Calls
  <2> QED BY <2>2, <2>4, <2>5, <2>6, <2>7 DEF CallsOK
<1> QED BY <1>2, <1>3

(* Every step of the program keeps the calls apart.                        *)
LEMMA CallsStep ==
  ASSUME RInv, PlanOK(config, path, plan), ~Racing(config), ReadOK, LanesOK, CallsOK, [Next]_vars
  PROVE  CallsOK'
<1> USE DEF setting, control, sizing, reading, buffers, inferring
<1>1. CASE Aside \/ ParseOption
  <2>1. (pc \in {"main", "parse"} /\ pc' = pc) \/ pc' \in {"parse", "exit"}
    BY <1>1 DEF Aside, ParseOption, Exit
  <2> QED BY <2>1, CallsQuiet
<1>2. CASE Dispatch \/ Return
  BY <1>2, DispatchLeaves, ReturnLeaves, BeginLeaves, CallsQuiet
<1>3. CASE OpenOther \/ OpenOutput \/ CreateEngine \/ MakePlan \/ MakeBuffers
  <2>1. \E step : Done(step)
    BY <1>3 DEF OpenOther, OpenOutput, CreateEngine, MakePlan, MakeBuffers
  <2> QED BY <2>1, DoneLeaves, CallsQuiet
<1>4. CASE Skip \/ Start \/ BodyDelivers \/ ReadFrame \/ ReadEnd
  <2>1. pc' \in {"set_up", "fill", "body", "transfer"}
    BY <1>4 DEF Skip, Start, BodyDelivers, ReadFrame, ReadEnd, Reads
  <2> QED BY <2>1, CallsQuiet
<1>5. CASE CountLanes \/ SetUpFails \/ BodyEnds
  BY <1>5, CountLanesLeaves, DoneLeaves, SetUpFailsLeaves, BodyEndsLeaves, CallsQuiet
<1>6. CASE Transfer \/ ReadFails \/ WriteFails \/ SizingFails
  BY <1>6, TransferLeaves, ReadFailsLeaves, SizingFailsLeaves, CallsQuiet
<1>7. CASE EndFill
  BY <1>7, EndFillCallsOK
<1>8. CASE StartCalls
  BY <1>8, StartCallsOK
<1>9. CASE Threads
  <2>1. PICK i \in DOMAIN thread : \/ CheckSize(i) \/ FreeBuffer(i) \/ AllocateBuffer(i)
                                   \/ Upload(i) \/ Infer(i) \/ CallFails(i)
    BY <1>9 DEF Threads
  <2>2. CallMoves(i)
    BY <2>1, CheckMoves, FreeMoves, AllocateMoves, UploadMoves, InferMoves, CallFailsMoves
  <2> QED BY <2>2, CallMovesOK
<1>10. CASE JoinCalls
  <2>1. /\ pc = "infer" /\ UNCHANGED <<config, batch, thread, found>>
        /\ \/ pc' = "clean_up"
           \/ pc' = "write" /\ Calls("done") = DOMAIN thread
    BY <1>10, JoinLeaves
  <2>2. CASE pc' = "clean_up"
    BY <2>2, CallsQuiet
  <2>3. CASE pc' = "write" /\ Calls("done") = DOMAIN thread
    <3>1. /\ thread \in [1 .. Len(batch) -> CallStates] /\ DOMAIN thread = 1 .. Len(batch)
          /\ found \in [1 .. Len(batch) -> Int]
          /\ \A i \in 1 .. Len(batch) : thread[i].at = "done" => found[i] = batch[i]
      BY <2>1, CallsAre
    <3>2. \A i \in 1 .. Len(batch) : found[i] = batch[i]
      BY <2>3, <3>1 DEF Calls
    <3> QED BY <2>1, <2>3, <3>1, <3>2 DEF CallsOK
  <2> QED BY <2>1, <2>2, <2>3
<1>11. CASE WriteRow
  <2>1. pc = "write" /\ pc' = "write" /\ UNCHANGED <<batch, thread, found>>
    BY <1>11 DEF WriteRow, Unwritten
  <2> QED BY <2>1 DEF CallsOK
<1>12. CASE NextBatch
  <2>1. pc' \in {"finish", "fill"}
    BY <1>12 DEF NextBatch
  <2> QED BY <2>1, CallsQuiet
<1>13. CASE Finish \/ CleanUp
  BY <1>13, EndLeaves, CallsQuiet
<1>14. CASE Exited \/ UNCHANGED vars
  BY <1>14 DEF Exited, vars, CallsOK, Running, Calls, Shares, Resizes, Owns, Holds, LaneOf,
     HasLanes, Cuda, Runtime
<1> QED BY <1>1, <1>2, <1>3, <1>4, <1>5, <1>6, <1>7, <1>8, <1>9, <1>10, <1>11, <1>12, <1>13,
           <1>14 DEF Next

(* The two pipelines of the loop write their rows to the CSV file.         *)
LEMMA CsvToCome ==
  ASSUME NEW p \in {"cpu", "bridge"}
  PROVE  Has(Steps[p], "csv") /\ Output(p) = "csv"
<1>1. Steps[p] = <<"paths", "reader", "csv", "benchmark", "engine", "plan", "buffers">>
  BY DEF Steps
<1>2. 3 \in DOMAIN Steps[p] /\ Steps[p][3] = "csv"
  BY <1>1
<1> QED BY <1>2 DEF Has, Output

(* The output stands as it was, or is empty.                               *)
Untouched == out' = out \/ out' = <<>>

LEMMA RowsStand ==
  ASSUME WriteOK, Untouched
  PROVE  Len(out') \in Nat /\ out' = FirstFrames(Len(out'))
<1>1. CASE out' = out
  BY <1>1 DEF WriteOK
<1>2. CASE out' = <<>>
  BY <1>2, NoRows
<1> QED BY <1>1, <1>2 DEF Untouched

(* A pipeline that fails leaves no success, and one that begins has its    *)
(* output still to open.                                                   *)
LEMMA WriteFailed ==
  ASSUME WriteOK, Untouched, pc' = "clean_up", result' # 0
  PROVE  WriteOK'
  BY RowsStand DEF WriteOK

LEMMA WriteBegun ==
  ASSUME WriteOK, NEW p, Begin(p)
  PROVE  WriteOK'
<1>1. pc' = "set_up" /\ path' = p /\ todo' = Steps[p] /\ out' = out
  BY BeginLeaves
<1>2. p \in {"cpu", "bridge"} => Has(todo', "csv")
  BY <1>1, CsvToCome
<1>3. Len(out') \in Nat /\ out' = FirstFrames(Len(out'))
  BY <1>1, RowsStand DEF Untouched
<1> QED BY <1>1, <1>2, <1>3 DEF WriteOK

LEMMA WriteKept ==
  ASSUME WriteOK, UNCHANGED <<config, path, todo, video, batch, frame, out, written, result>>,
         \/ pc' = pc
         \/ pc \in {"fill", "transfer", "infer"} /\ pc' \in {"fill", "transfer", "infer", "write"}
  PROVE  WriteOK'
  BY DEF WriteOK, Target

(* No pipeline has begun.                                                  *)
LEMMA WriteParsing ==
  ASSUME WriteOK, pc' \in {"main", "parse", "exit"}, path' = "none", out' = out
  PROVE  WriteOK'
  BY RowsStand DEF WriteOK, Untouched

(* A step of the set-up is taken that does not write.                      *)
LEMMA WriteSetUp ==
  ASSUME SInv, WriteOK, pc = "set_up", pc' = "set_up", path' = path, todo # <<>>,
         todo' = Tail(todo), Head(todo) # "csv", UNCHANGED <<out, written>>
  PROVE  WriteOK'
<1>1. ASSUME Has(todo, "csv") PROVE Has(todo', "csv")
  <2>1. todo \in Seq(AllSteps)
    BY DEF SInv
  <2> QED BY <1>1, <2>1, HeadOrTail
<1>2. Len(out') \in Nat /\ out' = FirstFrames(Len(out'))
  BY RowsStand DEF Untouched
<1> QED BY <1>1, <1>2 DEF WriteOK

LEMMA WriteOpens ==
  ASSUME SInv, WriteOK, OpenOutput
  PROVE  WriteOK'
<1>1. PICK step \in {"csv", "writer"} : Done(step)
  BY DEF OpenOutput
<1>2. /\ pc = "set_up" /\ pc' = "set_up" /\ path' = path /\ todo # <<>> /\ Head(todo) = step
      /\ todo' = Tail(todo)
  BY <1>1, DoneLeaves
<1>3. CASE step = Output(path)
  <2>1. out' = <<>> /\ written' = 0
    BY <1>2, <1>3 DEF OpenOutput, Truncate
  <2>2. Len(out') \in Nat /\ out' = FirstFrames(Len(out'))
    BY <2>1, RowsStand DEF Untouched
  <2> QED BY <1>2, <2>1, <2>2 DEF WriteOK
<1>4. CASE step # Output(path)
  <2>1. UNCHANGED <<out, written>>
    BY <1>2, <1>4 DEF OpenOutput, writing
  <2>2. CASE path \in {"cpu", "bridge"}
    BY <1>1, <1>2, <1>4, <2>1, <2>2, CsvToCome, WriteSetUp
  <2>3. CASE path \notin {"cpu", "bridge"}
    <3>1. Len(out') \in Nat /\ out' = FirstFrames(Len(out'))
      BY <2>1, RowsStand DEF Untouched
    <3> QED BY <1>2, <2>3, <3>1 DEF WriteOK
  <2> QED BY <2>2, <2>3
<1> QED BY <1>3, <1>4

(* The loop ends at the end of the video or at the limit, with all rows.   *)
LEMMA AtTheEnd ==
  ASSUME RInv, ReadOK, pc \in Batching, eof = TRUE \/ AtLimit
  PROVE  frame = Target
<1> DEFINE max == config.number.max_frames
<1>1. video.frames \in Nat /\ max \in Int
  BY NumbersOf
<1>2. /\ frame \in Nat /\ frame <= video.frames /\ (max > 0 => frame <= max)
      /\ eof = TRUE => frame = video.frames
  BY DEF ReadOK
<1>3. AtLimit <=> max > 0 /\ frame >= max
  BY DEF AtLimit
<1>4. Target = IF max > 0 THEN Smaller(max, video.frames) ELSE video.frames
  BY DEF Target
<1> HIDE DEF max
<1> QED BY <1>1, <1>2, <1>3, <1>4 DEF Smaller

(* A frame read is one more before the next and one more in the batch.     *)
LEMMA WriteFilled ==
  ASSUME RInv, ReadOK, WriteOK, Filled, UNCHANGED <<config, path, video, out, written>>,
         pc \in {"fill", "transfer"}, pc' = "fill"
  PROVE  WriteOK'
<1>1. /\ Len(batch) \in Nat /\ frame \in Nat
      /\ batch = [i \in 1 .. Len(batch) |-> frame - Len(batch) + i - 1]
  BY DEF ReadOK, Batching
<1>2. Len(batch') = Len(batch) + 1 /\ frame' = frame + 1
  BY <1>1, BatchFilled DEF Filled
<1>3. written = 0 /\ Len(out) = frame - Len(batch) + written
  BY DEF WriteOK
<1>4. Len(out') = frame' - Len(batch') + written' /\ written' = 0 /\ written' \in 0 .. Len(batch')
  BY <1>1, <1>2, <1>3
<1>5. Len(out') \in Nat /\ out' = FirstFrames(Len(out'))
  BY RowsStand DEF Untouched
<1> QED BY <1>4, <1>5 DEF WriteOK

LEMMA WriteEndFill ==
  ASSUME RInv, PlanOK(config, path, plan), ReadOK, WriteOK, EndFill
  PROVE  WriteOK'
<1>1. /\ pc = "fill" /\ ~Reads
      /\ UNCHANGED <<config, path, todo, video, plan, batch, frame, eof, out, written, result>>
  BY DEF EndFill, setting, sizing, reading, writing
<1>2. CASE batch # <<>>
  <2>1. pc' = "infer"
    BY <1>2 DEF EndFill
  <2> QED BY <1>1, <2>1, WriteKept
<1>3. CASE batch = <<>>
  <2>1. pc' = "finish"
    BY <1>3 DEF EndFill
  <2>2. Len(batch) = 0 /\ plan.batch \in Nat \ {0}
    BY <1>3 DEF PlanOK
  <2>3. eof = TRUE \/ AtLimit
    <3>1. eof \in BOOLEAN
      BY <1>1 DEF ReadOK, Batching
    <3>2. Len(batch) < plan.batch
      BY <2>2
    <3>3. eof = FALSE /\ ~AtLimit => Reads
      BY <1>1, <3>2 DEF Reads
    <3> QED BY <1>1, <3>1, <3>3
  <2>4. frame = Target /\ Target' = Target
    BY <1>1, <2>3, AtTheEnd DEF Batching, Target
  <2>5. Len(out) = frame
    <3>1. written = 0 /\ Len(out) = frame - Len(batch) + written /\ frame \in Nat
      BY <1>1 DEF WriteOK, ReadOK, Batching
    <3> QED BY <2>2, <3>1
  <2>6. Len(out') \in Nat /\ out' = FirstFrames(Len(out'))
    BY <1>1, RowsStand DEF Untouched
  <2> QED BY <1>1, <2>1, <2>4, <2>5, <2>6 DEF WriteOK
<1> QED BY <1>2, <1>3

(* A row is that of the frame that comes next in the output.               *)
LEMMA RowIsNext ==
  ASSUME RInv, ReadOK, CallsOK, WriteOK, Unwritten, Row
  PROVE  /\ written \in Nat /\ written < Len(batch) /\ Len(batch) \in Nat /\ frame \in Nat
         /\ Len(out) = frame - Len(batch) + written
         /\ Len(out') = Len(out) + 1 /\ out' = FirstFrames(Len(out'))
<1>1. /\ pc = "write" /\ written < Len(batch) /\ Len(batch) \in Nat /\ frame \in Nat
  BY DEF Unwritten, ReadOK, Batching
<1>2. written \in 0 .. Len(batch) /\ Len(out) = frame - Len(batch) + written
  BY <1>1 DEF WriteOK
<1> DEFINE i == written + 1
<1>3. i \in 1 .. Len(batch)
  BY <1>1, <1>2
<1>4. found[i] = batch[i] /\ batch[i] = frame - Len(batch) + i - 1
  BY <1>1, <1>3, BatchIs DEF Batching, CallsOK
<1>5. found[i] = Len(out)
  BY <1>1, <1>2, <1>4
<1>6. out' = Append(out, Len(out))
  BY <1>5 DEF Row
<1>7. Len(out) \in Nat /\ out = FirstFrames(Len(out))
  BY DEF WriteOK
<1>8. Len(out') = Len(out) + 1 /\ out' = FirstFrames(Len(out) + 1)
  BY <1>6, <1>7, RowAppended
<1> QED BY <1>1, <1>2, <1>8

LEMMA WriteRowOK ==
  ASSUME RInv, ReadOK, CallsOK, WriteOK, WriteRow
  PROVE  WriteOK'
<1>1. /\ pc = "write" /\ pc' = "write" /\ Unwritten /\ Row /\ written' = written + 1
      /\ UNCHANGED <<batch, frame>>
  BY DEF WriteRow, Unwritten, control, reading
<1>2. /\ written \in Nat /\ written < Len(batch) /\ Len(batch) \in Nat /\ frame \in Nat
      /\ Len(out) = frame - Len(batch) + written
      /\ Len(out') = Len(out) + 1 /\ out' = FirstFrames(Len(out'))
  BY <1>1, RowIsNext
<1>3. Len(out) \in Nat
  BY DEF WriteOK
<1>4. /\ written' \in 0 .. Len(batch') /\ Len(out') = frame' - Len(batch') + written'
      /\ Len(out') \in Nat
  BY <1>1, <1>2, <1>3
<1> QED BY <1>1, <1>2, <1>4 DEF WriteOK

LEMMA WriteFailsOK ==
  ASSUME RInv, ReadOK, CallsOK, WriteOK, WriteFails
  PROVE  WriteOK'
<1>1. Unwritten /\ pc' = "clean_up" /\ result' # 0 /\ (Row \/ out' = out)
  BY ReadFailsLeaves DEF WriteFails
<1>2. CASE Row
  <2>1. Len(out') = Len(out) + 1 /\ out' = FirstFrames(Len(out')) /\ Len(out) \in Nat
    BY <1>1, <1>2, RowIsNext DEF WriteOK
  <2>2. Len(out') \in Nat
    BY <2>1
  <2> QED BY <1>1, <2>1, <2>2 DEF WriteOK
<1>3. CASE out' = out
  BY <1>1, <1>3, WriteFailed DEF Untouched
<1> QED BY <1>1, <1>2, <1>3

LEMMA WriteNextBatch ==
  ASSUME RInv, ReadOK, WriteOK, NextBatch
  PROVE  WriteOK'
<1>1. /\ pc = "write" /\ written = Len(batch) /\ written' = 0
      /\ UNCHANGED <<config, path, video, frame, eof, out>>
  BY DEF NextBatch, setting, sizing
<1>2. Len(out) = frame /\ frame \in Nat
  <2>1. Len(out) = frame - Len(batch) + written /\ frame \in Nat /\ Len(batch) \in Nat
    BY <1>1 DEF WriteOK, ReadOK, Batching
  <2> QED BY <1>1, <2>1
<1>3. Len(out') \in Nat /\ out' = FirstFrames(Len(out'))
  BY <1>1, RowsStand DEF Untouched
<1>4. CASE eof = TRUE
  <2>1. pc' = "finish"
    BY <1>4 DEF NextBatch
  <2>2. frame = Target /\ Target' = Target
    BY <1>1, <1>4, AtTheEnd DEF Batching, Target
  <2> QED BY <1>1, <1>2, <1>3, <2>1, <2>2 DEF WriteOK
<1>5. CASE eof = FALSE
  <2>1. pc' = "fill" /\ batch' = <<>>
    BY <1>5 DEF NextBatch
  <2>2. Len(batch') = 0
    BY <2>1
  <2>3. Len(out') = frame' - Len(batch') + written' /\ written' \in 0 .. Len(batch')
    BY <1>1, <1>2, <2>2
  <2> QED BY <1>1, <1>3, <2>1, <2>3 DEF WriteOK
<1> QED BY <1>1, <1>4, <1>5 DEF ReadOK, Batching

(* Every step of the program keeps the output in order.                    *)
LEMMA WriteStep ==
  ASSUME RInv, SInv, PlanOK(config, path, plan), ReadOK, CallsOK, WriteOK, [Next]_vars
  PROVE  WriteOK'
<1> USE DEF setting, control, sizing, reading, writing
<1>1. CASE Aside
  <2>1. /\ pc = "main" /\ pc' \in {"parse", "exit"} /\ UNCHANGED <<path, out>>
    BY <1>1 DEF Aside, Exit, Working
  <2>2. path = "none"
    BY <2>1 DEF SInv, Parsing
  <2> QED BY <2>1, <2>2, WriteParsing
<1>2. CASE ParseOption
  <2>1. /\ pc = "parse" /\ pc' \in {"parse", "exit"} /\ UNCHANGED <<path, out>>
    BY <1>2 DEF ParseOption, Exit, Working
  <2>2. path = "none"
    BY <2>1 DEF SInv, Parsing
  <2> QED BY <2>1, <2>2, WriteParsing
<1>3. CASE Dispatch
  <2>1. CASE Begin(FirstPath(config))
    BY <2>1, WriteBegun
  <2>2. CASE pc' = "exit" /\ UNCHANGED <<path, out>>
    <3>1. path = "none"
      BY <1>3, DispatchLeaves DEF SInv, Parsing
    <3> QED BY <2>2, <3>1, WriteParsing
  <2> QED BY <1>3, <2>1, <2>2, DispatchLeaves
<1>4. CASE Return
  <2>1. CASE \E p \in {"blocking", "cpu"} : Begin(p)
    BY <2>1, WriteBegun
  <2>2. CASE pc' = "exit" /\ UNCHANGED <<path, video, out>> /\ (result' = 0 => result = 0)
    <3>1. pc = "back" /\ config' = config
      BY <1>4, ReturnLeaves
    <3>2. Len(out') \in Nat /\ out' = FirstFrames(Len(out'))
      BY <2>2, RowsStand DEF Untouched
    <3>3. result' = 0 /\ path' # "none" => Len(out') = Target'
      BY <2>2, <3>1 DEF WriteOK, Target
    <3> QED BY <2>2, <3>2, <3>3 DEF WriteOK
  <2> QED BY <1>4, <2>1, <2>2, ReturnLeaves
<1>5. CASE OpenOutput
  BY <1>5, WriteOpens
<1>6. CASE OpenOther \/ CreateEngine \/ MakePlan \/ MakeBuffers
  <2>1. \E step : step # "csv" /\ Done(step)
    BY <1>6 DEF OpenOther, CreateEngine, MakePlan, MakeBuffers
  <2>2. UNCHANGED <<out, written>>
    BY <1>6 DEF OpenOther, CreateEngine, MakePlan, MakeBuffers, Working
  <2> QED BY <2>1, <2>2, DoneLeaves, WriteSetUp
<1>7. CASE Skip
  <2>1. /\ pc = "set_up" /\ pc' = "set_up" /\ path' = path /\ todo # <<>> /\ todo' = Tail(todo)
        /\ ~Needed(path, config, Head(todo)) /\ UNCHANGED <<out, written>>
    BY <1>7 DEF Skip, Working
  <2>2. Head(todo) # "csv"
    BY <2>1 DEF Needed
  <2> QED BY <2>1, <2>2, WriteSetUp
<1>8. CASE CountLanes
  <2>1. CASE Done("lanes")
    BY <1>8, <2>1, CountLanesLeaves, DoneLeaves, WriteSetUp
  <2>2. CASE pc' = "clean_up" /\ result' # 0
    BY <1>8, <2>2, CountLanesLeaves, WriteFailed DEF Untouched
  <2> QED BY <1>8, <2>1, <2>2, CountLanesLeaves
<1>9. CASE SetUpFails
  BY <1>9, SetUpFailsLeaves, WriteFailed DEF Untouched
<1>10. CASE Start
  <2>1. /\ pc = "set_up" /\ todo = <<>> /\ UNCHANGED <<path, batch, frame, out, written>>
        /\ pc' = IF path \in {"cpu", "bridge"} THEN "fill" ELSE "body"
    BY <1>10 DEF Start, Working
  <2>2. Len(out') \in Nat /\ out' = FirstFrames(Len(out'))
    BY <2>1, RowsStand DEF Untouched
  <2>3. CASE path \in {"cpu", "bridge"}
    <3>1. out = <<>> /\ written = 0 /\ batch = <<>> /\ frame = 0
      BY <2>1, <2>3, EmptyHas DEF WriteOK, ReadOK
    <3>2. Len(out') = 0 /\ Len(batch') = 0 /\ written' = 0 /\ frame' = 0
      BY <2>1, <3>1
    <3>3. written' \in 0 .. Len(batch') /\ Len(out') = frame' - Len(batch') + written'
      BY <3>2
    <3> QED BY <2>1, <2>2, <2>3, <3>2, <3>3 DEF WriteOK
  <2>4. CASE path \notin {"cpu", "bridge"}
    BY <2>1, <2>2, <2>4 DEF WriteOK
  <2> QED BY <2>3, <2>4
<1>11. CASE BodyDelivers
  <2>1. pc' = "body" /\ out' = Append(out, Len(out))
    BY <1>11 DEF BodyDelivers, Run!Deliver
  <2>2. Len(out) \in Nat /\ out = FirstFrames(Len(out))
    BY DEF WriteOK
  <2>3. Len(out') = Len(out) + 1 /\ out' = FirstFrames(Len(out) + 1)
    BY <2>1, <2>2, RowAppended
  <2>4. Len(out') \in Nat /\ out' = FirstFrames(Len(out'))
    BY <2>2, <2>3
  <2> QED BY <2>1, <2>4 DEF WriteOK
<1>12. CASE BodyEnds
  <2>1. /\ pc' = "clean_up" /\ UNCHANGED <<config, video, out>>
        /\ result' = 0 => Len(out) = Target
    BY <1>12, BodyEndsLeaves
  <2>2. Len(out') \in Nat /\ out' = FirstFrames(Len(out')) /\ Target' = Target
    BY <2>1, RowsStand DEF Untouched, Target
  <2> QED BY <2>1, <2>2 DEF WriteOK
<1>13. CASE ReadFrame
  <2>1. pc = "fill" /\ UNCHANGED <<config, path, todo, video, eof, out, written, result>>
    BY <1>13 DEF ReadFrame, Reads
  <2>2. CASE path = "cpu"
    BY <1>13, <2>1, <2>2, WriteFilled DEF ReadFrame
  <2>3. CASE path # "cpu"
    BY <1>13, <2>1, <2>3, WriteKept DEF ReadFrame
  <2> QED BY <2>2, <2>3
<1>14. CASE Transfer
  <2>1. CASE pc' = "fill" /\ Filled
    BY <1>14, <2>1, TransferLeaves, WriteFilled
  <2>2. CASE pc' = "clean_up" /\ result' # 0
    BY <1>14, <2>2, TransferLeaves, WriteFailed DEF Untouched
  <2> QED BY <1>14, <2>1, <2>2, TransferLeaves
<1>15. CASE ReadEnd
  BY <1>15, WriteKept DEF ReadEnd
<1>16. CASE ReadFails
  <2>1. out' = out
    BY <1>16 DEF ReadFails, Working
  <2> QED BY <1>16, <2>1, ReadFailsLeaves, WriteFailed DEF Untouched
<1>17. CASE EndFill
  BY <1>17, WriteEndFill
<1>18. CASE StartCalls \/ Threads
  BY <1>18, CallLeaves, WriteKept
<1>19. CASE SizingFails
  BY <1>19, SizingFailsLeaves, WriteFailed DEF Untouched
<1>20. CASE JoinCalls
  <2>1. todo' = todo \/ pc' = "clean_up"
    BY <1>20 DEF JoinCalls, Inferring
  <2>2. CASE pc' = "clean_up" /\ result' # 0
    BY <1>20, <2>2, JoinLeaves, WriteFailed DEF Untouched
  <2>3. CASE pc' = "write" /\ result' = result
    BY <1>20, <2>1, <2>3, JoinLeaves, WriteKept
  <2> QED BY <1>20, <2>2, <2>3, JoinLeaves
<1>21. CASE WriteRow
  BY <1>21, WriteRowOK
<1>22. CASE WriteFails
  BY <1>22, WriteFailsOK
<1>23. CASE NextBatch
  BY <1>23, WriteNextBatch
<1>24. CASE Finish \/ CleanUp
  <2>1. /\ UNCHANGED <<config, path, video, out>>
        /\ \/ pc = "finish" /\ pc' = "clean_up"
           \/ pc = "clean_up" /\ pc' = "back" /\ result' = result
    BY <1>24, EndLeaves
  <2>2. Len(out') \in Nat /\ out' = FirstFrames(Len(out')) /\ Target' = Target
    BY <2>1, RowsStand DEF Untouched, Target
  <2>3. result' = 0 /\ path' # "none" => Len(out') = Target'
    BY <2>1, <2>2 DEF WriteOK
  <2> QED BY <2>1, <2>2, <2>3 DEF WriteOK
<1>25. CASE Exited \/ UNCHANGED vars
  <2>1. UNCHANGED <<pc, config, path, todo, video, batch, frame, out, written, result>>
    BY <1>25 DEF Exited, vars
  <2> QED BY <2>1, WriteKept
<1> QED BY <1>1, <1>2, <1>3, <1>4, <1>5, <1>6, <1>7, <1>8, <1>9, <1>10, <1>11, <1>12, <1>13,
           <1>14, <1>15, <1>16, <1>17, <1>18, <1>19, <1>20, <1>21, <1>22, <1>23, <1>24, <1>25
        DEF Next

(* The configuration is what the options say.                              *)
LEMMA OnlyParsing ==
  ASSUME [Next]_vars, config' # config
  PROVE  ParseOption
<1> SUFFICES ASSUME ~ParseOption PROVE config' = config
  OBVIOUS
<1> USE DEF setting
<1>1. CASE Aside \/ Skip \/ Start \/ MakePlan \/ MakeBuffers
  BY <1>1, DoneLeaves DEF Aside, Skip, Start, MakePlan, MakeBuffers
<1>2. CASE OpenOther \/ OpenOutput \/ CreateEngine
  BY <1>2, DoneLeaves DEF OpenOther, OpenOutput, CreateEngine
<1>3. CASE Dispatch \/ Return \/ CountLanes \/ SetUpFails \/ BodyEnds \/ Finish \/ CleanUp
  BY <1>3, DispatchLeaves, ReturnLeaves, CountLanesLeaves, SetUpFailsLeaves, BodyEndsLeaves,
     EndLeaves
<1>4. CASE StartCalls \/ Threads \/ SizingFails \/ JoinCalls \/ Transfer \/ ReadFails \/ WriteFails
  BY <1>4, CallLeaves, SizingFailsLeaves, JoinLeaves, TransferLeaves, ReadFailsLeaves
<1>5. CASE BodyDelivers \/ ReadFrame \/ ReadEnd \/ EndFill \/ WriteRow \/ NextBatch
  BY <1>5 DEF BodyDelivers, ReadFrame, ReadEnd, EndFill, WriteRow, NextBatch
<1>6. CASE Exited \/ UNCHANGED vars
  BY <1>6 DEF Exited, vars
<1> QED BY <1>1, <1>2, <1>3, <1>4, <1>5, <1>6 DEF Next

(* Before main there is nothing of a run.                                  *)
LEMMA OInit == Init => OInv
<1> SUFFICES ASSUME Init PROVE OInv
  OBVIOUS
<1>1. /\ pc = "main" /\ path = "none" /\ out = <<>> /\ plan = NoPlan
      /\ lane = [l \in LaneSet |-> Null] /\ fresh = 0 /\ sized = FALSE
  BY DEF Init
<1>2. PlanOK(config, path, plan)
  BY <1>1, NoPlanOK
<1>3. ReadOK /\ CallsOK
  BY <1>1 DEF ReadOK, CallsOK, Batching
<1>4. LanesOK
  <2>1. lane \in [LaneSet -> Nat] /\ \A l \in LaneSet : lane[l] = Null /\ lane[l] <= fresh
    BY <1>1 DEF Null
  <2> QED BY <1>1, <2>1 DEF LanesOK
<1>5. WriteOK
  <2>1. Len(out) \in Nat /\ out = FirstFrames(Len(out))
    BY <1>1, NoRows
  <2> QED BY <1>1, <2>1 DEF WriteOK
<1> QED BY <1>1, <1>2, <1>3, <1>4, <1>5 DEF OInv

(* Only the options decide whether an engine races, and before they are    *)
(* read nothing has been written.                                          *)
LEMMA OStep == RInv /\ SInv /\ OInv /\ [Next]_vars => OInv'
<1> SUFFICES ASSUME RInv, SInv, OInv, [Next]_vars PROVE OInv'
  OBVIOUS
<1>1. /\ pc \in Parsing => out = <<>>
      /\ PlanOK(config, path, plan) /\ ReadOK /\ LanesOK
  BY DEF OInv
<1>2. /\ pc' \in Parsing => out' = <<>>
      /\ PlanOK(config, path, plan)' /\ ReadOK' /\ LanesOK'
  BY <1>1, EarlyStep, PlanStep, ReadStep, LanesStep
<1>3. ASSUME ~Racing(config)' PROVE CallsOK' /\ WriteOK'
  <2>1. CASE ~Racing(config)
    <3>1. CallsOK /\ WriteOK
      BY <2>1 DEF OInv
    <3> QED BY <1>1, <2>1, <3>1, CallsStep, WriteStep
  <2>2. CASE Racing(config)
    <3>1. config' # config
      BY <1>3, <2>2 DEF Racing, Runtime, Cuda
    <3>2. ParseOption
      BY <3>1, OnlyParsing
    <3>3. /\ pc = "parse" /\ pc' \in {"parse", "exit"} /\ UNCHANGED <<path, out>>
      BY <3>2 DEF ParseOption, Exit, Working, writing, control
    <3>4. path' = "none" /\ out' = <<>>
      BY <1>1, <3>3 DEF SInv, Parsing
    <3>5. Len(out') \in Nat /\ out' = FirstFrames(Len(out'))
      BY <3>4, NoRows
    <3> QED BY <3>3, <3>4, <3>5 DEF CallsOK, WriteOK
  <2> QED BY <2>1, <2>2
<1> QED BY <1>2, <1>3 DEF OInv

(* Whatever fails and whichever pipelines are tried, the output is that of *)
(* one run, in order and complete after a success (OutputIsOfOneRun), and  *)
(* no call of an engine loses its buffer to another (LanesOwnTheirBuffers):*)
(* for every configuration but onnxruntime on CUDA with parallel contexts, *)
(* whose calls race for the buffers of the lanes.                          *)
THEOREM OutputIsAlwaysOfOneRun ==
  Spec => [](~Racing(config) => OutputIsOfOneRun /\ LanesOwnTheirBuffers)
<1>1. Init => RInv /\ SInv /\ OInv
  BY RInit, SInit, OInit
<1>2. RInv /\ SInv /\ OInv /\ [Next]_vars => (RInv /\ SInv /\ OInv)'
  BY RStep, SStep, OStep
<1>3. RInv /\ SInv /\ OInv => (~Racing(config) => OutputIsOfOneRun /\ LanesOwnTheirBuffers)
  BY OInvIsEnough
<1> QED BY <1>1, <1>2, <1>3, PTL DEF Spec
=============================================================================
