----------------------------- MODULE CommandLine -----------------------------
(***************************************************************************)
(* The command line (main.c, pipeline_config.c): the configuration before  *)
(* any option, what each option needs and what it changes.  An option is a *)
(* record of its name and its value, a word or a number.  Options are taken*)
(* in the order given, so that a later one may undo an earlier one:        *)
(* auto_tune sets the batch settings to auto and batch_size takes one back.*)
(* Paths, thresholds and class filters are left out.                       *)
(***************************************************************************)
EXTENDS Integers, Sequences

(* The files a model can come in, and the runtime their extension selects. *)
RuntimeOf == [engine |-> "tensorrt", onnx |-> "onnxruntime", pt |-> "torchscript",
              bin |-> "auto"]

(* The options that take one of a list of words.                           *)
Words == [task |-> {"filter", "detect"}, mode |-> {"cpu", "gpu"},
          decoder |-> {"cpu", "nvdec"}, decoder_fallback |-> {"cpu", "none"},
          backend_device |-> {"cpu", "cuda"},
          runtime |-> {"auto", "tensorrt", "onnxruntime", "torchscript"},
          model |-> DOMAIN RuntimeOf,
          encoder |-> {"libx264", "libx264rgb", "h264_nvenc", "mpeg4"},
          memory_profile |-> {"auto", "low", "balanced", "manual"},
          pipeline_overlap |-> {"auto", "on", "off"},
          parallel_inference |-> {"auto", "on", "off"}]

(* The options that take a number, and the least they accept.  The ratio   *)
(* is in thousandths, and at most the whole.                               *)
Least == [max_frames |-> 0, frame_slots |-> 1, processor_workers |-> 1,
          memory_budget_mb |-> 0, target_fps |-> 0, vram_reserve_mb |-> 0,
          vram_budget_ratio |-> 1]
Whole == 1000

Settings == {"batch_size", "inflight_batches", "inference_contexts"}
Flags == {"benchmark", "lossless", "draw_boxes", "auto_tune", "profile_hardware",
          "list_backends", "model_info"}

(* The options without a value: the flags they put up and take down.       *)
Switches == [no_benchmark |-> <<{}, {"benchmark"}>>,
             lossless |-> <<{"lossless"}, {}>>, lossy |-> <<{}, {"lossless"}>>,
             draw_boxes |-> <<{"draw_boxes"}, {}>>, no_draw_boxes |-> <<{}, {"draw_boxes"}>>,
             list_backends |-> <<{"list_backends"}, {}>>, model_info |-> <<{"model_info"}, {}>>,
             profile_hardware |-> <<{"profile_hardware", "auto_tune"}, {}>>]

Asides == {"help", "version", "matrix_report"}

Setting(auto, n) == [auto |-> auto, n |-> n]
AnyWord == UNION {Words[n] : n \in DOMAIN Words}
Configs == [word : [DOMAIN Words -> AnyWord], number : [DOMAIN Least -> Int],
            setting : [Settings -> [auto : BOOLEAN, n : Int]], flags : SUBSET Flags]

DefaultConfig ==
    [word |-> [task |-> "filter", mode |-> "cpu", decoder |-> "cpu", decoder_fallback |-> "cpu",
               backend_device |-> "cuda", runtime |-> "auto", model |-> "engine",
               encoder |-> "libx264", memory_profile |-> "auto",
               pipeline_overlap |-> "auto", parallel_inference |-> "auto"],
     number |-> [max_frames |-> 0, frame_slots |-> 3, processor_workers |-> 2,
                 memory_budget_mb |-> 0, target_fps |-> 0, vram_reserve_mb |-> 0,
                 vram_budget_ratio |-> 375],
     setting |-> [batch_size |-> Setting(FALSE, 1), inflight_batches |-> Setting(FALSE, 1),
                  inference_contexts |-> Setting(TRUE, 1)],
     flags |-> {"benchmark"}]

(* What parse_args makes of an option: refused, or the configuration after.*)
TakesWord(o) == o.name \in DOMAIN Words /\ o.word \in Words[o.name]
TakesNumber(o) == /\ o.name \in DOMAIN Least /\ o.num >= Least[o.name]
                  /\ o.name = "vram_budget_ratio" => o.num <= Whole
TakesSetting(o) == o.name \in Settings /\ (o.word = "auto" \/ o.num > 0)
Accepted(o) == \/ TakesWord(o) \/ TakesNumber(o) \/ TakesSetting(o)
               \/ o.name \in DOMAIN Switches \union {"no_decoder_fallback", "auto_tune"}

TakenSetting(o) == IF o.word = "auto" THEN Setting(TRUE, 1) ELSE Setting(FALSE, o.num)
AutoTuned(c) == [c EXCEPT !.flags = @ \union {"auto_tune"},
                          !.setting = [@ EXCEPT !["batch_size"].auto = TRUE,
                                                !["inflight_batches"].auto = TRUE]]
Taken(c, o) ==
    CASE TakesWord(o) -> [c EXCEPT !.word = [@ EXCEPT ![o.name] = o.word]]
      [] TakesNumber(o) -> [c EXCEPT !.number = [@ EXCEPT ![o.name] = o.num]]
      [] TakesSetting(o) -> [c EXCEPT !.setting = [@ EXCEPT ![o.name] = TakenSetting(o)]]
      [] o.name = "no_decoder_fallback" ->
             [c EXCEPT !.word = [@ EXCEPT !["decoder_fallback"] = "none"]]
      [] o.name = "auto_tune" -> AutoTuned(c)
      [] OTHER -> [c EXCEPT !.flags = (@ \ Switches[o.name][2]) \union Switches[o.name][1]]

(* After the last option: a detection needs a model file some runtime reads*)
(* and, when a runtime is named, one that runtime reads.                   *)
Runtime(c) == IF c.word.runtime = "auto" THEN RuntimeOf[c.word.model] ELSE c.word.runtime
Informs(c) == {"list_backends", "model_info"} \cap c.flags # {}
ModelFits(c) == /\ RuntimeOf[c.word.model] # "auto"
                /\ c.word.runtime \in {"auto", RuntimeOf[c.word.model]}
Complete(c) == c.word.task = "detect" /\ ~Informs(c) => ModelFits(c)
=============================================================================
