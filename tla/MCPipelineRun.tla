---------------------------- MODULE MCPipelineRun ----------------------------
(* Command lines, videos and machines for TLC; sizes are counted in MiB.   *)
EXTENDS PipelineRun

Flag(name) == [name |-> name, word |-> "", num |-> 0]
Word(name, word) == [name |-> name, word |-> word, num |-> 0]
Num(name, num) == [name |-> name, word |-> "", num |-> num]

Detect == <<Word("task", "detect")>>
OnGpu == Detect \o <<Word("decoder", "nvdec")>>
Annotate == OnGpu \o <<Flag("draw_boxes"), Word("encoder", "h264_nvenc")>>
OnCpu == <<Word("backend_device", "cpu"), Word("model", "pt")>>

FilterLines ==
    {<<>>, <<Word("mode", "gpu"), Num("processor_workers", 4), Flag("lossless")>>,
     <<Num("frame_slots", 2), Num("memory_budget_mb", 60), Word("memory_profile", "balanced"),
       Num("processor_workers", 4), Flag("no_benchmark"), Flag("lossless"), Flag("lossy")>>,
     <<Num("memory_budget_mb", 100), Num("max_frames", 2)>>,
     <<Word("memory_profile", "manual"), Num("memory_budget_mb", 1)>>}
InfoLines ==
    {<<Flag("help")>>, <<Flag("matrix_report")>>, <<Flag("list_backends")>>,
     Detect \o <<Flag("profile_hardware")>>, <<Num("frame_slots", 0)>>,
     Detect \o <<Word("model", "bin"), Flag("model_info")>>,
     Detect \o <<Word("model", "bin")>>,
     Detect \o <<Word("runtime", "onnxruntime")>>,
     Detect \o <<Word("backend_device", "cpu")>>,
     Detect \o <<Flag("draw_boxes")>>, <<Num("vram_budget_ratio", 1200)>>}
GpuLines ==
    {OnGpu, OnGpu \o <<Word("decoder_fallback", "none"), Flag("auto_tune")>>,
     OnGpu \o <<Word("model", "onnx"), Flag("auto_tune"), Num("vram_reserve_mb", 100),
                Word("parallel_inference", "off")>>,
     OnGpu \o <<Flag("no_benchmark"), Flag("no_decoder_fallback")>>,
     Annotate, Annotate \o <<Word("model", "onnx"), Num("max_frames", 1)>>,
     Annotate \o <<Flag("no_draw_boxes"), Num("inflight_batches", 2)>>}
CpuLines ==
    {Detect \o <<Num("batch_size", 2), Num("target_fps", 60), Num("max_frames", 4)>>,
     Detect \o <<Num("batch_size", 4), Num("max_frames", 3), Flag("no_benchmark")>>,
     Detect \o <<Num("batch_size", 2), Num("inflight_batches", 2), Num("inference_contexts", 4)>>,
     Detect \o <<Flag("auto_tune"), Num("vram_budget_ratio", 900)>>,
     Detect \o <<Word("model", "onnx"), Word("runtime", "onnxruntime"),
                 Word("parallel_inference", "off"), Num("batch_size", 2)>>,
     OnGpu \o OnCpu \o <<Num("batch_size", 2), Num("max_frames", 2)>>,
     OnGpu \o OnCpu \o <<Flag("auto_tune"), Word("batch_size", "auto"), Num("batch_size", 1)>>}
(* Any two of these, in either order, after each of the beginnings.        *)
Pairs == {Flag("auto_tune"), Flag("no_benchmark"), Flag("draw_boxes"), Flag("profile_hardware"),
          Flag("no_decoder_fallback"), Word("encoder", "h264_nvenc"), Word("decoder", "nvdec"),
          Word("parallel_inference", "off"), Word("batch_size", "auto"), Num("batch_size", 3),
          Num("inflight_batches", 2), Num("inference_contexts", 2), Num("max_frames", 2)}
PairLines == {base \o <<a, b>> : base \in {Detect, OnGpu, OnGpu \o OnCpu}, a \in Pairs, b \in Pairs}
AllLines == FilterLines \union InfoLines \union GpuLines \union CpuLines \union PairLines
OnnxLines == {Detect \o <<Word("model", "onnx"), Num("batch_size", 2)>>}

MCInputs == {[bytes |-> 12, fps |-> 60, frames |-> n] : n \in {0, 1, 3, 5}}
NoMachine == [cuda |-> FALSE, total |-> 0, free |-> 0, concurrent |-> FALSE, up |-> 0, down |-> 0]
SlowBus == [cuda |-> TRUE, total |-> 4096, free |-> 600, concurrent |-> TRUE,
            up |-> 200, down |-> 250]
Gpu == [cuda |-> TRUE, total |-> 2048, free |-> 720, concurrent |-> TRUE, up |-> 90, down |-> 90]
OldGpu == [Gpu EXCEPT !.concurrent = FALSE]
MCMachines == {NoMachine, SlowBus, Gpu, OldGpu}
=============================================================================
