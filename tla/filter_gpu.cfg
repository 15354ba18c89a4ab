SPECIFICATION Spec
CONSTANTS
    Workers = {w1}
    Decoder = Decoder
    Encoder = Encoder
    Main = Main
    FrameSlots = 1
    VideoFrames = 4
    MaxFrames = 0
    Mode = "gpu"
    Platform = "win32"
    Faults = {"create", "read", "process", "alloc", "write", "benchmark", "flush"}
INVARIANTS
    EveryFrameInOnePlace
    SuccessMeansComplete
    BuffersConserved
    NoThreadOutlivesContext
    DecoderNeverWaitsForBuffer
PROPERTIES
    FlushComesLast
    RunEnds
