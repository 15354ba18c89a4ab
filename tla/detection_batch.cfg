SPECIFICATION Spec
CONSTANTS
    Workers = {w1, w2}
    Decoder = Decoder
    Main = Main
    ActiveBatches = 3
    BatchCapacity = 2
    LongestVideo = 6
    MaxFrames = 5
    Faults = {"create", "read", "infer", "alloc", "write", "encode", "finish"}
INVARIANTS
    IInv
    EveryBatchOwned
    NoSurfaceLeft
    FailureIsReported
    EarlyBatchesAreFollowed
PROPERTIES
    ImplementsRun
    RunEnds
