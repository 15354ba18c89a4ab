SPECIFICATION Spec
CONSTANTS
    LaneCount = 2
    SlotCount = 2
    EncodeCapacity = 1
    Configs <- Options
    LongestVideo = 3
    MaxFrames = 3
    MaxFailures = 1
    LongestFailing <- FailingVideos
    Faults = {"create", "read", "submit", "query", "collect", "alloc", "copy", "draw", "encode", "row", "timing", "finish"}
INVARIANTS
    IInv
    EverySlotOwned
    SurfaceStaysUnderGpu
    OutputsInOrder
PROPERTIES
    RunEnds
