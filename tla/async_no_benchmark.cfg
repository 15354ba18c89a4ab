SPECIFICATION Spec
CONSTANTS
    LaneCount = 1
    SlotCount = 1
    EncodeCapacity = 1
    Configs <- NoBenchmark
    LongestVideo = 2
    MaxFrames = 0
    MaxFailures = 0
    LongestFailing <- NoFailing
    Faults = {}
INVARIANTS
    FaultlessRunSucceeds
