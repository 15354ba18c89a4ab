SPECIFICATION Spec
CONSTANTS
    MaxDelay = 2
    LongestVideo = 4
    OtherPackets = 2
    Faults = {"open", "demux", "send", "receive", "convert", "prepare", "encode", "packet", "mux", "flush"}
INVARIANTS
    EveryFrameRead
    FileComplete
    CodecsAccept
    NothingLeaks
