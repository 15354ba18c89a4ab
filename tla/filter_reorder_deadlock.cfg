SPECIFICATION Spec
CONSTANTS
    Workers = {w1, w2}
    Decoder = Decoder
    Encoder = Encoder
    Main = Main
    FrameSlots = 1
    VideoFrames = 5
    MaxFrames = 0
    Mode = "cpu"
    Platform = "posix"
    Faults = {}
PROPERTIES
    RunEnds
CHECK_DEADLOCK FALSE
