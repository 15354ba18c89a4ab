SPECIFICATION Spec
CONSTANTS
    Workers = {w1, w2}
    Decoder = Decoder
    Encoder = Encoder
    Main = Main
    FrameSlots = 1
    VideoFrames = 2
    MaxFrames = 0
    Mode = "cpu"
    Platform = "win32"
    Faults = {"create", "process"}
INVARIANTS
    IInv
    OutputInOrder
PROPERTIES
    ImplementsRun
    FailureEndsTheRun
