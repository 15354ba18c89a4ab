SPECIFICATION Spec
CONSTANTS
    CommandLines <- OnnxLines
    Inputs <- MCInputs
    Machines <- MCMachines
    LaneCount = 3
    MaxFailures = 0
    MiB = 1
INVARIANTS
    LanesOwnTheirBuffers
