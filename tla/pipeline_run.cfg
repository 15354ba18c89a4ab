SPECIFICATION Spec
CONSTANTS
    CommandLines <- AllLines
    Inputs <- MCInputs
    Machines <- MCMachines
    LaneCount = 3
    MaxFailures = 3
    MiB = 1
INVARIANTS
    OutputIsOfOneRun
    SuccessIsWhatWasAsked
    ResourcesFit
