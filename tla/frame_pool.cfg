SPECIFICATION Spec
CONSTANTS
    Acquirers = {a1, a2, a3}
    Capacity = 3
    NoFrame = NoFrame
INVARIANTS
    NoLostWakeup
PROPERTIES
    ImplementsPool
    CloseFreesEveryAcquirer
