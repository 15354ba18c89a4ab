SPECIFICATION Spec
CONSTANTS
    Producers = {p1, p2}
    Consumers = {c1, c2}
    Capacity = 2
    MaxPackets = 4
    NoPacket = NoPacket
INVARIANTS
    NoLostWakeup
PROPERTIES
    ImplementsFifo
    CloseFreesEveryCaller
