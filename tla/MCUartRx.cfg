SPECIFICATION Spec
CONSTANTS
    Chips = {"pl011", "ns16550"}
    FIFO_DEPTH = 3
    TRIGGER = 2
    RING_CAPACITY = 2
    MAX_BYTES = 7
INVARIANTS
    TypeOK
    InOrder
    AwakeWhileRingHasBytes
PROPERTY
    NoByteStranded
CHECK_DEADLOCK FALSE
