SPECIFICATION Spec
CONSTANTS
    NUM_PROCESSES = 2
    WORD = 32
    USER_VIRT_BASE = 8
    USER_REGION_SIZE = 16
    Args = {0, 1, 2, 8, 16, 17, 23, 24, 31}
    Name <- MCName
    StateName <- MCStateName
    RX_CAPACITY = 2
    MAX_BYTES = 3
INVARIANTS
    TypeOK
    WindowRespected
    CallsExact
