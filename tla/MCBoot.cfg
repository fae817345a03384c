SPECIFICATION Spec
CONSTANTS
    NUM_PROCESSES = 3
    USER_VIRT_BASE = 1024
    VA_KERNEL_BASE = 3072
    Boards <- BothBoards
    Sections <- SampledSections
    TLB_SIZE = 1
INVARIANTS
    TypeOK
    ExecutionMapped
    IdentityGone
    UserIsolated
    UserCodeVisible
    InterruptsReady
