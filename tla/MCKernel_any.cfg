SPECIFICATION Spec
CONSTANTS
    NUM_PROCESSES = 3
    Program <- AnyPrograms
    RX_CAPACITY = 2
    FIFO_DEPTH = 2
    ReadLens = {1, 3}
INVARIANTS
    TypeOK
    RunningIsCurrent
    HintIsFresh
    CpuNotWasted
    IndInv
    ExceptionStacksBounded
PROPERTY
    ImplementsLife
