SPECIFICATION FairSpec
CONSTANTS
    NUM_PROCESSES = 3
    Program <- OneReader
    RX_CAPACITY = 2
    FIFO_DEPTH = 2
    ReadLens = {1, 3}
INVARIANTS
    WakeupsExact
PROPERTIES
    NoStarvation
    SleeperGetsInput
