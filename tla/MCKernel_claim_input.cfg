SPECIFICATION FairSpec
CONSTANTS
    NUM_PROCESSES = 3
    Program <- ShippedPrograms
    RX_CAPACITY = 2
    FIFO_DEPTH = 2
    ReadLens = {1, 3}
PROPERTY
    InputWakesReader
