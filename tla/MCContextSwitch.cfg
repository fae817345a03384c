SPECIFICATION Spec
CONSTANT
    NUM_PROCESSES = 3
INVARIANTS
    TypeOK
    UserContextIntact
    AddressSpaceIsCurrent
    HandlerResumesIntact
    KernelStackBalanced
