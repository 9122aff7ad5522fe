SPECIFICATION Spec
CONSTANTS
    PAGE = 32
    Roms <- MCRoms
    Vectors <- MCVectors
    MaxRequests = 2
    MaxResets = 1
INVARIANTS
    CpuTypeOK
    RestsReturned
PROPERTIES
    ImplementsLatch
    InterruptTransparent
    RoutinesDisciplined
    AcceptanceIsCall
CHECK_DEADLOCK FALSE
