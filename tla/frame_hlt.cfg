SPECIFICATION Spec
CONSTANTS
    VBLANK_RATE = 21
    Cycles = {4, 7, 11}
    MaxCycles = 11
    Builds = {TRUE}
    Halts = {TRUE}
PROPERTIES
    CloseEnds
