SPECIFICATION Spec
CONSTANTS
    VBLANK_RATE = 21
    Cycles = {4, 7, 11}
    MaxCycles = 11
    Builds = {TRUE, FALSE}
    Halts = {TRUE, FALSE}
INVARIANTS
    FrameInv
PROPERTIES
    ImplementsFrameClock
    LostOnlyWhileMasked
    FramesKeepEnding
    CloseEndsUnlessHalted
