SPECIFICATION Spec
CONSTANTS
    PAGE = 32
    QUARTER = 16
    VBLANK_RATE = 97
    MAX_BREAKPOINTS = 2
    Builds = {TRUE, FALSE}
    RomFiles <- MCRomFiles
    Games <- MCGames
    InputBytes <- MCInputBytes
    Addresses = {0, 16, 36}
    Closes = {"game"}
INVARIANTS
    RomInPlace
PROPERTIES
    ImplementsFrameLoop
    BreakpointsPause
    RoutinesRun
