SPECIFICATION Spec
CONSTANTS
    TEST_MEMORY_SIZE = 20
    LOAD_ADDRESS = 8
    Roms <- MCRoms
    MaxPrinted = 21
INVARIANTS
    CallPrinted
PROPERTIES
    CallsReturn
CHECK_DEADLOCK FALSE
