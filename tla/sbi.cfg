SPECIFICATION Spec
CONSTANTS
    PAGE = 32
    Programs <- SbiPrograms
    Ram <- MCRam
    Scratch <- MCScratch
INVARIANTS
    InstructionListed
CHECK_DEADLOCK FALSE
