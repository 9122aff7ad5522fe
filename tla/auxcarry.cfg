SPECIFICATION Spec
CONSTANTS
    PAGE = 32
    Programs <- SumPrograms
    Ram <- MCRam
    Scratch <- MCScratch
PROPERTIES
    AuxCarryOutOfBit3
CHECK_DEADLOCK FALSE
