SPECIFICATION Spec
CONSTANTS
    PAGE = 32
    Programs <- DifferencePrograms
    Ram <- MCRam
    Scratch <- MCScratch
PROPERTIES
    SubtractionBorrows
CHECK_DEADLOCK FALSE
