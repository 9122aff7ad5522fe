SPECIFICATION Spec
CONSTANTS
    PAGE = 32
    Programs <- MCPrograms
    Ram <- MCRam
    Scratch <- MCScratch
INVARIANTS
    Restored
    DecimalSum
    InstructionListed
PROPERTIES
    AdditionExact
    ComparisonOrders
    PairArithmetic
    StepsAsListed
    FlagsDescribeMemory
CHECK_DEADLOCK FALSE
