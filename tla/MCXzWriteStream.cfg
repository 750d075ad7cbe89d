CONSTANTS
    XZ_BUFFER_SIZE = 2
    MaxCount = 5
    MaxPlain = 6
    MaxStream = 6
    InnerMayFail = TRUE
SPECIFICATION FairSpec
INVARIANTS
    TypeOK
    PlaintextInOrder
    CompressedInOrder
    ClosedMeansStored
    UnsentKept
PROPERTIES
    CallReturns
CHECK_DEADLOCK FALSE
