CONSTANTS
    XZ_BUFFER_SIZE = 2
    MaxLen = 2
    MaxPlain = 2
    MaxStream = 2
    Files <- AllFiles
SPECIFICATION Spec
CHECK_DEADLOCK FALSE
INVARIANTS
    TruncationReported
