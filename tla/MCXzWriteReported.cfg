CONSTANTS
    XZ_BUFFER_SIZE = 2
    MaxCount = 3
    MaxPlain = 4
    MaxStream = 6
    InnerMayFail = TRUE
SPECIFICATION Spec
INVARIANTS
    FailureIsReported
CHECK_DEADLOCK FALSE
