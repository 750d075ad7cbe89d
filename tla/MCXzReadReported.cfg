CONSTANTS
    XZ_BUFFER_SIZE = 2
    MaxCount = 3
    MaxLen = 3
    MaxPlain = 4
    MaxFailing = 0
    MayFail <- OnFailingMedium
    Files <- FooterDamagedFiles
SPECIFICATION Spec
INVARIANTS
    FailureIsReported
