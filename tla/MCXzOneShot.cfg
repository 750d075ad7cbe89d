CONSTANTS
    XZ_BUFFER_SIZE = 2
    MaxLen = 4
    MaxPlain = 5
    MaxStream = 7
    Files <- AllFiles
SPECIFICATION Spec
CHECK_DEADLOCK FALSE
INVARIANTS
    OutInOrder
    SoundFileDecoded
    DamageReported
    EncodedWhole
