CONSTANTS
    XZ_BUFFER_SIZE = 2
    MaxChunk = 3
    MaxLen = 4
    MaxPlain = 4
    Files <- AllFiles
SPECIFICATION Spec
INVARIANTS
    TypeOK
    OutInOrder
    NothingHeldBack
    EndIsExact
    UndamagedNeverFails
    OutBounded
