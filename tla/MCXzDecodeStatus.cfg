CONSTANTS
    XZ_BUFFER_SIZE = 2
    MaxChunk = 2
    MaxLen = 2
    MaxPlain = 2
    Files <- AllFiles
SPECIFICATION Spec
INVARIANTS
    ReadyMeansReady
