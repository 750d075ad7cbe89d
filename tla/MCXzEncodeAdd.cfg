CONSTANTS
    XZ_BUFFER_SIZE = 2
    MaxChunk = 2
    MaxPlain = 2
    MaxStream = 2
SPECIFICATION Spec
INVARIANTS
    AddSucceeds
