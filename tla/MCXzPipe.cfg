CONSTANTS
    XZ_BUFFER_SIZE = 2
    MaxChunk = 3
    MaxPlain = 3
    MaxStream = 4
    Plans <- AllPlans
SPECIFICATION PipeSpec
INVARIANTS
    TypeOK
    OutInOrder
    InputTaken
    FinishCompletes
    RefusalsExplained
    RoundTrip
PROPERTIES
    RoundTripEnds
