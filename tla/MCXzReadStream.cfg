CONSTANTS
    XZ_BUFFER_SIZE = 2
    MaxCount = 3
    MaxLen = 4
    MaxPlain = 5
    MaxFailing = 3
    MayFail <- OnFailingMedium
    Files <- AllFiles
SPECIFICATION FairSpec
INVARIANTS
    TypeOK
    WindowInv
    PlaintextInOrder
    CallerSeesPlaintext
    InputInOrder
    SoundFileNeverFails
    EofMeansAll
PROPERTIES
    ImplementsPlainReader
    ReadReturns
    CallerFinishes
