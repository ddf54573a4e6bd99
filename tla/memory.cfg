SPECIFICATION Spec
CONSTANTS
    Programs <- AllPrograms
    Streams <- MCStreams
    MaxLen = 2
    Byte <- MCByte
    WordByte <- MCWord
    Newline = "nl"
    ChunkKinds = {"last", "data", "empty"}
    Pointers = {TRUE, FALSE}
    PoolMayFail = TRUE
    TagModulus = 65536
    TagLimit = 12
INVARIANTS
    TypeOK
    RefsCoverHolders
    FreeCapturesUnused
    ThreadsOwnedOnce
    AppendsAtTail
PROPERTIES
    WritesAreUnshared
    RoundsAreFresh
    CallsReturn
CHECK_DEADLOCK FALSE
