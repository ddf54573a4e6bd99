SPECIFICATION Spec
CONSTANTS
    Programs <- SplitPrograms
    Streams <- MCStreams
    MaxLen = 3
    Byte <- MCByte
    WordByte <- MCWord
    Newline = "nl"
    ChunkKinds = {"last", "data"}
    Pointers = {TRUE}
    PoolMayFail = FALSE
    TagModulus = 65536
    TagLimit = 60
INVARIANTS
    DiscardIsSafe
PROPERTIES
    StreamingMatches
CHECK_DEADLOCK FALSE
