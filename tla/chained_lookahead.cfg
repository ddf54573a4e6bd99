SPECIFICATION Spec
CONSTANTS
    Programs <- ChainedPrograms
    Streams <- MCStreams
    MaxLen = 2
    Byte <- MCByte
    WordByte <- MCWord
    Newline = "nl"
    ChunkKinds = {"last", "data"}
    Pointers = {TRUE}
    PoolMayFail = FALSE
    TagModulus = 65536
    TagLimit = 60
PROPERTIES
    StreamingMatches
CHECK_DEADLOCK FALSE
