SPECIFICATION Spec
CONSTANTS
    Programs <- AllPrograms
    Streams <- MCStreams
    MaxLen = 3
    Byte <- MCByte
    WordByte <- MCWord
    Newline = "nl"
    ChunkKinds = {"last"}
    Pointers = {TRUE}
    PoolMayFail = FALSE
    TagModulus = 65536
    TagLimit = 60
INVARIANTS
    OneThreadPerPc
PROPERTIES
    MatchesReference
CHECK_DEADLOCK FALSE
