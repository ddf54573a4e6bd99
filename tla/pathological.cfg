SPECIFICATION Spec
CONSTANTS
    Programs <- LoopingPrograms
    Streams <- MCStreams
    MaxLen = 3
    Byte <- MCByte
    WordByte <- MCWord
    Newline = "nl"
    ChunkKinds = {"last"}
    Pointers = {TRUE}
    PoolMayFail = FALSE
    TagModulus = 65536
    TagLimit = 60
INVARIANTS
    ListsAreBounded
CHECK_DEADLOCK FALSE
