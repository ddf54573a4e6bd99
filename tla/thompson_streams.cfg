SPECIFICATION Spec
CONSTANTS
    Programs <- SplitPrograms
    Streams <- MCStreams
    MaxLen = 1
    Byte <- MCByte
    WordByte <- MCWord
    Newline = "nl"
    ChunkKinds = {"last", "data", "empty"}
    Together = FALSE
    MaxContexts = 2
    TagModulus = 65536
INVARIANTS
    TypeOK
PROPERTIES
    WalksAreFresh
    CallsReturn
CHECK_DEADLOCK FALSE
