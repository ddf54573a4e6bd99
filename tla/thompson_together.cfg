SPECIFICATION Spec
CONSTANTS
    Programs <- PlainPrograms
    Streams <- MCStreams
    MaxLen = 1
    Byte <- MCByte
    WordByte <- MCWord
    Newline = "nl"
    ChunkKinds = {"last"}
    Together = TRUE
    MaxContexts = 2
    TagModulus = 65536
INVARIANTS
    AnswersAreRight
CHECK_DEADLOCK FALSE
