SPECIFICATION Spec
CONSTANTS
    Programs <- SplitPrograms
    Streams <- MCStreams
    MaxLen = 3
    Byte <- MCByte
    WordByte <- MCWord
    Newline = "nl"
    ChunkKinds = {"last", "data"}
    Together = FALSE
    MaxContexts = 1
    TagModulus = 65536
INVARIANTS
    AnswersAreRight
    ThreadsFit
    MatchesAreReal
    NoMatchIsMissed
CHECK_DEADLOCK FALSE
