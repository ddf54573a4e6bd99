SPECIFICATION Spec
CONSTANTS
    Compilable <- Native
    Images <- MCImages
    Streams <- MCStreams
    MaxLen = 3
    Byte <- MCByte
    WordByte <- MCWord
    Newline = "nl"
    ChunkKinds = {"last", "data"}
    MaxContexts = 1
    MaxCounts = 2
INVARIANTS
    TypeOK
    ListsFit
    MatchesAreReal
PROPERTIES
    Recognizes
    AnswersAsMeant
    CallsReturn
CHECK_DEADLOCK FALSE
