SPECIFICATION Spec
CONSTANTS
    Compilable <- Pruned
    Images <- MCImages
    Streams <- MCStreams
    MaxLen = 3
    Byte <- MCByte
    WordByte <- MCWord
    Newline = "nl"
    ChunkKinds = {"last", "data"}
    MaxContexts = 1
    MaxCounts = 2
PROPERTIES
    Recognizes
CHECK_DEADLOCK FALSE
