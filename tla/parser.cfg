SPECIFICATION Spec
CONSTANTS
    Lex <- MCLex
    Calls <- MCCalls
    InitDepth = 4
    MaxDepth = 14
    IntWidth = 16
    WordByte = {97, 98}
    Newline = 10
    MaxPieces = 4
    MaxItems = 3
    Counts = {"{2}", "{0,2}"}
INVARIANTS
    StackFits
    ReadsStayInside
    AnswersAreRight
    ClassesAreRight
PROPERTIES
    Answered
CHECK_DEADLOCK FALSE
