SPECIFICATION Spec
CONSTANTS
    PoolSize = 128
    Requests <- MCRequests
    Mallocs = {m1, m2}
    NoMalloc = NoMalloc
    Callers = {1, 2, 3, 4, 5, 6}
    MaxFailed = 1
    MaxSearched = 0
    MaxBlocks = 6
INVARIANTS
    TypeOK
    Contained
    AllRecorded
    OnlyTiredAreSkipped
PROPERTIES
    Promise
CHECK_DEADLOCK FALSE
