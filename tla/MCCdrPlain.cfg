CONSTANTS
    Memory = 40
    BufferSizes = {0, 3, 9}
    CdrByte = {1}
    MaxArray = 1
    Cases <- MCCases
    MaxMessages = 3
    Garbage = {0, 1, 3}
    HeapSizes = {40}
SPECIFICATION CdrSpec
CHECK_DEADLOCK FALSE
INVARIANTS
    ContentIsPlainCdr
