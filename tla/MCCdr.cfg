CONSTANTS
    Memory = 40
    BufferSizes = {0, 3, 9}
    CdrByte = {1}
    MaxArray = 1
    Cases <- MCCases
    MaxMessages = 3
    Garbage = {0, 3, 1073741825}
    HeapSizes = {0, 40}
SPECIFICATION CdrSpec
CHECK_DEADLOCK FALSE
INVARIANTS
    CursorSound
    SentIsEncoding
    CallbackSeesMessage
    NoHeapOverrun
PROPERTIES
    CallsConfined
