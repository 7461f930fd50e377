CONSTANTS
    Clients = {c1}
    Wrap = 4
    SERIAL_MSG_TIMEOUT = 1
    SYNC = 1
    LOST = 2
    SpinTimeouts = {0, 1}
    MaxBusy = 1
    MaxDepth = 2
    MaxLine = 3
SPECIFICATION Spec
PROPERTIES
    LossJustified
    AbandonJustified
    LostHostEndsCall
