\* Every way to cut the characters of two messages.
SPECIFICATION Spec
CONSTANTS
    x = x
    Base = 2
    Colon = Colon
    MaxDigits = 3
    Valid <- Contents
    Messages <- Contents
    kBufferSize = 9
    MaxMessages = 2
INVARIANTS
    WireInv
    NothingLost
CHECK_DEADLOCK FALSE
