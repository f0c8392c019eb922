\* Two handler threads, a caller and the timer: every way to close.
SPECIFICATION Spec
CONSTANTS
    IOThreads = {io1, io2}
    Callers = {c1}
    TimerThread = tm
    None = None
    kHeartbeatUnsyncWindow = 0
    NetFailures = {"broken"}
    MaxMsgs = 1
    MaxReads = 1
    MaxRecv = 1
SYMMETRY Symmetry
INVARIANTS
    TypeOK
    NoUseAfterFree
    SocketUsable
    AssertionsHold
    OneCloser
    ReplyNeverRejected
CHECK_DEADLOCK FALSE
