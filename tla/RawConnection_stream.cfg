\* A caller and the services push messages while a write is in progress; the
\* connection closes in the middle of it.
SPECIFICATION FairSpec
CONSTANTS
    IOThreads = {io1}
    Callers = {c1}
    TimerThread = tm
    None = None
    kHeartbeatUnsyncWindow = 0
    NetFailures = {}
    MaxMsgs = 2
    MaxReads = 1
    MaxRecv = 0
INVARIANTS
    OneWriteInFlight
    NoStrandedData
PROPERTIES
    StreamSpec
    EverythingLeaves
    EveryOperationReturns
CHECK_DEADLOCK FALSE
