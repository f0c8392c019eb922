\* The window of the code; either end may be ahead with its heartbeats when
\* the network breaks or falls silent.
SPECIFICATION FairSpec
CONSTANTS
    IOThreads = {io1}
    Callers = {c1}
    TimerThread = tm
    None = None
    kHeartbeatUnsyncWindow = 2
    NetFailures = {"silent", "broken"}
    MaxMsgs = 0
    MaxReads = 0
    MaxRecv = 3
PROPERTIES
    SilenceIsNoticed
    BreakIsNoticed
    NoLeak
CHECK_DEADLOCK FALSE
