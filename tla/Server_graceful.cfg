\* A thread that waits for stop_mutex_ while Stop joins it.
SPECIFICATION Spec
CONSTANTS
    IOThreads = {io1, io2}
    Timer = Timer
    Owner = Owner
    None = None
    Conns = {c1, c2}
    AcceptErrors = FALSE
    MaxListens = 1
INVARIANT
    GracefulExit
CHECK_DEADLOCK FALSE
