\* Accepts, closes and a Stop on four threads.
SPECIFICATION FairSpec
CONSTANTS
    IOThreads = {io1, io2}
    Timer = Timer
    Owner = Owner
    None = None
    Conns = {c1, c2}
    AcceptErrors = TRUE
    MaxListens = 2
INVARIANTS
    ServerInv
PROPERTIES
    ClosedLeaves
    StopReturns
CHECK_DEADLOCK FALSE
