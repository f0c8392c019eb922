\* A user, the thread of the pool and the timer thread.
SPECIFICATION FairSpec
INVARIANTS
    ConnectionInv
    DtorLeavesNoThread
PROPERTY
    DtorReturns
CHECK_DEADLOCK FALSE
