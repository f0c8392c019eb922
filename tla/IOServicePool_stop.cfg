\* A pool of three, started twice: its tasks are those of a program, or the
\* run() of two services.  Joins may give up, so that a thread of the first run
\* is still there in the second one.
SPECIFICATION PoolFairSpec
CONSTANTS
    mSize = 3
    MaxTasks = 2
    MaxStops = 2
    mNumIOServices = 2
    Jobs = {a, b}
    None = None
INVARIANTS
    PoolInv
    ServicesInv
PROPERTIES
    EveryTaskRuns
    EveryJobRuns
    StopReturns
CHECK_DEADLOCK FALSE
