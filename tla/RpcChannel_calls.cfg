\* Four calls whose identifies collide, one of them not served, one waited for.
SPECIFICATION FairSpec
CONSTANTS
    c1 = c1
    c2 = c2
    c3 = c3
    c4 = c4
    None = None
    Calls = {c1, c2, c3, c4}
    Methods = {c1, c2, c3}
    Waiters = {c1}
    Identifies = 8
    hash8 <- HashOf
    MaxSeq = 8
INVARIANT
    ChannelInv
PROPERTIES
    PromiseSpec
    EveryCallEnds
CHECK_DEADLOCK FALSE
