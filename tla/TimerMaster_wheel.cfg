\* Vectors of two lists: the wheel spans 16 ticks and all levels cascade.
SPECIFICATION Spec
CONSTANTS
    Timers = {t1, t2}
    Timeouts = {1, 3, 8, 15}
    kTVSize = 2
    None = None
    MaxJiffies = 17
    MaxStarts = 2
    MaxBefore = 2
SYMMETRY Symmetry
INVARIANTS
    WheelInv
    NeverEarly
PROPERTY
    ClockSpec
CHECK_DEADLOCK FALSE
