SPECIFICATION Spec
CONSTANTS
    Threads = {t1, t2}
    NUM_TIME_SLOT = 2
    Origins <- MCOrigins
    PerSecond = 2
    MaxNow = 4
    MaxSleep = 2
    None = None
INVARIANTS
    TextIsWhole
PROPERTIES
    TimeGoesForward
    TimeCatchesUp
    SleepsAsAsked
