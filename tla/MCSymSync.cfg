SPECIFICATION SyncSpec
CONSTANTS
    Threads = {t1, t2}
    Mutexes = {m1, m2}
    NoThread = NoThread
    Junk = Junk
    MaxDepth = 2
    Callers = {t1, t2}
    Spans = {0, 3}
    TickRate = 2
    NsRate = 5
    Wrap = 11
    MaxClock = 5
    MaxStarts = 2
INVARIANTS
    WaitsForAHolder
    OneWakePerStart
    TimeSpanIsExact
PROPERTIES
    ImplementsNnMutex
    WaitersAreServed
CHECK_DEADLOCK FALSE
