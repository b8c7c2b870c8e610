SPECIFICATION EventsSpec
CONSTANTS
    Callers = {t1, t2}
    Spans = {0, 2, 5}
    TickRate = 2
    NsRate = 5
    Wrap = 11
    MaxClock = 7
    MaxStarts = 2
SYMMETRY Symmetry
INVARIANTS
    OneShotWaitsItsSpan
