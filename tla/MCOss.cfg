SPECIFICATION Spec
CONSTANTS
    Nros = 5
    MaxModules = 10
    MaxThreads = 3
    Home <- MCHome
    MaxCalls = 5
INVARIANTS
    BuffersReleased
    PointersAreLive
    SuccessIsComplete
    MemoryFaultNeedsExit
    SelfPauseNeedsRetry
