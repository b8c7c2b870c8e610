SPECIFICATION FairSpec
CONSTANTS
    Main = Main
    Workers = {w1, w2}
    NULL = NULL
    Wrappers = {"log", "create", "start", "stub"}
    MaxThreads = 2
    MaxExits = 2
INVARIANTS
    NoneRunsAfterExit
PROPERTIES
    LogMutexReleased
CHECK_DEADLOCK FALSE
