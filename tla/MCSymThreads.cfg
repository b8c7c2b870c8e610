SPECIFICATION Spec
CONSTANTS
    Main = Main
    Workers = {w1, w2, w3}
    NULL = NULL
    Wrappers = {"log", "create", "start"}
    MaxThreads = 3
    MaxExits = 1
SYMMETRY Symmetry
INVARIANTS
    LookupFaultNeedsRace
    NullLogNeedsReset
    ListedOnce
    NoneRunsAfterExit
CHECK_DEADLOCK FALSE
