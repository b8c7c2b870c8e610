SPECIFICATION IpcSpec
CONSTANTS
    Languages = 3
    Default = 1
    Probes = 6
    NacpSize = 4
    IconSizes = {1, 2}
    MaxCalls = 2
    Threads = {t1, t2}
    MaxHandle = 4
    Callers = {c1, c2}
    Versions = {2, 3, 21}
    MaxSession = 3
INVARIANTS
    LostOnlyToStorage
    OutputsAreOfTheIcon
    SetupSendsItsOwn
    GivenStaysOpen
    LostOnlyOnReuse
    SentOnOwnSession
    OpenIsOwned
PROPERTIES
    EveryCallReturns
CHECK_DEADLOCK FALSE
