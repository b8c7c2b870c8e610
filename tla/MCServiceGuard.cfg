SPECIFICATION FairSpec
CONSTANTS
    Users = {u1, u2, u3}
    NULL = NULL
    Balanced = TRUE
INVARIANTS
    SessionMatchesCount
    CommandsOnOpenSession
PROPERTIES
    ImplementsSharedSession
    EveryoneGetsIn
