SPECIFICATION FairSpec
CONSTANTS
    Threads <- PairThreads
    Keys = {1, 2, 3, 4, 5, 6}
    MinKey = 0
    SetupThread = 0
    Setups <- PairSetups
    Menu <- PairMenu
    MaxCalls <- PairCalls
INVARIANTS
    TypeOK
    LinksAgree
    ValidPathIsSearchPath
    NoDeadlock
PROPERTIES
    ImplementsSet
    LastCallReturns
CHECK_DEADLOCK FALSE
