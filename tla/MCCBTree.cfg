SPECIFICATION FairSpec
CONSTANTS
    Threads <- PairThreads
    Keys = {1, 2, 3, 4}
    MinKey = 0
    MaxShrinks = 3
    NThreads = 2
    Threshold = 1
    SetupThread = 0
    Scenarios <- PairScenarios
    MaxCalls <- PairCalls
INVARIANTS
    TypeOK
    SearchTree
    ValidPathIsSearchPath
    SizeIsRight
    NoDeadlock
PROPERTIES
    ImplementsSet
    LastCallReturns
CHECK_DEADLOCK FALSE
