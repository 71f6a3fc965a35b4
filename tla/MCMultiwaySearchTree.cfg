SPECIFICATION FairSpec
CONSTANTS
    Threads <- PairThreads
    Keys = {1, 2, 3}
    INF = 9
    EMPTY = 0
    SetupThread = 0
    Setups <- PairSetups
    Menu <- PairMenu
    Heights <- PairHeights
    MaxCalls <- PairCalls
    Live = {1}
INVARIANTS
    TypeOK
    LevelsAreOrdered
    PathsLead
    ReleasedOnce
PROPERTIES
    ImplementsSet
    NodesGiveUpKeys
    LiveCallsReturn
CHECK_DEADLOCK FALSE
