SPECIFICATION FairSpec
CONSTANTS
    Threads <- PairThreads
    Keys = {1, 2}
    MinKey = 0
    MaxKey = 9
    MaxLevel = 1
    SetupThread = 0
    Setup <- PairSetup
    Menu <- PairMenu
    MaxCalls <- PairCalls
    Live = {1}
PROPERTIES
    ImplementsSet
    LiveCallsReturn
CHECK_DEADLOCK FALSE
