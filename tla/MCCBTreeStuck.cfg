SPECIFICATION FairSpec
CONSTANTS
    Threads <- PairThreads
    Keys = {1, 3}
    MinKey = 0
    MaxShrinks = 3
    NThreads = 2
    Threshold = 1
    SetupThread = 0
    Scenarios <- StuckScenarios
    MaxCalls <- StuckCalls
PROPERTY
    LastCallReturns
CHECK_DEADLOCK FALSE
