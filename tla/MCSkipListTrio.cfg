SPECIFICATION Spec
CONSTANTS
    Threads <- TrioThreads
    Keys = {1, 2}
    MinKey = 0
    MaxKey = 9
    MaxLevel = 1
    SetupThread = 0
    Setup <- TrioSetup
    Menu <- TrioMenu
    MaxCalls <- TrioCalls
    Live = {}
INVARIANTS
    LevelsAreOrdered
    ReleasedOnce
    ReleasedIsGone
PROPERTY
    NextProtocol
CHECK_DEADLOCK FALSE
