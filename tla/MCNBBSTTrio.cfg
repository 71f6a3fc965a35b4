SPECIFICATION Spec
CONSTANTS
    Threads <- TrioThreads
    Keys = {1, 2, 3}
    MinKey = 0
    MaxKey = 9
    SetupThread = 0
    Setup <- TrioSetup
    Menu <- TrioMenu
    MaxCalls <- TrioCalls
    Live = {}
INVARIANTS
    TypeOK
    SearchTree
    ReleasedOnce
    ReleasedIsGone
PROPERTIES
    UpdateProtocol
CHECK_DEADLOCK FALSE
