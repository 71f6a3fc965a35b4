SPECIFICATION Spec
CONSTANTS
    Threads <- TrioThreads
    Keys = {1, 2, 3, 4, 5}
    MinKey = 0
    SetupThread = 0
    Setups <- TrioSetups
    Menu <- TrioMenu
    MaxCalls <- TrioCalls
INVARIANT
    SearchTree
CHECK_DEADLOCK FALSE
