SPECIFICATION LateSpec
CONSTANTS
    NThreads = 2
    Size = 1
    Prefill = 0
    NLocals = 3
    Nodes = {n1, n2, n3, n4, n5}
    Null = Null
SYMMETRY NodeSymmetry
INVARIANT
    ScanFindsFree
CHECK_DEADLOCK FALSE
