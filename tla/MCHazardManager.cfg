SPECIFICATION Spec
CONSTANTS
    NThreads = 2
    Size = 1
    Prefill = 0
    NLocals = 1
    Nodes = {n1, n2, n3, n4, n5}
    Null = Null
SYMMETRY NodeSymmetry
INVARIANTS
    UniqueOwner
    HazardSafety
    ScanLeavesFew
    ScanCovers
PROPERTIES
    ImplementsNodePool
    CallsAreBounded
