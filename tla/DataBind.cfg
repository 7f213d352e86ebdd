CONSTANTS
    VMs = {p, q}
    a = a
    b = b
    c = c
    cc = cc
    d = d
    Names <- KeyNames
    Keys <- KeyTree
    Begins <- Beginnings
    ListLen = 2
    KeyListLen = 1
    NodeLen = 1
    MaxCalls = 5
    MaxDepth = 2
    Null = null
SPECIFICATION Spec
SYMMETRY Symmetry
INVARIANTS
    TypeOK
    ClosedForgotten
    
    
CHECK_DEADLOCK FALSE
