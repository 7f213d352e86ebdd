\* The main VM creates once isolates, which call back; it may be destroyed.
CONSTANTS
    Main = main
    Global = {}
    Once = {o1, o2}
    Jobs = {j1, j2}
    MainName = name_main
    Names = {name_main, n1, n2}
    Null = null
    MainCalls = {"create", "register", "destroy"}
    GlobalCalls = {}
    OnceCalls = {"callback"}
    Allowed <- CallsOf
SPECIFICATION Spec
SYMMETRY Symmetry
INVARIANTS
    TypeOK
    ChildrenCounted
    ChildOrder
CHECK_DEADLOCK FALSE
