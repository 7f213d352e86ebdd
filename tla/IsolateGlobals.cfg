\* Two global isolates, which may take one name and close in either order, a
\* once isolate, and a main VM that may be destroyed.
CONSTANTS
    Main = main
    Global = {g1, g2}
    Once = {o1}
    Jobs = {j1, j2}
    MainName = name_main
    Names = {name_main, n1}
    Null = null
    MainCalls = {"open", "create", "register", "post", "destroy"}
    GlobalCalls = {"create", "close", "post_acb"}
    OnceCalls = {"callback"}
    Allowed <- CallsOf
SPECIFICATION Spec
SYMMETRY Symmetry
INVARIANTS
    ArgsOwnedOnce
    RegistryAlive
    FaultCauses
CHECK_DEADLOCK FALSE
