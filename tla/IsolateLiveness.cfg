\* A global isolate that others post to may close itself.
CONSTANTS
    Main = main
    Global = {g1}
    Once = {o1}
    Jobs = {j1, j2}
    MainName = name_main
    Names = {name_main, n1}
    Null = null
    MainCalls = {"create", "open", "register", "post_acb"}
    GlobalCalls = {"close"}
    OnceCalls = {"callback"}
    Allowed <- CallsOf
SPECIFICATION FairSpec
PROPERTIES
    RepliesArrive
    ArgsSettle
    CloseEnds
CHECK_DEADLOCK FALSE
