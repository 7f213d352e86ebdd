\* Two VMs post to a global isolate that closes itself.
CONSTANTS
    Main = main
    Global = {g1}
    Once = {o1}
    Jobs = {j1, j2}
    MainName = name_main
    Names = {name_main, n1}
    Null = null
    MainCalls = {"create", "open", "post"}
    GlobalCalls = {"close"}
    OnceCalls = {"post"}
    Allowed <- CallsOf
SPECIFICATION Spec
INVARIANTS
    PostsAnswered
CHECK_DEADLOCK FALSE
