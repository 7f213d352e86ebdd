\* setMetatalbe with a table.
CONSTANTS
    Values = {o1, o2}
    Addresses = {a1, a2}
    Handles = {h1, h2, h3}
    MaxStrong = 1
    MaxCount = 3
    Null = null
SPECIFICATION Spec
INVARIANTS
    EveryHandleIsCounted
CHECK_DEADLOCK FALSE
