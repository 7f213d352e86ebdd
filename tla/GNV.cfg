\* The second value may get the address of the first.
CONSTANTS
    Values = {o1, o2}
    Addresses = {a1, a2}
    Handles = {h1, h2}
    MaxStrong = 1
    MaxCount = 3
    Null = null
SPECIFICATION FairSpec
INVARIANTS
    TypeOK
    CountIsHolders
    HandleReachesValue
PROPERTIES
    EntriesReleased
CHECK_DEADLOCK FALSE
