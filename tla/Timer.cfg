CONSTANTS
    Functions = {f}
    Tasks = {t1, t2}
    Intervals = {0, 1}
    MaxRepeat = 2
    MaxDepth = 2
    Null = null
SPECIFICATION FairSpec
INVARIANTS
    TypeOK
    TaskToResume
    Ticking
    ExactCount
PROPERTY TicksArrive
CHECK_DEADLOCK FALSE
