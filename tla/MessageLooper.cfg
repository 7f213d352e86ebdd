\* Everything message_looper.h allows: one of the posters quits the loop too,
\* before it starts, while it waits or from a handler.
CONSTANTS
    Owner = owner
    Posters = {p1, p2}
    Quitters = {owner, p1}
    Msg = {m1, m2, m3}
    Sentinel = sentinel
    Quit = quitmsg
    Null = null
SPECIFICATION FairSpec
INVARIANTS
    TypeOK
    ListShape
    NoLostWakeup
    OneFate
    NothingLost
    SafeQuitDrains
PROPERTIES
    ImplementsMailbox
    CallsReturn
    EveryMessageSettled
    QuitEnds
CHECK_DEADLOCK FALSE
