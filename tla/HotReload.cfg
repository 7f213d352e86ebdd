CONSTANTS
    Receivers = {usb, wifi}
    Pages = {page}
    MaxFiles = 2
    MaxRequests = 2
SPECIFICATION FairSpec
INVARIANTS
    TypeOK
    ReloadSeesFiles
PROPERTIES
    AcceptedIsShown
CHECK_DEADLOCK FALSE
