\* One connection is enough: its request meets the end of the reload it caused before.
CONSTANTS
    Receivers = {usb}
    Pages = {page}
    MaxFiles = 2
    MaxRequests = 2
SPECIFICATION Spec
INVARIANTS
    EditsTakeEffect
CHECK_DEADLOCK FALSE
