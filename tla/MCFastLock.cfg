SPECIFICATION FairSpec
CONSTANTS
    Threads = {a, b}
    NoThread = none
    Tickets = 4
    Bits = 2
    MaxDepth = 2
INVARIANTS
    Mutex
    OwnerHolds
    NoLostWakeup
PROPERTIES
    RefinesFifo
    Granted
    Released
CHECK_DEADLOCK FALSE
