SPECIFICATION FairSpec
CONSTANTS
    a = a
    b = b
    Replicas = {a, b}
    Settings <- AnySettings
    Start = 1
    MinSize = 2
    Lens = {1, 2}
    MaxOff = 6
INVARIANTS
    BufferHolds
    SendsSomething
    Faithful
PROPERTY CaughtUp
CHECK_DEADLOCK FALSE
