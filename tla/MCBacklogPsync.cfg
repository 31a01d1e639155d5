SPECIFICATION Spec
CONSTANTS
    a = a
    b = b
    Replicas = {a}
    Settings <- FullResuming
    Start = 1
    MinSize = 2
    Lens = {1}
    MaxOff = 8
INVARIANT SendsTheStream
CHECK_DEADLOCK FALSE
