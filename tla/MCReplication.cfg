SPECIFICATION Spec
CONSTANTS
    a = a
    b = b
    c = c
    Servers = {a, b, c}
    Networks <- MeshOrRing
INVARIANTS
    NothingSkipped
PROPERTIES
    RefinesFifo
    Delivered
CHECK_DEADLOCK FALSE
