SPECIFICATION LateSpec
CONSTANTS
    p1 = p1
    p2 = p2
    x = x
    y = y
    Proc = {p1, p2}
    Servers = {x, y}
    Homes <- AnyHomes
    Node <- PathNode
    Nbr <- PathNbr
    First <- PathFirst
    Last <- PathLast
    Required = 1
    Retries = 1
    MayFail = {p1}
INVARIANTS
    ProperOnOneServer
    MarkedIsColored
    Converged
    
PROPERTIES
    ColorIsFinal
    Termination
CHECK_DEADLOCK FALSE
