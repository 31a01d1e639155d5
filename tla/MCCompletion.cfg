SPECIFICATION WatchSpec
CONSTANTS
    p1 = p1
    p2 = p2
    p3 = p3
    Proc = {p1, p2, p3}
    N = 3
    Node <- TriNode
    Nbr <- TriNbr
    First <- TriRange
    Last <- TriRange
    MayFail = {}

    
PROPERTIES
    Termination
    Noticed
