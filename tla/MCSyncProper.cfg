SPECIFICATION Spec
CONSTANTS
    p1 = p1
    p2 = p2
    x = x
    y = y
    Proc = {p1, p2}
    Servers = {x, y}
    Homes <- TwoHomes
    Node <- EdgeNode
    Nbr <- EdgeNbr
    First <- EdgeRange
    Last <- EdgeRange
    Required = 1
    Retries = 0
    MayFail = {}
INVARIANT ProperColoring
CHECK_DEADLOCK FALSE
