SPECIFICATION Spec
CONSTANTS
    p1 = p1
    p2 = p2
    Proc <- TwoProc
    N = 4
    Node <- K4Node
    Nbr <- K4Nbr
    First <- K4First
    Last <- K4Last
    MayFail = {p1}
INVARIANTS
    ReportMeansColored
