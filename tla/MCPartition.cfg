SPECIFICATION PSpec
CONSTANTS
    MaxNode = 12
    MaxPartitions = 8
INVARIANTS
    Disjoint
    Covering
    Balanced
