SPECIFICATION Spec
CONSTANTS
    Nodes = {1, 2, 3}
    Files <- SmallFiles
    Colors = {0, 1}
    Nil = Nil
    MaxCommands = 4
INVARIANTS
    Symmetric
    
    StoresTheFiles
    ReplicaAgrees
CHECK_DEADLOCK FALSE
