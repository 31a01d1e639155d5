SPECIFICATION FairSpec
CONSTANTS
    c1 = c1
    c2 = c2
    r1 = r1
    Clients = {c1, c2}
    Replicas = {r1, r2}
    MaxAcks = 1
    Settings <- BothOrAlone

    
PROPERTIES
    EnoughReplicas
    Answered
CHECK_DEADLOCK FALSE
