CONSTANTS
    p1 = p1
    p2 = p2
    p3 = p3
    g1 = g1
    g2 = g2
    Proc = {p1, p2, p3}
    Gen = {g1, g2}
    GenOf <- TwoSessions
    Free = Free
    Nodes = 2
    SeqLimit = 2
    Epoch = 2
    MaxClock = 3
    MaxBacks = 1
    MaxIds = 3
SPECIFICATION FairSpec
CHECK_DEADLOCK FALSE
INVARIANTS IdsIncrease NodesKeepApart
PROPERTIES CallEnds
