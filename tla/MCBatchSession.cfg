CONSTANTS
    Proc = {p1, p2}
    Free = Free
    Transactional = TRUE
    MaxItems = 3
    MaxFailures = 1
SPECIFICATION FairSpec
INVARIANTS NothingLost RepeatsHaveCause FlushedFirst
PROPERTIES ImplementsQueue CallEnds
