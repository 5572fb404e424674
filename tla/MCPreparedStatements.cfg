CONSTANTS
    Proc = {p1, p2}
    Query = {q1, q2, q3}
    MaxEntries = 2
    MaxStatements = 4
SPECIFICATION FairSpec
INVARIANTS CachedAreUsable NothingLeaks
