CONSTANTS
    Key = {k1, k2, k3}
    Value = {v1, v2}
    Nothing = Nothing
    Capacity = {0, 2}
    TTL = 1
    MaxOps = 6
    MaxClock = 2
SPECIFICATION Spec
CHECK_DEADLOCK FALSE
PROPERTIES EvictsLeastRecentlyUsed HitsWithinTTL ImplementsContract
SYMMETRY Symmetry
