CONSTANTS
    Proc = {p1, p2}
    None = None
    Versioned = TRUE
    SoftDelete = TRUE
    AutoId = FALSE
    Batched = FALSE
    MaxId = 2
    MaxWrites = 4
SPECIFICATION Spec
INVARIANTS LostUpdatesHaveCause
PROPERTIES DeletedStaysDeleted
SYMMETRY Symmetry
