CONSTANTS
    Proc = {p1, p2}
    None = None
    Versioned = TRUE
    SoftDelete = TRUE
    AutoId = TRUE
    Batched = FALSE
    MaxId = 2
    MaxWrites = 3
SPECIFICATION Spec
INVARIANTS NoCopies
SYMMETRY Symmetry
