SPECIFICATION PageSpec
CONSTANTS
    Procs = {p1, p2}
    Removed <- MCRemoved
    MaxVersion = 3
    Authors <- MCAuthors
    Owner <- MCOwner
    PageSize = 1
SYMMETRY ProcSymmetry
VIEW Relevant
INVARIANTS
    NotFoundIsTrue
    RepeatedDeleteIdle
    ShownOnce
    NoneMissing
