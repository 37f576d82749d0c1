SPECIFICATION Spec
CONSTANTS
    Procs = {p1, p2, p3}
    TagIds = {t1, t2, t3}
    Known = {t1, t2}
    MaxTags = 2
SYMMETRY Symmetry
INVARIANTS
    LoneSetStands
    DuplicateHasCause
    LastDeleteWins
