SPECIFICATION Spec
CONSTANTS
    Procs = {p1, p2}
    MaxMessages = 4
INVARIANTS
    ThreadsRooted
    RepliesFollowParent
    UndeliveredHasCause
PROPERTY ThreadKept
CHECK_DEADLOCK FALSE
