SPECIFICATION Spec
CONSTANTS
    Procs = {p1, p2}
    Shots = {s1, s2, s3}
    Threshold = 2
    MaxVersion = 3
SYMMETRY Symmetry
INVARIANTS
    EarnedIsGranted
    AutoIsEarned
    RulingStands
    UploadFollowsPermission
