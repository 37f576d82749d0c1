SPECIFICATION Spec
CONSTANTS
    Procs = {p1, p2, p3}
    Lists = {bookmark, favorite, follow}
    Awaited = {bookmark, follow}
    Checked = {follow}
INVARIANTS
    AwaitedGetsRespectAnswers
    DriftIsEarly
