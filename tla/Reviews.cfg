SPECIFICATION Spec
CONSTANTS
    Procs = {p1, p2}
    Users = {alice, bob}
    MaxReviews = 3
INVARIANTS
    OneReviewEach
    ReviewKept
PROPERTY OnlyOverlapReplaces
