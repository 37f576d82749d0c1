SPECIFICATION LikesSpec
CONSTANTS
    Requests = {p1, p2}
    Likers = {alice, bob}
    Reliable = FALSE
INVARIANTS
    YesOnlyToLikers
