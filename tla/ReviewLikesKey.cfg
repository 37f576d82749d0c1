SPECIFICATION LikesSpec
CONSTANTS
    Requests = {p1}
    Likers = {alice, bob}
    Reliable = TRUE
INVARIANT LikersToldYes
