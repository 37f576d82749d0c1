SPECIFICATION PagesSpec
CONSTANTS
    MaxLimit = 2
    MaxAsked = 3
    MaxRows = 3
    MaxKey = 3
    MaxChanges = 2
INVARIANTS
    RepeatsFollowArrivals
PROPERTIES
    MissesFollowDepartures
