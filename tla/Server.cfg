SPECIFICATION ServerSpec
CONSTANTS
    Requests = {r1, r2}
    MaxText = 3
    MaxConnections = 1
    MaxStarts = 2
INVARIANTS
    SetupIsWhole
    IdleConnectionsExplained
PROPERTIES
    ConfigMovesForward
    CutHasCause
    ConfigCatchesUp
    TermEnds
