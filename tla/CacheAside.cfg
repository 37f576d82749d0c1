SPECIFICATION FairSpec
CONSTANTS
    Procs = {p1, p2}
    Falsy <- MCFalsy
    MaxVersion = 3
INVARIANTS
    StaleExplained
    AnswersAboveFloor
    FalsyAnswersFresh
PROPERTIES
    ImplementsRegister
    ReadsEnd
