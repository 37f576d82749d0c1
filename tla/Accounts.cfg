SPECIFICATION AccountsSpec
CONSTANTS
    Procs = {p1, p2}
    Hour = 1
    MaxTime = 4
    MaxMails = 2
    MaxResets = 2
    Addresses = {old, new}
    MaxPasswords = 3
INVARIANTS
    AccessIsEarned
    ResetFindsItself
    TokenIsReachable
    MailsAreSpaced
    TokensAreSpentOnce
    LastLinkWorks
SYMMETRY Interchangeable
