SPECIFICATION FairSpec
CONSTANTS
    u1 = u1
    u2 = u2
    NoUser = NoUser
    User = {u1, u2}
    Refused = {1}
    MaxPending = 1
    AnswersFirst = TRUE
    MaxWrites = 2
    MaxNotices = 1
    MaxFaults = 2
PROPERTIES
    StoredWritesAreAnswered
CHECK_DEADLOCK FALSE
