SPECIFICATION FairSpec
CONSTANTS
    a = a
    b = b
    NoUser = NoUser
    User = {a, b}
    MaxDepth = 6
    MaxQueue = 2
    Patient = TRUE
    KilledMidway = FALSE
    Failures = FALSE
INVARIANTS
    WritesAreOwn
    AccountsHaveRecords
PROPERTIES
    LaunchGoesOn
CHECK_DEADLOCK FALSE
