SPECIFICATION Spec
CONSTANTS
    a = a
    b = b
    NoUser = NoUser
    User = {a, b}
    MaxDepth = 4
    MaxQueue = 1
    Patient = FALSE
    KilledMidway = TRUE
    Failures = TRUE
SYMMETRY UsersAlike
INVARIANTS
    TypeOK
    MainHasUser
CHECK_DEADLOCK FALSE
