SPECIFICATION Spec
CONSTANTS
    a = a
    b = b
    t1 = t1
    t2 = t2
    User = {a, b}
    Trip = {t1, t2}
    Key <- TripOrUser
    Field = {"guests"}
    Value = {a, b}
    Hosts = {a}
    Contacts <- EachOther
    MaxTime = 1
    MaxQueue = 2
    MaxMain = 1
    TapsAhead = FALSE
    Refused = {t1, t2}
    Crashes = TRUE
INVARIANTS
    TypeOK
    ListedForInvited
PROPERTIES
    InvitationsSent
CHECK_DEADLOCK FALSE
