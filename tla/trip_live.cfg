SPECIFICATION FairSpec
CONSTANTS
    a = a
    b = b
    t1 = t1
    t2 = t2
    User = {a, b}
    Trip = {t1, t2}
    Key <- TripOrUser
    Field = {"guests"}
    Value = {a, b}
    Hosts = {a}
    Contacts <- EachOther
    MaxTime = 0
    MaxQueue = 2
    MaxMain = 1
    TapsAhead = TRUE
    Refused = {}
    Crashes = FALSE
INVARIANTS
    HostOnTrips
PROPERTIES
    StoredListEmptied
CHECK_DEADLOCK FALSE
