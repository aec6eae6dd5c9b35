SPECIFICATION FairSpec
CONSTANTS
    a = a
    b = b
    c = c
    a1 = a1
    b1 = b1
    n1 = n1
    n2 = n2
    NoPerson = NoPerson
    User = {a, b, c}
    Phone = {n1}
    Device = {a1, b1}
    Owner <- OneEach
    Key = {a, b, c}
    Field <- RecordField
    Value <- UserOrPhone
    Uses <- BothAdd
    MaxQueue <- TwoAndOne
    MaxMain <- TwoAndOne
    SelfSearch = FALSE
    ReloadRaces = TRUE
    Refusable = {}
    Crashes = FALSE
PROPERTIES
    ContactBecomesMutual
    OthersOnlyAddThemselves
CHECK_DEADLOCK FALSE
