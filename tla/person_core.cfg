SPECIFICATION Spec
CONSTANTS
    a = a
    b = b
    c = c
    a1 = a1
    b1 = b1
    n1 = n1
    n2 = n2
    NoPerson = NoPerson
    User = {a, b}
    Phone = {n1}
    Device = {a1, b1}
    Owner <- OneEach
    Key = {a, b}
    Field <- RecordField
    Value <- UserOrPhone
    Uses <- OneDoesAll
    MaxQueue <- TwoAndOne
    MaxMain <- OneEverywhere
    SelfSearch = FALSE
    ReloadRaces = FALSE
    Refusable = {"updateData"}
    Crashes = TRUE
INVARIANTS
    TypeOK
    ForcedUserPresent
    InvitesIncludeHost
    OwnEditsKept
PROPERTIES
    AckKeepsView
CHECK_DEADLOCK FALSE
