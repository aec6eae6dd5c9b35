SPECIFICATION Spec
CONSTANTS
    Person = {1, 2}
    Visible = 1
    MaxCalls = 2
    MaxReread = 1
INVARIANTS
    TypeOK
    BlockLabelsAgree
    InvitedAreLabelled
    CountedRowsExist
PROPERTIES
    TapsHitTheShown
CHECK_DEADLOCK FALSE
