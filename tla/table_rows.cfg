SPECIFICATION Spec
CONSTANTS
    Person = {1, 2, 3}
    Visible = 2
    MaxCalls = 2
    MaxReread = 1
INVARIANTS
    RowsInRange
CHECK_DEADLOCK FALSE
