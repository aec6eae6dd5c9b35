SPECIFICATION Spec
CONSTANTS
    u1 = u1
    u2 = u2
    NoUser = NoUser
    User = {u1, u2}
    Refused = {2}
    MaxPending = 2
    AnswersFirst = TRUE
    MaxWrites = 3
    MaxNotices = 2
    MaxFaults = 1
INVARIANTS
    TypeOK
    PipelineFollowsQueue
    CallCarriesPipeline
    WantedStreamIsStarted
    IdleOnlyWhenDone
    TokenFindsStarting
    AppliedAsAuthor
    BlocksRunForTheirWrite
    AppliedInOrder
PROPERTIES
    NeverAppliedAfterAnswer
    KeepsPromise
CHECK_DEADLOCK FALSE
