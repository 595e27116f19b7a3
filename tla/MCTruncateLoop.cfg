SPECIFICATION Spec
CONSTANTS
    a = a
    b = b
    NoId = NoId
    CallIds <- MCCallIds
    Conversations <- MCConversations
    MaxBlocks = 4
    Limits = {0, 5, 9}
INVARIANTS
    TypeOK
    LoopMatchesTruncate
    FailedRecountLeavesPart
    WorkingStaysPaired
    RemovesNeitherLessNorMore
PROPERTIES
    LoopsAdvance
