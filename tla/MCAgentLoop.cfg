SPECIFICATION Spec
CONSTANTS
    a = a
    b = b
    NoId = NoId
    CallIds <- MCCallIds
    FallbackIds <- MCFallbackIds
    Inputs <- MCInputs
    Replies <- MCReplies
    ToolSizes = {1, 4}
    MaxIters = 3
    ContextLimit = 16
    EmptyChoices = TRUE
INVARIANTS
    TypeOK
    RequestsPaired
    ReasonTellsPairing
    FormatNotSentAfterRefusal
    ReportFromLastAnswer
    HeaderTellsEnd
    CostIsBounded
PROPERTIES
    RecentContextSent
    ConversationOnlyGrows
    RunGetsShorter
    EveryRunEnds
