SPECIFICATION SSpec
CONSTANTS
    a = a
    b = b
    NoId = NoId
    CallIds <- MCCallIds
    Inputs <- MCInputs
    Replies <- MCReplies
    ToolSizes = {3}
    MaxIters = 2
    MaxTurns = 3
    LogTexts = {"plain"}
    ContextLimit = 14
    EmptyChoices = FALSE
INVARIANTS
    RequestsPaired
