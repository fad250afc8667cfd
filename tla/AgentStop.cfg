SPECIFICATION Spec
CONSTANTS
    edit = edit
    create = create
    origin = origin
    staging = staging
    NoCall = NoCall
    AnyCall = AnyCall
    Writes = {edit, create}
    Pushes = {origin, staging}
    Delegated = {edit}
    OwnGate = {create}
    PinnedCalls = {edit, create}
    MaxTokens = 2
    Cost = 1
    Workers = 0
    MaxAudits = 2
    Threshold = 2
    MaxRounds = 2
    MaxCalls = 2
    MaxSteps = 1
PROPERTY StopIsFinal
CHECK_DEADLOCK FALSE
