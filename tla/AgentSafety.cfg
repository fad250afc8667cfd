\* Symmetry is sound for RunsEnd too: in the behaviours it is about, no
\* interchangeable value ever occurs in a variable that changes.
SPECIFICATION SpecAll
CONSTANTS
    edit = edit
    create = create
    origin = origin
    staging = staging
    NoCall = NoCall
    AnyCall = AnyCall
    Writes = {edit, create}
    Pushes = {origin, staging}
    Delegated = {edit}
    OwnGate = {create}
    PinnedCalls = {edit, create}
    MaxTokens = 2
    Cost = 1
    Workers = 2
    MaxAudits = 2
    Threshold = 2
    MaxRounds = 2
    MaxCalls = 2
    MaxSteps = 2
    Limit = 1
    Factor = 2
    PostRounds = 1
    StallRounds = 1
    MaxCuts = 2
    MaxProse = 2
    Unknowns = 1
    Searches = 0
    Missings = 1
    Malformed = 1
    Warnings = 2
    Chances = {"build", "replan"}
SYMMETRY Symmetry
INVARIANTS
    NudgesAreBounded
    RunTypeOK
    TypeOK
    FloorHolds
    ModeIsTyped
    BudgetHolds
PROPERTIES
    SpendsOwnApproval
    AskedUnderTheFloor
    RunsEnd
CHECK_DEADLOCK FALSE
