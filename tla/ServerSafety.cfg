\* A server and two command lines on one task; pids may be reused, so that a
\* row may name a live process none of whose threads works on it.  The command lines share
\* their names with the tabs, which are interchangeable in the same way and
\* never in the same behaviour.
SPECIFICATION SpecAll
CONSTANTS
    server = server
    cli = s1
    cli2 = s2
    Tasks = {t1}
    Pids = {server, s1, s2}
    Servers = {server}
    Ops = {o1}
    MaxSlices = 1
    NoPid = NoPid
    ReusePids = TRUE
    home = home
    work = work
    trip = trip
    s1 = s1
    s2 = s2
    r1 = r1
    r2 = r2
    Draft = Draft
    Nobody = Nobody
    Chats = {home, work, trip}
    Saved = {home, work}
    Sockets = {s1, s2}
    Callers = {r1, r2}
    Objects = {1, 2, 3, 4, 5, 6, 7}
    Kinds = {"chat", "plan", "local", "exec", "new", "resume"}
    Operations = {"rename", "delete", "new", "draft", "resume", "reset", "compact"}
    MaxInputs = 2
SYMMETRY Symmetry
INVARIANTS
    TypeOK
    OwnerHolds
    OverMeansIdle
    OpenOpsAreRecorded
    WebTypeOK
    TurnLockIsOwned
    ViewLockIsOwned
PROPERTIES
    ClaimIsKept
    CancelIsFinal
    CompletedIsFinal
    LedgerAppendOnly
    ImplementsLifecycle
    RunningChatStays
CHECK_DEADLOCK FALSE
