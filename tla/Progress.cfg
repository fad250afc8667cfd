\* The rate limiter is off; the private chat is on an adapter that awaits messages.
SPECIFICATION SpecAll
CONSTANTS
    group = group
    private = private
    u1 = u1
    u2 = u2
    t1 = t1
    server = server
    cli = cli
    NoPid = NoPid
    a = a
    s1 = s1
    s2 = s2
    r1 = r1
    Draft = Draft
    Nobody = Nobody
    Keys = {group, private}
    Rooms = {group, private}
    RoomOf <- TwoRooms
    Users = {u1, u2}
    Members <- GroupAndPrivate
    Bold = {}
    Sequential = {private}
    DefaultMode = "readonly"
    PerMinute = 0
    MaxMessages = 2
    NoKey = NoKey
INVARIANT NothingStranded
PROPERTIES
    SharesTheEngine
    WebSharesTheEngine
    QueuesDrain
    EndIsHonoured
    ClaimIsReleased
    StoppedTurnsEnd
    NavigationIsServed
CHECK_DEADLOCK FALSE
