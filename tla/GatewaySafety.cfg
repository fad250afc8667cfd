SPECIFICATION Spec
CONSTANTS
    group = group
    private = private
    u1 = u1
    u2 = u2
    Keys = {group, private}
    Rooms = {group, private}
    RoomOf <- TwoRooms
    Users = {u1, u2}
    Members <- GroupAndPrivate
    Bold = {group}
    Sequential = {}
    DefaultMode = "readonly"
    PerMinute = 1
    MaxMessages = 3
    NoKey = NoKey
INVARIANTS
    TypeOK
    StopsOwnTurn
    AsksAreOfTheTurn
PROPERTIES
    VerdictIsFinal
    GrantsAreApproved
    ModeMovesWithTurns
CHECK_DEADLOCK FALSE
