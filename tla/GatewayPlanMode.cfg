\* Only the group ever types /mode.
SPECIFICATION Spec
CONSTANTS
    group = group
    private = private
    u1 = u1
    u2 = u2
    Keys = {group, private}
    Rooms = {group, private}
    RoomOf <- TwoRooms
    Users = {u1, u2}
    Members <- OneUserEach
    Bold = {group}
    Sequential = {}
    DefaultMode = "readonly"
    PerMinute = 0
    MaxMessages = 4
    NoKey = NoKey
INVARIANT OthersKeepTheirMode
CHECK_DEADLOCK FALSE
