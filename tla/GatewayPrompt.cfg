\* The private chat is on an adapter that awaits each message.
SPECIFICATION Spec
CONSTANTS
    group = group
    private = private
    u1 = u1
    u2 = u2
    Keys = {group, private}
    Rooms = {group, private}
    RoomOf <- TwoRooms
    Users = {u1, u2}
    Members <- GroupAndPrivate
    Bold = {group}
    Sequential = {private}
    DefaultMode = "readonly"
    PerMinute = 0
    MaxMessages = 2
    NoKey = NoKey
INVARIANT PromptIsAnswerable
CHECK_DEADLOCK FALSE
