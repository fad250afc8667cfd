\* A chat approves for the session, then /resume and a turn of the other chat.
SPECIFICATION WebSpec
CONSTANTS
    home = home
    work = work
    trip = trip
    s1 = s1
    s2 = s2
    r1 = r1
    r2 = r2
    Draft = Draft
    Nobody = Nobody
    Chats = {home, work, trip}
    Saved = {home, work}
    Sockets = {s1}
    Callers = {r1}
    Objects = {1, 2, 3, 4, 5}
    Kinds = {"chat", "resume"}
    Operations = {"reset"}
    MaxInputs = 3
INVARIANT GrantsStayHome
CHECK_DEADLOCK FALSE
