SPECIFICATION FairSpec
CONSTANTS
    None = None
    t1 = t1
    t2 = t2
    room = room
    c1 = c1
    c2 = c2
    c3 = c3
    Thread = {t1, t2}
    Room = {room}
    Caller = {c1, c2, c3}
    MaxVersion = 2
    MaxIgnored = 1
INVARIANTS
    TypeOK
    SenderIsKept
PROPERTIES
    CallersAreAnswered
    MembershipsAreKept
CHECK_DEADLOCK FALSE
