SPECIFICATION Spec
CONSTANTS
    r1 = r1
    r2 = r2
    t1 = t1
    t2 = t2
    Room = {r1}
    Thread = {t1}
    RoomOf <- OneThread
    MaxSelections = 4
    RuntimeThreads = 3
    MaxTimelines = 3
    MaxJoins = 2
INVARIANTS
    OneHolder
    ReceiverIsKept
CHECK_DEADLOCK FALSE
