SPECIFICATION FairSpec
CONSTANTS
    r1 = r1
    r2 = r2
    t1 = t1
    t2 = t2
    Room = {r1}
    Thread = {t1}
    RoomOf <- OneThread
    MaxSelections = 3
    RuntimeThreads = 3
    MaxTimelines = 3
    MaxJoins = 1
INVARIANTS
    ThreadBuiltOnce
PROPERTIES
    ShownTimelineStays
    ThreadIsAnswered
    KilledScreenEnds
CHECK_DEADLOCK FALSE
