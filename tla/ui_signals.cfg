SPECIFICATION FairSpec
CONSTANTS
    t1 = t1
    t2 = t2
    Task = {t1, t2}
    Pushed = {"rooms", "timeline"}
    Capacity = 1
    MaxWaiting = 1
INVARIANTS
    NoLostWakeup
    ScreenIsWoken
PROPERTIES
    RoomUpdatesAreDrained
CHECK_DEADLOCK FALSE
