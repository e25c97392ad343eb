SPECIFICATION Spec
CONSTANTS
    day = day
    p = p
    msg = msg
    Item = {day, msg}
    Virtual = {day}
    Pagination = {p}
    MaxLength = 2
    MaxDiffs = 2
    MaxUpdates = 2
    MaxRequests = 1
INVARIANTS
    TypeOK
    ListsReplay
    ScreenHears
    LoadingEnds
CHECK_DEADLOCK FALSE
