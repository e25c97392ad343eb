SPECIFICATION Spec
CONSTANTS
    None = None
    r1 = r1
    r2 = r2
    n1 = n1
    n2 = n2
    a1 = a1
    a2 = a2
    Room = {r1, r2}
    Data = {n1, n2, a1, a2}
    Observable <- JoinedOrLeft
    DiffKinds = {"Append", "Reset", "Clear", "Truncate", "Insert", "Set", "Remove",
                 "PushFront", "PushBack", "PopFront", "PopBack"}
    MaxDiffs = 3
    MaxBacklog = 1
    MaxCommands = 0
    Keywords = {}
    MatchingNames = {}
    MaxRooms = {}
SYMMETRY RoomSymmetry
INVARIANTS
    JoinedRoomHasDetails
    JoinedConvergesToDetails
    OrderConvergesToService
    ResetFindsNoDetails
    DisplayedListsAreSubsets
PROPERTIES
    TeardownOnlyAfterDeparture
CHECK_DEADLOCK FALSE
