SPECIFICATION Spec
CONSTANTS
    None = None
    r1 = r1
    r2 = r2
    n1 = n1
    n2 = n2
    a1 = a1
    a2 = a2
    Room = {r1}
    Data = {n1, n2, a1, a2}
    Observable <- MembershipsAndData
    DiffKinds = {"PushBack", "Remove", "Set", "Reset"}
    MaxDiffs = 4
    MaxBacklog = 1
    MaxCommands = 0
    Keywords = {}
    MatchingNames = {}
    MaxRooms = {}
INVARIANTS
    FrontendMatchesKnown
    InvitesDisplayedOnce
    JoinedRoomsVisible
CHECK_DEADLOCK FALSE
