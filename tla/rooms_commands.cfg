SPECIFICATION Spec
CONSTANTS
    None = None
    r1 = r1
    r2 = r2
    n1 = n1
    n2 = n2
    a1 = a1
    a2 = a2
    Room = {r1, r2}
    Data = {n1, n2, a1, a2}
    Observable <- InvitedOrJoined
    DiffKinds = {"PushBack", "Remove", "Set"}
    MaxDiffs = 2
    MaxBacklog = 1
    MaxCommands = 2
    Keywords = {"", "typed"}
    MatchingNames = {}
    MaxRooms = {1, 2, None}
SYMMETRY RoomSymmetry
INVARIANTS
    StatusCountsRooms
CHECK_DEADLOCK FALSE
