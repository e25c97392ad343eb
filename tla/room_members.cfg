SPECIFICATION FairSpec
CONSTANTS
    None = None
    r1 = r1
    r2 = r2
    k1 = k1
    k2 = k2
    Room = {r1, r2}
    Task = {k1, k2}
    MaxChanges = 2
    MaxShows = 1
    MaxCommands = 1
INVARIANTS
    ChangeIsUnderway
PROPERTIES
    ChangesAreFetched
CHECK_DEADLOCK FALSE
