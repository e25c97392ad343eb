---------------------------- MODULE RoomUpdates ----------------------------
(***************************************************************************)
(* The vocabulary the room list pipeline shares: what is known of a room,  *)
(* the VecDiff that carries a change of the room order, the                *)
(* RoomsListUpdate messages, and PENDING_ROOM_UPDATES, the lock-free FIFO  *)
(* queue between the background tasks (producers) and the task that owns   *)
(* the RoomsList (the only consumer).                                      *)
(***************************************************************************)
EXTENDS Integers, Sequences, FiniteSets

CONSTANTS
    Room,      \* room ids
    Data,      \* values a displayable field of a room (its name, its avatar) can have
    Keywords,  \* what the user types into the room filter; "" is no filter
    None       \* the absent value of an Option

ASSUME RoomAssumption ==
    /\ IsFiniteSet(Room)
    /\ None \notin Data

RoomState == {"Joined", "Invited", "Left", "Banned", "Knocked"}

(* What RoomListServiceRoomInfo remembers of a room. The fields kept here  *)
(* are the ones whose treatment differs: name stands for the data updated  *)
(* for joined and invited rooms, avatar for the optional data that only    *)
(* joined rooms update (avatar, topic, tags, unread counts, latest event,  *)
(* tombstone), direct for the flag that moves a room between lists.        *)
RoomInfo == [state: RoomState, direct: BOOLEAN, name: Data, avatar: Data \cup {None}]

(* utils.rs VecDiff<OwnedRoomId>; indices count from 0 as in the code.     *)
VecDiff ==
    [diff: {"Append"}, values: Seq(Room)]
    \cup [diff: {"Clear", "PopFront", "PopBack"}]
    \cup [diff: {"PushFront", "PushBack"}, value: Room]
    \cup [diff: {"Insert", "Set"}, index: Nat, value: Room]
    \cup [diff: {"Remove"}, index: Nat]
    \cup [diff: {"Truncate"}, length: Nat]

StatusKind == {"NotLoaded", "Loading", "Loaded", "Error"}

RoomsListUpdate ==
    [op: {"AddInvitedRoom", "AddJoinedRoom"}, room: Room, info: RoomInfo]
    \cup [op: {"RemoveRoom"}, room: Room]
    \cup [op: {"UpdateIsDirect"}, room: Room, direct: BOOLEAN]
    \cup [op: {"UpdateRoomName", "UpdateRoomAvatar"}, room: Room, value: Data]
    \cup [op: {"RoomOrderUpdate"}, diff: VecDiff]
    \cup [op: {"ClearRooms", "NotLoaded"}]
    \cup [op: {"LoadedRooms"}, max: Nat \cup {None}]
    \cup [op: {"Status"}, kind: StatusKind]
    \cup [op: {"ApplyFilter"}, keywords: Keywords]

VARIABLE pending    \* PENDING_ROOM_UPDATES

(* enqueue_rooms_list_update. The RefreshUI broadcast that follows the     *)
(* push is not part of this module: see Wake in RoomsList.                 *)
Enqueue(update) == pending' = Append(pending, update)

============================================================================
