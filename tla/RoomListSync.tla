---------------------------- MODULE RoomListSync ---------------------------
(***************************************************************************)
(* The sync task: the loop of init/sync.rs that consumes the VectorDiffs   *)
(* of the room list service, keeps all_known_rooms, maintains              *)
(* ALL_JOINED_ROOMS (room/joined_room.rs) and enqueues RoomsListUpdates.   *)
(*                                                                         *)
(* svc is the service's vector as of the diffs handed to the task. A diff  *)
(* carries live room handles: what the task learns of a room is what       *)
(* from_room reads while the diff is handled, so it is chosen anew for     *)
(* each diff; several membership changes may have been coalesced into one. *)
(*                                                                         *)
(* A handler awaits between its effects, and the task that owns the        *)
(* RoomsList runs concurrently: todo holds the effects on shared state     *)
(* that the handler still has to perform, each of them one step.           *)
(* all_known_rooms is private to the task and changes with the step that   *)
(* takes the diff.                                                         *)
(***************************************************************************)
EXTENDS RoomUpdates, SequencesExt

CONSTANTS
    Observable,   \* what from_room may read of a room
    DiffKinds,    \* the kinds of VectorDiff the service emits
    MaxDiffs,     \* bound: the number of diffs the service emits
    MaxBacklog    \* bound: a diff comes only when at most this many updates are pending

ASSUME SyncAssumption ==
    /\ Observable \subseteq RoomInfo
    /\ DiffKinds \subseteq {"Append", "Reset", "Clear", "Truncate", "Insert", "Set", "Remove",
                           "PushFront", "PushBack", "PopFront", "PopBack"}
    /\ MaxDiffs \in Nat
    /\ MaxBacklog \in Nat

VARIABLES
    svc,        \* the service's vector of room ids
    known,      \* all_known_rooms
    details,    \* the rooms that have JoinedRoomDetails in ALL_JOINED_ROOMS
    todo,       \* effects the current handler has yet to perform
    phase,      \* where the task is: waiting for a diff, in a loop of a handler, ended
    incoming,   \* the rooms of the Append or Reset being handled
    toAdd,      \* indices of incoming whose add_new_room future has not finished
    diffs       \* number of diffs taken

syncVars == <<svc, known, details, todo, phase, incoming, toAdd, diffs>>

Entry == [room: Room, info: RoomInfo]

Effect ==
    [do: {"insert_room_details", "remove_room_details"}, room: Room]
    \cup [do: {"clear_all_rooms"}]
    \cup [do: {"enqueue"}, update: RoomsListUpdate]

Phase == {"idle", "resetting", "truncating", "adding", "failed"}

SyncTypeOK ==
    /\ svc \in Seq(Room)
    /\ known \in Seq(Entry)
    /\ details \in SUBSET Room
    /\ todo \in Seq(Effect)
    /\ phase \in Phase
    /\ incoming \in Seq(Entry)
    /\ toAdd \subseteq DOMAIN incoming
    /\ diffs \in 0..MaxDiffs

SyncInit ==
    /\ svc = <<>>
    /\ known = <<>>
    /\ details = {}
    /\ todo = <<>>
    /\ phase = "idle"
    /\ incoming = <<>>
    /\ toAdd = {}
    /\ diffs = 0

Ids(entries) == [i \in DOMAIN entries |-> entries[i].room]

(* The task waits in room_diff_stream.next() or takes the next diff of a   *)
(* batch: the previous one is completely handled.                          *)
AtRest == phase = "idle" /\ todo = <<>>

----------------------------------------------------------------------------
(* The effects of the functions of joined_room.rs.                         *)

Send(update) == [do |-> "enqueue", update |-> update]

SendOrder(diff) == Send([op |-> "RoomOrderUpdate", diff |-> diff])

When(condition, effect) == IF condition THEN <<effect>> ELSE <<>>

(* Mutant: the frontend is told of the room before its timeline is there.  *)
AddNewRoomAnnouncedFirst(new) ==
    CASE new.info.state = "Joined" ->
           << Send([op |-> "AddJoinedRoom", room |-> new.room, info |-> new.info]),
              [do |-> "insert_room_details", room |-> new.room] >>
      [] new.info.state = "Invited" ->
           << Send([op |-> "AddInvitedRoom", room |-> new.room, info |-> new.info]) >>
      [] OTHER -> <<>>

(* Mutant: the new timeline is not announced. *)
AddNewRoomUnannounced(new) ==
    IF new.info.state = "Joined"
    THEN << [do |-> "insert_room_details", room |-> new.room] >>
    ELSE <<>>

(* add_new_room: Knocked, Banned and Left rooms are ignored.               *)
AddNewRoom(new) ==
    CASE new.info.state = "Joined" ->
           << [do |-> "insert_room_details", room |-> new.room],
              Send([op |-> "AddJoinedRoom", room |-> new.room, info |-> new.info]) >>
      [] new.info.state = "Invited" ->
           << Send([op |-> "AddInvitedRoom", room |-> new.room, info |-> new.info]) >>
      [] OTHER -> <<>>

(* The timeline of a room is built before anything is shared; when that    *)
(* fails add_new_room returns the error and has had no effect.             *)
AddFails(new, built) == new.info.state = "Joined" /\ ~built

(* Mutants: one of the two effects of remove_room is missing. *)
RemoveRoomKeepsDetails(room) == << Send([op |-> "RemoveRoom", room |-> room]) >>

RemoveRoomUnannounced(room) == << [do |-> "remove_room_details", room |-> room] >>

RemoveRoom(room) ==
    << [do |-> "remove_room_details", room |-> room],
       Send([op |-> "RemoveRoom", room |-> room]) >>

(* Mutant: an update is a removal followed by an addition. *)
UpdateRoomByReplacement(old, new) == RemoveRoom(old.room) \o AddNewRoom(new)

(* Mutant: a room the user has left or is banned from is only ignored. *)
UpdateRoomIgnoresLeaving(old, new) ==
    IF old.room # new.room THEN RemoveRoom(old.room) \o AddNewRoom(new)
    ELSE IF old.info.state # new.info.state THEN AddNewRoom(new)
    ELSE <<>>

UpdateRoom(old, new) ==
    IF old.room # new.room THEN RemoveRoom(old.room) \o AddNewRoom(new)
    ELSE IF old.info.state # new.info.state
    THEN IF new.info.state \in {"Banned", "Left"}
         THEN RemoveRoom(new.room)
         ELSE AddNewRoom(new)
    ELSE When(/\ old.info.avatar # new.info.avatar
              /\ new.info.avatar # None,
              Send([op |-> "UpdateRoomAvatar", room |-> new.room, value |-> new.info.avatar]))
         \o When(old.info.name # new.info.name,
              Send([op |-> "UpdateRoomName", room |-> new.room, value |-> new.info.name]))
         \o When(/\ new.info.state = "Joined"
                 /\ old.info.direct # new.info.direct,
              Send([op |-> "UpdateIsDirect", room |-> new.room, direct |-> new.info.direct]))

UpdateFails(old, new, built) ==
    /\ old.room # new.room \/ old.info.state # new.info.state
    /\ AddFails(new, built)

----------------------------------------------------------------------------
(* Taking a diff.                                                          *)

TakeDiff(kind) ==
    /\ AtRest
    /\ kind \in DiffKinds
    /\ diffs < MaxDiffs
    /\ Len(pending) <= MaxBacklog
    /\ diffs' = diffs + 1

Absent == Room \ ToSet(svc)

(* The index at which a diff adds to, or removes from, a vector of length n. *)
Position(diff, n) ==
    CASE diff.diff \in {"PushFront", "PopFront"} -> 0
      [] diff.diff = "PushBack" -> n
      [] diff.diff = "PopBack" -> n - 1
      [] OTHER -> diff.index

AddDiffs(room, n) ==
    [diff: {"PushFront", "PushBack"}, value: {room}]
    \cup [diff: {"Insert"}, index: 0..n, value: {room}]

RemoveDiffs ==
    IF svc = <<>> THEN {}
    ELSE [diff: {"PopFront", "PopBack"}] \cup [diff: {"Remove"}, index: 0..Len(svc) - 1]

(* PushFront, PushBack, Insert: an error of add_new_room ends the task.    *)
AddRoom(diff) ==
    /\ TakeDiff(diff.diff)
    /\ svc' = InsertAt(svc, Position(diff, Len(svc)) + 1, diff.value)
    /\ \E info \in Observable, built \in BOOLEAN :
         LET new == [room |-> diff.value, info |-> info] IN
         \/ /\ AddFails(new, built)
            /\ phase' = "failed"
            /\ UNCHANGED <<known, todo>>
         \/ /\ ~AddFails(new, built)
            /\ todo' = AddNewRoom(new) \o <<SendOrder(diff)>>
            /\ known' = InsertAt(known, Position(diff, Len(known)) + 1, new)
            /\ UNCHANGED phase
    /\ UNCHANGED <<details, incoming, toAdd, pending>>

(* PopFront, PopBack, Remove, when the next diff of the batch does not add *)
(* the same room.                                                          *)
DropRoom(diff) ==
    /\ TakeDiff(diff.diff)
    /\ LET i == Position(diff, Len(known)) + 1 IN
         /\ svc' = RemoveAt(svc, i)
         /\ known' = RemoveAt(known, i)
         /\ todo' = <<SendOrder(diff)>> \o RemoveRoom(known[i].room)
    /\ UNCHANGED <<details, phase, incoming, toAdd, pending>>

(* optimize_remove_then_add_into_update: the next diff of the batch adds   *)
(* the room back. Both diffs are consumed and the room is updated.         *)
MoveRoom(remove, add) ==
    /\ TakeDiff(remove.diff)
    /\ add.diff \in DiffKinds
    /\ LET i == Position(remove, Len(known)) + 1
           rest == RemoveAt(known, i)
           j == Position(add, Len(rest)) + 1
       IN
         /\ svc' = InsertAt(RemoveAt(svc, i), j, add.value)
         /\ \E info \in Observable, built \in BOOLEAN :
              LET new == [room |-> add.value, info |-> info] IN
              \/ /\ UpdateFails(known[i], new, built)
                 /\ todo' = <<SendOrder(remove)>>
                 /\ known' = rest
                 /\ phase' = "failed"
              \/ /\ ~UpdateFails(known[i], new, built)
                 /\ todo' = <<SendOrder(remove)>> \o UpdateRoom(known[i], new)
                              \o <<SendOrder(add)>>
                 /\ known' = InsertAt(rest, j, new)
                 /\ UNCHANGED phase
    /\ UNCHANGED <<details, incoming, toAdd, pending>>

SetRoom(i, room) ==
    /\ TakeDiff("Set")
    /\ svc' = ReplaceAt(svc, i + 1, room)
    /\ \E info \in Observable, built \in BOOLEAN :
         LET new == [room |-> room, info |-> info] IN
         \/ /\ UpdateFails(known[i + 1], new, built)
            /\ todo' = IF known[i + 1].room # room THEN RemoveRoom(known[i + 1].room) ELSE <<>>
            /\ phase' = "failed"
            /\ UNCHANGED known
         \/ /\ ~UpdateFails(known[i + 1], new, built)
            /\ todo' = UpdateRoom(known[i + 1], new)
                         \o <<SendOrder([diff |-> "Set", index |-> i, value |-> room])>>
            /\ known' = ReplaceAt(known, i + 1, new)
            /\ UNCHANGED phase
    /\ UNCHANGED <<details, incoming, toAdd, pending>>

Clear ==
    /\ TakeDiff("Clear")
    /\ svc' = <<>>
    /\ known' = <<>>
    /\ todo' = << [do |-> "clear_all_rooms"],
                  SendOrder([diff |-> "Clear"]),
                  Send([op |-> "ClearRooms"]) >>
    /\ UNCHANGED <<details, phase, incoming, toAdd, pending>>

AppendRooms(entries) ==
    /\ TakeDiff("Append")
    /\ svc' = svc \o Ids(entries)
    /\ phase' = "adding"
    /\ incoming' = entries
    /\ toAdd' = DOMAIN entries
    /\ UNCHANGED <<known, details, todo, pending>>

Reset(entries) ==
    /\ TakeDiff("Reset")
    /\ svc' = Ids(entries)
    /\ phase' = "resetting"
    /\ incoming' = entries
    /\ UNCHANGED <<known, details, todo, toAdd, pending>>

Truncate(length) ==
    /\ TakeDiff("Truncate")
    /\ svc' = SubSeq(svc, 1, length)
    /\ phase' = "truncating"
    /\ UNCHANGED <<known, details, todo, incoming, toAdd, pending>>

----------------------------------------------------------------------------
(* The loops of the Reset, Truncate and Append handlers.                   *)

(* Mutant: the entry is dropped without removing the room. *)
PopWithoutRemove ==
    /\ todo' = <<>>
    /\ known' = Front(known)
    /\ UNCHANGED <<svc, details, phase, incoming, toAdd, diffs, pending>>

PopAndRemove ==
    /\ todo' = RemoveRoom(Last(known).room)
    /\ known' = Front(known)
    /\ UNCHANGED <<svc, details, phase, incoming, toAdd, diffs, pending>>

PopOnReset ==
    /\ phase = "resetting" /\ todo = <<>> /\ known # <<>>
    /\ PopAndRemove

(* Mutant: the frontend's order is not cleared before the rooms are appended. *)
ResetClearedKeepsOrder ==
    /\ phase = "resetting" /\ todo = <<>> /\ known = <<>>
    /\ todo' = << [do |-> "clear_all_rooms"], Send([op |-> "ClearRooms"]) >>
    /\ phase' = "adding"
    /\ toAdd' = DOMAIN incoming
    /\ UNCHANGED <<svc, known, details, incoming, diffs, pending>>

ResetCleared ==
    /\ phase = "resetting" /\ todo = <<>> /\ known = <<>>
    /\ todo' = << [do |-> "clear_all_rooms"],
                  Send([op |-> "ClearRooms"]),
                  SendOrder([diff |-> "Clear"]) >>
    /\ phase' = "adding"
    /\ toAdd' = DOMAIN incoming
    /\ UNCHANGED <<svc, known, details, incoming, diffs, pending>>

(* The service's vector has already the length the diff asks for.          *)
PopOnTruncate ==
    /\ phase = "truncating" /\ todo = <<>> /\ Len(known) > Len(svc)
    /\ PopAndRemove

Truncated ==
    /\ phase = "truncating" /\ todo = <<>> /\ Len(known) <= Len(svc)
    /\ todo' = << SendOrder([diff |-> "Truncate", length |-> Len(svc)]) >>
    /\ phase' = "idle"
    /\ UNCHANGED <<svc, known, details, incoming, toAdd, diffs, pending>>

(* join_all: the add_new_room futures finish in any order; each inserts    *)
(* and enqueues without an await in between. An error is only logged.      *)
AddIncoming(i, built) ==
    /\ phase = "adding" /\ todo = <<>> /\ i \in toAdd
    /\ toAdd' = toAdd \ {i}
    /\ todo' = IF AddFails(incoming[i], built) THEN <<>> ELSE AddNewRoom(incoming[i])
    /\ UNCHANGED <<svc, known, details, phase, incoming, diffs, pending>>

AllAdded ==
    /\ phase = "adding" /\ todo = <<>> /\ toAdd = {}
    /\ todo' = When(incoming # <<>>,
                    SendOrder([diff |-> "Append", values |-> Ids(incoming)]))
    /\ known' = known \o incoming
    /\ phase' = "idle"
    /\ incoming' = <<>>
    /\ UNCHANGED <<svc, details, toAdd, diffs, pending>>

----------------------------------------------------------------------------

(* One effect of the current handler on the shared state.                  *)
RunEffect ==
    /\ todo # <<>>
    /\ todo' = Tail(todo)
    /\ LET effect == Head(todo) IN
         \/ /\ effect.do = "insert_room_details"
            /\ details' = details \cup {effect.room}
            /\ UNCHANGED pending
         \/ /\ effect.do = "remove_room_details"
            /\ details' = details \ {effect.room}
            /\ UNCHANGED pending
         \/ /\ effect.do = "clear_all_rooms"
            /\ details' = {}
            /\ UNCHANGED pending
         \/ /\ effect.do = "enqueue"
            /\ Enqueue(effect.update)
            /\ UNCHANGED details
    /\ UNCHANGED <<svc, known, phase, incoming, toAdd, diffs>>

(* The stream ends: sync bails out.                                        *)
StreamEnds ==
    /\ AtRest
    /\ phase' = "failed"
    /\ UNCHANGED <<svc, known, details, todo, incoming, toAdd, diffs, pending>>

EntrySeqs(rooms) ==
    UNION {{s \in [1..Cardinality(R) -> [room: R, info: Observable]] :
              ToSet(Ids(s)) = R} : R \in SUBSET rooms}

PushFront == \E r \in Absent : AddRoom([diff |-> "PushFront", value |-> r])
PushBack == \E r \in Absent : AddRoom([diff |-> "PushBack", value |-> r])
Insert == \E r \in Absent, i \in 0..Len(svc) :
            AddRoom([diff |-> "Insert", index |-> i, value |-> r])
RemoveDiff == \E d \in RemoveDiffs : DropRoom(d)
RemoveThenAdd == \E d \in RemoveDiffs :
                   \E a \in AddDiffs(svc[Position(d, Len(svc)) + 1], Len(svc) - 1) :
                     MoveRoom(d, a)
Set == \E i \in 0..Len(svc) - 1 :
         \E r \in Absent \cup {svc[i + 1]} : SetRoom(i, r)
AppendDiff == \E s \in EntrySeqs(Absent) : s # <<>> /\ AppendRooms(s)
ResetDiff == \E s \in EntrySeqs(Room) : Reset(s)
TruncateDiff == \E n \in 0..Len(svc) - 1 : Truncate(n)

(* The steps by which a handler that has taken a diff goes on.             *)
Handling ==
    \/ RunEffect
    \/ PopOnReset
    \/ ResetCleared
    \/ PopOnTruncate
    \/ Truncated
    \/ \E i \in toAdd, built \in BOOLEAN : AddIncoming(i, built)
    \/ AllAdded

SyncNext ==
    \/ PushFront
    \/ PushBack
    \/ Insert
    \/ RemoveDiff
    \/ RemoveThenAdd
    \/ Set
    \/ Clear
    \/ AppendDiff
    \/ ResetDiff
    \/ TruncateDiff
    \/ Handling
    \/ StreamEnds

============================================================================
