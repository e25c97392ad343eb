----------------------------- MODULE RoomsList -----------------------------
(***************************************************************************)
(* The RoomsList of room/rooms_list.rs: the frontend's replica of the room *)
(* list, owned by ui_worker. A RefreshUI makes the worker drain            *)
(* PENDING_ROOM_UPDATES; each pop is one action here, since the producers  *)
(* keep pushing meanwhile. The drain ends when a pop finds the queue       *)
(* empty; the list is then sorted if needed and published, so the states   *)
(* in which the worker is idle are the states the frontend sees.           *)
(*                                                                         *)
(* update_displayed_rooms, the only place that sets display_filter, is     *)
(* only reached with empty keywords and then sets the filter that accepts  *)
(* every room, which is also the initial one: display_filter is TRUE.      *)
(***************************************************************************)
EXTENDS RoomUpdates, SequencesExt

VARIABLES
    order,       \* all_known_rooms_order
    joined,      \* all_joined_rooms
    invited,     \* invited_rooms
    displayed,   \* the displayed lists: invited, direct, regular
    status,      \* status, with the number of rooms its message states
    maxRooms,    \* max_known_rooms
    keywords,    \* filter_keywords
    uiPhase,     \* whether handle_rooms_list_updates is running
    needsSort    \* its needs_sort flag

uiVars == <<order, joined, invited, displayed, status, maxRooms, keywords, uiPhase, needsSort>>

Shown == [direct: BOOLEAN, name: Data, avatar: Data \cup {None}]
Lists == {"invited", "direct", "regular"}
Status == [kind: StatusKind, rooms: Nat \cup {None}]

ASSUME ShownAssumption == None \notin Shown

UiTypeOK ==
    /\ order \in Seq(Room)
    /\ joined \in [Room -> Shown \cup {None}]
    /\ invited \in [Room -> Shown \cup {None}]
    /\ displayed \in [Lists -> Seq(Room)]
    /\ status \in Status
    /\ maxRooms \in Nat \cup {None}
    /\ keywords \in Keywords \cup {""}
    /\ uiPhase \in {"idle", "draining"}
    /\ needsSort \in BOOLEAN

UiInit ==
    /\ order = <<>>
    /\ joined = [r \in Room |-> None]
    /\ invited = [r \in Room |-> None]
    /\ displayed = [list \in Lists |-> <<>>]
    /\ status = [kind |-> "NotLoaded", rooms |-> None]
    /\ maxRooms = None
    /\ keywords = ""
    /\ uiPhase = "idle"
    /\ needsSort = FALSE

----------------------------------------------------------------------------

Present(map) == {r \in Room : map[r] # None}

ShownInfo(info) == [direct |-> info.direct, name |-> info.name, avatar |-> info.avatar]

ListOf(direct) == IF direct THEN "direct" ELSE "regular"

(* update_status_rooms_count, for the maps and the maximum given.          *)
RoomsCount(joinedRooms, invitedRooms, max) ==
    LET n == Cardinality(Present(joinedRooms)) + Cardinality(Present(invitedRooms)) IN
    [kind |-> IF max \in {None, n} THEN "Loaded" ELSE "Loading", rooms |-> n]

(* The guarded application of a VecDiff to all_known_rooms_order.          *)
ApplyOrder(d, rooms) ==
    CASE d.diff = "Append" -> rooms \o d.values
      [] d.diff = "Clear" -> <<>>
      [] d.diff = "PushFront" -> <<d.value>> \o rooms
      [] d.diff = "PushBack" -> Append(rooms, d.value)
      [] d.diff = "PopFront" -> IF rooms = <<>> THEN rooms ELSE Tail(rooms)
      [] d.diff = "PopBack" -> IF rooms = <<>> THEN rooms ELSE Front(rooms)
      [] d.diff = "Insert" -> IF d.index <= Len(rooms)
                              THEN InsertAt(rooms, d.index + 1, d.value) ELSE rooms
      [] d.diff = "Set" -> IF d.index < Len(rooms)
                           THEN ReplaceAt(rooms, d.index + 1, d.value) ELSE rooms
      [] d.diff = "Remove" -> IF d.index < Len(rooms)
                              THEN RemoveAt(rooms, d.index + 1) ELSE rooms
      [] d.diff = "Truncate" -> IF d.length < Len(rooms)
                                THEN SubSeq(rooms, 1, d.length) ELSE rooms

(* A Set, Insert or Remove that changes nothing does not ask for a sort.   *)
AsksForSort(d, rooms) ==
    d.diff \in {"Set", "Insert", "Remove"} => ApplyOrder(d, rooms) # rooms

----------------------------------------------------------------------------

(* ui_worker received a (debounced) RefreshUI and starts a drain.          *)
Wake ==
    /\ uiPhase = "idle"
    /\ pending # <<>>
    /\ uiPhase' = "draining"
    /\ UNCHANGED <<order, joined, invited, displayed, status, maxRooms, keywords, needsSort, pending>>

(* The drain pops an update of the given kind.                             *)
Pop(op) ==
    /\ uiPhase = "draining"
    /\ pending # <<>>
    /\ Head(pending).op = op
    /\ pending' = Tail(pending)
    /\ UNCHANGED uiPhase

AddInvitedRoom ==
    /\ Pop("AddInvitedRoom")
    /\ LET u == Head(pending) IN
         /\ invited' = [invited EXCEPT ![u.room] = ShownInfo(u.info)]
         /\ displayed' = IF invited[u.room] # None THEN displayed
                         ELSE [displayed EXCEPT !["invited"] = Append(@, u.room)]
    /\ status' = RoomsCount(joined, invited', maxRooms)
    /\ UNCHANGED <<order, joined, maxRooms, keywords, needsSort>>

(* Mutant: the accepted invite stays in the displayed list. *)
AddJoinedRoomKeepsInvite ==
    /\ Pop("AddJoinedRoom")
    /\ LET u == Head(pending) IN
         /\ joined' = [joined EXCEPT ![u.room] = ShownInfo(u.info)]
         /\ invited' = [invited EXCEPT ![u.room] = None]
         /\ displayed' = IF joined[u.room] # None THEN displayed
                         ELSE [displayed EXCEPT ![ListOf(u.info.direct)] = Append(@, u.room)]
    /\ status' = RoomsCount(joined', invited', maxRooms)
    /\ UNCHANGED <<order, maxRooms, keywords, needsSort>>

(* A room already in the map is replaced, and keeps its place in the       *)
(* displayed lists. An invite to the room is accepted by this.             *)
AddJoinedRoom ==
    /\ Pop("AddJoinedRoom")
    /\ LET u == Head(pending)
           shown == IF joined[u.room] # None THEN displayed
                    ELSE [displayed EXCEPT ![ListOf(u.info.direct)] = Append(@, u.room)]
       IN
         /\ joined' = [joined EXCEPT ![u.room] = ShownInfo(u.info)]
         /\ invited' = [invited EXCEPT ![u.room] = None]
         /\ displayed' = IF invited[u.room] = None THEN shown
                         ELSE [shown EXCEPT !["invited"] = RemoveFirst(@, u.room)]
    /\ status' = RoomsCount(joined', invited', maxRooms)
    /\ UNCHANGED <<order, maxRooms, keywords, needsSort>>

UpdateRoomName ==
    /\ Pop("UpdateRoomName")
    /\ LET u == Head(pending) IN
         \/ /\ joined[u.room] # None
            /\ joined' = [joined EXCEPT ![u.room].name = u.value]
            /\ UNCHANGED invited
         \/ /\ joined[u.room] = None
            /\ invited[u.room] # None
            /\ invited' = [invited EXCEPT ![u.room].name = u.value]
            /\ UNCHANGED joined
         \/ /\ joined[u.room] = None
            /\ invited[u.room] = None
            /\ UNCHANGED <<joined, invited>>
    /\ UNCHANGED <<order, displayed, status, maxRooms, keywords, needsSort>>

(* Mutant: an avatar is only set where there is none. *)
UpdateRoomAvatarOnce ==
    /\ Pop("UpdateRoomAvatar")
    /\ LET u == Head(pending) IN
         joined' = IF joined[u.room] = None THEN joined
                   ELSE [joined EXCEPT ![u.room].avatar = IF @ = None THEN u.value ELSE @]
    /\ UNCHANGED <<order, invited, displayed, status, maxRooms, keywords, needsSort>>

UpdateRoomAvatar ==
    /\ Pop("UpdateRoomAvatar")
    /\ LET u == Head(pending) IN
         joined' = IF joined[u.room] = None THEN joined
                   ELSE [joined EXCEPT ![u.room].avatar = u.value]
    /\ UNCHANGED <<order, invited, displayed, status, maxRooms, keywords, needsSort>>

(* Mutant: the room is only taken out of the list it was in. *)
UpdateIsDirectHides ==
    /\ Pop("UpdateIsDirect")
    /\ LET u == Head(pending) IN
         IF joined[u.room] # None /\ joined[u.room].direct # u.direct
         THEN /\ joined' = [joined EXCEPT ![u.room].direct = u.direct]
              /\ displayed' = [displayed EXCEPT ![ListOf(~u.direct)] = RemoveFirst(@, u.room)]
         ELSE UNCHANGED <<joined, displayed>>
    /\ UNCHANGED <<order, invited, status, maxRooms, keywords, needsSort>>

UpdateIsDirect ==
    /\ Pop("UpdateIsDirect")
    /\ LET u == Head(pending) IN
         \/ /\ joined[u.room] # None
            /\ joined[u.room].direct # u.direct
            /\ joined' = [joined EXCEPT ![u.room].direct = u.direct]
            /\ displayed' = [displayed EXCEPT
                               ![ListOf(~u.direct)] = RemoveFirst(@, u.room),
                               ![ListOf(u.direct)] = Append(@, u.room)]
         \/ /\ joined[u.room] # None => joined[u.room].direct = u.direct
            /\ UNCHANGED <<joined, displayed>>
    /\ UNCHANGED <<order, invited, status, maxRooms, keywords, needsSort>>

(* Mutant: the displayed lists are left for the next filter to rebuild. *)
ClearRoomsKeepsDisplayed ==
    /\ Pop("ClearRooms")
    /\ joined' = [r \in Room |-> None]
    /\ invited' = [r \in Room |-> None]
    /\ status' = RoomsCount(joined', invited', maxRooms)
    /\ UNCHANGED <<displayed, order, maxRooms, keywords, needsSort>>

(* The joined rooms are searched first, the invited ones only if that      *)
(* finds nothing.                                                          *)
RemoveRoomUpdate ==
    /\ Pop("RemoveRoom")
    /\ LET r == Head(pending).room IN
         \/ /\ joined[r] # None
            /\ joined' = [joined EXCEPT ![r] = None]
            /\ displayed' = [displayed EXCEPT ![ListOf(joined[r].direct)] = RemoveFirst(@, r)]
            /\ UNCHANGED invited
         \/ /\ joined[r] = None
            /\ invited[r] # None
            /\ invited' = [invited EXCEPT ![r] = None]
            /\ displayed' = [displayed EXCEPT !["invited"] = RemoveFirst(@, r)]
            /\ UNCHANGED joined
         \/ /\ joined[r] = None
            /\ invited[r] = None
            /\ UNCHANGED <<joined, invited, displayed>>
    /\ status' = RoomsCount(joined', invited', maxRooms)
    /\ UNCHANGED <<order, maxRooms, keywords, needsSort>>

ClearRooms ==
    /\ Pop("ClearRooms")
    /\ joined' = [r \in Room |-> None]
    /\ invited' = [r \in Room |-> None]
    /\ displayed' = [list \in Lists |-> <<>>]
    /\ status' = RoomsCount(joined', invited', maxRooms)
    /\ UNCHANGED <<order, maxRooms, keywords, needsSort>>

NotLoaded ==
    /\ Pop("NotLoaded")
    /\ status' = [kind |-> "Loading", rooms |-> None]
    /\ UNCHANGED <<order, joined, invited, displayed, maxRooms, keywords, needsSort>>

(* Mutant: the count is not compared with the new maximum. *)
LoadedRoomsUncounted ==
    /\ Pop("LoadedRooms")
    /\ maxRooms' = Head(pending).max
    /\ UNCHANGED <<order, joined, invited, displayed, status, keywords, needsSort>>

LoadedRooms ==
    /\ Pop("LoadedRooms")
    /\ maxRooms' = Head(pending).max
    /\ status' = RoomsCount(joined, invited, maxRooms')
    /\ UNCHANGED <<order, joined, invited, displayed, keywords, needsSort>>

StatusUpdate ==
    /\ Pop("Status")
    /\ status' = [kind |-> Head(pending).kind, rooms |-> None]
    /\ UNCHANGED <<order, joined, invited, displayed, maxRooms, keywords, needsSort>>

RoomOrderUpdate ==
    /\ Pop("RoomOrderUpdate")
    /\ LET d == Head(pending).diff IN
         /\ order' = ApplyOrder(d, order)
         /\ needsSort' = (needsSort \/ AsksForSort(d, order))
    /\ UNCHANGED <<joined, invited, displayed, status, maxRooms, keywords>>

ApplyFilter ==
    /\ Pop("ApplyFilter")
    /\ keywords' = Head(pending).keywords
    /\ UNCHANGED <<order, joined, invited, displayed, status, maxRooms, needsSort>>

(* The pop finds the queue empty. update_displayed_rooms regenerates the   *)
(* displayed lists from the maps, sorted by a timestamp that is not        *)
(* modelled: in any order.                                                 *)
UpdateDisplayedRooms ==
    /\ \E i \in SetToSeqs(Present(invited)),
          d \in SetToSeqs({r \in Present(joined) : joined[r].direct}),
          g \in SetToSeqs({r \in Present(joined) : ~joined[r].direct}) :
         displayed' = [list \in Lists |-> CASE list = "invited" -> i
                                            [] list = "direct" -> d
                                            [] list = "regular" -> g]
    /\ status' = RoomsCount(joined, invited, maxRooms)

(* Mutant: the loop ends although there is more to pop.                    *)
EndDrainEarly ==
    /\ uiPhase = "draining"
    /\ \/ /\ needsSort /\ keywords = ""
          /\ UpdateDisplayedRooms
       \/ /\ ~needsSort \/ keywords # ""
          /\ UNCHANGED <<displayed, status>>
    /\ needsSort' = FALSE
    /\ uiPhase' = "idle"
    /\ UNCHANGED <<order, joined, invited, maxRooms, keywords, pending>>

EndDrain ==
    /\ uiPhase = "draining"
    /\ pending = <<>>
    /\ \/ /\ needsSort /\ keywords = ""
          /\ UpdateDisplayedRooms
       \/ /\ ~needsSort \/ keywords # ""
          /\ UNCHANGED <<displayed, status>>
    /\ needsSort' = FALSE
    /\ uiPhase' = "idle"
    /\ UNCHANGED <<order, joined, invited, maxRooms, keywords, pending>>

UiNext ==
    \/ Wake
    \/ AddInvitedRoom
    \/ AddJoinedRoom
    \/ UpdateRoomName
    \/ UpdateRoomAvatar
    \/ UpdateIsDirect
    \/ RemoveRoomUpdate
    \/ ClearRooms
    \/ NotLoaded
    \/ LoadedRooms
    \/ StatusUpdate
    \/ RoomOrderUpdate
    \/ ApplyFilter
    \/ EndDrain

============================================================================
