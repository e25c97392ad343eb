-------------------------- MODULE RoomListPipeline -------------------------
(***************************************************************************)
(* The room list pipeline: the sync task (RoomListSync) and the task that  *)
(* owns the RoomsList (RoomsList) connected by PENDING_ROOM_UPDATES, with  *)
(* the other producers of that queue that matter to it: the room filter    *)
(* command, the loading state task and the monitor of lib.rs, which        *)
(* reports the end of the sync task.                                       *)
(***************************************************************************)
EXTENDS RoomListSync, RoomsList

CONSTANTS
    MaxCommands,     \* bound: the number of filter commands and loading state changes
    MatchingNames,   \* the names non-empty keywords match
    MaxRooms         \* what the server may announce as the maximum number of rooms

ASSUME PipelineAssumption ==
    /\ MaxCommands \in Nat
    /\ MatchingNames \subseteq Data
    /\ MaxRooms \subseteq Nat \cup {None}

VARIABLES
    reported,   \* the monitor has reported the end of the sync task
    commands    \* number of filter commands and loading state changes

vars == <<syncVars, uiVars, pending, reported, commands>>

TypeOK ==
    /\ pending \in Seq(RoomsListUpdate)
    /\ SyncTypeOK
    /\ UiTypeOK
    /\ reported \in BOOLEAN
    /\ commands \in 0..MaxCommands

(* async_main_loop enqueues its status before it starts ui_worker and sync. *)
Init ==
    /\ SyncInit
    /\ UiInit
    /\ pending = << [op |-> "Status", kind |-> "Loading"] >>
    /\ reported = FALSE
    /\ commands = 0

----------------------------------------------------------------------------

(* commands.rs filter_room_list.                                           *)
FilterRoomList(k) ==
    /\ commands < MaxCommands
    /\ commands' = commands + 1
    /\ Enqueue([op |-> "ApplyFilter", keywords |-> k])
    /\ UNCHANGED <<syncVars, uiVars, reported>>

(* handle_rooms_loading_state. *)
LoadingStateChanges ==
    /\ commands < MaxCommands
    /\ commands' = commands + 1
    /\ \/ Enqueue([op |-> "NotLoaded"])
       \/ \E m \in MaxRooms : Enqueue([op |-> "LoadedRooms", max |-> m])
    /\ UNCHANGED <<syncVars, uiVars, reported>>

(* The monitor's select loop sees the join handle of async_main_loop.      *)
ReportFailure ==
    /\ phase = "failed" /\ todo = <<>>
    /\ ~reported
    /\ reported' = TRUE
    /\ Enqueue([op |-> "Status", kind |-> "Error"])
    /\ UNCHANGED <<syncVars, uiVars, commands>>

Next ==
    \/ SyncNext /\ UNCHANGED <<uiVars, reported, commands>>
    \/ UiNext /\ UNCHANGED <<syncVars, reported, commands>>
    \/ \E k \in Keywords : FilterRoomList(k)
    \/ LoadingStateChanges
    \/ ReportFailure

Spec == Init /\ [][Next]_vars

(* Tokio keeps running a task that is ready: a handler that has taken a    *)
(* diff goes on, and the worker drains what is pending.                    *)
Fairness ==
    /\ WF_vars(Handling /\ UNCHANGED <<uiVars, reported, commands>>)
    /\ WF_vars(UiNext /\ UNCHANGED <<syncVars, reported, commands>>)

FairSpec == Spec /\ Fairness

----------------------------------------------------------------------------
(* Safety.                                                                 *)

(* The update takes the room out of the frontend's joined rooms.           *)
Removes(update, r) ==
    \/ update.op = "ClearRooms"
    \/ update.op = "RemoveRoom" /\ update.room = r

RemovalPending(r) ==
    \/ \E i \in DOMAIN pending : Removes(pending[i], r)
    \/ \E i \in DOMAIN todo : todo[i].do = "enqueue" /\ Removes(todo[i].update, r)

(* Every room the frontend shows as joined has its JoinedRoomDetails, so a *)
(* MatrixRequest for it finds its timeline, unless its removal is already  *)
(* on the way (the order of insertion and enqueueing in add_new_room, of   *)
(* removal and enqueueing in remove_room, and of both in Clear and Reset). *)
JoinedRoomHasDetails ==
    \A r \in Present(joined) : r \in details \/ RemovalPending(r)

(* The update adds the room to the joined rooms of the frontend. *)
Announces(update, r) == update.op = "AddJoinedRoom" /\ update.room = r

(* The frontend will show the room as joined once the queue is drained.    *)
JoinedOnceDrained(r) ==
    \/ /\ r \in Present(joined)
       /\ \A i \in DOMAIN pending : ~Removes(pending[i], r)
    \/ \E i \in DOMAIN pending :
         /\ Announces(pending[i], r)
         /\ \A j \in DOMAIN pending : j > i => ~Removes(pending[j], r)

(* Between two handlers, the frontend is on its way to exactly the rooms   *)
(* in ALL_JOINED_ROOMS: no timeline runs for a room that is not shown, no  *)
(* room stays shown without one.                                           *)
JoinedConvergesToDetails ==
    todo = <<>> => {r \in Room : JoinedOnceDrained(r)} = details

(* Between two diffs, all_known_rooms is the service's vector and the      *)
(* order diffs still pending turn the frontend's order into it: every      *)
(* shortcut of the sync loop (a reset, a truncation, a remove followed by  *)
(* an add) sends the order diffs that add up to what the service did.      *)
OrderConvergesToService ==
    AtRest =>
      /\ Ids(known) = svc
      /\ FoldLeft(LAMBDA acc, u : IF u.op = "RoomOrderUpdate" THEN ApplyOrder(u.diff, acc) ELSE acc,
                  order, pending) = svc

(* Everything has been handled and the frontend has been updated.          *)
Quiet == AtRest /\ pending = <<>> /\ uiPhase = "idle"

(* When everything has been handled, the frontend agrees with the rooms    *)
(* the sync task knows: a joined room is shown with its current data       *)
(* (an avatar that was removed excepted), an invite is shown, a room that  *)
(* was left, banned from or dropped from the list is not shown as joined.  *)
FrontendMatchesKnown ==
    Quiet =>
      /\ Present(joined) \subseteq ToSet(Ids(known))
      /\ \A i \in DOMAIN known :
           LET r == known[i].room
               info == known[i].info
           IN
             /\ info.state = "Joined" /\ r \in details =>
                  /\ joined[r].direct = info.direct
                  /\ joined[r].name = info.name
                  /\ info.avatar # None => joined[r].avatar = info.avatar
             /\ info.state = "Invited" => invited[r] # None
             /\ info.state \in {"Left", "Banned"} => joined[r] = None

(* The comment of the Reset handler: the successive calls to remove_room   *)
(* have emptied ALL_JOINED_ROOMS, so that clearing it is only a check.     *)
ResetFindsNoDetails ==
    phase = "resetting" /\ known = <<>> /\ todo = <<>> => details = {}

(* Invites are displayed exactly once, also in the middle of a drain.      *)
InvitesDisplayedOnce ==
    /\ ToSet(displayed["invited"]) = Present(invited)
    /\ Len(displayed["invited"]) = Cardinality(Present(invited))

(* No joined room disappears from view.                                    *)
JoinedRoomsVisible ==
    Present(joined) \subseteq ToSet(displayed["direct"]) \cup ToSet(displayed["regular"])

(* A status that states a number of rooms states the current one, and says *)
(* Loaded exactly if it is the announced maximum (or none was announced).  *)
StatusCountsRooms ==
    status.rooms # None => status = RoomsCount(joined, invited, maxRooms)

(* The timeline of a room is torn down only after the room has left the    *)
(* known rooms or the user is no longer joined: moving a room in the list  *)
(* or updating it never interrupts its timeline. (A sync task that fails   *)
(* drops all_known_rooms.)                                                 *)
TeardownOnlyAfterDeparture ==
    [][\A r \in details \ details' :
         phase = "failed" \/ ~\E i \in DOMAIN known : known[i].room = r /\ known[i].info.state = "Joined"]_vars

----------------------------------------------------------------------------
(* Liveness, under FairSpec.                                               *)

(* A room shown as joined whose timeline is gone is removed from the       *)
(* frontend, or comes back to life.                                        *)
GhostRoomLeaves ==
    \A r \in Room :
      (joined[r] # None /\ r \notin details) ~> (joined[r] = None \/ r \in details)

(* A room with a running timeline is eventually shown.                     *)
TimelineIsShown ==
    \A r \in Room : r \in details ~> (joined[r] # None \/ r \notin details)

(* The queue between the two tasks is drained: the rooms list takes every  *)
(* update and does not rest while one is left. That its wake-ups come is   *)
(* what UiSignals shows of the signals in between.                         *)
PendingQueue ==
    INSTANCE DrainedQueue WITH waiting <- Len(pending), draining <- (uiPhase = "draining")

PendingUpdatesAreDrained == PendingQueue!Spec

----------------------------------------------------------------------------
(* What the comments of the code say and the code does not do.             *)

(* rooms_list.rs on displayed_direct_rooms and displayed_regular_rooms:    *)
(* subsets of the joined rooms, determined by is_direct. So it is as long  *)
(* as every leave is seen, in any order of diffs and drain steps; a knock  *)
(* or an invite that hides the leave between two joins breaks it.          *)
DisplayedListsAreSubsets ==
    uiPhase = "idle" =>
      /\ \A r \in ToSet(displayed["direct"]) : joined[r] # None /\ joined[r].direct
      /\ \A r \in ToSet(displayed["regular"]) : joined[r] # None /\ ~joined[r].direct

(* rooms_list.rs on invited_rooms: the rooms the user has been invited to. *)
InvitedRoomsAreInvites ==
    Quiet =>
      \A r \in Present(invited) :
        \E i \in DOMAIN known : known[i].room = r /\ known[i].info.state = "Invited"

(* rooms_list.rs on ApplyFilter: the filter will be applied at the end.    *)
FilterIsApplied ==
    uiPhase = "idle" /\ keywords # "" =>
      \A r \in ToSet(displayed["direct"]) \cup ToSet(displayed["regular"]) :
        joined[r].name \in MatchingNames

(* rooms_list.rs on status: the latest status message. The monitor's       *)
(* report is the last one of a session whose sync task has ended.          *)
FailureIsDisplayed ==
    reported /\ commands = 0 /\ pending = <<>> /\ uiPhase = "idle" => status.kind = "Error"

(* joined_room.rs: changes of the avatar concern invited rooms too.        *)
InvitedAvatarIsUpdated ==
    Quiet =>
      \A i \in DOMAIN known :
        /\ known[i].info.state = "Invited"
        /\ known[i].info.avatar # None
        => invited[known[i].room].avatar = known[i].info.avatar

============================================================================
