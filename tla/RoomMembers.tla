---------------------------- MODULE RoomMembers ----------------------------
(***************************************************************************)
(* How a change of a room's members reaches the room's screen: the event   *)
(* handler puts the room into MEMBERSHIP_UPDATES_EXPIRY_MAP                *)
(* (events/handlers.rs), its ticker asks for the members of the rooms that *)
(* have been there long enough (init/singletons.rs), async_worker spawns   *)
(* tasks that fetch them (init/workers.rs), and the screen replaces its    *)
(* list (room/room_screen.rs). With them the requests that change who is   *)
(* in a room: join, leave, kick and ban.                                   *)
(*                                                                         *)
(* The members of a room are abstracted to their version in the SDK's      *)
(* store. A room that was left is not joined again; RoomScreens says what  *)
(* becomes of its screen. A RefreshUI is sent together with its update.    *)
(***************************************************************************)
EXTENDS Naturals, Sequences, SequencesExt

CONSTANTS
    Room,
    Task,         \* identities of the tasks that async_worker spawns
    MaxChanges,   \* bound: changes of the members of a room
    MaxShows,     \* bound: screens ever shown
    MaxCommands,  \* bound: requests submitted by the user
    None

ASSUME MembersAssumption ==
    /\ None \notin Room /\ None \notin Nat
    /\ MaxChanges \in Nat /\ MaxShows \in Nat /\ MaxCommands \in Nat

VARIABLES
    own,        \* per room, the user's own membership
    version,    \* per room, the version of its members in the store
    handling,   \* the rooms whose event handler has not run
    expiry,     \* per room, its state in the expiry map
    expired,    \* the rooms the ticker has taken out and not asked for
    requests,   \* the requests async_worker has not taken
    task,       \* per task, what it does
    details,    \* the rooms that ALL_JOINED_ROOMS has
    updates,    \* per room, the lists sent and not received
    shown,      \* the room on display
    members,    \* per room, the list of its screen
    changes, shows, commands,
    attempted   \* history: per room, the newest version read, or tried to

sdkVars == <<own, version, handling, changes>>
mapVars == <<expiry, expired>>
screenVars == <<updates, shown, members, shows>>
vars == <<sdkVars, mapVars, requests, task, details, screenVars, commands, attempted>>

Version == 1 .. MaxChanges + 1

Request ==
    [kind : {"GetRoomMembers"}, room : Room, local_only : BOOLEAN]
    \cup [kind : {"SyncRoomMemberList", "JoinRoom", "LeaveRoom", "KickOrBan"}, room : Room]

Idle == [state |-> "none"]
Spawned(request) == [state |-> "spawned", request |-> request]
Read(request, v) == [state |-> "read", request |-> request, version |-> v]

TypeOK ==
    /\ own \in [Room -> {"none", "joined", "left"}]
    /\ version \in [Room -> Version]
    /\ handling \subseteq Room
    /\ expiry \in [Room -> {"absent", "set", "due"}]
    /\ expired \subseteq Room
    /\ \A r \in Room : r \in expired \/ expiry[r] # "absent" => own[r] # "none"
    /\ requests \in Seq(Request)
    /\ task \in [Task -> {Idle}
                    \cup [state : {"spawned"}, request : Request]
                    \cup [state : {"read"}, request : Request, version : Version]]
    /\ details \subseteq {r \in Room : own[r] # "none"}
    /\ updates \in [Room -> Seq(Version)]
    /\ shown \in Room \cup {None}
    /\ members \in [Room -> Version \cup {None}]
    /\ changes \in 0 .. MaxChanges
    /\ shows \in 0 .. MaxShows
    /\ commands \in 0 .. MaxCommands
    /\ attempted \in [Room -> {0} \cup Version]

Init ==
    /\ own \in [Room -> {"none", "joined"}]
    /\ version = [r \in Room |-> 1]
    /\ handling = {}
    /\ expiry = [r \in Room |-> "absent"]
    /\ expired = {}
    /\ requests = <<>>
    /\ task = [k \in Task |-> Idle]
    /\ details = {}
    /\ updates = [r \in Room |-> <<>>]
    /\ shown = None
    /\ members = [r \in Room |-> None]
    /\ changes = 0 /\ shows = 0 /\ commands = 0
    /\ attempted = [r \in Room |-> 0]

Submit(request) == requests' = Append(requests, request)

GetRoomMembers(r, local_only) ==
    [kind |-> "GetRoomMembers", room |-> r, local_only |-> local_only]

----------------------------------------------------------------------------
(* The SDK. It stores the members before it runs the handlers, and runs    *)
(* those of one response before it asks for the next.                      *)

MembersChange(r) ==
    /\ changes < MaxChanges
    /\ changes' = changes + 1
    /\ r \notin handling
    /\ version' = [version EXCEPT ![r] = @ + 1]
    /\ handling' = handling \cup {r}
    /\ UNCHANGED <<own, mapVars, requests, task, details, screenVars, commands, attempted>>

(* The handler of member events: a new insertion restarts the room's time. *)
MemberHandler(r) ==
    /\ r \in handling
    /\ handling' = handling \ {r}
    /\ expiry' = [expiry EXCEPT ![r] = IF own[r] = "joined" THEN "set" ELSE @]
    /\ UNCHANGED <<own, version, changes, expired, requests, task, details, screenVars, commands, attempted>>

(* The sync task adds the details of joined rooms and removes the others.  *)
UpdateDetails(r) ==
    /\ (r \in details) # (own[r] = "joined")
    /\ details' = IF own[r] = "joined" THEN details \cup {r} ELSE details \ {r}
    /\ UNCHANGED <<sdkVars, mapVars, requests, task, screenVars, commands, attempted>>

----------------------------------------------------------------------------
(* The expiry map.                                                         *)

(* 200 ms have passed since the insertion.                                 *)
Elapse(r) ==
    /\ expiry[r] = "set"
    /\ expiry' = [expiry EXCEPT ![r] = "due"]
    /\ UNCHANGED <<sdkVars, expired, requests, task, details, screenVars, commands, attempted>>

(* Mutant: the map is emptied, whatever is due.                            *)
TickAll ==
    /\ expired = {}
    /\ \E r \in Room : expiry[r] = "due"
    /\ expired' = {r \in Room : expiry[r] = "due"}
    /\ expiry' = [r \in Room |-> "absent"]
    /\ UNCHANGED <<sdkVars, requests, task, details, screenVars, commands, attempted>>

(* A tick of 500 ms: under the lock, the expired entries are taken out.    *)
Tick ==
    /\ expired = {}
    /\ \E r \in Room : expiry[r] = "due"
    /\ expired' = {r \in Room : expiry[r] = "due"}
    /\ expiry' = [r \in Room |-> IF r \in expired' THEN "absent" ELSE expiry[r]]
    /\ UNCHANGED <<sdkVars, requests, task, details, screenVars, commands, attempted>>

(* Without it, a request for each.                                         *)
RequestExpired(r) ==
    /\ r \in expired
    /\ expired' = expired \ {r}
    /\ Submit(GetRoomMembers(r, TRUE))
    /\ UNCHANGED <<sdkVars, expiry, task, details, screenVars, commands, attempted>>

----------------------------------------------------------------------------
(* async_worker. It takes a request; those for the members of a room       *)
(* without details are skipped.                                            *)

NeedsTimeline(request) == request.kind \in {"GetRoomMembers", "SyncRoomMemberList"}

SkipRequest ==
    /\ requests # <<>>
    /\ NeedsTimeline(Head(requests)) /\ Head(requests).room \notin details
    /\ requests' = Tail(requests)
    /\ UNCHANGED <<sdkVars, mapVars, task, details, screenVars, commands, attempted>>

SpawnTask(k) ==
    /\ requests # <<>>
    /\ NeedsTimeline(Head(requests)) => Head(requests).room \in details
    /\ task[k] = Idle
    /\ requests' = Tail(requests)
    /\ task' = [task EXCEPT ![k] = Spawned(Head(requests))]
    /\ UNCHANGED <<sdkVars, mapVars, details, screenVars, commands, attempted>>

Runs(k, kind) == task[k].state = "spawned" /\ task[k].request.kind = kind
End(k) == task' = [task EXCEPT ![k] = Idle]

(* The members are read, or, unless from the cache only, the fetch fails.  *)
ReadMembers(k) ==
    /\ Runs(k, "GetRoomMembers")
    /\ LET r == task[k].request.room IN
        /\ attempted' = [attempted EXCEPT ![r] = version[r]]
        /\ \/ task' = [task EXCEPT ![k] = Read(@.request, version[r])]
           \/ ~task[k].request.local_only /\ End(k)
    /\ UNCHANGED <<sdkVars, mapVars, requests, details, screenVars, commands>>

SendMembers(k) ==
    /\ task[k].state = "read"
    /\ End(k)
    /\ updates' = [updates EXCEPT ![task[k].request.room] = Append(@, task[k].version)]
    /\ UNCHANGED <<sdkVars, mapVars, requests, details, shown, members, shows, commands, attempted>>

(* Mutant: the members are not asked for once they are synchronised.       *)
SyncMembersOnly(k) ==
    /\ Runs(k, "SyncRoomMemberList")
    /\ End(k)
    /\ UNCHANGED <<sdkVars, mapVars, requests, details, screenVars, commands, attempted>>

(* fetch_members has returned, which it does without a result.             *)
SyncMembers(k) ==
    /\ Runs(k, "SyncRoomMemberList")
    /\ End(k)
    /\ Submit(GetRoomMembers(task[k].request.room, FALSE))
    /\ UNCHANGED <<sdkVars, mapVars, details, screenVars, commands, attempted>>

(* The other requests fail, or change the user's membership, or someone    *)
(* else's, of which a sync response is going to tell.                      *)
JoinOrLeave(k) ==
    /\ Runs(k, "JoinRoom") \/ Runs(k, "LeaveRoom")
    /\ End(k)
    /\ LET r == task[k].request.room IN
        \/ UNCHANGED own
        \/ /\ Runs(k, "JoinRoom") /\ own[r] = "none"
           /\ own' = [own EXCEPT ![r] = "joined"]
        \/ /\ Runs(k, "LeaveRoom") /\ own[r] = "joined"
           /\ own' = [own EXCEPT ![r] = "left"]
    /\ UNCHANGED <<version, handling, changes, mapVars, requests, details, screenVars, commands, attempted>>

KickOrBan(k) ==
    /\ Runs(k, "KickOrBan")
    /\ End(k)
    /\ \/ UNCHANGED requests
       \/ Submit([kind |-> "SyncRoomMemberList", room |-> task[k].request.room])
    /\ UNCHANGED <<sdkVars, mapVars, details, screenVars, commands, attempted>>

TaskNext(k) ==
    ReadMembers(k) \/ SendMembers(k) \/ SyncMembers(k) \/ JoinOrLeave(k) \/ KickOrBan(k)

----------------------------------------------------------------------------
(* The user and the screen.                                                *)

Command(kind, r) ==
    /\ commands < MaxCommands
    /\ commands' = commands + 1
    /\ kind = "KickOrBan" => own[r] = "joined"
    /\ Submit([kind |-> kind, room |-> r])
    /\ UNCHANGED <<sdkVars, mapVars, task, details, screenVars, attempted>>

(* A screen is new each time and starts without members.                   *)
ShowTimeline(r) ==
    /\ shows < MaxShows /\ shown # r
    /\ r \in details
    /\ shows' = shows + 1
    /\ shown' = r
    /\ members' = [members EXCEPT ![r] = None]
    /\ Submit([kind |-> "SyncRoomMemberList", room |-> r])
    /\ UNCHANGED <<sdkVars, mapVars, task, details, updates, commands, attempted>>

(* process_timeline_updates: the last list received is the one it keeps.   *)
ProcessUpdates ==
    /\ shown # None
    /\ updates[shown] # <<>>
    /\ members' = [members EXCEPT ![shown] = Last(updates[shown])]
    /\ updates' = [updates EXCEPT ![shown] = <<>>]
    /\ UNCHANGED <<sdkVars, mapVars, requests, task, details, shown, shows, commands, attempted>>

WorkerNext == SkipRequest \/ \E k \in Task : SpawnTask(k)
MapNext == Tick \/ \E r \in Room : Elapse(r) \/ RequestExpired(r)

Next ==
    \/ \E r \in Room : MembersChange(r) \/ MemberHandler(r) \/ UpdateDetails(r)
    \/ MapNext
    \/ WorkerNext
    \/ \E k \in Task : TaskNext(k)
    \/ \E kind \in {"JoinRoom", "LeaveRoom", "KickOrBan"}, r \in Room : Command(kind, r)
    \/ \E r \in Room : ShowTimeline(r)
    \/ ProcessUpdates

Spec == Init /\ [][Next]_vars

(* Handlers, tasks and async_worker are polled, requests of the SDK end,   *)
(* and time passes: a room whose members change every 200 ms for ever is   *)
(* not in the map long enough, which the bound on changes excludes.        *)
FairSpec ==
    /\ Spec
    /\ \A r \in Room : WF_vars(MemberHandler(r)) /\ WF_vars(Elapse(r)) /\ WF_vars(RequestExpired(r))
    /\ WF_vars(Tick)
    /\ WF_vars(WorkerNext)
    /\ \A k \in Task : WF_vars(TaskNext(k))
    /\ WF_vars(ProcessUpdates)

----------------------------------------------------------------------------
(* Properties.                                                             *)

IsToRead(k, r) ==
    \/ Runs(k, "SyncRoomMemberList") /\ task[k].request.room = r
    \/ Runs(k, "GetRoomMembers") /\ task[k].request.room = r

Underway(r) ==
    \/ r \in handling \cup expired \/ expiry[r] # "absent"
    \/ \E i \in DOMAIN requests : NeedsTimeline(requests[i]) /\ requests[i].room = r
    \/ \E k \in Task : IsToRead(k, r)

(* A change of the members of the room on display is not lost, wherever    *)
(* the handler, the ticker's two halves and the worker are: if no fetch    *)
(* has read it yet, one that will is on its way.                           *)
ChangeIsUnderway ==
    \A r \in Room :
        shown = r /\ r \in details /\ own[r] = "joined" /\ attempted[r] < version[r]
            => Underway(r)

(* It is read in the end, or the room is no longer on display or left.     *)
ChangesAreFetched ==
    \A r \in Room :
        shown = r /\ own[r] = "joined" /\ attempted[r] < version[r]
            ~> shown # r \/ own[r] # "joined" \/ attempted[r] = version[r]

(* Two fetches overtake each other between reading and sending, so that    *)
(* this is not so: at rest, the list is the one in the store.              *)
ListIsCurrent ==
    \A r \in Room :
        shown = r /\ own[r] = "joined" /\ ~Underway(r) /\ updates[r] = <<>>
        /\ (\A k \in Task : task[k] = Idle) /\ members[r] # None
            => members[r] = version[r]
=============================================================================
