------------------------- MODULE RoomMembersProofs --------------------------
(***************************************************************************)
(* For any number of rooms, worker tasks, changes, screens and commands: a *)
(* change of the members of the room on display is not lost between the    *)
(* event handler, the expiry map, its ticker and the request worker.       *)
(***************************************************************************)
EXTENDS RoomMembers, TLAPS

TaskState ==
    {Idle} \cup [state : {"spawned"}, request : Request]
    \cup [state : {"read"}, request : Request, version : Version]

(* The bound on changes is one on versions.                                *)
VersionsAreChanges == \A r \in Room : version[r] <= changes + 1

(* A room is shown when it has details, and has them until it is left.     *)
ShownHasDetails ==
    shown # None =>
        /\ own[shown] # "none"
        /\ own[shown] = "joined" => shown \in details

IInv == TypeOK /\ VersionsAreChanges /\ ShownHasDetails

LEMMA IdleTask == Idle \in TaskState
BY DEF TaskState

LEMMA SpawnedTask ==
    ASSUME NEW q \in Request
    PROVE Spawned(q) \in TaskState
BY DEF TaskState, Spawned

LEMMA ReadTask ==
    ASSUME NEW q \in Request, NEW v \in Version
    PROVE Read(q, v) \in TaskState
BY DEF TaskState, Read

(* A task that is not idle has a request.                                  *)
LEMMA TaskHasRequest ==
    ASSUME TypeOK, NEW k \in Task, task[k].state # "none"
    PROVE /\ task[k].request \in Request
          /\ task[k].request.room \in Room
          /\ task[k].state = "read" => task[k].version \in Version
<1>1. task[k] \in TaskState
  BY DEF TypeOK, TaskState
<1>2. task[k] # Idle
  BY DEF Idle
<1>3. task[k].request \in Request /\ (task[k].state = "read" => task[k].version \in Version)
  BY <1>1, <1>2 DEF TaskState
<1> QED BY <1>3 DEF Request

LEMMA HeadIsRequest ==
    ASSUME TypeOK, requests # <<>>
    PROVE /\ Head(requests) \in Request
          /\ Head(requests).room \in Room
          /\ Tail(requests) \in Seq(Request)
<1>1. Head(requests) \in Request /\ Tail(requests) \in Seq(Request)
  BY DEF TypeOK
<1> QED BY <1>1 DEF Request

LEMMA SubmitType ==
    ASSUME TypeOK, NEW q \in Request, Submit(q)
    PROVE requests' \in Seq(Request)
BY DEF TypeOK, Submit

LEMMA InitIInv == Init => IInv
<1> SUFFICES ASSUME Init PROVE IInv
  OBVIOUS
<1> USE MembersAssumption DEF Init
<1>1. task \in [Task -> TaskState]
  BY IdleTask
<1>2. TypeOK
  BY <1>1 DEF TypeOK, Version, TaskState
<1> QED BY <1>2 DEF IInv, VersionsAreChanges, ShownHasDetails

----------------------------------------------------------------------------

LEMMA SdkStep ==
    ASSUME IInv, NEW r \in Room, MembersChange(r) \/ MemberHandler(r) \/ UpdateDetails(r)
    PROVE IInv'
<1> USE MembersAssumption DEF IInv, sdkVars, mapVars, screenVars
<1>1. CASE MembersChange(r)
  <2>1. version[r] + 1 \in Version
    BY <1>1 DEF MembersChange, TypeOK, Version, VersionsAreChanges
  <2>2. TypeOK'
    BY <1>1, <2>1 DEF MembersChange, TypeOK
  <2>3. VersionsAreChanges'
    BY <1>1 DEF MembersChange, TypeOK, VersionsAreChanges, Version
  <2>4. ShownHasDetails'
    BY <1>1 DEF MembersChange, ShownHasDetails
  <2> QED BY <2>2, <2>3, <2>4
<1>2. CASE MemberHandler(r)
  BY <1>2 DEF MemberHandler, TypeOK, VersionsAreChanges, ShownHasDetails
<1>3. CASE UpdateDetails(r)
  BY <1>3 DEF UpdateDetails, TypeOK, VersionsAreChanges, ShownHasDetails
<1> QED BY <1>1, <1>2, <1>3

LEMMA MapStep ==
    ASSUME IInv, MapNext
    PROVE IInv'
<1> USE MembersAssumption DEF IInv, sdkVars, screenVars, TypeOK, VersionsAreChanges, ShownHasDetails
<1>1. ASSUME NEW r \in Room, Elapse(r) PROVE IInv'
  BY <1>1 DEF Elapse
<1>2. CASE Tick
  BY <1>2 DEF Tick
<1>3. ASSUME NEW r \in Room, RequestExpired(r) PROVE IInv'
  <2>1. GetRoomMembers(r, TRUE) \in Request
    BY DEF GetRoomMembers, Request
  <2>2. requests' \in Seq(Request)
    BY <1>3, <2>1, SubmitType DEF RequestExpired
  <2> QED BY <1>3, <2>2 DEF RequestExpired
<1> QED BY <1>1, <1>2, <1>3 DEF MapNext

LEMMA WorkerStep ==
    ASSUME IInv, WorkerNext
    PROVE IInv'
<1> USE MembersAssumption
        DEF IInv, sdkVars, mapVars, screenVars, VersionsAreChanges, ShownHasDetails
<1>1. CASE SkipRequest
  BY <1>1, HeadIsRequest DEF SkipRequest, TypeOK
<1>2. ASSUME NEW k \in Task, SpawnTask(k) PROVE IInv'
  <2>1. task' \in [Task -> TaskState]
    BY <1>2, HeadIsRequest, SpawnedTask DEF SpawnTask, TypeOK, TaskState
  <2> QED BY <1>2, <2>1, HeadIsRequest DEF SpawnTask, TypeOK, TaskState
<1> QED BY <1>1, <1>2 DEF WorkerNext

LEMMA TaskStep ==
    ASSUME IInv, NEW k \in Task, TaskNext(k)
    PROVE IInv'
<1> USE MembersAssumption DEF IInv, sdkVars, mapVars, screenVars, Runs
<1>1. End(k) => task' \in [Task -> TaskState]
  BY IdleTask DEF End, TypeOK, TaskState
<1>2. CASE ReadMembers(k)
  <2> DEFINE r == task[k].request.room
  <2>1. r \in Room /\ task[k].request \in Request
    BY <1>2, TaskHasRequest DEF ReadMembers
  <2>2. version[r] \in Version
    BY <2>1 DEF TypeOK
  <2>3. task' \in [Task -> TaskState]
    <3>1. CASE task' = [task EXCEPT ![k] = Read(task[k].request, version[r])]
      BY <2>1, <2>2, <3>1, ReadTask DEF TypeOK, TaskState
    <3> QED BY <1>1, <1>2, <3>1 DEF ReadMembers
  <2>4. attempted' \in [Room -> {0} \cup Version]
    BY <1>2, <2>1, <2>2 DEF ReadMembers, TypeOK
  <2> QED BY <1>2, <2>3, <2>4
        DEF ReadMembers, TypeOK, TaskState, VersionsAreChanges, ShownHasDetails
<1>3. CASE SendMembers(k)
  <2>1. task[k].request.room \in Room /\ task[k].version \in Version
    BY <1>3, TaskHasRequest DEF SendMembers
  <2>2. updates' \in [Room -> Seq(Version)]
    BY <1>3, <2>1 DEF SendMembers, TypeOK
  <2> QED BY <1>1, <1>3, <2>2
        DEF SendMembers, TypeOK, TaskState, VersionsAreChanges, ShownHasDetails
<1>4. CASE SyncMembers(k)
  <2>1. GetRoomMembers(task[k].request.room, FALSE) \in Request
    BY <1>4, TaskHasRequest DEF SyncMembers, GetRoomMembers, Request
  <2>2. requests' \in Seq(Request)
    BY <1>4, <2>1, SubmitType DEF SyncMembers
  <2> QED BY <1>1, <1>4, <2>2
        DEF SyncMembers, TypeOK, TaskState, VersionsAreChanges, ShownHasDetails
<1>5. CASE JoinOrLeave(k)
  <2> DEFINE r == task[k].request.room
  <2>1. r \in Room
    BY <1>5, TaskHasRequest DEF JoinOrLeave
  <2>2. own' = own \/ (own[r] = "none" /\ own' = [own EXCEPT ![r] = "joined"])
                   \/ (own[r] = "joined" /\ own' = [own EXCEPT ![r] = "left"])
    BY <1>5 DEF JoinOrLeave
  <2>3. own' \in [Room -> {"none", "joined", "left"}] /\ \A q \in Room : own[q] # "none" => own'[q] # "none"
    BY <2>1, <2>2 DEF TypeOK
  <2>4. TypeOK'
    BY <1>1, <1>5, <2>3 DEF JoinOrLeave, TypeOK, TaskState
  <2>5. ShownHasDetails'
    BY <1>5, <2>1, <2>2 DEF JoinOrLeave, TypeOK, ShownHasDetails
  <2> QED BY <1>5, <2>4, <2>5 DEF JoinOrLeave, VersionsAreChanges
<1>6. CASE KickOrBan(k)
  <2>1. [kind |-> "SyncRoomMemberList", room |-> task[k].request.room] \in Request
    BY <1>6, TaskHasRequest DEF KickOrBan, Request
  <2>2. requests' \in Seq(Request)
    BY <1>6, <2>1, SubmitType DEF KickOrBan, TypeOK
  <2> QED BY <1>1, <1>6, <2>2
        DEF KickOrBan, TypeOK, TaskState, VersionsAreChanges, ShownHasDetails
<1> QED BY <1>2, <1>3, <1>4, <1>5, <1>6 DEF TaskNext

LEMMA UserStep ==
    ASSUME IInv,
           \/ \E kind \in {"JoinRoom", "LeaveRoom", "KickOrBan"}, r \in Room : Command(kind, r)
           \/ \E r \in Room : ShowTimeline(r)
           \/ ProcessUpdates
    PROVE IInv'
<1> USE MembersAssumption DEF IInv, sdkVars, mapVars, screenVars, VersionsAreChanges, ShownHasDetails
<1>1. ASSUME NEW kind \in {"JoinRoom", "LeaveRoom", "KickOrBan"}, NEW r \in Room, Command(kind, r)
      PROVE IInv'
  <2>1. [kind |-> kind, room |-> r] \in Request
    BY DEF Request
  <2>2. requests' \in Seq(Request)
    BY <1>1, <2>1, SubmitType DEF Command
  <2>3. TypeOK'
    BY <1>1, <2>2 DEF Command, TypeOK
  <2>4. VersionsAreChanges' /\ ShownHasDetails'
    BY <1>1 DEF Command
  <2> QED BY <2>3, <2>4
<1>2. ASSUME NEW r \in Room, ShowTimeline(r) PROVE IInv'
  <2>1. [kind |-> "SyncRoomMemberList", room |-> r] \in Request
    BY DEF Request
  <2>2. requests' \in Seq(Request)
    BY <1>2, <2>1, SubmitType DEF ShowTimeline
  <2> QED BY <1>2, <2>2 DEF ShowTimeline, TypeOK
<1>3. CASE ProcessUpdates
  <2>1. shown \in Room /\ updates[shown] \in Seq(Version) /\ updates[shown] # <<>>
    BY <1>3 DEF ProcessUpdates, TypeOK
  <2>2. Last(updates[shown]) \in Version
    BY <2>1 DEF Last
  <2>3. updates' \in [Room -> Seq(Version)] /\ members' \in [Room -> Version \cup {None}]
    BY <1>3, <2>1, <2>2 DEF ProcessUpdates, TypeOK
  <2> QED BY <1>3, <2>3 DEF ProcessUpdates, TypeOK
<1> QED BY <1>1, <1>2, <1>3

LEMMA IInvStep == IInv /\ [Next]_vars => IInv'
<1> SUFFICES ASSUME IInv, [Next]_vars PROVE IInv'
  OBVIOUS
<1>1. CASE UNCHANGED vars
  BY <1>1 DEF vars, sdkVars, mapVars, screenVars, IInv, TypeOK, VersionsAreChanges, ShownHasDetails
<1> QED BY <1>1, SdkStep, MapStep, WorkerStep, TaskStep, UserStep DEF Next

(* Every variable keeps to its type: only rooms the user has been in are   *)
(* in the expiry map, expired or have details.                             *)
THEOREM MembersTypeCorrect == Spec => []TypeOK
<1>1. IInv => TypeOK
  BY DEF IInv
<1> QED BY <1>1, InitIInv, IInvStep, PTL DEF Spec

----------------------------------------------------------------------------
(* A change is not lost. Requests for the members of a room, and those     *)
(* among the tasks, are handed on like its name in the expiry map.         *)

Asks(q, r) == NeedsTimeline(q) /\ q.room = r
Asked(r, s) == \E i \in DOMAIN s : Asks(s[i], r)

LEMMA AppendAsks ==
    ASSUME NEW s \in Seq(Request), NEW q \in Request, NEW r \in Room
    PROVE /\ Asked(r, s) => Asked(r, Append(s, q))
          /\ Asks(q, r) => Asked(r, Append(s, q))
<1>1. ASSUME NEW i \in DOMAIN s, Asks(s[i], r) PROVE Asked(r, Append(s, q))
  <2>1. i \in DOMAIN Append(s, q) /\ Append(s, q)[i] = s[i]
    OBVIOUS
  <2> QED BY <1>1, <2>1 DEF Asked
<1>2. Asks(q, r) => Asked(r, Append(s, q))
  <2>1. Len(s) + 1 \in DOMAIN Append(s, q) /\ Append(s, q)[Len(s) + 1] = q
    OBVIOUS
  <2> QED BY <2>1 DEF Asked
<1> QED BY <1>1, <1>2 DEF Asked

LEMMA TailAsks ==
    ASSUME NEW s \in Seq(Request), s # <<>>, NEW r \in Room, Asked(r, s)
    PROVE Asked(r, Tail(s)) \/ Asks(Head(s), r)
<1>1. PICK i \in DOMAIN s : Asks(s[i], r)
  BY DEF Asked
<1>2. CASE i = 1
  BY <1>1, <1>2
<1>3. CASE i # 1
  <2>1. i - 1 \in DOMAIN Tail(s) /\ Tail(s)[i - 1] = s[i]
    BY <1>3
  <2> QED BY <1>1, <2>1 DEF Asked
<1> QED BY <1>2, <1>3

(* An attempt is needed as long as the room is on display.                 *)
Missed(r) == shown = r /\ r \in details /\ own[r] = "joined" /\ attempted[r] < version[r]

Fetching(r) == \E k \in Task : IsToRead(k, r)

LEMMA UnderwayParts ==
    ASSUME NEW r \in Room
    PROVE Underway(r) <=> r \in handling \/ r \in expired \/ expiry[r] # "absent"
                            \/ Asked(r, requests) \/ Fetching(r)
BY DEF Underway, Asked, Asks, Fetching

(* Steps that leave the ways of a change alone, or add to them.            *)
LEMMA StillUnderway ==
    ASSUME NEW r \in Room, Underway(r),
           r \in handling => r \in handling',
           r \in expired => r \in expired',
           expiry[r] # "absent" => expiry'[r] # "absent",
           Asked(r, requests) => Asked(r, requests'),
           Fetching(r) => Fetching(r)'
    PROVE Underway(r)'
BY DEF Underway, Asked, Asks, Fetching

LEMMA SubmitAsks ==
    ASSUME TypeOK, NEW q \in Request, Submit(q), NEW r \in Room
    PROVE /\ Asked(r, requests) => Asked(r, requests')
          /\ Asks(q, r) => Asked(r, requests')
BY AppendAsks DEF Submit, TypeOK

(* A task that ends, or reads, without having been to read for r.          *)
LEMMA OthersFetch ==
    ASSUME TypeOK, NEW k \in Task, NEW r \in Room, ~IsToRead(k, r), Fetching(r),
           \A j \in Task \ {k} : task'[j] = task[j]
    PROVE Fetching(r)'
BY DEF Fetching, IsToRead, Runs

LEMMA UnderwayStep ==
    ASSUME IInv, ChangeIsUnderway, [Next]_vars
    PROVE ChangeIsUnderway'
<1> SUFFICES ASSUME NEW r \in Room, Missed(r)' PROVE Underway(r)'
  BY DEF ChangeIsUnderway, Missed
<1> USE MembersAssumption DEF IInv, sdkVars, mapVars, screenVars
<1>1. Missed(r) => Underway(r)
  BY DEF ChangeIsUnderway, Missed
<1>2. CASE UNCHANGED vars
  <2>1. Missed(r)
    BY <1>2 DEF vars, Missed
  <2> QED BY <1>1, <1>2, <2>1, StillUnderway DEF vars, Fetching, IsToRead, Runs
<1>3. ASSUME NEW q \in Room, MembersChange(q) PROVE Underway(r)'
  <2>1. CASE q = r
    BY <1>3, <2>1 DEF MembersChange, Underway
  <2>2. CASE q # r
    <3>1. Missed(r)
      BY <1>3, <2>2 DEF MembersChange, Missed, TypeOK
    <3> QED BY <1>1, <1>3, <3>1, StillUnderway DEF MembersChange, Fetching, IsToRead, Runs
  <2> QED BY <2>1, <2>2
<1>4. ASSUME NEW q \in Room, MemberHandler(q) PROVE Underway(r)'
  <2>1. Missed(r)
    BY <1>4 DEF MemberHandler, Missed
  <2>2. CASE q = r
    <3>1. expiry'[r] = "set"
      BY <1>4, <2>1, <2>2 DEF MemberHandler, Missed, TypeOK
    <3> QED BY <3>1 DEF Underway
  <2>3. CASE q # r
    BY <1>1, <1>4, <2>1, <2>3, StillUnderway DEF MemberHandler, TypeOK, Fetching, IsToRead, Runs
  <2> QED BY <2>2, <2>3
<1>5. ASSUME NEW q \in Room, UpdateDetails(q) PROVE Underway(r)'
  <2>1. Missed(r)
    BY <1>5 DEF UpdateDetails, Missed, TypeOK, ShownHasDetails
  <2> QED BY <1>1, <1>5, <2>1, StillUnderway DEF UpdateDetails, Fetching, IsToRead, Runs
<1>6. ASSUME NEW q \in Room, Elapse(q) PROVE Underway(r)'
  <2>1. Missed(r)
    BY <1>6 DEF Elapse, Missed
  <2> QED BY <1>1, <1>6, <2>1, StillUnderway DEF Elapse, TypeOK, Fetching, IsToRead, Runs
<1>7. CASE Tick
  <2>1. Missed(r)
    BY <1>7 DEF Tick, Missed
  <2>2. CASE r \in expired'
    BY <2>2 DEF Underway
  <2>3. CASE r \notin expired'
    BY <1>1, <1>7, <2>1, <2>3, StillUnderway DEF Tick, TypeOK, Fetching, IsToRead, Runs
  <2> QED BY <2>2, <2>3
<1>8. ASSUME NEW q \in Room, RequestExpired(q) PROVE Underway(r)'
  <2>1. Missed(r)
    BY <1>8 DEF RequestExpired, Missed
  <2>2. GetRoomMembers(q, TRUE) \in Request /\ Asks(GetRoomMembers(q, TRUE), q)
    BY DEF GetRoomMembers, Request, Asks, NeedsTimeline
  <2>3. Asked(r, requests) \/ q = r => Asked(r, requests')
    BY <1>8, <2>2, SubmitAsks DEF RequestExpired
  <2>4. CASE q = r
    BY <2>3, <2>4, UnderwayParts DEF Underway, Asked, Asks
  <2>5. CASE q # r
    BY <1>1, <1>8, <2>1, <2>3, <2>5, StillUnderway DEF RequestExpired, Fetching, IsToRead, Runs
  <2> QED BY <2>4, <2>5
<1>9. CASE SkipRequest
  <2>1. Missed(r) /\ r \in details
    BY <1>9 DEF SkipRequest, Missed
  <2>2. ~Asks(Head(requests), r)
    BY <1>9, <2>1 DEF SkipRequest, Asks
  <2>3. Asked(r, requests) => Asked(r, requests')
    BY <1>9, <2>2, TailAsks DEF SkipRequest, TypeOK
  <2> QED BY <1>1, <1>9, <2>1, <2>3, StillUnderway DEF SkipRequest, Fetching, IsToRead, Runs
<1>10. ASSUME NEW k \in Task, SpawnTask(k) PROVE Underway(r)'
  <2>1. Missed(r)
    BY <1>10 DEF SpawnTask, Missed
  <2>2. task'[k] = Spawned(Head(requests))
    BY <1>10 DEF SpawnTask, TypeOK
  <2>3. CASE Asks(Head(requests), r)
    <3>1. Head(requests).kind \in {"GetRoomMembers", "SyncRoomMemberList"} /\ Head(requests).room = r
      BY <2>3 DEF Asks, NeedsTimeline
    <3>2. IsToRead(k, r)'
      BY <2>2, <3>1 DEF IsToRead, Runs, Spawned
    <3> QED BY <3>2 DEF Underway
  <2>4. CASE ~Asks(Head(requests), r)
    <3>1. Asked(r, requests) => Asked(r, requests')
      BY <1>10, <2>4, TailAsks DEF SpawnTask, TypeOK
    <3>2. ~IsToRead(k, r)
      BY <1>10 DEF SpawnTask, IsToRead, Runs, Idle
    <3>3. Fetching(r) => Fetching(r)'
      BY <1>10, <3>2, OthersFetch DEF SpawnTask, TypeOK
    <3> QED BY <1>1, <1>10, <2>1, <3>1, <3>3, StillUnderway DEF SpawnTask
  <2> QED BY <2>3, <2>4
<1>11. ASSUME NEW k \in Task, ReadMembers(k) PROVE Underway(r)'
  <2> DEFINE q == task[k].request.room
  <2>1. q \in Room
    BY <1>11, TaskHasRequest DEF ReadMembers, Runs
  <2>2. q # r
    BY <1>11, <2>1 DEF ReadMembers, Missed, TypeOK, Version
  <2>3. Missed(r)
    BY <1>11, <2>1, <2>2 DEF ReadMembers, Missed, TypeOK
  <2>4. ~IsToRead(k, r)
    BY <2>2 DEF IsToRead
  <2>5. \A j \in Task \ {k} : task'[j] = task[j]
    BY <1>11 DEF ReadMembers, End, TypeOK
  <2>6. Fetching(r) => Fetching(r)'
    BY <2>4, <2>5, OthersFetch
  <2> QED BY <1>1, <1>11, <2>3, <2>6, StillUnderway DEF ReadMembers
<1>12. ASSUME NEW k \in Task, SendMembers(k) PROVE Underway(r)'
  <2>1. Missed(r)
    BY <1>12 DEF SendMembers, Missed
  <2>2. ~IsToRead(k, r)
    BY <1>12 DEF SendMembers, IsToRead, Runs
  <2>3. Fetching(r) => Fetching(r)'
    BY <1>12, <2>2, OthersFetch DEF SendMembers, End, TypeOK
  <2> QED BY <1>1, <1>12, <2>1, <2>3, StillUnderway DEF SendMembers
<1>13. ASSUME NEW k \in Task, SyncMembers(k) PROVE Underway(r)'
  <2> DEFINE q == GetRoomMembers(task[k].request.room, FALSE)
  <2>1. Missed(r)
    BY <1>13 DEF SyncMembers, Missed
  <2>2. q \in Request
    BY <1>13, TaskHasRequest DEF SyncMembers, Runs, GetRoomMembers, Request
  <2>3. /\ Asked(r, requests) => Asked(r, requests')
        /\ Asks(q, r) => Asked(r, requests')
    BY <1>13, <2>2, SubmitAsks DEF SyncMembers
  <2>4. CASE task[k].request.room = r
    <3>1. Asks(q, r)
      BY <2>4 DEF Asks, NeedsTimeline, GetRoomMembers
    <3> QED BY <2>3, <3>1 DEF Underway, Asked, Asks
  <2>5. CASE task[k].request.room # r
    <3>1. ~IsToRead(k, r)
      BY <2>5 DEF IsToRead
    <3>2. Fetching(r) => Fetching(r)'
      BY <1>13, <3>1, OthersFetch DEF SyncMembers, End, TypeOK
    <3> QED BY <1>1, <1>13, <2>1, <2>3, <3>2, StillUnderway DEF SyncMembers
  <2> QED BY <2>4, <2>5
<1>14. ASSUME NEW k \in Task, JoinOrLeave(k) PROVE Underway(r)'
  <2>1. task[k].request.room \in Room
    BY <1>14, TaskHasRequest DEF JoinOrLeave, Runs
  <2>2. Missed(r)
    BY <1>14, <2>1 DEF JoinOrLeave, Missed, TypeOK
  <2>3. ~IsToRead(k, r)
    BY <1>14 DEF JoinOrLeave, IsToRead, Runs
  <2>4. Fetching(r) => Fetching(r)'
    BY <1>14, <2>3, OthersFetch DEF JoinOrLeave, End, TypeOK
  <2> QED BY <1>1, <1>14, <2>2, <2>4, StillUnderway DEF JoinOrLeave
<1>15. ASSUME NEW k \in Task, KickOrBan(k) PROVE Underway(r)'
  <2> DEFINE q == [kind |-> "SyncRoomMemberList", room |-> task[k].request.room]
  <2>1. Missed(r)
    BY <1>15 DEF KickOrBan, Missed
  <2>2. q \in Request
    BY <1>15, TaskHasRequest DEF KickOrBan, Runs, Request
  <2>3. Asked(r, requests) => Asked(r, requests')
    BY <1>15, <2>2, SubmitAsks DEF KickOrBan
  <2>4. ~IsToRead(k, r)
    BY <1>15 DEF KickOrBan, IsToRead, Runs
  <2>5. Fetching(r) => Fetching(r)'
    BY <1>15, <2>4, OthersFetch DEF KickOrBan, End, TypeOK
  <2> QED BY <1>1, <1>15, <2>1, <2>3, <2>5, StillUnderway DEF KickOrBan
<1>16. ASSUME NEW kind \in {"JoinRoom", "LeaveRoom", "KickOrBan"}, NEW q \in Room, Command(kind, q)
       PROVE Underway(r)'
  <2>1. Missed(r)
    BY <1>16 DEF Command, Missed
  <2>2. [kind |-> kind, room |-> q] \in Request
    BY DEF Request
  <2>3. Asked(r, requests) => Asked(r, requests')
    BY <1>16, <2>2, SubmitAsks DEF Command
  <2> QED BY <1>1, <1>16, <2>1, <2>3, StillUnderway DEF Command, Fetching, IsToRead, Runs
<1>17. ASSUME NEW q \in Room, ShowTimeline(q) PROVE Underway(r)'
  <2>1. q = r
    BY <1>17 DEF ShowTimeline, Missed
  <2> DEFINE ask == [kind |-> "SyncRoomMemberList", room |-> q]
  <2>2. ask \in Request /\ Asks(ask, r)
    BY <2>1 DEF Request, Asks, NeedsTimeline
  <2>3. Asked(r, requests')
    BY <1>17, <2>2, SubmitAsks DEF ShowTimeline
  <2> QED BY <2>3 DEF Underway, Asked, Asks
<1>18. CASE ProcessUpdates
  <2>1. Missed(r)
    BY <1>18 DEF ProcessUpdates, Missed
  <2> QED BY <1>1, <1>18, <2>1, StillUnderway DEF ProcessUpdates, Fetching, IsToRead, Runs
<1> QED BY <1>2, <1>3, <1>4, <1>5, <1>6, <1>7, <1>8, <1>9, <1>10, <1>11, <1>12, <1>13,
           <1>14, <1>15, <1>16, <1>17, <1>18 DEF Next, MapNext, WorkerNext, TaskNext

(* A change of the members of the room on display is on its way to be      *)
(* fetched until a fetch has read it, wherever the tasks between are.      *)
THEOREM ChangesAreUnderway == Spec => []ChangeIsUnderway
<1>1. Init => ChangeIsUnderway
  BY MembersAssumption DEF Init, ChangeIsUnderway
<1> QED BY <1>1, InitIInv, IInvStep, UnderwayStep, PTL DEF Spec
=============================================================================
