---------------------------- MODULE RoomScreens ----------------------------
(***************************************************************************)
(* The hand-off of timelines between room screens. ui_worker starts one    *)
(* task per selected room or thread (handle_current_active_room) and ends  *)
(* the previous one through a oneshot channel. A screen takes the update   *)
(* receiver of a timeline, which exists once, from TIMELINE_STATES or from *)
(* the JoinedRoomDetails; when it ends it leaves it in TIMELINE_STATES.    *)
(* Old and new screen run concurrently, with async_worker, which builds    *)
(* thread timelines and subscribes to read receipts, and with the sync     *)
(* task, which inserts and removes JoinedRoomDetails.                      *)
(*                                                                         *)
(* Timelines are numbered as they are built; a number stands for the       *)
(* timeline, its subscriber task and its endpoints.                        *)
(***************************************************************************)
EXTENDS Integers, Sequences, FiniteSets, SequencesExt

CONSTANTS
    Room,            \* rooms, standing for their main timelines
    Thread,          \* threads the user opens
    RoomOf,          \* the room of a thread
    MaxSelections,   \* bound: the number of screens started
    RuntimeThreads,  \* number of threads of the tokio runtime
    MaxTimelines,    \* bound: the number of timelines built
    MaxJoins         \* bound: details come only while fewer timelines were built

ASSUME ScreensAssumption ==
    /\ Room \cap Thread = {}
    /\ RoomOf \in [Thread -> Room]
    /\ MaxSelections \in Nat
    /\ RuntimeThreads \in Nat \ {0}
    /\ MaxTimelines \in Nat
    /\ MaxJoins \in 0..MaxTimelines

VARIABLES
    timeline,        \* the timeline of a kind in ALL_JOINED_ROOMS, 0 if there is none
    endpoints,       \* the timelines whose endpoints are still in the details
    building,        \* pending_thread_timelines of the rooms
    built,           \* number of timelines built
    saved,           \* TIMELINE_STATES: the timeline of the saved state, 0 if there is none
    screens,         \* the screen tasks in the order in which they were started
    requests,        \* the MatrixRequests async_worker has not handled
    creations,       \* running tasks that build a thread timeline
    subscribed,      \* the keys of subscribers_own_user_read_receipts
    receiptTasks,    \* number of running receipt tasks
    uiWorker         \* whether ui_worker runs

detailsVars == <<timeline, endpoints, building, built>>
workerVars == <<creations, subscribed, receiptTasks>>
vars == <<detailsVars, saved, screens, requests, workerVars, uiWorker>>

Kind == Room \cup Thread

HomeRoom(k) == IF k \in Thread THEN RoomOf[k] ELSE k

TimelineId == 0..MaxTimelines

Screen == [kind: Kind,
           at: {"starting", "taking", "waiting", "created", "running", "saved", "ended", "panicked"},
           tl: TimelineId,
           killed: BOOLEAN,
           reply: {"none", "sent", "dropped"}]

Request ==
    [req: {"create"}, kind: Thread, screen: 1..MaxSelections]
    \cup [req: {"receipts"}, kind: Kind, subscribe: BOOLEAN]

Creation == [kind: Thread, screen: 1..MaxSelections]

TypeOK ==
    /\ timeline \in [Kind -> TimelineId]
    /\ endpoints \subseteq TimelineId \ {0}
    /\ building \subseteq Thread
    /\ built \in TimelineId
    /\ saved \in [Kind -> TimelineId]
    /\ screens \in Seq(Screen)
    /\ Len(screens) <= MaxSelections
    /\ requests \in Seq(Request)
    /\ creations \subseteq Creation
    /\ subscribed \subseteq Kind
    /\ receiptTasks \in [Kind -> Nat]
    /\ uiWorker \in {"running", "panicked"}

Init ==
    /\ timeline = [k \in Kind |-> 0]
    /\ endpoints = {}
    /\ building = {}
    /\ built = 0
    /\ saved = [k \in Kind |-> 0]
    /\ screens = <<>>
    /\ requests = <<>>
    /\ creations = {}
    /\ subscribed = {}
    /\ receiptTasks = [k \in Kind |-> 0]
    /\ uiWorker = "running"

At(i, place) == i \in DOMAIN screens /\ screens[i].at = place

(* A screen that waits in block_on holds a thread of the runtime; any      *)
(* other step of a task needs one.                                         *)
FreeThread == Cardinality({i \in DOMAIN screens : At(i, "waiting")}) < RuntimeThreads

----------------------------------------------------------------------------
(* The sync task: the details of a room come, are replaced, and go, and    *)
(* its thread timelines with them.                                         *)

KindsOf(r) == {k \in Kind : HomeRoom(k) = r}

InsertRoomDetails(r) ==
    /\ FreeThread
    /\ built < MaxJoins
    /\ built' = built + 1
    /\ timeline' = [k \in Kind |-> IF k = r THEN built' ELSE IF k \in KindsOf(r) THEN 0 ELSE timeline[k]]
    /\ endpoints' = (endpoints \ {timeline[k] : k \in KindsOf(r)}) \cup {built'}
    /\ building' = building \ KindsOf(r)
    /\ UNCHANGED <<saved, screens, requests, workerVars, uiWorker>>

RemoveRoomDetails(r) ==
    /\ FreeThread
    /\ timeline[r] # 0
    /\ timeline' = [k \in Kind |-> IF k \in KindsOf(r) THEN 0 ELSE timeline[k]]
    /\ endpoints' = endpoints \ {timeline[k] : k \in KindsOf(r)}
    /\ building' = building \ KindsOf(r)
    /\ UNCHANGED <<built, saved, screens, requests, workerVars, uiWorker>>

----------------------------------------------------------------------------
(* ui_worker.                                                              *)

NewScreen(k) == [kind |-> k, at |-> "starting", tl |-> 0, killed |-> FALSE, reply |-> "none"]

(* handle_current_active_room: a room that is already active is ignored.   *)
SelectRoom(k) ==
    /\ FreeThread
    /\ uiWorker = "running"
    /\ Len(screens) < MaxSelections
    /\ \/ /\ screens = <<>>
          /\ screens' = << NewScreen(k) >>
          /\ UNCHANGED uiWorker
       \/ /\ screens # <<>>
          /\ Last(screens).kind # k
          /\ Last(screens).at # "panicked"
          /\ screens' = Append([screens EXCEPT ![Len(screens)].killed = TRUE], NewScreen(k))
          /\ UNCHANGED uiWorker
       \/ (* The receiver of the oneshot is gone: the send is expected to succeed. *)
          /\ screens # <<>>
          /\ Last(screens).kind # k
          /\ Last(screens).at = "panicked"
          /\ uiWorker' = "panicked"
          /\ UNCHANGED screens
    /\ UNCHANGED <<detailsVars, saved, requests, workerVars>>

----------------------------------------------------------------------------
(* A screen task: show_timeline, the loop, hide_timeline.                  *)

Receipts(k, subscribe) == [req |-> "receipts", kind |-> k, subscribe |-> subscribe]

(* The end of show_timeline with a TimelineUiState. What is sent at once   *)
(* with the subscription (pagination, member list) changes no state here.  *)
Show(i, tl) ==
    /\ screens' = [screens EXCEPT ![i].at = "running", ![i].tl = tl]
    /\ requests' = Append(requests, Receipts(screens[i].kind, TRUE))

(* show_timeline returns early: the task runs on without a timeline. *)
ShowNothing(i) == screens' = [screens EXCEPT ![i].at = "running"]

(* TIMELINE_STATES.remove finds a state, or not. *)
RestoreState(i) ==
    /\ FreeThread
    /\ At(i, "starting")
    /\ LET k == screens[i].kind IN
         \/ /\ saved[k] # 0
            /\ saved' = [saved EXCEPT ![k] = 0]
            /\ Show(i, saved[k])
         \/ /\ saved[k] = 0
            /\ screens' = [screens EXCEPT ![i].at = "taking"]
            /\ UNCHANGED <<saved, requests>>
    /\ UNCHANGED <<detailsVars, workerVars, uiWorker>>

Available(k) == timeline[k] \in endpoints

(* Mutant: the endpoints are cloned instead of taken. *)
TakeEndpointsCloned(i) ==
    /\ Available(screens[i].kind)
    /\ UNCHANGED endpoints
    /\ Show(i, timeline[screens[i].kind])

(* take_timeline_endpoints succeeds. *)
TakeEndpoints(i) ==
    /\ Available(screens[i].kind)
    /\ endpoints' = endpoints \ {timeline[screens[i].kind]}
    /\ Show(i, timeline[screens[i].kind])

ShowTimeline(i) ==
    /\ FreeThread
    /\ At(i, "taking")
    /\ LET k == screens[i].kind IN
         \/ TakeEndpoints(i)
         \/ /\ ~Available(k) /\ k \in Room
            /\ ShowNothing(i)
            /\ UNCHANGED <<endpoints, requests>>
         \/ /\ ~Available(k) /\ k \in Thread
            /\ screens' = [screens EXCEPT ![i].at = "waiting"]
            /\ requests' = Append(requests, [req |-> "create", kind |-> k, screen |-> i])
            /\ UNCHANGED endpoints
    /\ UNCHANGED <<timeline, building, built, saved, workerVars, uiWorker>>

(* block_on(rx) returns: the thread timeline was built, or the sender was  *)
(* dropped. The screen goes on with the thread it has held.                *)
ThreadAnswered(i) ==
    /\ At(i, "waiting")
    /\ \/ /\ screens[i].reply = "sent"
          /\ screens' = [screens EXCEPT ![i].at = "created"]
       \/ /\ screens[i].reply = "dropped"
          /\ ShowNothing(i)
    /\ UNCHANGED <<detailsVars, saved, requests, workerVars, uiWorker>>

(* The endpoints of the thread are expected to be there; when they are not *)
(* the task panics, and hide_timeline runs as the screen is dropped.       *)
ShowThread(i) ==
    /\ FreeThread
    /\ At(i, "created")
    /\ \/ TakeEndpoints(i)
       \/ /\ ~Available(screens[i].kind)
          /\ screens' = [screens EXCEPT ![i].at = "panicked"]
          /\ requests' = Append(requests, Receipts(screens[i].kind, FALSE))
          /\ UNCHANGED endpoints
    /\ UNCHANGED <<timeline, building, built, saved, workerVars, uiWorker>>

(* Mutant: the state is dropped with its screen. *)
SaveStateLost(i) ==
    /\ screens' = [screens EXCEPT ![i].at = "saved", ![i].tl = 0]
    /\ UNCHANGED saved

(* save_state. *)
SaveState(i) ==
    /\ screens' = [screens EXCEPT ![i].at = "saved", ![i].tl = 0]
    /\ saved' = IF screens[i].tl = 0 THEN saved
                ELSE [saved EXCEPT ![screens[i].kind] = screens[i].tl]

(* The loop sees the kill signal; the screen is dropped. *)
EndScreen(i) ==
    /\ FreeThread
    /\ At(i, "running")
    /\ screens[i].killed
    /\ SaveState(i)
    /\ UNCHANGED <<detailsVars, requests, workerVars, uiWorker>>

(* The rest of hide_timeline. Screens never subscribe to typing notices,   *)
(* so ending that subscription changes nothing.                            *)
Unsubscribe(i) ==
    /\ FreeThread
    /\ At(i, "saved")
    /\ screens' = [screens EXCEPT ![i].at = "ended"]
    /\ requests' = Append(requests, Receipts(screens[i].kind, FALSE))
    /\ UNCHANGED <<detailsVars, saved, workerVars, uiWorker>>

ScreenStep(i) ==
    \/ RestoreState(i)
    \/ ShowTimeline(i)
    \/ ThreadAnswered(i)
    \/ ShowThread(i)
    \/ EndScreen(i)
    \/ Unsubscribe(i)

----------------------------------------------------------------------------
(* async_worker.                                                           *)

Reply(i, reply) == screens' = [screens EXCEPT ![i].reply = reply]

TakeRequest(req) ==
    /\ FreeThread
    /\ requests # <<>>
    /\ Head(requests).req = req
    /\ requests' = Tail(requests)

(* Mutant: a thread that is being built already is built again. *)
MayCreateAnyway(t) == timeline[RoomOf[t]] # 0 /\ timeline[t] = 0

MayCreate(t) ==
    /\ timeline[RoomOf[t]] # 0
    /\ timeline[t] = 0
    /\ t \notin building

(* Mutant: the sender of a request that is not served is kept. *)
RefuseSilently(request) == UNCHANGED <<screens, building, creations>>

(* The request is dropped, and the sender of the answer with it. *)
Refuse(request) ==
    /\ ~MayCreate(request.kind)
    /\ Reply(request.screen, "dropped")
    /\ UNCHANGED <<building, creations>>

CreateThreadTimeline ==
    /\ TakeRequest("create")
    /\ LET request == Head(requests) IN
         \/ Refuse(request)
         \/ /\ MayCreate(request.kind)
            /\ building' = building \cup {request.kind}
            /\ creations' = creations \cup
                 {[kind |-> request.kind, screen |-> request.screen]}
            /\ UNCHANGED screens
    /\ UNCHANGED <<timeline, endpoints, built, saved, subscribed, receiptTasks, uiWorker>>

(* Mutant: the sender is kept when the room is gone. *)
RoomGoneUnanswered(c) ==
    /\ timeline[RoomOf[c.kind]] = 0
    /\ UNCHANGED <<screens, detailsVars>>

RoomGone(c) ==
    /\ timeline[RoomOf[c.kind]] = 0
    /\ Reply(c.screen, "dropped")
    /\ UNCHANGED detailsVars

(* The task that builds a thread timeline looks the room up again at its   *)
(* end: the room may be gone, or its details replaced.                     *)
ThreadBuilt(c) ==
    /\ FreeThread
    /\ creations' = creations \ {c}
    /\ \/ /\ timeline[RoomOf[c.kind]] # 0
          /\ built < MaxTimelines
          /\ built' = built + 1
          /\ building' = building \ {c.kind}
          /\ timeline' = [timeline EXCEPT ![c.kind] = built']
          /\ endpoints' = (endpoints \ {timeline[c.kind]}) \cup {built'}
          /\ Reply(c.screen, "sent")
       \/ RoomGone(c)
    /\ UNCHANGED <<saved, requests, subscribed, receiptTasks, uiWorker>>

ThreadFails(c) ==
    /\ FreeThread
    /\ creations' = creations \ {c}
    /\ building' = building \ {c.kind}
    /\ Reply(c.screen, "dropped")
    /\ UNCHANGED <<timeline, endpoints, built, saved, requests, subscribed, receiptTasks, uiWorker>>

Abort(k) ==
    /\ k \in subscribed
    /\ subscribed' = subscribed \ {k}
    /\ receiptTasks' = [receiptTasks EXCEPT ![k] = @ - 1]

(* A subscription spawns a task and keeps its handle; the handle of an     *)
(* earlier one is overwritten, which does not end its task.                *)
SubscribeToReceipts ==
    /\ TakeRequest("receipts")
    /\ LET k == Head(requests).kind IN
         \/ /\ Head(requests).subscribe
            /\ timeline[k] # 0
            /\ subscribed' = subscribed \cup {k}
            /\ receiptTasks' = [receiptTasks EXCEPT ![k] = @ + 1]
         \/ /\ Head(requests).subscribe
            /\ timeline[k] = 0
            /\ UNCHANGED <<subscribed, receiptTasks>>
         \/ /\ ~Head(requests).subscribe
            /\ Abort(k)
         \/ /\ ~Head(requests).subscribe
            /\ k \notin subscribed
            /\ UNCHANGED <<subscribed, receiptTasks>>
    /\ UNCHANGED <<detailsVars, saved, screens, creations, uiWorker>>

WorkerStep ==
    \/ CreateThreadTimeline
    \/ SubscribeToReceipts

CreationEnds(c) == ThreadBuilt(c) \/ ThreadFails(c)

Next ==
    \/ \E r \in Room : InsertRoomDetails(r)
    \/ \E r \in Room : RemoveRoomDetails(r)
    \/ \E k \in Kind : SelectRoom(k)
    \/ \E i \in 1..MaxSelections : ScreenStep(i)
    \/ WorkerStep
    \/ \E c \in creations : CreationEnds(c)

Spec == Init /\ [][Next]_vars

(* Tokio polls tasks that are ready, and building a timeline ends, with a  *)
(* timeline or an error.                                                   *)
Fairness ==
    /\ \A i \in 1..MaxSelections : WF_vars(ScreenStep(i))
    /\ WF_vars(WorkerStep)
    /\ WF_vars(\E c \in creations : CreationEnds(c))

FairSpec == Spec /\ Fairness

----------------------------------------------------------------------------
(* Safety.                                                                 *)

(* The update receiver of a timeline is a singleton (timeline.rs on        *)
(* take_timeline_endpoints): it is never in two of the details, the saved  *)
(* states and the screens.                                                 *)
OneHolder ==
    /\ \A id \in 1..built : id \in endpoints =>
         /\ \A k \in Kind : saved[k] # id
         /\ \A i \in DOMAIN screens : screens[i].tl # id
    /\ \A i \in DOMAIN screens : screens[i].tl # 0 =>
         /\ \A k \in Kind : saved[k] # screens[i].tl
         /\ \A j \in DOMAIN screens : screens[i].tl = screens[j].tl => i = j
    /\ \A k, l \in Kind : saved[k] # 0 /\ saved[k] = saved[l] => k = l

IsHeld(id) ==
    \/ id \in endpoints
    \/ \E k \in Kind : saved[k] = id
    \/ \E i \in DOMAIN screens : screens[i].tl = id

(* However the screens of a timeline follow each other, its receiver is    *)
(* not lost with them (room_screen.rs on Drop): it is in the details, in   *)
(* the saved states or with a screen, unless the state of an earlier       *)
(* timeline of the same kind has taken its place.                          *)
ReceiverIsKept ==
    \A k \in Kind : timeline[k] # 0 =>
      \/ IsHeld(timeline[k])
      \/ saved[k] # 0
      \/ \E i \in DOMAIN screens : screens[i].kind = k /\ screens[i].tl # 0

(* pending_thread_timelines: a thread timeline is built by one task at a   *)
(* time and never built while the room has it, so that nobody replaces a   *)
(* timeline that a screen shows.                                           *)
ThreadBuiltOnce ==
    /\ \A c, d \in creations : c.kind = d.kind => c = d
    /\ \A c \in creations : timeline[c.kind] = 0

(* A timeline a room still has is not replaced under a screen: the thread  *)
(* or room a screen shows keeps its timeline until the sync task replaces  *)
(* the details of the room.                                                *)
ShownTimelineStays ==
    [][\A i \in DOMAIN screens :
         LET k == screens[i].kind IN
         screens[i].tl # 0 /\ timeline[k] = screens[i].tl =>
           timeline'[k] \in {timeline[k], 0} \/ timeline'[HomeRoom(k)] # timeline[HomeRoom(k)]]_vars

----------------------------------------------------------------------------
(* Liveness, under FairSpec.                                               *)

(* A screen that waits for its thread timeline blocks a thread of the      *)
(* runtime: it is answered, whether the timeline is built or not.          *)
ThreadIsAnswered ==
    \A i \in 1..MaxSelections : At(i, "waiting") ~> ~At(i, "waiting")

(* A screen that is told to end does so, and gives its state back.         *)
KilledScreenEnds ==
    \A i \in 1..MaxSelections :
      (i \in DOMAIN screens /\ screens[i].killed) ~> (At(i, "ended") \/ At(i, "panicked"))

----------------------------------------------------------------------------
(* What the comments of the code say and the code does not do.             *)

(* Nothing is under way but what the user or the server start. *)
Settled ==
    /\ requests = <<>>
    /\ creations = {}
    /\ screens # <<>>
    /\ \A i \in DOMAIN screens : screens[i].at \in
         (IF i = Len(screens) THEN {"running"} ELSE {"ended", "panicked"})

(* room_screen.rs on Drop: the state is always returned to TIMELINE_STATES *)
(* so that another screen can show the room: a screen is not left without  *)
(* a timeline when the state of its room has been given back.              *)
SelectedRoomIsShown ==
    Settled /\ saved[Last(screens).kind] # 0 => Last(screens).tl # 0

(* timeline.rs on update_receiver: the receiver for timeline updates for   *)
(* this room.                                                              *)
ShownTimelineIsTheRooms ==
    Settled /\ timeline[Last(screens).kind] # 0 /\ Last(screens).tl # 0 =>
      Last(screens).tl = timeline[Last(screens).kind]

(* room_screen.rs on hide_timeline: unsubscribe from updates to our own    *)
(* user's read receipts when a room is not visible.                        *)
HiddenRoomsAreUnsubscribed ==
    Settled => \A k \in Kind : k # Last(screens).kind => receiptTasks[k] = 0

(* rooms_list.rs expects the previous screen to receive its signal, and    *)
(* show_timeline waits for the thread timeline before it takes it.         *)
UiWorkerSurvives == uiWorker = "running"

============================================================================
