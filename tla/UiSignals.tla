----------------------------- MODULE UiSignals ------------------------------
(***************************************************************************)
(* How the tasks of the library tell the two consumers of their updates    *)
(* that there is something to do. A producer pushes an update to a queue   *)
(* and then broadcasts RefreshUI (init/singletons.rs). ui_worker learns of *)
(* it through debounce_broadcast (utils.rs) and an mpsc channel of one     *)
(* message; the room screen on display has a broadcast receiver of its     *)
(* own. A RefreshUI carries nothing, so a receiver is the number of        *)
(* messages it has not read; one more than Capacity means that it lags.    *)
(***************************************************************************)
EXTENDS Naturals

CONSTANTS
    Task,         \* the tasks that push updates
    Pushed,       \* the queues they push to
    Capacity,     \* of the broadcast channel
    MaxWaiting    \* bound: a task does not push to a queue this long of its own
                  \* accord, and the room is selected while no more is waiting

(* Of the queues only that of the profiles has no signal.                  *)
Queue == {"rooms", "profiles", "toasts", "timeline"}

ASSUME SignalsAssumption ==
    Pushed \subseteq Queue /\ Capacity \in Nat \ {0} /\ MaxWaiting \in Nat

VARIABLES
    queued,       \* per queue, the number of updates not yet taken
    task,         \* per task, the queue it has pushed to but not signalled, or "none"
    unread,       \* per broadcast receiver, the messages not read
    lastItem,     \* whether last_item of the debounce is Some
    elapsed,      \* whether its sleep is over
    sending,      \* whether it awaits tx.send
    wake,         \* whether its mpsc channel holds a message
    worker,       \* where ui_worker is
    screen,       \* where the room screen is
    requested,    \* whether a request of show_timeline is not yet taken, or the
                  \* members for which it asks are being fetched
    roomKnown,    \* whether the room of the timeline is in ALL_JOINED_ROOMS
    silent        \* whether updates of the timeline that nobody signals, which
                  \* "timeline" does not count, wait in its channel

debounceVars == <<lastItem, elapsed, sending, wake>>
roomVars == <<roomKnown, silent>>
screenVars == <<screen, requested, roomVars>>
vars == <<queued, task, unread, debounceVars, worker, screenVars>>

Receiver == {"debounce", "screen"}

TypeOK ==
    /\ queued \in [Queue -> Nat]
    /\ task \in [Task -> Queue \cup {"none"}]
    /\ unread \in [Receiver -> 0 .. Capacity + 1]
    /\ lastItem \in BOOLEAN
    /\ elapsed \in BOOLEAN
    /\ sending \in BOOLEAN
    /\ wake \in BOOLEAN
    /\ worker \in {"select", "rooms", "profiles", "toasts"}
    /\ screen \in {"new", "hidden", "select", "processing"}
    /\ requested \in BOOLEAN /\ roomKnown \in BOOLEAN /\ silent \in BOOLEAN

Init ==
    /\ queued = [q \in Queue |-> 0]
    /\ task = [t \in Task |-> "none"]
    /\ unread = [r \in Receiver |-> 0]
    /\ lastItem = FALSE
    /\ elapsed = FALSE
    /\ sending = FALSE
    /\ wake = FALSE
    /\ worker = "select"
    /\ screen = "new"
    /\ requested = FALSE
    /\ roomKnown = TRUE /\ silent = FALSE

----------------------------------------------------------------------------

Subscribed(r) == r = "screen" => screen \in {"select", "processing"}

Lags(r) == unread[r] > Capacity

(* broadcast_event: a message for every receiver. A full ring loses its    *)
(* oldest message.                                                         *)
Broadcast ==
    [r \in Receiver |-> IF ~Subscribed(r) \/ Lags(r) THEN unread[r]
                        ELSE unread[r] + 1]

(* Mutant: after Lagged the receiver is subscribed anew.                   *)
AfterRecvResubscribed(r) == IF Lags(r) THEN 0 ELSE unread[r] - 1

(* recv: Lagged moves a receiver to the oldest message still in the ring,  *)
(* Ok takes one.                                                           *)
AfterRecv(r) == IF Lags(r) THEN Capacity ELSE unread[r] - 1

Idle(t) == task[t] = "none"

(* enqueue_rooms_list_update, enqueue_toast_notification and the tasks     *)
(* that send a TimelineUpdate, but for those of SendSilently, push first.  *)
Push(t, q) ==
    /\ Idle(t)
    /\ queued[q] < MaxWaiting
    /\ queued' = [queued EXCEPT ![q] = @ + 1]
    /\ task' = [task EXCEPT ![t] = IF q = "profiles" THEN "none" ELSE q]
    /\ UNCHANGED <<unread, debounceVars, worker, screenVars>>

(* Then they signal, whatever else happens in between.                     *)
Signal(t) ==
    /\ ~Idle(t)
    /\ task' = [task EXCEPT ![t] = "none"]
    /\ unread' = Broadcast
    /\ UNCHANGED <<queued, debounceVars, worker, screenVars>>

(* FirstUpdate, and the user's own read receipts with the count of unread  *)
(* messages, are sent to the timeline without a signal, also by tasks that *)
(* go on with the sender of a room that is gone.                           *)
SendSilently ==
    /\ ~silent
    /\ silent' = TRUE
    /\ UNCHANGED <<queued, task, unread, debounceVars, worker, screen, requested, roomKnown>>

(* The room's details are dropped. A room that is joined again has others, *)
(* and another timeline.                                                   *)
RoomLeaves ==
    /\ roomKnown
    /\ roomKnown' = FALSE
    /\ UNCHANGED <<queued, task, unread, debounceVars, worker, screen, requested, silent>>

(* SyncRoomMemberList of show_timeline is served: a task has fetched the   *)
(* members and sends an update, which it is then going to signal.          *)
ServeRequest(t) ==
    /\ requested
    /\ Idle(t)
    /\ requested' = FALSE
    /\ queued' = [queued EXCEPT !["timeline"] = @ + 1]
    /\ task' = [task EXCEPT ![t] = "timeline"]
    /\ UNCHANGED <<unread, debounceVars, worker, screen, roomVars>>

(* One that is taken when the room is gone is skipped, without an answer.  *)
SkipRequest ==
    /\ requested /\ ~roomKnown
    /\ requested' = FALSE
    /\ UNCHANGED <<queued, task, unread, debounceVars, worker, screen, roomVars>>

----------------------------------------------------------------------------
(* The select loop of debounce_broadcast. Each iteration has a new sleep.  *)

DebounceRecv ==
    /\ ~sending
    /\ unread["debounce"] > 0
    /\ ~Lags("debounce")
    /\ lastItem' = TRUE
    /\ elapsed' = FALSE
    /\ unread' = [unread EXCEPT !["debounce"] = AfterRecv("debounce")]
    /\ UNCHANGED <<queued, task, sending, wake, worker, screenVars>>

(* Lagged: it is logged, and last_item stays as it is.                     *)
DebounceLagged ==
    /\ ~sending
    /\ Lags("debounce")
    /\ elapsed' = FALSE
    /\ unread' = [unread EXCEPT !["debounce"] = AfterRecv("debounce")]
    /\ UNCHANGED <<queued, task, lastItem, sending, wake, worker, screenVars>>

(* The duration passes without an iteration of the loop.                   *)
Elapse ==
    /\ ~sending
    /\ lastItem
    /\ ~elapsed
    /\ elapsed' = TRUE
    /\ UNCHANGED <<queued, task, unread, lastItem, sending, wake, worker, screenVars>>

(* Mutant: a signal that comes while ui_worker is busy is dropped.         *)
DebounceFiresWhenAwaited ==
    /\ ~sending
    /\ lastItem
    /\ elapsed
    /\ lastItem' = FALSE
    /\ elapsed' = FALSE
    /\ sending' = (worker = "select")
    /\ UNCHANGED <<queued, task, unread, wake, worker, screenVars>>

(* The sleep wins the select: last_item.take(), then tx.send(item).await.  *)
DebounceFires ==
    /\ ~sending
    /\ lastItem
    /\ elapsed
    /\ lastItem' = FALSE
    /\ elapsed' = FALSE
    /\ sending' = TRUE
    /\ UNCHANGED <<queued, task, unread, wake, worker, screenVars>>

DebounceSent ==
    /\ sending
    /\ ~wake
    /\ sending' = FALSE
    /\ wake' = TRUE
    /\ UNCHANGED <<queued, task, unread, lastItem, elapsed, worker, screenVars>>

----------------------------------------------------------------------------
(* ui_worker: one select loop for signals and selections.                  *)

WorkerWakes ==
    /\ worker = "select"
    /\ wake
    /\ wake' = FALSE
    /\ worker' = "rooms"
    /\ UNCHANGED <<queued, task, unread, lastItem, elapsed, sending, screenVars>>

(* handle_rooms_list_updates, process_user_profile_updates and             *)
(* process_toast_notifications pop until they find their queue empty.      *)
WorkerTakes ==
    /\ worker # "select"
    /\ queued[worker] > 0
    /\ queued' = [queued EXCEPT ![worker] = @ - 1]
    /\ UNCHANGED <<task, unread, debounceVars, worker, screenVars>>

(* Mutant: an update pushed during the drain is left to the next one.      *)
WorkerGoesOnEarly ==
    /\ worker # "select"
    /\ worker' = CASE worker = "rooms" -> "profiles"
                   [] worker = "profiles" -> "toasts"
                   [] worker = "toasts" -> "select"
    /\ UNCHANGED <<queued, task, unread, debounceVars, screenVars>>

WorkerGoesOn ==
    /\ worker # "select"
    /\ queued[worker] = 0
    /\ worker' = CASE worker = "rooms" -> "profiles"
                   [] worker = "profiles" -> "toasts"
                   [] worker = "toasts" -> "select"
    /\ UNCHANGED <<queued, task, unread, debounceVars, screenVars>>

(* Mutant: a screen restored from its saved state requests nothing.        *)
ShowScreenQuietly ==
    /\ worker = "select"
    /\ screen = "hidden" \/ (screen = "new" /\ roomKnown)
    /\ queued["timeline"] <= MaxWaiting
    /\ screen' = IF screen = "new" THEN "processing" ELSE "select"
    /\ unread' = [unread EXCEPT !["screen"] = 0]
    /\ requested' = (requested \/ screen = "new")
    /\ UNCHANGED <<queued, task, debounceVars, worker, roomVars>>

(* The room is selected: the new screen is subscribed before its task is   *)
(* spawned, submits its requests, and looks for updates if it has never    *)
(* been shown before, for which the room must be there. A saved state is   *)
(* restored whether it is or not.                                          *)
ShowScreen ==
    /\ worker = "select"
    /\ screen = "hidden" \/ (screen = "new" /\ roomKnown)
    /\ queued["timeline"] <= MaxWaiting
    /\ screen' = IF screen = "new" THEN "processing" ELSE "select"
    /\ unread' = [unread EXCEPT !["screen"] = 0]
    /\ requested' = TRUE
    /\ UNCHANGED <<queued, task, debounceVars, worker, roomVars>>

(* Another room is selected; the screen leaves its loop.                   *)
HideScreen ==
    /\ worker = "select"
    /\ screen = "select"
    /\ screen' = "hidden"
    /\ unread' = [unread EXCEPT !["screen"] = 0]
    /\ UNCHANGED <<queued, task, debounceVars, worker, requested, roomVars>>

----------------------------------------------------------------------------
(* The loop of the screen: every result of recv, Lagged too, makes it      *)
(* process the updates of its timeline.                                    *)

ScreenRecv ==
    /\ screen = "select"
    /\ unread["screen"] > 0
    /\ screen' = "processing"
    /\ unread' = [unread EXCEPT !["screen"] = AfterRecv("screen")]
    /\ UNCHANGED <<queued, task, debounceVars, worker, requested, roomVars>>

ScreenTakes ==
    /\ screen = "processing"
    /\ \/ /\ queued["timeline"] > 0
          /\ queued' = [queued EXCEPT !["timeline"] = @ - 1]
          /\ UNCHANGED silent
       \/ /\ silent
          /\ silent' \in BOOLEAN
          /\ UNCHANGED queued
    /\ UNCHANGED <<task, unread, debounceVars, worker, screen, requested, roomKnown>>

ScreenRests ==
    /\ screen = "processing"
    /\ queued["timeline"] = 0 /\ ~silent
    /\ screen' = "select"
    /\ UNCHANGED <<queued, task, unread, debounceVars, worker, requested, roomVars>>

DebounceNext == DebounceRecv \/ DebounceLagged \/ DebounceFires \/ DebounceSent
WorkerNext == WorkerWakes \/ WorkerTakes \/ WorkerGoesOn
ScreenNext == ScreenRecv \/ ScreenTakes \/ ScreenRests

Next ==
    \/ \E t \in Task, q \in Pushed : Push(t, q)
    \/ \E t \in Task : Signal(t) \/ ServeRequest(t)
    \/ SkipRequest
    \/ SendSilently \/ RoomLeaves
    \/ ShowScreen \/ HideScreen
    \/ DebounceNext \/ Elapse
    \/ WorkerNext
    \/ ScreenNext

Spec == Init /\ [][Next]_vars

(* tokio polls the ready tasks, and its select! chooses between ready      *)
(* branches at random: neither branch loses for ever. The only liveness    *)
(* property is about ui_worker; nothing is assumed of the screen.          *)
Fairness ==
    /\ WF_vars(\E t \in Task : Signal(t))
    /\ WF_vars(DebounceLagged) /\ SF_vars(DebounceFires) /\ WF_vars(DebounceSent)
    /\ SF_vars(WorkerWakes) /\ WF_vars(WorkerTakes)

(* Assumptions about the tasks that push: every so often no signal arrives *)
(* for the duration of the debounce, they do not lap it each time before   *)
(* it reads a message, and ui_worker, emptying its queue again and again,  *)
(* finds it empty at last.                                                 *)
ProducersPause == WF_vars(Elapse) /\ SF_vars(DebounceRecv) /\ SF_vars(WorkerGoesOn)

FairSpec == Spec /\ Fairness /\ ProducersPause

----------------------------------------------------------------------------
(* Properties.                                                             *)

(* A signal is on its way to ui_worker, or will be sent.                   *)
WorkerWillWake ==
    \/ unread["debounce"] > 0
    \/ lastItem \/ sending \/ wake
    \/ \E t \in Task : ~Idle(t)

(* An update of the rooms list or a toast is never left in its queue       *)
(* without ui_worker, which may have passed the queue already, being on    *)
(* its way to it: the debounce may merge and lose signals, but not all.    *)
NoLostWakeup ==
    /\ queued["rooms"] > 0 => WorkerWillWake \/ worker = "rooms"
    /\ queued["toasts"] > 0 => WorkerWillWake \/ worker # "select"

(* As long as its room is there, a timeline on display never has an update *)
(* in its channel of which the screen does not hear, although a restored   *)
(* screen looks for updates only when it is told to: it has asked for the  *)
(* members, and the answer tells it. Not so the updates of SendSilently.   *)
ScreenIsWoken ==
    queued["timeline"] > 0 /\ Subscribed("screen") /\ roomKnown =>
        \/ unread["screen"] > 0
        \/ screen = "processing"
        \/ requested
        \/ \E t \in Task : ~Idle(t)

(* "Now that we have restored the TimelineUiState into this RoomScreen     *)
(* widget, we can proceed to processing pending background updates"        *)
(* (room_screen.rs 465-466). It does not proceed: those of a room that is  *)
(* gone, and those that nobody signals, wait for whatever signal is next.  *)
PendingUpdatesAreProcessed ==
    (queued["timeline"] > 0 \/ silent) /\ Subscribed("screen") =>
        \/ unread["screen"] > 0
        \/ screen = "processing"
        \/ requested
        \/ \E t \in Task : ~Idle(t)

(* The pending updates of the rooms list are a queue that is drained, as   *)
(* the model of the rooms list takes for granted: PENDING_ROOM_UPDATES     *)
(* with its signals implements DrainedQueue.                               *)
RoomUpdatesQueue ==
    INSTANCE DrainedQueue WITH waiting <- queued["rooms"], draining <- (worker = "rooms")

RoomUpdatesAreDrained == RoomUpdatesQueue!Spec

(* "Enqueues a new user profile update and signals the UI that an update   *)
(* is available" (user_profile.rs 40). It does not signal.                 *)
ProfileUpdatesAreSignalled ==
    queued["profiles"] > 0 => WorkerWillWake \/ worker \in {"rooms", "profiles"}
=============================================================================
