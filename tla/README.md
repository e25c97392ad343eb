# A verification project for matrix-ui-serializable

`matrix-ui-serializable` is the headless core of a Matrix client: it drives the
Matrix Rust SDK in background tasks and keeps serialisable state (the rooms list,
the screen of the active room, profiles, ...) that an adapter hands to a frontend.
This directory holds TLA+ models of it, TLC runs that check them on small
instances, and TLAPS proofs. Paths below are relative to `src/src/`.

## 1. The system

### Tasks

| task | code | owns |
|---|---|---|
| monitor | `lib.rs` `init` | the join handles of the tasks below; restarts nothing, reports failures |
| `async_main_loop` / `sync` | `init/workers.rs` 65-92, `init/sync.rs` | `all_known_rooms`, the room list service's diff stream |
| `async_worker` | `init/workers.rs` 98-1128 | the `MatrixRequest` queue; spawns a task per request |
| `ui_worker` | `init/workers.rs` 1136-1175 | the `RoomsList`; drains `PENDING_ROOM_UPDATES` |
| timeline subscriber, one per joined room | `events/timeline.rs` 297-597 | the items of one timeline |
| room screen, one at a time | `room/room_screen.rs`, spawned at `room/rooms_list.rs` 706-759 | the `TimelineUiState` of the active room |
| debounce | `utils.rs` 164-199 | the last UI signal not yet passed on |
| login, OAuth, token saver | `init/session.rs`, `init/login.rs`, `init/oauth.rs` | the temporary client, the stored session |

They share statics (`ALL_JOINED_ROOMS`, `PENDING_ROOM_UPDATES`, `TIMELINE_STATES`,
`CLIENT`, `TEMP_CLIENT`, ... in `init/singletons.rs` and beside their users), lock-free
queues, watch, oneshot and mpsc channels, and one broadcast channel of UI signals.

### Components: state, operations, interactions, what is hard, what is correct

**Room list synchronisation** (`init/sync.rs`). State: `all_known_rooms`. Operations: one
handler per `VectorDiff` (Append, Reset, Clear, Truncate, Insert, Set, Remove, PushFront,
PushBack, PopFront, PopBack), and the merge of a removal and the following addition of the
same room into an update. It calls the joined room registry and enqueues order updates.
Hard: handlers await in the middle, the frontend drains concurrently, errors end the task
between two effects, room handles are live so that several membership changes coalesce.
Correct: the frontend's order replays to the service's vector; a room is shown exactly if it
has a timeline, up to updates under way; moving a room never costs it its timeline.

**Joined room registry** (`room/joined_room.rs`). State: `ALL_JOINED_ROOMS`, a
`JoinedRoomDetails` (timeline, subscriber tasks, typing and receipt subscriptions) per joined
room. Operations: `add_new_room`, `update_room`, `remove_room`, `clear_all_rooms`,
`insert_room_details`, the take/return of timeline endpoints. Hard: order of insertion and
announcement; building a timeline can fail.

**Rooms list** (`room/rooms_list.rs`). State: the order, the maps of joined and invited
rooms, three displayed lists, status, filter. Operations: one per `RoomsListUpdate`, the sort at
the end of a drain, the change of the active room. Hard: displayed lists are maintained
incrementally and regenerated at other times; the status is written by many.
Correct: displayed lists, maps and count agree; nothing is lost or shown twice.

**UI signalling** (`init/singletons.rs` broadcaster, `utils.rs` `debounce_broadcast`). State: a
broadcast ring of 16, the debounced last signal, an mpsc of 1. Hard: the timer restarts
with each signal, receivers lag. Correct: after the last update the drain runs once more.

**Request worker** (`init/workers.rs`). One handler per `MatrixRequest`; most spawn a task.
Hard: the room may be removed while a task works; duplicate subscriptions; a paginator that
is cancelled or answered twice. Correct: at most one typing/receipt subscription per room, each
can be ended; pagination status ends in Idle or Failed.

**Room screens** (`room/room_screen.rs`, `rooms_list.rs` 706-759, `events/timeline.rs`
272-292). Selecting a room kills the old screen task with a oneshot and starts a new one,
which takes the timeline's endpoints; the old one puts them back when it ends. Hard: both
run concurrently. Correct: the active room's screen gets its endpoints, nobody waits for ever.

**Timelines** (`events/timeline.rs`). One task per timeline replays the SDK's diffs and sends whole
lists; pagination tasks write to the same channel. Hard: diffs come in batches, two senders, a screen
that comes and goes. Correct: what is sent replays to the SDK's timeline; loading ends.

**Session, login, OAuth** (`init/session.rs`, `init/login.rs`, `init/oauth.rs`, `stores/`).
State: stored session, temporary client and its session under two locks, once-cells.
Hard: a homeserver corrected while a login is under way, tokens refreshed while they are saved,
blocking waits on runtime threads, a crash between any two of these. Correct: a login shown to the user is
one the next start finds; whoever waits is woken.

**User profiles** (`user/user_profile.rs`). A cache of Requested/Loaded entries for each thread,
filled from a queue. Operations: look up and request, fetch, apply an update. Hard: a fetch that
fails, answers out of order, tasks that move between threads. Correct: every caller is answered, no
membership is forgotten.

**Member lists** (the expiry map of `init/singletons.rs`, `events/handlers.rs`, four requests of
`init/workers.rs`). State: the map of rooms whose members changed, with the time each has been there.
Operations: insert, tick, fetch, send. Hard: the ticker looks under the lock and acts without it; each
fetch is a task. Correct: a change of the members of the room on display is fetched.

**Device verification** (`events/emoji_verification.rs`). State: per verification an SDK machine, and
one receiver of the user's answers behind a lock. Hard: both sides may cancel at any time, answers carry no
name. Correct: the caller hears one outcome; an answer is used for what was compared.

**Event handlers and notifications** (`events/handlers.rs`, `room/notifications.rs`), **room filter**
(`room/room_filter.rs`, a pure predicate), **backup** (`account/backup.rs`), **commands**
(`commands.rs`), **models and serialisation** (`models/`, `room/frontend_events/`,
`events/event_preview.rs`): see `PROJECT.json`.

The hazards, each at its line with the properties that watch it, are in `PROJECT.json`.

## 2. The modules

| module | models |
|---|---|
| `RoomUpdates` | room infos, `VecDiff`, `RoomsListUpdate`, `PENDING_ROOM_UPDATES` |
| `RoomListSync` | the sync task and the registry: `init/sync.rs`, `room/joined_room.rs` |
| `RoomsList` | `handle_rooms_list_updates` and the wake-up of `ui_worker`: `room/rooms_list.rs` |
| `RoomListPipeline` | the two composed, with the other producers of the queue; all properties |
| `RoomScreens` | the screens of rooms and threads, the timelines they hand to each other, and the requests they wait for: `room/room_screen.rs`, `room/rooms_list.rs` 706-759, parts of `init/workers.rs` |
| `DrainedQueue` | abstract: a queue whose consumer rests only when it is empty |
| `UiSignals` | broadcast, debounce, mpsc and the two consumers: `init/singletons.rs`, `utils.rs`, the loops of `init/workers.rs` and `room/room_screen.rs` |
| `TimelineFeed` | a timeline's items from the SDK to its screen: `events/timeline.rs`, `PaginateTimeline` of `init/workers.rs`, `process_timeline_updates` |
| `Login` | start-up, login, restoration and token saving over crashes: `lib.rs`, `init/session.rs`, `init/login.rs`, `init/oauth.rs`, `commands.rs` |
| `UserProfiles` | the profile caches and their requests: `user/user_profile.rs`, `init/workers.rs`, `commands.rs` |
| `RoomMembers` | the expiry map, member lists and the requests that change who is in a room: `init/singletons.rs`, `events/handlers.rs`, `init/workers.rs` |
| `DeviceVerification` | `events/emoji_verification.rs` |
| `MC*` | instances for TLC |
| `RoomListPipelineProofs` | the theorems about the pipeline, and what the operators on sequences return (proofs) |
| `RoomScreensOwnership` | the types of the screens, the owner of a receiver, thread timelines (proofs) |
| `UiSignalsProofs`, `TimelineFeedProofs`, `LoginProofs`, `UserProfilesProofs`, `RoomMembersProofs`, `DeviceVerificationProofs` | the proofs of section 5 about these modules |

Two modules implement `DrainedQueue`. `UiSignals` maps it to the count of pending updates and to
`ui_worker` being at them, with everything between producer and consumer inside; `RoomListPipeline` maps it to the
queue with its real updates, and has of the signals only `Wake`. The first shows the second's fairness.

### Correspondence

*Infos.* Of the fields of `RoomListServiceRoomInfo` three are kept, one for each way the code
treats a field: `name` (updated for joined and invited rooms), `avatar` (an Option that is
only sent when it is Some, and only applied to joined rooms; topic, tags, unread counts,
latest event are handled alike) and `direct` (moves a room between lists). `UpdateRoomAvatar`
stands for all the updates that overwrite one field of a joined room.

*Service.* `svc` is the SDK's vector as of the diffs handed over. Its diffs are
enumerated with indices in range and distinct rooms, as `eyeball_im` guarantees. Live room
handles are modelled by choosing what `from_room` reads anew for each diff, from `Observable`.

*Granularity.* `all_known_rooms` is private to the task, so a handler updates it in the step that
takes the diff. What others can see, `ALL_JOINED_ROOMS` and the queue, changes by one effect per
step: `todo` is the list of effects the handler has yet to perform, in the code's order. So
every interleaving of a handler with the drain is explored. The loops of Reset, Truncate
and Append are phases; the futures of `join_all` finish in any order, each performing its two
effects without an await in between. Where a handler checks a bound that the service
guarantees (`BUG: room list diff: ... out of bounds`), the branch is not modelled: it is proved
unreachable (section 5).

*Failures.* Building a timeline may fail (`built`): during Append and Reset the error is logged
and the room stays in `all_known_rooms`; elsewhere `?` ends the task, after the effects already
performed. The stream may end at any time. The failed task runs no further; the monitor
enqueues an error status.

*Frontend.* Each update of the drain is an action that pops it and does everything its arm
does, including the recount of the status. `EndDrain` is the empty pop with the final sort, by
a timestamp that is not modelled: any order. `Wake` is the arrival of a debounced `RefreshUI`.

*Screens.* `RoomScreens` is independent of the pipeline: the sync task is there only as what inserts,
replaces and removes the details of a room (`UpdateRoom` inserts over existing details when a
room goes Joined, Knocked, Joined). A timeline is a number, given when it is built; the number stands
for its subscriber and its endpoints. Each lock section of a screen is a step: `RestoreState`
(`TIMELINE_STATES.remove`), `ShowTimeline` (`take_timeline_endpoints`, or the request for a thread),
`ThreadAnswered` (the end of `block_on`), `ShowThread` (the second take), `EndScreen` (`save_state`),
`Unsubscribe` (the rest of `hide_timeline`). `screens` keeps all screens ever started, in order; only
the last may be without a kill signal. `requests` is the queue of `async_worker`, restricted to the
two requests that change this state. A screen in `block_on` holds one of `RuntimeThreads`; every other
step needs a free one. Typing notices are not in it; pagination and member lists are in `TimelineFeed`
and `RoomMembers`.

*Signals.* A `RefreshUI` carries nothing, so that a broadcast receiver is the number of messages it has not
read, and `Capacity + 1` means `Lagged`. Queues are lengths. The debounce is `last_item`, whether its sleep is over, and
whether it awaits `tx.send`; a drop of its future at each iteration of the `select!` restarts the sleep.
`ui_worker` takes the rooms, the profiles and the toasts in turn and may be passed by an update at each. The
screen on display looks at its channel when its receiver yields, and a restored one after the answer to a request that
`show_timeline` submits (`ServeRequest`); a request that is taken when the room is gone is skipped (`SkipRequest`), though a saved
screen is restored all the same. Three kinds of updates are sent to a timeline without a `RefreshUI`: `FirstUpdate` (`timeline.rs` 335), and the user's
own read receipts with the count of unread messages (`workers.rs` 692-705). `SendSilently` stands for them, and `silent` says that some are waiting.

*Timeline.* The SDK changes `sdkItems` and puts the diff into `stream`; the subscriber takes all it finds as one
batch (`NewItems`), applies each as its `VectorDiff` arm does, and sends the list with `clear_cache`, for which
the first changed index is followed. Items are identities; whether one is virtual is all that is known of it.
Each is in the timeline once, as the SDK has it, and an edit sets an item to itself.
Pagination tasks go through `PaginationRunning`, the SDK's work and `PaginationIdle` or an error, each a step.
`RoomLeaves` drops the room's details: the subscriber is aborted, tasks at work go on, requests not yet taken are skipped.
`tl` is the part of `TimelineUiState` that these updates write; it stays when the screen is hidden.

*Login.* Each lock section is a step: the client and its session are stored one after the other and read one
after the other. `std` waits (`LOGIN_STORE_READY.wait`, `CLIENT.wait`, the Condvar) hold a thread of the
runtime, an `await` does not. `Restart` stops the process anywhere and starts it again: the statics are gone, what the adapter stored and what
homeservers issued stays. A session is abstracted to the store it belongs to, the user it is of and
its token.

*Profiles.* One user; a profile is its version. There is a cache per thread because it is a `thread_local!`: a
call looks into that of the thread it runs on, `ui_worker` applies an update on the thread it is polled on.

*Members.* The members of a room are their version in the SDK's store. The ticker is two steps: it takes
the rooms whose time is over under the lock, then submits a request for each. `attempted` is a history variable, the newest
version that any fetch has read.

*Verification.* The SDK's machines of the request and of the SAS exchange are one phase, changed by the other
device at any time. Each call of the SDK that is awaited is a step and may fail, and the start of a stream (`SubscribeRequest`, `FollowSas`) is one of its own:
a stream yields only what is new after it began, and the latest state, so that a task may miss one that came before or is left again soon. The tasks that wait for
the user's answer queue at a fair mutex for the only receiver. `overlapped` and `mistaken` are history variables.

## 3. The runs

| run | instance | shows |
|---|---|---|
| `rooms_order` | 2 rooms, all 11 kinds of diff, 3 diffs, joined (direct or not) or left | `JoinedRoomHasDetails`, `JoinedConvergesToDetails`, `OrderConvergesToService`, `ResetFindsNoDetails`, `DisplayedListsAreSubsets`, `TeardownOnlyAfterDeparture` |
| `rooms_membership` | 1 room; memberships, flag, name and avatar, coalesced in any way | `FrontendMatchesKnown`, `InvitesDisplayedOnce`, `JoinedRoomsVisible` |
| `rooms_commands` | 2 rooms, filter and loading states interleaved | `StatusCountsRooms` |
| `rooms_liveness` | fair scheduling | `GhostRoomLeaves`, `TimelineIsShown`, `PendingUpdatesAreDrained` |
| `screens_handoff` | a room and a thread, 4 screens, details inserted twice, 3 runtime threads | `OneHolder`, `ReceiverIsKept` |
| `screens_threads` | 3 screens, details inserted once, fair scheduling | `ThreadBuiltOnce`, `ShownTimelineStays`, `ThreadIsAnswered`, `KilledScreenEnds` |
| `ui_signals` | 2 producers, rooms list and timeline, a ring of 1, silent updates, a room that may go | `NoLostWakeup`, `ScreenIsWoken`, `RoomUpdatesAreDrained` |
| `timeline_feed` | a timeline of a day divider and a message, all kinds of diff in batches of up to 2, a pagination task, a screen hidden and shown again, a room that may go | `TypeOK`, `ListsReplay`, `ScreenHears`, `LoadingEnds` |
| `login` | 2 homeservers, 2 starts, 2 tokens, 4 runtime threads | `LoginFindsSession`, `LoginIsPersisted`, `HomeserverReachesMonitor`, `RefreshIsSaved` |
| `profiles` | 3 calls on 2 threads, 2 versions of the profile | `TypeOK`, `SenderIsKept`, `CallersAreAnswered`, `MembershipsAreKept` |
| `room_members` | 2 rooms, 2 worker tasks, 2 changes, a command of the user | `ChangeIsUnderway`, `ChangesAreFetched` |
| `verification` | 2 verifications that either side may ask for, every call may fail | `TypeOK`, `OutcomeIsReportedOnce`, `ResponsesAreMatched`, `VerifyDeviceReturns` |

Each module's `TypeOK` is either in a run or, where section 5 proves it for every value of the constants, not repeated
there.

*Bounds.* `MaxDiffs` bounds the number of diffs: three suffice for a vector of two rooms to be
filled and then changed by any diff. `MaxBacklog` holds a
diff back while more updates are pending: the queue still grows by all the updates of a handler,
so a handler always meets updates of the one before. `MaxCommands` bounds the commands of
other producers. Rooms do not interact except through positions, for which two are enough (front,
back, between). `rooms_order` and others use the symmetry of rooms; the liveness run does not.

`MaxSelections` bounds the screens: with a room and a thread they alternate, so that four give each
kind two screens, the old one still ending; with three there is one old screen of each kind and a new one.
`MaxTimelines` is the number of timelines ever built, `MaxJoins` that after which no more details come:
two joins and one thread timeline are the smallest case in which a timeline is out of date. In
`screens_threads` `MaxJoins` is 1 on purpose: `ThreadBuiltOnce` is false otherwise (section 4).

`Capacity` is 16 in the code; with 1 a receiver reads a message, and lags behind the second of two.
`MaxWaiting` holds a producer back from a queue that is not empty, which makes a lost wake-up last: nothing else would wake
the consumer. It does not hold back the answer to a restored screen's request, and a screen is restored while one update is waiting.
Toasts are not pushed in the run; that their wake-ups are not lost rests on the theorem `WakeupsAreNotLost`.
In `timeline_feed` batches are of up to two diffs, a new diff being held back while more
updates wait (`MaxDiffs`). Of the two items one is virtual, so that the rule about virtual items applies; since the items differ, a wrong order or value shows as much as a
wrong length, and with lengths up to two every index has a neighbour.
In `login` a second homeserver can be chosen at any step of the login with the first, and the second start finds what any crash
of the first has left. In `profiles` one caller finds the cache of its thread vacant, one requested, one loaded;
another thread has its own. In `room_members` one room is on display while the other shares the ticker and the worker; two tasks
can overtake each other. In `verification` two comparisons can overlap in either order and in any direction.

*Deadlock* is not checked: a session whose sync task has ended and whose queue is empty
has really stopped, until the user restarts the application; the other systems rest when nobody asks them for
anything and the bounds are reached.

*Fairness.* In the pipeline (`rooms_liveness`), tokio keeps polling a ready task: weak fairness of
`Handling` (the handler that has taken a diff goes on) and of `UiNext` (the drain goes on, and the
worker wakes while updates are pending). Nothing is assumed of the service or of timelines being built. That `Wake` happens
is what `RoomUpdatesAreDrained` shows: the signals make of the same queue a `DrainedQueue`.

In `UiSignals` `Fairness` is the runtime's: weak for steps that stay possible, strong for branches of a
`select!`, between which tokio chooses at random. `ProducersPause` are assumptions about the rest of the program that the
code does not enforce: every so often no signal comes for the 200 ms of the debounce (its sleep restarts with each message,
`utils.rs` 188), the debounce is not lapped for ever, and a queue that is emptied again and again is
found empty at last. The safety properties need none of it, and nothing is assumed of
the screen: what is checked of it is safety.

In `RoomScreens` `Fairness` is weak fairness of each screen task, of `async_worker` and of the
tasks that build timelines: tokio polls a ready task when it has a thread, and the SDK's `build()`
returns, with a timeline or an error. Nothing is assumed of the user, the server or the sync
task. `screens_threads` gives the runtime one thread more than screens of its instance can wait: without it
the results are false (section 4).

In `Login` the tasks that have a thread go on, the SDK's builder returns and the adapter's store gets ready; nothing is assumed of the user
or of logins. `Threads` is 4: as soon as it is not more than the monitor, the saver, the
commands that wait and the task that wakes them need, start-up deadlocks. In `UserProfiles` only the worker and the fetches are
fair (the SDK's requests time out); that `ui_worker` ever drains the updates is not assumed. In `RoomMembers` handlers, ticker,
worker and the screen are fair, and time passes. In `DeviceVerification` the three kinds of tasks are; users and other devices need not do anything.

Each property has a mutant in `PROJECT.json`: a plausible bug of the code under which TLC
finds the property violated in the same run. The mutated definitions stand beside the
originals, marked *Mutant*.

## 4. Where comments and code disagree

The modules state what the comments and documents of the repository say, also where it is not so. These definitions are in
no run. To see one violated, put it in the place of the properties of the run named, with the constants
changed as given.

Rooms list (`RoomListPipeline`):

* `DisplayedListsAreSubsets` (`rooms_order` shows it for rooms joined or left, section 5 for rooms whose leaves are all seen;
  violated in `rooms_membership`):
  `rooms_list.rs` 243 calls the displayed direct rooms a subset of the joined ones determined by `is_direct`. A room that goes
  Joined, Knocked, Joined with another flag in between is replaced in the map and stays in the old list.
* `FailureIsDisplayed` (`rooms_order`): `rooms_list.rs` 256 calls the status the latest message. The sort at the end of
  the drain overwrites a status popped in that drain, also the report that sync has failed.
* `InvitedRoomsAreInvites` (`rooms_membership`): `rooms_list.rs` 213. Joined, Invited (the leave between them
  coalesced), Left: the room is in both maps, only the joined entry is removed, the invite stays.
* `InvitedAvatarIsUpdated` (`rooms_membership`): `joined_room.rs` 363 counts the avatar among the data of any
  room; the update's handler looks only at joined rooms.
* `FilterIsApplied` (`rooms_commands`): `rooms_list.rs` 687 says the filter is applied at the end of the
  drain. It is stored, but the lists are regenerated only when the keywords are empty.

Screens (`RoomScreens`; two rooms means `Room = {r1, r2}`, `Thread = {}`, `RoomOf <- NoThreads`):

* `SelectedRoomIsShown` (`screens_handoff` with two rooms): `room_screen.rs` 54 says that a state is always returned so that
  another screen can show the room. A screen looks for it once; after A, B, A in quick succession it looks before the
  first screen has returned it, and stays empty.
* `ShownTimelineIsTheRooms` (`screens_handoff` with two rooms, `MaxSelections = 3`, `MaxTimelines = 2`, `MaxJoins = 2`):
  `timeline.rs` 181 calls `update_receiver` the receiver for updates of the room. After a room is left and joined again its screen, or
  its saved state, still has the receiver of the former timeline.
* `UiWorkerSurvives` (`screens_threads`): `rooms_list.rs` 722 expects the last screen to be there for its signal. It is not when
  the room went away between the building of its thread timeline and the taking of it
  (`room_screen.rs` 379 panics), and `ui_worker` panics too.
* `ThreadIsAnswered` (`screens_threads` with `RuntimeThreads = 2` and two threads of the room): `room_screen.rs` 367 waits for the
  thread timeline, and holds a runtime thread while it does; with as many waiting screens as threads nothing runs any more.
* `HiddenRoomsAreUnsubscribed` (`screens_handoff`): `room_screen.rs` 488 unsubscribes from receipts when a
  timeline is hidden. If the next screen subscribes first, the handle of the former task is
  overwritten (`workers.rs` 723) and the task runs on.
* `ThreadBuiltOnce` (`screens_handoff`): `joined_room.rs` 45 says that `pending_thread_timelines` avoids
  duplicate work. It is emptied when the details are replaced, while the task that builds goes on.

Signals (`UiSignals`):

* `PendingUpdatesAreProcessed` (`ui_signals`): `room_screen.rs` 465-466 says that a restored screen proceeds to processing pending background updates.
  It does so only when signalled. Updates that nobody signals wait for whatever signal is next; and once the room is gone the request that would bring a signal
  is skipped, so that what was pending when the screen was hidden stays pending.
* `ProfileUpdatesAreSignalled` (`ui_signals` with `Pushed` including `"profiles"`): `user_profile.rs` 40. The update is pushed without a signal.

Timeline (`TimelineFeed`, all in `timeline_feed`):

* `FirstUpdateIsFirst`: `timeline.rs` 78. The members, or a pagination, are sent before the subscriber has run.
* `FullyPaginatedIsTrue`: `timeline.rs` 163-168. The answer of a pagination is sent after the timeline was cleared, and overwrites the
  reset.
* `ShownRoomIsLoaded`: `room_screen.rs` 50. A room that is shown again starts as not loaded, and nothing loads it until its timeline changes.
* `EmptyTimelineIsPaginated`: `room_screen.rs` 122-126 paginates a timeline that is cleared, to have something to show. A timeline that
  is empty when its pagination fails stays so.

Login (`Login`, both in `login`):

* `ClientIsLoggedIn`: `singletons.rs` 59. A login waits for its password while the user chooses another homeserver: `CLIENT` is set to
  a temporary client that has not logged in.
* `StoredTokenIsCurrent`: README 60 of the repository. The saver subscribes after the login, and anew after each save: it misses a refresh in between.

Profiles (`UserProfiles`, both in `profiles`):

* `RequestedIsWaitedFor`: `user_profile.rs` 28. A fetch that failed leaves its entry requested for ever.
* `LoadedIsFromServer`: `user_profile.rs` 30. A membership alone makes an entry loaded, without a name.

Members (`RoomMembers`) and verification (`DeviceVerification`):

* `ListIsCurrent` (`room_members`): of two fetches the one that read first may send last.
* `VerifyDeviceAlwaysReturns` (`verification`): `verify_device` subscribes to the request after it was sent (`emoji_verification.rs` 174). A
  verification that is over by then yields nothing more, and `verify_device` waits until the user cancels.
* `EmojisAreShown` (`verification`): the handler of a SAS exchange subscribes after it has accepted (line 75). Keys exchanged by then are not heard
  of, and the emojis are not shown.
* `CancelledIsTrue` (`verification`): a verification cancelled when it is done is reported cancelled.
* `WaitersEnd` (`verification`): the task that waits for a comparison stays when the verification is cancelled, at the head of the
  queue for the receiver, and takes the answer meant for the next one.

## 5. What is proved

For every set of rooms (finite), every `Observable`, every set of diff kinds and every bound; likewise for every set of
screens, threads, tasks, paginations, callers, homeservers and verifications, every capacity and number of threads:

### The room list pipeline (`RoomListPipelineProofs`)

**`TypeCorrect`: `Spec => []TypeOK`.** The invariant is `IInv == TypeOK /\ KnownTracksService`.
`TypeOK` alone is not inductive: `RemoveAt(known, i)` is an entry sequence only when `i` is in
range, the service guarantees that for *its* vector, and `known` lags behind it in the
loops. `KnownTracksService` relates the two lengths in every phase (equal between handlers, the
rest in `incoming` while adding, at least as long while truncating). It also shows that the
branches reporting an index out of bounds are unreachable as long as the service's diffs are
right. The diffs that concern one room are cases of one description (`OneRoomDiffDoes`, and with one entry per room `OneRoomChanges`), which
serves the other invariants as well; every other action and every helper of the code (`AddNewRoom`, `UpdateRoom`, `ApplyOrder`, ...) has a lemma of its own.

**`JoinedRoomsBacked`: `Spec => []JoinedRoomHasDetails`.** The invariant is `IInv /\ BackingCore`:
every room shown as joined is *settled* (it has details, or a removal is queued or about to be);
every announcement in the queue is settled by something *behind* it; and the effects still to be
performed are *orderly* (each announcement directly follows the insertion of the details, each
teardown is followed by a removal). Orderliness is proved once per helper and closed under
concatenation; then a step of the sync task either starts an orderly list and touches nothing
shared, or performs its head; a step of the drain pops an update and does what it says. The
ordering of insertion and announcement in `add_new_room`, of teardown and announcement in
`remove_room`, Clear and Reset is all that is needed: no lock is held across both.

**`JoinedRoomsConverge`: `Spec => []JoinedConvergesToDetails`.** The property speaks of the time between two handlers; the
invariant, `Converging`, of any: what `ALL_JOINED_ROOMS` will be after the effects in `todo`
(`DetailsAfter`) is what the frontend will show after the queue and then `todo` (`ShownAfter`). Membership is decided by the
last element that matters (`Outcome`), so that one set of lemmas about `Outcome` (of an empty sequence, a concatenation, a
tail, an append) serves details, queue and effects. Each helper's list of effects is *balanced*: it changes both sides alike.

**`ResetEmptiesDetails`: `Spec => []ResetFindsNoDetails`** and **`DepartedRoomsAreTornDown`: `Spec => TeardownOnlyAfterDeparture`.** Both
follow from `KnownInv`, the room-by-room form of `KnownTracksService`: `all_known_rooms` has the rooms of the service's vector in
its order, each once, through the phases of a handler (a prefix of it while adding, an extension of it while truncating); no
effect yet to be performed tears down a room listed as joined; and every room that has details, or will have after
`todo`, is known or already added of those that come in.

**`OrderIsReplayed`: `Spec => []OrderConvergesToService`.** A fold over the queue is first shown to compute what it should: `Leads(order,
pending, mid)` is a history of intermediate orders, one for each pending update, and a minimal-counterexample argument over
the library's well-founded order on `Nat` gives the fold's value from it. `OrderInv` then says that the pending updates lead
to some order `mid`, and the effects in `todo` from `mid` to the `Destination` of the phase (`all_known_rooms`, or anything that a Reset
will clear). Popping and applying an update shortens the history at its front, an effect lengthens it at its end; each handler shows that
its order diffs do to the ids of `all_known_rooms` what the handler did to the vector.

**`InvitesAreDisplayedOnce`, `JoinedRoomsStayVisible`, `StatusIsCurrent`** (`InvitesDisplayedOnce`, `JoinedRoomsVisible`,
`StatusCountsRooms`). Each is inductive with the types and, for the first, with the displayed list having no room twice; what carries them
is what `RemoveFirst`, `Append` and `SetToSeqs` do to the sets of rooms in a list. Nothing is needed of the sync task: they hold
for any sequence of updates.

**`PendingQueueIsImplemented`: `Spec => PendingQueue!Safety`.** Each handler's enqueue is a `Push`, each pop a `Take`, `EndDrain` the `Rest`
of the abstract queue; all other steps stutter.

**`FrontendAgreesWithKnown`: `Spec => []FrontendMatchesKnown`.** A *fact* is what an entry of `all_known_rooms` makes true of a frontend: that a
room it shows as joined has this name, this avatar or this `is_direct`, or that the room is an invite. An update confirms a
fact or refutes it, and as for the details the last update that does either decides (`Outcome`). `FactsInv` says of every entry the handler has dealt
with that the facts due to it hold once the queue is drained and the effects in `todo` are performed, unless it is of a joined room
without details, and that a room that was left or banned from will have no details. A helper's effects confirm the facts due to the entry it
handles and are about no other room; since `all_known_rooms` has each room once (`KnownInv`), the facts of the other entries stay. That a joined room is
shown when the facts say how comes from `Converging`. The removed avatar is the exception in the invariant as it is in the
property: `update_room` sends none.

**`DisplayedRoomsAreJoined`: `Spec /\ [][LeavesSeen]_vars => []DisplayedListsAreSubsets`**, where `LeavesSeen` says that a known room that was joined is
next seen joined, left or banned from, not invited or knocked at. The hypothesis is needed (section 4): it is the SDK that may coalesce a leave
with what follows it. `AddJoinedRoom` of a room that is shown as joined replaces its entry and leaves it in its list, so the lists are right (`Listed`)
if that never happens (`FreshInv`): between two announcements of a room in the queue, and before the first if it is shown, there is a removal, and what the handler
has yet to announce will not be shown by then. A handler that starts has `details` for what will be shown (`Converging`); it announces a room that is new to
the vector, which has no details (`KnownInv`), or one that was known in another state than Joined, which has none either: that is
`FactsInv` again, of all states but Joined instead of the two departed ones, and preserved only under `LeavesSeen`.
`ListsStep`, which says what each action of the RoomsList does to the two lists, also serves `JoinedRoomsStayVisible`.

### Screens, signals, timelines

**`ScreensTypeCorrect`: `Spec => []TypeOK`** of `RoomScreens`, with `HandlesHaveTasks` (a handle
in `subscribers_own_user_read_receipts` has a running task) to show that the count of tasks stays a number.

**`ReceiverHasOneHolder`: `Spec => []OneHolder`.** The update receiver of a timeline is never in two of the
details, the saved states and the screens. The invariant is `Own == OnlyBuilt /\ OneHolder`: receivers
are only of timelines already built, so that a new timeline's is nobody's. Three steps hand a
receiver on (`RestoreState`, `TakeEndpoints`, `SaveState`), each within one lock section that removes what
it takes; for all others one lemma (`OwnDetails`) suffices. Nothing is needed of the order in which old
and new screen run: that they overlap can leave a screen empty (section 4), never two with one receiver.

**`ReceiverStays`: `Spec => []ReceiverIsKept`.** The converse: a receiver is not lost either. `Kept` alone is not inductive, since removing one
timeline's endpoints could take those of another; `Distinct` says that no two rooms or threads have the same timeline.

**`ThreadsAreBuiltOnce`, `ShownTimelinesStay`** (`ThreadBuiltOnce`, `ShownTimelineStays`), *under `MaxJoins <= 1`*: as long as the
details of a room are inserted once. The hypothesis is needed: section 4 shows what happens without it. `OnceInv` adds that a thread being built for a room that
has details is in its `pending_thread_timelines`, and that nothing is being built before the details are there.

**`SignalsTypeCorrect`, `WakeupsAreNotLost`, `ScreensAreWoken`** of `UiSignals`: its `TypeOK`, `NoLostWakeup` and `ScreenIsWoken`.
`NoLostWakeup` and `TypeOK` are inductive together. What carries the proof is that a broadcast leaves every subscribed receiver with a message
(`BroadcastReaches`: a full ring loses the oldest, never all), that `Lagged` is followed by the messages still there, and that the
debounce forgets `last_item` only when it sends. `ScreenIsWoken` is a claim about updates that some task signals, while the room is there; with these two
conditions it is inductive by itself: a restored screen has a request under way, which `SkipRequest` can end only when the room is gone.

**`DrainedQueueIsImplemented`: `Spec => RoomUpdatesQueue!Safety`.** Initial states map to initial states, `Push` of a rooms list update to `Push`,
the worker's steps at that queue to `Wake`, `Take` and `Rest`, every other step to a stutter. The fairness part of both refinements
(`RoomUpdatesAreDrained`, `PendingUpdatesAreDrained`) is model-checked.

**`FeedTypeCorrect`, `ListsAreReplayed`** (`TypeOK`, `ListsReplay` of `TimelineFeed`) are one invariant: the subscriber's list is well-typed only because each diff
in `stream` is of the vector it will be applied to. `Replays` states this as a history of vectors, from the subscriber's copy to the SDK's; one
lemma per `VectorDiff` arm shows that the arm does to the copy what the SDK did to its own. `NewestInv` adds that the last list in the channel, or else the one on display, is the copy.

**`UpdatesAreHeard`, `LoadingIsEnded`** (`ScreenHears`, `LoadingEnds`). `LoadingInv` follows every `PaginationRunning`, in the channel or already
applied: an update that loads the room is *behind* it, or somebody is under way who will send one. That an answer is always behind
its `PaginationRunning` is what a pagination, whose two sends are steps of one task, guarantees; that another's answer may come in between does no harm. Both are claims about a room
that is there: when it goes, the subscriber is aborted and requests are skipped.

### Login, profiles, members, verification

**`LoginTypeCorrect`, `LoginsFindTheirSession`, `LoginsArePersisted`** of `Login`. The invariant is `IInv == TypeOK /\ ClientsAreThere /\
SessionIsThere`. `ClientsAreThere`: whoever sees a temporary client finds a session, since the session is stored first and never taken away.
`SessionIsThere` follows the session to be persisted through the monitor's steps: it is a full one, except after a wrong URL, when an empty one
is persisted, nobody is logged in and the monitor stops before it shows a login. A restart establishes both anew from what is stored.

**`ProfilesTypeCorrect`, `MembershipsStay`, `SendersAreKept`** of `UserProfiles` (`TypeOK`, `MembershipsAreKept`, `SenderIsKept`). `TypeOK` needs that
a task which has fetched a profile has one to answer with (`FetchedProfiles`). `MembershipsAreKept` is a step property: an update applied to a loaded
entry only adds to its rooms. `SenderInv` counts: a waiting caller has its sender in exactly one request or exactly one task; a submitted request is the
last in the queue, the worker takes the first.

**`MembersTypeCorrect`, `ChangesAreUnderway`** of `RoomMembers`. `IInv` adds `VersionsAreChanges` and `ShownHasDetails`. The step from handler to map,
from map to ticker, from ticker to request and from request to task each hands a change on: what is taken from one place is in the next in the same step, or
`attempted` has caught up. A request is skipped only for a room without details, which is not on display as joined.

**`OutcomesAreReportedOnce`** of `DeviceVerification`, with `BegunOnce` (nothing is reported of a verification that `verify_device` has not begun, and it has no
state in the SDK until it is asked for): every
report of an outcome is the last step of its task. **`ResponsesMatch`**: `Spec => []ResponsesAreMatched`. `ComparedOnce` says that a
waiter exists only from the exchange of keys on, so that each verification is compared once; as long as comparisons did not overlap,
`OneComparison` says that at most one task compares, and that it alone is on the screen, in the queue and in the answer. `QueuedWait`
gives the rest of the case in which they did. **`VerificationTypeCorrect`**: `Spec => []TypeOK`, with `QInv`: the queue for the receiver has every waiting
task once, so that it is no longer than there are verifications.

### Assumptions, and what is only model-checked

The assumptions are those on the constants (`RoomAssumption`, `SyncAssumption`,
`ShownAssumption`, `PipelineAssumption`, `ScreensAssumption`, `SignalsAssumption`, `FeedAssumption`, `LoginAssumption`, `ProfilesAssumption`,
`MembersAssumption`, `VerificationAssumption`); TLC evaluates them in every run. They are what the constants mean: sets are
finite where code iterates over them, bounds are numbers, `None` is no value of its type, a channel has room for one message. The only theorems with a
hypothesis about behaviours or bounds beyond them are the two under `MaxJoins <= 1` and the one under `LeavesSeen`; section 4 says what happens without.

*Only model-checked*: liveness and the fairness part of the two refinements, which are out of the prover's reach. Every safety property of the runs
is stated by a theorem.

## 6. Not modelled, and what is left

*Not modelled.* The search for a target event in the timeline subscriber: no request of the library starts it. Typing notices,
power levels, tombstones, tags and unread counts: values that are read and passed on. The unread counts of a room are sent by
five handlers without a lock, so that an older value may be sent last; no comment promises more, and the next one corrects it.
Requests of `async_worker` and commands that make one call of the SDK and report its result. Conversions for the frontend, event previews
and serialisation (no state). The room filter: a pure predicate on texts, without effect on what is displayed (`FilterIsApplied`).
Key backup and recovery: straight-line calls of the SDK. `handle_sync_service_state` and the forwarding of the verification and recovery
states: a value passed on. OS notifications.

*Left to do*: proofs of the liveness properties, which need rules for fairness and `ENABLED`; a model of the unread counts,
should their order ever be promised.
