---------------------------- MODULE TimelineFeed ----------------------------
(***************************************************************************)
(* The way of one timeline's items from the SDK to the room screen: the    *)
(* task timeline_subscriber_handler (events/timeline.rs) replays the SDK's *)
(* diffs and sends whole lists, pagination tasks (init/workers.rs) send    *)
(* their progress through the same channel, and the screen on display      *)
(* (room/room_screen.rs) applies what it receives when it is signalled.    *)
(*                                                                         *)
(* Backwards search for a target event is left out: nothing in the library *)
(* ever puts a request into the watch channel that would start it. The     *)
(* user's own read receipts, which nobody signals either, are left out. A  *)
(* RefreshUI is sent together with its update; UiSignals separates them.   *)
(***************************************************************************)
EXTENDS Integers, Sequences, SequencesExt

CONSTANTS
    Item,         \* timeline items
    Virtual,      \* those that are virtual, such as day dividers
    Pagination,   \* identities of pagination tasks
    MaxLength,    \* bound: of the SDK's timeline
    MaxDiffs,     \* bound: a new diff makes at most as many unseen diffs and updates
    MaxUpdates,   \* bound: updates in the channel
    MaxRequests   \* bound: pagination requests not yet taken

ASSUME FeedAssumption ==
    /\ Virtual \subseteq Item
    /\ MaxLength \in Nat \ {0} /\ MaxDiffs \in Nat
    /\ MaxUpdates \in Nat /\ MaxRequests \in Nat

VARIABLES
    sdkItems,        \* the items of the SDK's timeline
    atStart,         \* whether the oldest event of the room is among them
    stream,          \* the diffs the subscriber has not seen
    subscriber,      \* "spawned", then "running", "aborted" when the room is gone
    timeline_items,  \* the subscriber's copy
    channel,         \* the TimelineUpdates sent and not received
    signalled,       \* whether a RefreshUI waits for the screen
    requests,        \* the number of PaginateTimeline requests submitted
    membersAsked,    \* whether a SyncRoomMemberList request is not yet answered
    task,            \* per pagination task, where it is
    screen,          \* where the room screen of the timeline is
    is_loaded,       \* "new" and "running" both stand for false
    tl,              \* its TimelineUiState, on display or saved
    continues        \* should_continue_backwards_pagination

sdkVars == <<sdkItems, atStart, stream>>
screenVars == <<screen, is_loaded, tl, continues>>
requestVars == <<requests, membersAsked, task>>
vars == <<sdkVars, subscriber, timeline_items, channel, signalled, requestVars, screenVars>>

Items == BoundedSeq(Item, MaxLength)

Update ==
    [kind : {"FirstUpdate"}, items : Items]
    \cup [kind : {"NewItems"}, items : Items, clear_cache : BOOLEAN]
    \cup [kind : {"PaginationRunning", "PaginationError", "RoomMembersSynced"}]
    \cup [kind : {"PaginationIdle"}, fully_paginated : BOOLEAN]

TypeOK ==
    /\ sdkItems \in Items /\ timeline_items \in Items
    /\ atStart \in BOOLEAN
    /\ Len(stream) <= MaxDiffs
    /\ subscriber \in {"spawned", "running", "aborted"}
    /\ channel \in Seq(Update)
    /\ signalled \in BOOLEAN
    /\ requests \in 0 .. MaxRequests /\ membersAsked \in BOOLEAN
    /\ task \in [Pagination -> {"none", "spawned", "paginating", "start", "more", "failed"}]
    /\ screen \in {"new", "hidden", "waiting", "processing"}
    /\ is_loaded \in {"new", "running", "loaded"}
    /\ tl \in [items : Items, fully_paginated : BOOLEAN]
    /\ continues \in BOOLEAN

Init ==
    /\ sdkItems \in {<<>>} \cup {<<i>> : i \in Item}
    /\ atStart = FALSE
    /\ stream = <<>>
    /\ subscriber = "spawned"
    /\ timeline_items = <<>>
    /\ channel = <<>>
    /\ signalled = FALSE
    /\ requests = 0 /\ membersAsked = FALSE
    /\ task = [p \in Pagination |-> "none"]
    /\ screen = "new"
    /\ is_loaded = "new"
    /\ tl = [items |-> <<>>, fully_paginated |-> FALSE]
    /\ continues = FALSE

Shown == screen \in {"waiting", "processing"}

(* Whether get_timeline_and_sender finds the timeline.                     *)
RoomIsThere == subscriber # "aborted"

(* The screen has a receiver of signals of its own while it is shown.      *)
Signal == signalled' = Shown

----------------------------------------------------------------------------
(* The SDK's timeline. A diff is recorded with its operation, an index,    *)
(* counted from zero as in the code, and values.                           *)

Diff(op, index, values) == [op |-> op, index |-> index, values |-> values]

(* The SDK gives every item an identity of its own: none is added to a     *)
(* list that has it. An edit sets an item to itself.                       *)
Diffs(items) ==
    LET n == Len(items)
        new == Item \ ToSet(items) IN
    UNION {
        {Diff("Reset", 0, <<i>>) : i \in Item},
        {Diff(op, 0, <<i>>) : op \in {"Append", "PushFront", "PushBack"}, i \in new},
        {Diff("Insert", k, <<i>>) : k \in 0 .. n, i \in new},
        {Diff("Set", k, <<i>>) : k \in 0 .. n - 1, i \in new},
        {Diff("Set", k, <<items[k + 1]>>) : k \in 0 .. n - 1},
        {Diff(op, 0, <<>>) : op \in IF n = 0 THEN {} ELSE {"PopFront", "PopBack", "Clear"}},
        {Diff("Remove", k, <<>>) : k \in 0 .. n - 1},
        {Diff("Truncate", k, <<>>) : k \in 0 .. n - 1}}

(* Mutant: an item pushed to the front is put at the back.                 *)
ApplyAtTheBack(items, d) ==
    CASE d.op \in {"Append", "PushBack", "PushFront"} -> items \o d.values
      [] d.op \in {"Clear", "Reset"} -> d.values
      [] d.op = "PopFront" -> Tail(items)
      [] d.op = "PopBack" -> Front(items)
      [] d.op = "Insert" -> InsertAt(items, d.index + 1, d.values[1])
      [] d.op = "Set" -> ReplaceAt(items, d.index + 1, d.values[1])
      [] d.op = "Remove" -> RemoveAt(items, d.index + 1)
      [] d.op = "Truncate" -> SubSeq(items, 1, d.index)

Apply(items, d) ==
    CASE d.op \in {"Append", "PushBack"} -> items \o d.values
      [] d.op \in {"Clear", "Reset"} -> d.values
      [] d.op = "PushFront" -> d.values \o items
      [] d.op = "PopFront" -> Tail(items)
      [] d.op = "PopBack" -> Front(items)
      [] d.op = "Insert" -> InsertAt(items, d.index + 1, d.values[1])
      [] d.op = "Set" -> ReplaceAt(items, d.index + 1, d.values[1])
      [] d.op = "Remove" -> RemoveAt(items, d.index + 1)
      [] d.op = "Truncate" -> SubSeq(items, 1, d.index)

(* What the SDK does to its own vector, of which the diff tells.           *)
VectorApply(items, d) ==
    CASE d.op \in {"Append", "PushBack"} -> items \o d.values
      [] d.op \in {"PushFront", "Insert"} ->
            SubSeq(items, 1, d.index) \o d.values \o SubSeq(items, d.index + 1, Len(items))
      [] d.op = "Set" -> [items EXCEPT ![d.index + 1] = d.values[1]]
      [] d.op \in {"PopFront", "Remove"} ->
            SubSeq(items, 1, d.index) \o SubSeq(items, d.index + 2, Len(items))
      [] d.op = "PopBack" -> SubSeq(items, 1, Len(items) - 1)
      [] d.op \in {"Truncate", "Clear", "Reset"} -> SubSeq(items, 1, d.index) \o d.values

(* Whether the oldest items go with a diff.                                *)
LosesStart(d) ==
    \/ d.op \in {"PopFront", "Clear", "Reset"}
    \/ d.op \in {"Remove", "Truncate"} /\ d.index = 0

(* The bound on what is not yet seen.                                      *)
MayChange == subscriber = "running" => Len(stream) + Len(channel) < MaxDiffs

(* A change that the subscriber, once subscribed, gets as a diff.          *)
SdkApplies(d) ==
    LET items == VectorApply(sdkItems, d) IN
    /\ Len(items) <= MaxLength
    /\ sdkItems' = items
    /\ stream' = IF subscriber = "running" THEN Append(stream, d) ELSE stream

(* New messages, edits, redactions, a gap in the sync, an ignored user.    *)
SdkChanges ==
    /\ RoomIsThere /\ MayChange
    /\ \E d \in Diffs(sdkItems) :
        /\ d.op # "PushFront"
        /\ SdkApplies(d)
        /\ atStart' = (atStart /\ ~LosesStart(d))
    /\ UNCHANGED <<subscriber, timeline_items, channel, signalled, requestVars, screenVars>>

----------------------------------------------------------------------------
(* timeline_subscriber_handler.                                            *)

(* timeline.subscribe().await and the FirstUpdate, which is not signalled. *)
Subscribe ==
    /\ subscriber = "spawned"
    /\ Len(channel) < MaxUpdates
    /\ subscriber' = "running"
    /\ timeline_items' = sdkItems
    /\ channel' = Append(channel, [kind |-> "FirstUpdate", items |-> sdkItems])
    /\ UNCHANGED <<sdkVars, signalled, requestVars, screenVars>>

(* JoinedRoomDetails is dropped: its subscriber is aborted, and no request *)
(* finds the timeline any more. Tasks that have found it go on. A room     *)
(* that is joined again gets another timeline, with a channel of its own.  *)
(* The items of this one are not followed any further.                     *)
RoomLeaves ==
    /\ RoomIsThere
    /\ subscriber' = "aborted"
    /\ sdkItems' = <<>> /\ timeline_items' = <<>> /\ stream' = <<>>
    /\ UNCHANGED <<atStart, channel, signalled, requestVars, screenVars>>

(* index_of_first_change starts at usize::MAX.                             *)
NoChange == MaxLength + 1

Least(a, b) == IF a < b THEN a ELSE b

(* The first index a diff changes, NoChange where the code leaves it.      *)
FirstChange(items, d) ==
    CASE d.op \in {"Append", "PushBack"} -> Len(items)
      [] d.op = "PopBack" -> Len(items) - 1
      [] d.op = "Set" -> d.index
      [] d.op = "Insert" /\ d.index > 0 -> d.index
      [] d.op \in {"Remove", "Truncate"} /\ d.index > 0 -> d.index - 1
      [] OTHER -> NoChange

(* Whether a diff alone asks for all items to be drawn again.              *)
ClearsCache(d) ==
    \/ d.op \in {"Clear", "PushFront", "PopFront", "Reset"}
    \/ d.op \in {"Insert", "Remove", "Truncate"} /\ d.index = 0

TakeDiff(batch, d) ==
    [items |-> Apply(batch.items, d),
     clear_cache |-> batch.clear_cache \/ ClearsCache(d),
     first |-> Least(batch.first, FirstChange(batch.items, d))]

Batch ==
    FoldLeft(TakeDiff, [items |-> timeline_items, clear_cache |-> FALSE, first |-> NoChange], stream)

(* A change right behind a virtual item at the front clears the cache too. *)
BehindVirtual(batch) ==
    batch.first = 1 /\ batch.items # <<>> /\ Head(batch.items) \in Virtual

(* Mutant: RefreshUI only if items were appended.                          *)
NewItemsQuietly ==
    LET batch == Batch
        clear == batch.clear_cache \/ BehindVirtual(batch) IN
    /\ subscriber = "running"
    /\ stream # <<>>
    /\ Len(channel) < MaxUpdates
    /\ stream' = <<>>
    /\ timeline_items' = batch.items
    /\ channel' = Append(channel, [kind |-> "NewItems", items |-> batch.items, clear_cache |-> clear])
    /\ IF Len(batch.items) > Len(timeline_items) THEN Signal ELSE UNCHANGED signalled
    /\ UNCHANGED <<sdkItems, atStart, subscriber, requestVars, screenVars>>

(* subscriber.next() yields every diff there is.                           *)
NewItems ==
    LET batch == Batch
        clear == batch.clear_cache \/ BehindVirtual(batch) IN
    /\ subscriber = "running"
    /\ stream # <<>>
    /\ Len(channel) < MaxUpdates
    /\ stream' = <<>>
    /\ timeline_items' = batch.items
    /\ channel' = Append(channel, [kind |-> "NewItems", items |-> batch.items, clear_cache |-> clear])
    /\ Signal
    /\ UNCHANGED <<sdkItems, atStart, subscriber, requestVars, screenVars>>

----------------------------------------------------------------------------
(* The pagination tasks that async_worker spawns.                          *)

(* Mutant: a request is served twice.                                      *)
SpawnPaginationTwice(p) ==
    /\ task[p] = "none"
    /\ requests' = requests - 1
    /\ task' = [task EXCEPT ![p] = "spawned"]
    /\ UNCHANGED <<sdkVars, subscriber, timeline_items, channel, signalled, membersAsked, screenVars>>

(* PaginateTimeline is taken from the queue.                               *)
SpawnPagination(p) ==
    /\ requests > 0 /\ RoomIsThere
    /\ task[p] = "none"
    /\ requests' = requests - 1
    /\ task' = [task EXCEPT ![p] = "spawned"]
    /\ UNCHANGED <<sdkVars, subscriber, timeline_items, channel, signalled, membersAsked, screenVars>>

(* It is skipped if the room is gone.                                      *)
SkipPagination ==
    /\ requests > 0 /\ ~RoomIsThere
    /\ requests' = requests - 1
    /\ UNCHANGED <<sdkVars, subscriber, timeline_items, channel, signalled, membersAsked, task, screenVars>>

Send(update) ==
    /\ Len(channel) < MaxUpdates
    /\ channel' = Append(channel, update)
    /\ Signal

RunPagination(p) ==
    /\ task[p] = "spawned"
    /\ task' = [task EXCEPT ![p] = "paginating"]
    /\ Send([kind |-> "PaginationRunning"])
    /\ UNCHANGED <<sdkVars, subscriber, timeline_items, requests, membersAsked, screenVars>>

(* The SDK inserts older items at the front, or behind a day divider.      *)
OlderDiffs ==
    LET new == Item \ ToSet(sdkItems) IN
    {Diff("PushFront", 0, <<i>>) : i \in new}
    \cup {Diff("Insert", 1, <<i>>) :
            i \in IF sdkItems # <<>> /\ Head(sdkItems) \in Virtual THEN new ELSE {}}

SdkGrows ==
    IF RoomIsThere THEN MayChange /\ \E d \in OlderDiffs : SdkApplies(d)
    ELSE UNCHANGED <<sdkItems, stream>>

(* timeline.paginate_backwards ends. It is taken from the SDK that it      *)
(* either adds an item or has reached the start.                           *)
Paginated(p) ==
    /\ task[p] = "paginating"
    /\ \/ /\ atStart
          /\ task' = [task EXCEPT ![p] = "start"]
          /\ UNCHANGED sdkVars
       \/ /\ ~atStart
          /\ task' = [task EXCEPT ![p] = "more"]
          /\ SdkGrows
          /\ UNCHANGED atStart
       \/ /\ ~atStart
          /\ task' = [task EXCEPT ![p] = "start"]
          /\ atStart' = TRUE
          /\ SdkGrows \/ UNCHANGED <<sdkItems, stream>>
       \/ /\ task' = [task EXCEPT ![p] = "failed"]
          /\ UNCHANGED sdkVars
    /\ UNCHANGED <<subscriber, timeline_items, channel, signalled, requests, membersAsked, screenVars>>

EndPagination(p) ==
    /\ task[p] \in {"start", "more", "failed"}
    /\ task' = [task EXCEPT ![p] = "none"]
    /\ Send(IF task[p] = "failed" THEN [kind |-> "PaginationError"]
            ELSE [kind |-> "PaginationIdle", fully_paginated |-> task[p] = "start"])
    /\ UNCHANGED <<sdkVars, subscriber, timeline_items, requests, membersAsked, screenVars>>

(* SyncRoomMemberList: a task has fetched the members, which it may still  *)
(* do if the room goes meanwhile ...                                       *)
SyncMembers ==
    /\ membersAsked
    /\ membersAsked' = FALSE
    /\ Send([kind |-> "RoomMembersSynced"])
    /\ UNCHANGED <<sdkVars, subscriber, timeline_items, requests, task, screenVars>>

(* ... but a request that is taken when the room is gone is skipped, and   *)
(* has neither update nor signal.                                          *)
SkipMembers ==
    /\ membersAsked /\ ~RoomIsThere
    /\ membersAsked' = FALSE
    /\ UNCHANGED <<sdkVars, subscriber, timeline_items, channel, signalled, requests, task, screenVars>>

(* The user scrolls to the top: the frontend submits a request.            *)
UserScrolls ==
    /\ Shown
    /\ requests < MaxRequests
    /\ requests' = requests + 1
    /\ UNCHANGED <<sdkVars, subscriber, timeline_items, channel, signalled, membersAsked, task, screenVars>>

----------------------------------------------------------------------------
(* The room screen.                                                        *)

(* show_timeline of the first screen takes the endpoints of the timeline,  *)
(* asks for a pagination and processes updates at once.                    *)
ShowFirst ==
    /\ screen = "new" /\ RoomIsThere
    /\ requests < MaxRequests
    /\ screen' = "processing"
    /\ requests' = requests + 1
    /\ membersAsked' = TRUE
    /\ UNCHANGED <<sdkVars, subscriber, timeline_items, channel, signalled, task, is_loaded, tl, continues>>

(* A later one restores the saved TimelineUiState, and only that, whether  *)
(* the room is there or not.                                               *)
ShowAgain ==
    /\ screen = "hidden"
    /\ screen' = "waiting"
    /\ is_loaded' = "new"
    /\ membersAsked' = TRUE
    /\ UNCHANGED <<sdkVars, subscriber, timeline_items, channel, signalled, requests, task, tl, continues>>

Hide ==
    /\ screen = "waiting"
    /\ screen' = "hidden"
    /\ signalled' = FALSE
    /\ UNCHANGED <<sdkVars, subscriber, timeline_items, channel, requestVars, is_loaded, tl, continues>>

ScreenRecv ==
    /\ screen = "waiting"
    /\ signalled
    /\ signalled' = FALSE
    /\ screen' = "processing"
    /\ UNCHANGED <<sdkVars, subscriber, timeline_items, channel, requestVars, is_loaded, tl, continues>>

(* process_timeline_updates takes an update and applies it.                *)
FirstUpdate ==
    /\ Head(channel).kind = "FirstUpdate"
    /\ tl' = [items |-> Head(channel).items, fully_paginated |-> FALSE]
    /\ is_loaded' = "loaded"
    /\ UNCHANGED continues

(* A timeline that is emptied under the user is paginated again.           *)
ItemsUpdate ==
    LET new == Head(channel) IN
    /\ new.kind = "NewItems"
    /\ continues' = (continues \/ (new.items = <<>> /\ tl.items # <<>>))
    /\ tl' = [items |-> new.items,
              fully_paginated |-> tl.fully_paginated /\ ~new.clear_cache]
    /\ is_loaded' = "loaded"

(* Mutant: the room stays loading after an error.                          *)
PaginationUpdateForgetful ==
    \/ /\ Head(channel).kind = "PaginationRunning"
       /\ is_loaded' = "running"
       /\ UNCHANGED <<tl, continues>>
    \/ /\ Head(channel).kind = "PaginationError"
       /\ UNCHANGED <<is_loaded, tl, continues>>
    \/ /\ Head(channel).kind = "PaginationIdle"
       /\ tl' = [tl EXCEPT !.fully_paginated = Head(channel).fully_paginated]
       /\ is_loaded' = IF Head(channel).fully_paginated THEN "loaded" ELSE is_loaded
       /\ UNCHANGED continues

PaginationUpdate ==
    \/ /\ Head(channel).kind = "PaginationRunning"
       /\ is_loaded' = "running"
       /\ UNCHANGED <<tl, continues>>
    \/ /\ Head(channel).kind = "PaginationError"
       /\ is_loaded' = "loaded"
       /\ UNCHANGED <<tl, continues>>
    \/ /\ Head(channel).kind = "PaginationIdle"
       /\ tl' = [tl EXCEPT !.fully_paginated = Head(channel).fully_paginated]
       /\ is_loaded' = IF Head(channel).fully_paginated THEN "loaded" ELSE is_loaded
       /\ UNCHANGED continues

MembersUpdate ==
    /\ Head(channel).kind = "RoomMembersSynced"
    /\ UNCHANGED <<is_loaded, tl, continues>>

ScreenTakes ==
    /\ screen = "processing"
    /\ channel # <<>>
    /\ channel' = Tail(channel)
    /\ FirstUpdate \/ ItemsUpdate \/ PaginationUpdate \/ MembersUpdate
    /\ UNCHANGED <<sdkVars, subscriber, timeline_items, signalled, requestVars, screen>>

(* The channel is found empty.                                             *)
ScreenRests ==
    /\ screen = "processing"
    /\ channel = <<>>
    /\ screen' = "waiting"
    /\ continues' = FALSE
    /\ IF continues THEN /\ requests < MaxRequests
                         /\ requests' = requests + 1
       ELSE UNCHANGED requests
    /\ UNCHANGED <<sdkVars, subscriber, timeline_items, channel, signalled, membersAsked, task, is_loaded, tl>>

PaginationNext(p) == RunPagination(p) \/ Paginated(p) \/ EndPagination(p)
ScreenNext == ScreenRecv \/ ScreenTakes \/ ScreenRests

Next ==
    \/ SdkChanges
    \/ Subscribe \/ NewItems \/ RoomLeaves
    \/ \E p \in Pagination : SpawnPagination(p) \/ PaginationNext(p)
    \/ SkipPagination \/ SyncMembers \/ SkipMembers
    \/ UserScrolls
    \/ ShowFirst \/ ShowAgain \/ Hide
    \/ ScreenNext

Spec == Init /\ [][Next]_vars

----------------------------------------------------------------------------
(* Properties.                                                             *)

(* Nothing the subscriber sends is wrong or lost: its copy and the diffs   *)
(* it has not seen make the SDK's timeline, and the newest list in the     *)
(* channel, or else on display, is its copy.                               *)
ListsReplay ==
    subscriber = "running" =>
        /\ FoldLeft(Apply, timeline_items, stream) = sdkItems
        /\ LET lists == {i \in DOMAIN channel : channel[i].kind \in {"FirstUpdate", "NewItems"}} IN
           \/ lists = {} /\ timeline_items = tl.items
           \/ \E i \in lists : timeline_items = channel[i].items /\ \A j \in lists : j <= i

(* As long as the room is there, a screen on display with an update in its *)
(* channel is going to look for it, unless the update is the FirstUpdate   *)
(* that nobody signals.                                                    *)
ScreenHears ==
    RoomIsThere /\ screen = "waiting" /\ (\E i \in DOMAIN channel : channel[i].kind # "FirstUpdate") =>
        signalled \/ membersAsked

(* Once a pagination has set a displayed room to loading, something that   *)
(* loads it again is on its way, as long as the room is there: items, an   *)
(* error, the start of the timeline, or the pagination itself.             *)
Loads(update) ==
    \/ update.kind \in {"FirstUpdate", "NewItems", "PaginationError"}
    \/ update.kind = "PaginationIdle" /\ update.fully_paginated

LoadingEnds ==
    RoomIsThere /\ is_loaded = "running" /\ Shown =>
        \/ \E p \in Pagination : task[p] \in {"paginating", "start", "failed"}
        \/ subscriber = "spawned" \/ stream # <<>>
        \/ \E i \in DOMAIN channel : Loads(channel[i])

(* The oldest event is there if the room is said to be fully paginated,    *)
(* once everything sent has been processed (timeline.rs 163-168).          *)
FullyPaginatedIsTrue ==
    tl.fully_paginated /\ stream = <<>> /\ channel = <<>> /\ requests = 0
        /\ (\A p \in Pagination : task[p] = "none") => atStart

(* is_loaded, "whether this room has been successfully loaded" (50-51 of   *)
(* room_screen.rs), is true of a room that is displayed and at rest.       *)
ShownRoomIsLoaded ==
    screen = "waiting" /\ subscriber = "running" /\ stream = <<>> /\ channel = <<>>
        /\ requests = 0 /\ (\A p \in Pagination : task[p] = "none") => is_loaded = "loaded"

(* A timeline that is emptied is paginated "to be able to show something   *)
(* at least" (room_screen.rs 122-126): none is left empty at rest.         *)
EmptyTimelineIsPaginated ==
    Shown /\ subscriber = "running" /\ stream = <<>> /\ channel = <<>> /\ ~continues
        /\ requests = 0 /\ (\A p \in Pagination : task[p] = "none") =>
            tl.items # <<>> \/ atStart

(* FirstUpdate is "the very first update a given room's timeline receives" *)
(* (timeline.rs 78).                                                       *)
FirstUpdateIsFirst ==
    \A i \in DOMAIN channel : channel[i].kind = "FirstUpdate" => i = 1
=============================================================================
