---------------------------- MODULE UserProfiles ----------------------------
(***************************************************************************)
(* The cache of user profiles (user/user_profile.rs): commands look a user *)
(* up and submit GetUserProfile requests, tasks of the request worker      *)
(* fetch (init/workers.rs), and ui_worker applies the updates. The cache   *)
(* is thread local, so there is one for each thread that uses it.          *)
(*                                                                         *)
(* The profile is that of one user. It is abstracted to its version; the   *)
(* profile without a name that stands in for one not fetched is Nameless.  *)
(***************************************************************************)
EXTENDS Naturals, Sequences

CONSTANTS
    Thread,       \* the threads on which the cache is used
    Room,         \* rooms of which the user is a member
    Caller,       \* the calls of fetch_user_profile that are ever made
    MaxVersion,   \* bound: versions of the profile
    MaxIgnored,   \* bound: times that the user is ignored or unignored
    None

ASSUME ProfilesAssumption ==
    None \notin Thread \cup Room \cup Caller /\ MaxVersion \in Nat \ {0} /\ MaxIgnored \in Nat

VARIABLES
    account,      \* the version the homeserver has
    cache,        \* USER_PROFILE_CACHE of each thread
    submitted,    \* the requests async_worker has not taken
    fetches,      \* its tasks that fetch
    ignored,      \* the number of times the user was ignored or unignored
    pending,      \* PENDING_USER_PROFILE_UPDATES
    drainer,      \* the thread on which ui_worker drains it, if it does
    caller        \* per call, where it is or what it got

vars == <<account, cache, submitted, fetches, ignored, pending, drainer, caller>>

Nameless == 0
Version == 1 .. MaxVersion

Request == [room : Room \cup {None}, sender : Caller \cup {None}]

Vacant == [state |-> "vacant"]
Requested == [state |-> "requested"]
Loaded(profile, rooms) == [state |-> "loaded", profile |-> profile, rooms |-> rooms]
Entry == {Vacant, Requested}
    \cup [state : {"loaded"}, profile : Version \cup {Nameless}, rooms : SUBSET Room]

Update ==
    [kind : {"Full"}, profile : Version, room : Room]
    \cup [kind : {"RoomMemberOnly"}, room : Room]
    \cup [kind : {"UserProfileOnly"}, profile : Version]

(* A fetch is its request and the update it is going to enqueue.           *)
Fetch == [request : Request, update : Update \cup {None}]

Call(state) == [state |-> state, profile |-> None]
Answered(profile) == [state |-> "answered", profile |-> profile]

TypeOK ==
    /\ account \in Version
    /\ cache \in [Thread -> Entry]
    /\ submitted \in Seq(Request)
    /\ fetches \subseteq Fetch
    /\ ignored \in 0 .. MaxIgnored
    /\ pending \in Seq(Update)
    /\ drainer \in Thread \cup {None}
    /\ caller \in [Caller -> [state : {"idle", "waiting", "error", "answered"},
                              profile : Version \cup {Nameless, None}]]

Init ==
    /\ account = 1
    /\ cache = [t \in Thread |-> Vacant]
    /\ submitted = <<>>
    /\ fetches = {}
    /\ ignored = 0
    /\ pending = <<>>
    /\ drainer = None
    /\ caller = [c \in Caller |-> Call("idle")]

----------------------------------------------------------------------------
(* with_sender, called by the command fetch_user_profile.                  *)

Submit(room, sender) == submitted' = Append(submitted, [room |-> room, sender |-> sender])

(* A loaded profile is the answer; what is not known of a room is fetched. *)
Answer(c, t, room) ==
    /\ cache[t].state = "loaded"
    /\ caller' = [caller EXCEPT ![c] = Answered(cache[t].profile)]
    /\ IF room # None /\ room \notin cache[t].rooms THEN Submit(room, None)
       ELSE UNCHANGED submitted
    /\ UNCHANGED cache

(* With a request in flight the sender is dropped: the call is an error.   *)
InFlight(c, t) ==
    /\ cache[t] = Requested
    /\ caller' = [caller EXCEPT ![c] = Call("error")]
    /\ UNCHANGED <<cache, submitted>>

FetchMissing(c, t, room) ==
    /\ cache[t] = Vacant
    /\ caller' = [caller EXCEPT ![c] = Call("waiting")]
    /\ Submit(room, c)
    /\ cache' = [cache EXCEPT ![t] = Requested]

FetchUserProfile(c, t, room) ==
    /\ caller[c].state = "idle"
    /\ drainer # t
    /\ Answer(c, t, room) \/ InFlight(c, t) \/ FetchMissing(c, t, room)
    /\ UNCHANGED <<account, fetches, ignored, pending, drainer>>

----------------------------------------------------------------------------
(* GetUserProfile.                                                         *)

(* Mutant: the request is read and not taken.                              *)
TakeRequestAgain ==
    /\ submitted # <<>>
    /\ fetches' = fetches \cup {[request |-> Head(submitted), update |-> None]}
    /\ UNCHANGED <<account, cache, submitted, ignored, pending, drainer, caller>>

(* The task is spawned.                                                    *)
TakeRequest ==
    /\ submitted # <<>>
    /\ submitted' = Tail(submitted)
    /\ fetches' = fetches \cup {[request |-> Head(submitted), update |-> None]}
    /\ UNCHANGED <<account, cache, ignored, pending, drainer, caller>>

(* Mutant: a member is looked up also where the request names no room.     *)
FetchedUnchecked(request) ==
    {[kind |-> "UserProfileOnly", profile |-> account],
     [kind |-> "Full", profile |-> account, room |-> request.room]}

(* A member of the room named in the request, or the profile alone.        *)
Fetched(request) ==
    {[kind |-> "UserProfileOnly", profile |-> account]}
    \cup (IF request.room = None THEN {}
          ELSE {[kind |-> "Full", profile |-> account, room |-> request.room]})

(* The homeserver answers.                                                 *)
FetchAnswered(f) ==
    /\ f.update = None
    /\ \E update \in Fetched(f.request) :
        fetches' = (fetches \ {f}) \cup {[f EXCEPT !.update = update]}
    /\ UNCHANGED <<account, cache, submitted, ignored, pending, drainer, caller>>

(* Mutant: the sender is kept when the fetch fails.                        *)
FetchFailsSilently(f) ==
    /\ f.update = None
    /\ fetches' = fetches \ {f}
    /\ UNCHANGED <<account, cache, submitted, ignored, pending, drainer, caller>>

(* It does not: the task ends, and its sender is dropped with it.          *)
FetchFails(f) ==
    /\ f.update = None
    /\ fetches' = fetches \ {f}
    /\ IF f.request.sender = None THEN UNCHANGED caller
       ELSE caller' = [caller EXCEPT ![f.request.sender] = Call("error")]
    /\ UNCHANGED <<account, cache, submitted, ignored, pending, drainer>>

(* The sender gets the profile, and the cache an update.                   *)
FetchDone(f) ==
    /\ f.update # None
    /\ fetches' = fetches \ {f}
    /\ IF f.request.sender = None THEN UNCHANGED caller
       ELSE caller' = [caller EXCEPT ![f.request.sender] = Answered(f.update.profile)]
    /\ pending' = Append(pending, f.update)
    /\ UNCHANGED <<account, cache, submitted, ignored, drainer>>

(* IgnoreUser has succeeded, and the room's member is looked up again.     *)
IgnoreUser(room) ==
    /\ ignored < MaxIgnored
    /\ ignored' = ignored + 1
    /\ pending' = Append(pending, [kind |-> "RoomMemberOnly", room |-> room])
    /\ UNCHANGED <<account, cache, submitted, fetches, drainer, caller>>

(* The user changes their profile.                                         *)
ProfileChanges ==
    /\ account < MaxVersion
    /\ account' = account + 1
    /\ UNCHANGED <<cache, submitted, fetches, ignored, pending, drainer, caller>>

----------------------------------------------------------------------------
(* process_user_profile_updates.                                           *)

(* Mutant: a profile replaces the whole entry.                             *)
AppliedAnew(update, entry) ==
    LET rooms == IF update.kind = "UserProfileOnly" THEN {} ELSE {update.room} IN
    Loaded(IF update.kind = "RoomMemberOnly" THEN Nameless ELSE update.profile, rooms)

(* apply_to_cache.                                                         *)
Applied(update, entry) ==
    LET known == IF entry.state = "loaded" THEN entry.rooms ELSE {} IN
    CASE update.kind = "Full" -> Loaded(update.profile, known \cup {update.room})
      [] update.kind = "UserProfileOnly" -> Loaded(update.profile, known)
      [] update.kind = "RoomMemberOnly" ->
            Loaded(IF entry.state = "loaded" THEN entry.profile ELSE Nameless,
                   known \cup {update.room})

(* ui_worker has been woken, on whatever thread.                           *)
Drain(t) ==
    /\ drainer = None
    /\ pending # <<>>
    /\ drainer' = t
    /\ UNCHANGED <<account, cache, submitted, fetches, ignored, pending, caller>>

ApplyUpdate ==
    /\ drainer # None
    /\ pending # <<>>
    /\ cache' = [cache EXCEPT ![drainer] = Applied(Head(pending), @)]
    /\ pending' = Tail(pending)
    /\ UNCHANGED <<account, submitted, fetches, ignored, drainer, caller>>

EndDrain ==
    /\ drainer # None
    /\ pending = <<>>
    /\ drainer' = None
    /\ UNCHANGED <<account, cache, submitted, fetches, ignored, pending, caller>>

FetchNext(f) == FetchAnswered(f) \/ FetchFails(f) \/ FetchDone(f)

Next ==
    \/ \E c \in Caller, t \in Thread, room \in Room \cup {None} : FetchUserProfile(c, t, room)
    \/ TakeRequest
    \/ \E f \in fetches : FetchNext(f)
    \/ \E room \in Room : IgnoreUser(room)
    \/ ProfileChanges
    \/ \E t \in Thread : Drain(t)
    \/ ApplyUpdate \/ EndDrain

Spec == Init /\ [][Next]_vars

(* async_worker takes its requests and the tasks it spawns end, with an    *)
(* answer or the request timeout of the client. That ui_worker is woken    *)
(* for the updates is not assumed: they do not signal it.                  *)
FairSpec ==
    /\ Spec
    /\ WF_vars(TakeRequest)
    /\ WF_vars(\E f \in fetches : FetchNext(f))

----------------------------------------------------------------------------
(* Properties.                                                             *)

Waits(c) == caller[c].state = "waiting"

(* A caller that waits can still be answered: its sender is in a request   *)
(* or in a task, in one of them only.                                      *)
SenderIsKept ==
    \A c \in Caller : Waits(c) =>
        LET requested == {i \in DOMAIN submitted : submitted[i].sender = c}
            fetching == {f \in fetches : f.request.sender = c} IN
        \/ fetching = {} /\ \E i \in requested : requested = {i}
        \/ requested = {} /\ \E f \in fetching : fetching = {f}

(* No call waits for ever.                                                 *)
CallersAreAnswered == \A c \in Caller : Waits(c) ~> ~Waits(c)

(* What is known of a user's membership is not lost by a new profile.      *)
MembershipsAreKept ==
    [][\A t \in Thread : cache[t].state = "loaded" =>
        cache'[t].state = "loaded" /\ cache[t].rooms \subseteq cache'[t].rooms]_vars

(* Requested: "A request has been issued and we're waiting for it to       *)
(* complete" (user_profile.rs 28).                                         *)
RequestedIsWaitedFor ==
    \A t \in Thread : cache[t] = Requested =>
        submitted # <<>> \/ fetches # {} \/ pending # <<>> \/ drainer # None

(* Loaded: "The profile has been successfully loaded from the server"      *)
(* (user_profile.rs 30).                                                   *)
LoadedIsFromServer ==
    \A t \in Thread : cache[t].state = "loaded" => cache[t].profile # Nameless
=============================================================================
