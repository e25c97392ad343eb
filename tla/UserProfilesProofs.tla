------------------------- MODULE UserProfilesProofs -------------------------
(***************************************************************************)
(* Theorems about the cache of user profiles, for any threads, rooms,      *)
(* calls and bounds: type correctness, the callers that wait and the       *)
(* memberships that are kept.                                              *)
(***************************************************************************)
EXTENDS UserProfiles, SequenceTheorems, TLAPS

(***************************************************************************)
(* The type invariant is not inductive: a caller is answered with the      *)
(* profile of the update its task has fetched, and there has to be one.    *)
(***************************************************************************)

(* What GetUserProfile fetches is a profile, with or without a member.     *)
FetchedProfiles == \A f \in fetches : f.update # None => f.update.kind # "RoomMemberOnly"

Typed == TypeOK /\ FetchedProfiles

LEMMA UpdateFields ==
    ASSUME NEW u \in Update
    PROVE  /\ u.kind \in {"Full", "RoomMemberOnly", "UserProfileOnly"}
           /\ u.kind \in {"Full", "UserProfileOnly"} => u.profile \in Version
           /\ u.kind \in {"Full", "RoomMemberOnly"} => u.room \in Room
BY DEF Update

LEMMA AppliedType ==
    ASSUME NEW u \in Update, NEW e \in Entry
    PROVE  /\ Applied(u, e) \in Entry /\ Applied(u, e).state = "loaded"
           /\ e.state = "loaded" => e.rooms \subseteq Applied(u, e).rooms
<1> DEFINE known == IF e.state = "loaded" THEN e.rooms ELSE {}
           name == IF e.state = "loaded" THEN e.profile ELSE Nameless
<1>1. known \in SUBSET Room /\ name \in Version \cup {Nameless}
  BY DEF Entry, Vacant, Requested
<1>2. e.state = "loaded" => e.rooms = known
  OBVIOUS
<1>3. ASSUME NEW p \in Version \cup {Nameless}, NEW rooms \in SUBSET Room
      PROVE  Loaded(p, rooms) \in Entry /\ Loaded(p, rooms).state = "loaded" /\ Loaded(p, rooms).rooms = rooms
  BY DEF Entry, Loaded
<1>4. Applied(u, e) =
        CASE u.kind = "Full" -> Loaded(u.profile, known \cup {u.room})
          [] u.kind = "UserProfileOnly" -> Loaded(u.profile, known)
          [] u.kind = "RoomMemberOnly" -> Loaded(name, known \cup {u.room})
  BY DEF Applied
<1> HIDE DEF known, name
<1>5. CASE u.kind = "Full"
  <2>1. Applied(u, e) = Loaded(u.profile, known \cup {u.room})
    BY <1>4, <1>5
  <2>2. u.profile \in Version /\ known \cup {u.room} \in SUBSET Room
    BY <1>1, <1>5, UpdateFields
  <2> QED BY <1>2, <1>3, <2>1, <2>2
<1>6. CASE u.kind = "UserProfileOnly"
  <2>1. Applied(u, e) = Loaded(u.profile, known)
    BY <1>4, <1>6
  <2>2. u.profile \in Version
    BY <1>6, UpdateFields
  <2> QED BY <1>1, <1>2, <1>3, <2>1, <2>2
<1>7. CASE u.kind = "RoomMemberOnly"
  <2>1. Applied(u, e) = Loaded(name, known \cup {u.room})
    BY <1>4, <1>7
  <2>2. known \cup {u.room} \in SUBSET Room
    BY <1>1, <1>7, UpdateFields
  <2> QED BY <1>1, <1>2, <1>3, <2>1, <2>2
<1> QED BY <1>5, <1>6, <1>7, UpdateFields

LEMMA FetchedType ==
    ASSUME account \in Version, NEW request \in Request, NEW u \in Fetched(request)
    PROVE  u \in Update /\ u.kind # "RoomMemberOnly" /\ u.profile \in Version
<1>1. CASE u = [kind |-> "UserProfileOnly", profile |-> account]
  BY <1>1 DEF Update
<1>2. CASE request.room # None /\ u = [kind |-> "Full", profile |-> account, room |-> request.room]
  <2>1. request.room \in Room
    BY <1>2 DEF Request
  <2> QED BY <1>2, <2>1 DEF Update
<1> QED BY <1>1, <1>2 DEF Fetched

(* A caller's record. *)
Result == [state : {"idle", "waiting", "error", "answered"}, profile : Version \cup {Nameless, None}]

LEMMA ResultType ==
    ASSUME NEW p \in Version \cup {Nameless}
    PROVE  /\ Answered(p) \in Result
           /\ Call("waiting") \in Result /\ Call("error") \in Result /\ Call("idle") \in Result
BY DEF Result, Answered, Call

LEMMA CallerType ==
    ASSUME caller \in [Caller -> Result], NEW c, NEW r \in Result, caller' = [caller EXCEPT ![c] = r]
    PROVE  caller' \in [Caller -> Result]
OBVIOUS

LEMMA TypedInit == Init => Typed
<1> SUFFICES ASSUME Init PROVE Typed
  OBVIOUS
<1>1. account \in Version
  BY ProfilesAssumption DEF Init, Version
<1>2. cache \in [Thread -> Entry]
  BY DEF Init, Entry
<1>3. caller \in [Caller -> Result]
  BY ResultType, Nameless \in Version \cup {Nameless} DEF Init
<1>4. ignored \in 0..MaxIgnored
  BY ProfilesAssumption DEF Init
<1> QED BY <1>1, <1>2, <1>3, <1>4 DEF Init, Typed, TypeOK, FetchedProfiles, Result

(* An action of a call of fetch_user_profile. *)
LEMMA FetchUserProfileTyped ==
    ASSUME Typed, NEW c \in Caller, NEW t \in Thread, NEW room \in Room \cup {None},
           FetchUserProfile(c, t, room)
    PROVE  Typed'
<1>1. /\ account \in Version /\ cache \in [Thread -> Entry] /\ submitted \in Seq(Request)
      /\ fetches \subseteq Fetch /\ ignored \in 0..MaxIgnored /\ pending \in Seq(Update)
      /\ drainer \in Thread \cup {None} /\ caller \in [Caller -> Result] /\ FetchedProfiles
  BY DEF Typed, TypeOK, Result
<1>2. UNCHANGED <<account, fetches, ignored, pending, drainer>>
  BY DEF FetchUserProfile
<1>3. submitted' \in Seq(Request)
  <2>1. ASSUME NEW sender \in Caller \cup {None}, Submit(room, sender)
        PROVE  submitted' \in Seq(Request)
    <3>1. [room |-> room, sender |-> sender] \in Request
      BY DEF Request
    <3> QED BY <1>1, <2>1, <3>1 DEF Submit
  <2>2. \/ UNCHANGED submitted
        \/ Submit(room, None)
        \/ Submit(room, c)
    BY DEF FetchUserProfile, Answer, InFlight, FetchMissing
  <2> QED BY <1>1, <2>1, <2>2
<1>4. cache' \in [Thread -> Entry]
  <2>1. Requested \in Entry
    BY DEF Entry
  <2>2. cache' = cache \/ cache' = [cache EXCEPT ![t] = Requested]
    BY DEF FetchUserProfile, Answer, InFlight, FetchMissing
  <2> QED BY <1>1, <2>1, <2>2
<1>5. caller' \in [Caller -> Result]
  <2>1. CASE Answer(c, t, room)
    <3>1. cache[t].profile \in Version \cup {Nameless}
      BY <1>1, <2>1 DEF Answer, Entry, Vacant, Requested
    <3>2. Answered(cache[t].profile) \in Result
      BY <3>1, ResultType
    <3> QED BY <1>1, <2>1, <3>2, CallerType DEF Answer
  <2>2. CASE InFlight(c, t) \/ FetchMissing(c, t, room)
    <3>1. Call("error") \in Result /\ Call("waiting") \in Result
      BY ResultType, Nameless \in Version \cup {Nameless}
    <3> QED BY <1>1, <2>2, <3>1, CallerType DEF InFlight, FetchMissing
  <2> QED BY <2>1, <2>2 DEF FetchUserProfile
<1> QED BY <1>1, <1>2, <1>3, <1>4, <1>5 DEF Typed, TypeOK, FetchedProfiles, Result

LEMMA TakeRequestTyped ==
    ASSUME Typed, TakeRequest
    PROVE  Typed'
<1>1. submitted \in Seq(Request) /\ submitted # <<>> /\ fetches \subseteq Fetch /\ FetchedProfiles
  BY DEF Typed, TypeOK, TakeRequest
<1> DEFINE f == [request |-> Head(submitted), update |-> None]
<1>2. Head(submitted) \in Request /\ Tail(submitted) \in Seq(Request)
  BY <1>1, HeadTailProperties
<1>3. f \in Fetch /\ f.update = None
  BY <1>2 DEF Fetch
<1>4. submitted' = Tail(submitted) /\ fetches' = fetches \cup {f}
      /\ UNCHANGED <<account, cache, ignored, pending, drainer, caller>>
  BY DEF TakeRequest
<1> HIDE DEF f
<1> QED BY <1>1, <1>2, <1>3, <1>4 DEF Typed, TypeOK, FetchedProfiles

LEMMA FetchTyped ==
    ASSUME Typed, NEW f \in fetches, FetchNext(f)
    PROVE  Typed'
<1>1. /\ account \in Version /\ f \in Fetch /\ f.request \in Request /\ f.update \in Update \cup {None}
      /\ fetches \subseteq Fetch /\ pending \in Seq(Update) /\ caller \in [Caller -> Result] /\ FetchedProfiles
  BY DEF Typed, TypeOK, Result, Fetch
<1>2. CASE FetchAnswered(f)
  <2>1. PICK u \in Fetched(f.request) : fetches' = (fetches \ {f}) \cup {[f EXCEPT !.update = u]}
    BY <1>2 DEF FetchAnswered
  <2>2. u \in Update /\ u.kind # "RoomMemberOnly"
    BY <1>1, FetchedType
  <2>3. [f EXCEPT !.update = u] \in Fetch /\ [f EXCEPT !.update = u].update = u
    BY <1>1, <2>2 DEF Fetch
  <2>4. UNCHANGED <<account, cache, submitted, ignored, pending, drainer, caller>>
    BY <1>2 DEF FetchAnswered
  <2> QED BY <1>1, <2>1, <2>2, <2>3, <2>4 DEF Typed, TypeOK, FetchedProfiles
<1>3. CASE FetchFails(f)
  <2>1. caller' \in [Caller -> Result]
    <3>1. Call("error") \in Result
      BY ResultType, Nameless \in Version \cup {Nameless}
    <3> QED BY <1>1, <1>3, <3>1, CallerType DEF FetchFails
  <2>2. fetches' = fetches \ {f} /\ UNCHANGED <<account, cache, submitted, ignored, pending, drainer>>
    BY <1>3 DEF FetchFails
  <2> QED BY <1>1, <2>1, <2>2 DEF Typed, TypeOK, FetchedProfiles, Result
<1>4. CASE FetchDone(f)
  <2>1. f.update \in Update /\ f.update.profile \in Version
    BY <1>1, <1>4, UpdateFields DEF FetchDone, FetchedProfiles
  <2>2. caller' \in [Caller -> Result]
    <3>1. Answered(f.update.profile) \in Result
      BY <2>1, ResultType
    <3> QED BY <1>1, <1>4, <3>1, CallerType DEF FetchDone
  <2>3. pending' \in Seq(Update)
    BY <1>1, <1>4, <2>1 DEF FetchDone
  <2>4. fetches' = fetches \ {f} /\ UNCHANGED <<account, cache, submitted, ignored, drainer>>
    BY <1>4 DEF FetchDone
  <2> QED BY <1>1, <2>2, <2>3, <2>4 DEF Typed, TypeOK, FetchedProfiles, Result
<1> QED BY <1>2, <1>3, <1>4 DEF FetchNext

LEMMA ApplyUpdateTyped ==
    ASSUME Typed, ApplyUpdate
    PROVE  /\ Typed'
           /\ \A t \in Thread : cache[t].state = "loaded" =>
                cache'[t].state = "loaded" /\ cache[t].rooms \subseteq cache'[t].rooms
<1>1. /\ pending \in Seq(Update) /\ pending # <<>> /\ drainer \in Thread /\ cache \in [Thread -> Entry]
  BY DEF Typed, TypeOK, ApplyUpdate
<1> DEFINE u == Head(pending)
<1>2. u \in Update /\ Tail(pending) \in Seq(Update)
  BY <1>1, HeadTailProperties
<1>3. cache' = [cache EXCEPT ![drainer] = Applied(u, cache[drainer])] /\ pending' = Tail(pending)
      /\ UNCHANGED <<account, submitted, fetches, ignored, drainer, caller>>
  BY DEF ApplyUpdate
<1> HIDE DEF u
<1>4. /\ Applied(u, cache[drainer]) \in Entry /\ Applied(u, cache[drainer]).state = "loaded"
      /\ cache[drainer].state = "loaded" => cache[drainer].rooms \subseteq Applied(u, cache[drainer]).rooms
  BY <1>1, <1>2, AppliedType
<1> QED BY <1>1, <1>2, <1>3, <1>4 DEF Typed, TypeOK, FetchedProfiles

LEMMA TypedStep == Typed /\ [Next]_vars => Typed'
<1> SUFFICES ASSUME Typed, [Next]_vars PROVE Typed'
  OBVIOUS
<1>1. ASSUME NEW c \in Caller, NEW t \in Thread, NEW room \in Room \cup {None}, FetchUserProfile(c, t, room)
      PROVE  Typed'
  BY <1>1, FetchUserProfileTyped
<1>2. CASE TakeRequest
  BY <1>2, TakeRequestTyped
<1>3. CASE \E f \in fetches : FetchNext(f)
  BY <1>3, FetchTyped
<1>4. ASSUME NEW room \in Room, IgnoreUser(room)
      PROVE  Typed'
  <2> DEFINE u == [kind |-> "RoomMemberOnly", room |-> room]
  <2>1. u \in Update /\ pending \in Seq(Update) /\ pending' = Append(pending, u)
    BY <1>4 DEF Update, Typed, TypeOK, IgnoreUser
  <2> HIDE DEF u
  <2>2. pending' \in Seq(Update)
    BY <2>1
  <2>3. ignored' \in 0..MaxIgnored
    BY <1>4, ProfilesAssumption DEF IgnoreUser, Typed, TypeOK
  <2> QED BY <1>4, <2>2, <2>3 DEF IgnoreUser, Typed, TypeOK, FetchedProfiles
<1>5. CASE ProfileChanges
  <2>1. account' \in Version
    BY <1>5, ProfilesAssumption DEF ProfileChanges, Typed, TypeOK, Version
  <2> QED BY <1>5, <2>1 DEF ProfileChanges, Typed, TypeOK, FetchedProfiles
<1>6. CASE \E t \in Thread : Drain(t)
  BY <1>6 DEF Drain, Typed, TypeOK, FetchedProfiles
<1>7. CASE ApplyUpdate
  BY <1>7, ApplyUpdateTyped
<1>8. CASE EndDrain
  BY <1>8 DEF EndDrain, Typed, TypeOK, FetchedProfiles
<1>9. CASE UNCHANGED vars
  BY <1>9 DEF vars, Typed, TypeOK, FetchedProfiles
<1> QED BY <1>1, <1>2, <1>3, <1>4, <1>5, <1>6, <1>7, <1>8, <1>9 DEF Next

(* Every reachable state is well-typed: each answer has a profile, each    *)
(* update of the queue what apply_to_cache takes from it.                  *)
THEOREM ProfilesTypeCorrect == Spec => []TypeOK
<1>1. Typed => TypeOK
  BY DEF Typed
<1> QED BY <1>1, TypedInit, TypedStep, PTL DEF Spec

(* What is known of a user's membership is not lost by a new profile,      *)
(* whatever the threads that drain the updates and the order they come in. *)
THEOREM MembershipsStay == Spec => MembershipsAreKept
<1>1. ASSUME Typed, [Next]_vars, NEW t \in Thread, cache[t].state = "loaded"
      PROVE  cache'[t].state = "loaded" /\ cache[t].rooms \subseteq cache'[t].rooms
  <2>1. CASE ApplyUpdate
    BY <1>1, <2>1, ApplyUpdateTyped
  <2>2. CASE UNCHANGED cache
    BY <1>1, <2>2
  <2>3. ASSUME NEW c \in Caller, NEW s \in Thread, NEW room \in Room \cup {None}, FetchUserProfile(c, s, room)
        PROVE  cache'[t] = cache[t]
    <3>1. cache \in [Thread -> Entry]
      BY <1>1 DEF Typed, TypeOK
    <3>2. CASE cache' = cache
      BY <3>2
    <3>3. CASE cache[s] = Vacant /\ cache' = [cache EXCEPT ![s] = Requested]
      BY <1>1, <3>1, <3>3 DEF Vacant
    <3> QED BY <2>3, <3>2, <3>3 DEF FetchUserProfile, Answer, InFlight, FetchMissing
  <2> QED BY <1>1, <2>1, <2>2, <2>3
        DEF Next, TakeRequest, FetchNext, FetchAnswered, FetchFails, FetchDone, IgnoreUser, ProfileChanges,
            Drain, EndDrain, vars
<1>2. Typed /\ [Next]_vars
        => [\A t \in Thread : cache[t].state = "loaded" =>
              cache'[t].state = "loaded" /\ cache[t].rooms \subseteq cache'[t].rooms]_vars
  BY <1>1
<1> QED BY <1>2, TypedInit, TypedStep, PTL DEF Spec, MembershipsAreKept
----------------------------------------------------------------------------

(***************************************************************************)
(* The sender of a call is in one place as long as the call waits, and in  *)
(* none when it does not: that it is in no second place is what keeps an   *)
(* answered or failed task from dropping or doubling it.                   *)
(***************************************************************************)

Requests(c) == {i \in DOMAIN submitted : submitted[i].sender = c}
Tasks(c) == {f \in fetches : f.request.sender = c}

OneSender(c) ==
    /\ \A i, j \in Requests(c) : i = j
    /\ \A f, g \in Tasks(c) : f = g
    /\ Requests(c) = {} \/ Tasks(c) = {}
    /\ Waits(c) <=> Requests(c) # {} \/ Tasks(c) # {}

SenderInv == \A c \in Caller : OneSender(c)

(* A step that moves no sender of the call keeps it. *)
LEMMA SameSenders ==
    ASSUME NEW c, OneSender(c), Requests(c)' = Requests(c), Tasks(c)' = Tasks(c), Waits(c)' <=> Waits(c)
    PROVE  OneSender(c)'
BY DEF OneSender

(* A request that is submitted is the last one. *)
LEMMA RequestsOfAppend ==
    ASSUME submitted \in Seq(Request), NEW r \in Request, submitted' = Append(submitted, r), NEW c
    PROVE  Requests(c)' = Requests(c) \cup (IF r.sender = c THEN {Len(submitted) + 1} ELSE {})
<1> DEFINE n == Len(submitted)
           s == submitted'
<1>1. n \in Nat /\ DOMAIN submitted = 1..n
  OBVIOUS
<1>2. /\ s \in Seq(Request) /\ Len(s) = n + 1 /\ s[n + 1] = r
      /\ \A i \in 1..n : s[i] = submitted[i]
  BY AppendProperties
<1>3. DOMAIN s = 1..n + 1
  BY <1>1, <1>2
<1>4. Requests(c)' = {i \in DOMAIN s : s[i].sender = c}
  BY DEF Requests
<1> HIDE DEF n, s
<1>5. 1..n + 1 = (1..n) \cup {n + 1}
  BY <1>1
<1> QED BY <1>1, <1>2, <1>3, <1>4, <1>5 DEF Requests, n

(* When async_worker takes the first one the others move up. *)
LEMMA RequestsOfTail ==
    ASSUME submitted \in Seq(Request), submitted # <<>>, submitted' = Tail(submitted), NEW c
    PROVE  /\ \A i \in Requests(c)' : i + 1 \in Requests(c) /\ i + 1 # 1 /\ i \in Nat
           /\ \A i \in Requests(c) : i = 1 \/ i - 1 \in Requests(c)'
           /\ 1 \in Requests(c) <=> Head(submitted).sender = c
           /\ Head(submitted) \in Request
<1> DEFINE n == Len(submitted) - 1
           s == submitted'
<1>1. n \in Nat /\ DOMAIN submitted = 1..n + 1 /\ Head(submitted) = submitted[1] /\ 1 \in 1..n + 1
      /\ Head(submitted) \in Request
  <2>1. Len(submitted) \in Nat \ {0} /\ DOMAIN submitted = 1..Len(submitted)
    BY EmptySeq
  <2> QED BY <2>1, HeadTailProperties
<1>2. s \in Seq(Request) /\ Len(s) = n /\ \A i \in 1..n : s[i] = submitted[i + 1]
  BY HeadTailProperties
<1>3. DOMAIN s = 1..n
  BY <1>2
<1>4. Requests(c)' = {i \in DOMAIN s : s[i].sender = c}
  BY DEF Requests
<1> HIDE DEF n, s
<1>5. \A i \in 1..n : i + 1 \in 1..n + 1 /\ i + 1 # 1 /\ i \in Nat
  BY <1>1
<1>6. \A i \in 1..n + 1 : i # 1 => i - 1 \in 1..n /\ (i - 1) + 1 = i
  BY <1>1
<1>7. \A i \in Requests(c)' : i \in 1..n /\ s[i].sender = c
  BY <1>3, <1>4
<1>8. \A i \in Requests(c) : i # 1 => i - 1 \in Requests(c)'
  <2> TAKE i \in Requests(c)
  <2> HAVE i # 1
  <2>1. i \in 1..n + 1 /\ submitted[i].sender = c
    BY <1>1 DEF Requests
  <2>2. i - 1 \in 1..n /\ (i - 1) + 1 = i
    BY <1>6, <2>1
  <2>3. s[i - 1] = submitted[i]
    BY <1>2, <2>2
  <2> QED BY <1>3, <1>4, <2>1, <2>2, <2>3
<1> QED BY <1>1, <1>2, <1>5, <1>7, <1>8 DEF Requests

LEMMA SenderInit == Init => SenderInv
<1> SUFFICES ASSUME Init, NEW c \in Caller PROVE OneSender(c)
  BY DEF SenderInv
<1>1. Requests(c) = {} /\ Tasks(c) = {}
  BY DEF Init, Requests, Tasks
<1>2. ~Waits(c)
  BY DEF Init, Waits, Call
<1> QED BY <1>1, <1>2 DEF OneSender

(* A call waits with the request it submits; other calls are not affected. *)
LEMMA FetchUserProfileSender ==
    ASSUME Typed, SenderInv, NEW c \in Caller, NEW t \in Thread, NEW room \in Room \cup {None},
           FetchUserProfile(c, t, room), NEW d \in Caller
    PROVE  OneSender(d)'
<1>1. submitted \in Seq(Request) /\ caller \in [Caller -> Result] /\ caller[c].state = "idle" /\ UNCHANGED fetches
  BY DEF Typed, TypeOK, Result, FetchUserProfile
<1>2. OneSender(d) /\ OneSender(c) /\ d # None /\ Tasks(d)' = Tasks(d) /\ ~Waits(c)
  BY <1>1, ProfilesAssumption DEF SenderInv, Tasks, Waits
<1>3. ASSUME caller' \in {[caller EXCEPT ![c] = Call("error")],
                         [caller EXCEPT ![c] = Answered(cache[t].profile)]}
      PROVE  Waits(d)' <=> Waits(d)
  BY <1>1, <1>2, <1>3 DEF Waits, Call, Answered
<1>4. CASE InFlight(c, t)
  <2>1. UNCHANGED submitted /\ caller' = [caller EXCEPT ![c] = Call("error")]
    BY <1>4 DEF InFlight
  <2> QED BY <1>2, <1>3, <2>1, SameSenders DEF Requests
<1>5. CASE Answer(c, t, room)
  <2>1. caller' = [caller EXCEPT ![c] = Answered(cache[t].profile)]
    BY <1>5 DEF Answer
  <2>2. Requests(d)' = Requests(d)
    <3>1. CASE UNCHANGED submitted
      BY <3>1 DEF Requests
    <3>2. CASE Submit(room, None)
      <4> DEFINE r == [room |-> room, sender |-> None]
      <4>1. r \in Request /\ r.sender # d /\ submitted' = Append(submitted, r)
        BY <1>2, <3>2 DEF Request, Submit
      <4> HIDE DEF r
      <4>2. Requests(d)' = Requests(d) \cup (IF r.sender = d THEN {Len(submitted) + 1} ELSE {})
        BY <1>1, <4>1, RequestsOfAppend
      <4> QED BY <4>1, <4>2
    <3> QED BY <1>5, <3>1, <3>2 DEF Answer
  <2> QED BY <1>2, <1>3, <2>1, <2>2, SameSenders
<1>6. CASE FetchMissing(c, t, room)
  <2> DEFINE r == [room |-> room, sender |-> c]
  <2>1. r \in Request /\ r.sender = c /\ submitted' = Append(submitted, r)
    BY <1>6 DEF Request, FetchMissing, Submit
  <2> HIDE DEF r
  <2>2. Requests(d)' = Requests(d) \cup (IF r.sender = d THEN {Len(submitted) + 1} ELSE {})
    BY <1>1, <2>1, RequestsOfAppend
  <2>3. caller' = [caller EXCEPT ![c] = Call("waiting")]
    BY <1>6 DEF FetchMissing
  <2>4. CASE d # c
    <3>1. Requests(d)' = Requests(d) /\ (Waits(d)' <=> Waits(d))
      BY <1>1, <2>1, <2>2, <2>3, <2>4 DEF Waits
    <3> QED BY <1>2, <3>1, SameSenders
  <2>5. CASE d = c
    <3>1. Waits(d)'
      BY <1>1, <2>3, <2>5 DEF Waits, Call
    <3>2. Requests(d) = {} /\ Tasks(d) = {}
      BY <1>2, <2>5 DEF OneSender
    <3>3. Requests(d)' = {Len(submitted) + 1} /\ Tasks(d)' = {}
      BY <1>2, <2>1, <2>2, <2>5, <3>2
    <3> QED BY <3>1, <3>3 DEF OneSender
  <2> QED BY <2>4, <2>5
<1> QED BY <1>4, <1>5, <1>6 DEF FetchUserProfile

(* The sender goes with the request from the queue into the task. *)
LEMMA TakeRequestSender ==
    ASSUME Typed, SenderInv, TakeRequest, NEW d \in Caller
    PROVE  OneSender(d)'
<1> DEFINE f == [request |-> Head(submitted), update |-> None]
<1>1. /\ submitted \in Seq(Request) /\ submitted # <<>> /\ submitted' = Tail(submitted)
      /\ fetches' = fetches \cup {f} /\ UNCHANGED caller /\ f.request = Head(submitted)
  BY DEF Typed, TypeOK, TakeRequest
<1> HIDE DEF f
<1>2. OneSender(d) /\ (Waits(d)' <=> Waits(d))
  BY <1>1 DEF SenderInv, Waits
<1>3. /\ \A i \in Requests(d)' : i + 1 \in Requests(d) /\ i + 1 # 1 /\ i \in Nat
      /\ \A i \in Requests(d) : i = 1 \/ i - 1 \in Requests(d)'
      /\ 1 \in Requests(d) <=> Head(submitted).sender = d
  BY <1>1, RequestsOfTail
<1>4. CASE Head(submitted).sender = d
  <2>1. Requests(d) = {1} /\ Tasks(d) = {} /\ Waits(d)
    BY <1>2, <1>3, <1>4 DEF OneSender
  <2>2. Requests(d)' = {}
    BY <1>3, <2>1
  <2>3. Tasks(d)' = {f}
    BY <1>1, <1>4, <2>1 DEF Tasks
  <2> QED BY <1>2, <2>1, <2>2, <2>3 DEF OneSender
<1>5. CASE Head(submitted).sender # d
  <2>1. Tasks(d)' = Tasks(d)
    BY <1>1, <1>5 DEF Tasks
  <2>2. \A i, j \in Requests(d)' : i = j
    <3> TAKE i \in Requests(d)', j \in Requests(d)'
    <3>1. i + 1 \in Requests(d) /\ j + 1 \in Requests(d) /\ i \in Nat /\ j \in Nat
      BY <1>3
    <3>2. i + 1 = j + 1
      BY <1>2, <3>1 DEF OneSender
    <3> QED BY <3>1, <3>2
  <2>3. Requests(d)' # {} <=> Requests(d) # {}
    BY <1>3, <1>5
  <2> QED BY <1>2, <2>1, <2>2, <2>3 DEF OneSender
<1> QED BY <1>4, <1>5

(* A task that ends takes its sender along. *)
LEMMA FetchSender ==
    ASSUME Typed, SenderInv, NEW f \in fetches, FetchNext(f), NEW d \in Caller
    PROVE  OneSender(d)'
<1>1. caller \in [Caller -> Result] /\ UNCHANGED submitted /\ f \in Fetch
  BY DEF Typed, TypeOK, Result, FetchNext, FetchAnswered, FetchFails, FetchDone
<1>2. OneSender(d) /\ d # None /\ Requests(d)' = Requests(d)
  BY <1>1, ProfilesAssumption DEF SenderInv, Requests
<1>3. CASE FetchAnswered(f)
  <2>1. PICK u \in Fetched(f.request) : fetches' = (fetches \ {f}) \cup {[f EXCEPT !.update = u]}
    BY <1>3 DEF FetchAnswered
  <2> DEFINE g == [f EXCEPT !.update = u]
  <2>2. g.request = f.request
    BY <1>1 DEF Fetch
  <2>3. fetches' = (fetches \ {f}) \cup {g}
    BY <2>1
  <2> HIDE DEF g
  <2>4. Waits(d)' <=> Waits(d)
    BY <1>3 DEF FetchAnswered, Waits
  <2>5. CASE f.request.sender = d
    <3>1. Tasks(d) = {f} /\ Requests(d) = {} /\ Waits(d)
      BY <1>2, <2>5 DEF OneSender, Tasks
    <3>2. Tasks(d)' = {g}
      BY <2>2, <2>3, <2>5, <3>1 DEF Tasks
    <3> QED BY <1>2, <2>4, <3>1, <3>2 DEF OneSender
  <2>6. CASE f.request.sender # d
    <3>1. Tasks(d)' = Tasks(d)
      BY <2>2, <2>3, <2>6 DEF Tasks
    <3> QED BY <1>2, <2>4, <3>1, SameSenders
  <2> QED BY <2>5, <2>6
<1>4. CASE FetchFails(f) \/ FetchDone(f)
  <2>1. fetches' = fetches \ {f}
    BY <1>4 DEF FetchFails, FetchDone
  <2>2. CASE f.request.sender = d
    <3>1. Tasks(d) = {f} /\ Requests(d) = {}
      BY <1>2, <2>2 DEF OneSender, Tasks
    <3>2. Tasks(d)' = {}
      BY <2>1, <3>1 DEF Tasks
    <3>3. ~Waits(d)'
      BY <1>1, <1>2, <1>4, <2>2 DEF FetchFails, FetchDone, Waits, Call, Answered
    <3> QED BY <1>2, <3>1, <3>2, <3>3 DEF OneSender
  <2>3. CASE f.request.sender # d
    <3>1. Tasks(d)' = Tasks(d)
      BY <2>1, <2>3 DEF Tasks
    <3>2. caller'[d] = caller[d]
      BY <1>1, <1>4, <2>3 DEF FetchFails, FetchDone
    <3> QED BY <1>2, <3>1, <3>2, SameSenders DEF Waits
  <2> QED BY <2>2, <2>3
<1> QED BY <1>3, <1>4 DEF FetchNext

LEMMA SenderStep == Typed /\ SenderInv /\ [Next]_vars => SenderInv'
<1> SUFFICES ASSUME Typed, SenderInv, [Next]_vars, NEW d \in Caller PROVE OneSender(d)'
  BY DEF SenderInv
<1>1. ASSUME NEW c \in Caller, NEW t \in Thread, NEW room \in Room \cup {None}, FetchUserProfile(c, t, room)
      PROVE  OneSender(d)'
  BY <1>1, FetchUserProfileSender
<1>2. CASE TakeRequest
  BY <1>2, TakeRequestSender
<1>3. CASE \E f \in fetches : FetchNext(f)
  BY <1>3, FetchSender
<1>4. CASE UNCHANGED <<submitted, fetches, caller>>
  <2>1. Requests(d)' = Requests(d) /\ Tasks(d)' = Tasks(d) /\ (Waits(d)' <=> Waits(d)) /\ OneSender(d)
    BY <1>4 DEF SenderInv, Requests, Tasks, Waits
  <2> QED BY <2>1, SameSenders
<1> QED BY <1>1, <1>2, <1>3, <1>4 DEF Next, IgnoreUser, ProfileChanges, Drain, ApplyUpdate, EndDrain, vars

(* A caller that waits has its sender in one request or in one task, for   *)
(* any number of calls, threads and tasks that fetch at the same time.     *)
THEOREM SendersAreKept == Spec => []SenderIsKept
<1>1. SenderInv => SenderIsKept
  <2> SUFFICES ASSUME SenderInv, NEW c \in Caller, Waits(c)
               PROVE  \/ Tasks(c) = {} /\ \E i \in Requests(c) : Requests(c) = {i}
                      \/ Requests(c) = {} /\ \E f \in Tasks(c) : Tasks(c) = {f}
    BY DEF SenderIsKept, Requests, Tasks
  <2>1. /\ \A i, j \in Requests(c) : i = j
        /\ \A f, g \in Tasks(c) : f = g
        /\ Requests(c) = {} \/ Tasks(c) = {}
        /\ Requests(c) # {} \/ Tasks(c) # {}
    BY DEF SenderInv, OneSender
  <2>2. CASE Requests(c) # {}
    <3>1. PICK i \in Requests(c) : TRUE
      BY <2>2
    <3>2. Requests(c) = {i}
      BY <2>1, <3>1
    <3> QED BY <2>1, <2>2, <3>2
  <2>3. CASE Tasks(c) # {}
    <3>1. PICK f \in Tasks(c) : TRUE
      BY <2>3
    <3>2. Tasks(c) = {f}
      BY <2>1, <3>1
    <3> QED BY <2>1, <2>3, <3>2
  <2> QED BY <2>1, <2>2, <2>3
<1> QED BY <1>1, TypedInit, TypedStep, SenderInit, SenderStep, PTL DEF Spec
=============================================================================
