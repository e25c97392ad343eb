------------------------ MODULE RoomScreensOwnership ------------------------
(***************************************************************************)
(* Proofs about RoomScreens, for any rooms, threads, number of screens and *)
(* of runtime threads: the state is well-typed, the update receiver of a   *)
(* timeline has one owner and is not lost, and a thread is built once.     *)
(***************************************************************************)
EXTENDS RoomScreens, TLAPS

(* A subscription that can be ended has a task. *)
HandlesHaveTasks == \A k \in subscribed : receiptTasks[k] # 0

(* Receivers exist only of timelines that were built. *)
OnlyBuilt ==
    /\ endpoints \subseteq 1..built
    /\ \A k \in Kind : saved[k] <= built
    /\ \A i \in DOMAIN screens : screens[i].tl <= built

TInv == TypeOK /\ HandlesHaveTasks

Own == OnlyBuilt /\ OneHolder

----------------------------------------------------------------------------
(* What a well-typed state says of the screens. *)
LEMMA ScreensOf ==
    ASSUME TypeOK
    PROVE  /\ DOMAIN screens = 1..Len(screens) /\ Len(screens) \in Nat
           /\ \A i \in DOMAIN screens : screens[i] \in Screen /\ i \in 1..MaxSelections
           /\ MaxSelections \in Nat /\ MaxTimelines \in Nat
BY ScreensAssumption DEF TypeOK

(* 0 stands for no timeline. *)
LEMMA IdsAreNumbers == 0 \in TimelineId /\ TimelineId \subseteq Nat
BY ScreensAssumption DEF TimelineId

(* A sequence in which one element is replaced. *)
LEMMA ExceptType ==
    ASSUME NEW S, NEW s \in Seq(S), NEW i \in DOMAIN s, NEW e \in S
    PROVE  /\ [s EXCEPT ![i] = e] \in Seq(S)
           /\ Len([s EXCEPT ![i] = e]) = Len(s)
           /\ DOMAIN [s EXCEPT ![i] = e] = DOMAIN s
           /\ [s EXCEPT ![i] = e][i] = e
           /\ \A j \in DOMAIN s : j # i => [s EXCEPT ![i] = e][j] = s[j]
OBVIOUS

(* One screen changes. *)
LEMMA ScreenChange ==
    ASSUME TypeOK, NEW i \in DOMAIN screens, NEW f \in Screen, screens' = [screens EXCEPT ![i] = f]
    PROVE  /\ screens' \in Seq(Screen) /\ Len(screens') = Len(screens)
           /\ DOMAIN screens' = DOMAIN screens
           /\ screens'[i] = f
           /\ \A j \in DOMAIN screens : j # i => screens'[j] = screens[j]
BY ExceptType DEF TypeOK

(* The request async_worker takes, and what remains. *)
LEMMA HeadType ==
    ASSUME TypeOK, requests # <<>>
    PROVE  /\ Head(requests) \in Request
           /\ Tail(requests) \in Seq(Request)
           /\ Head(requests).kind \in Kind
           /\ Head(requests).req = "create" =>
                Head(requests).kind \in Thread /\ Head(requests).screen \in 1..MaxSelections
<1>1. Head(requests) \in Request /\ Tail(requests) \in Seq(Request)
  BY DEF TypeOK
<1>2. QED
  BY <1>1 DEF Request, Kind

----------------------------------------------------------------------------
(* The typing invariant: the initial state. *)
LEMMA TInit == Init => TInv
<1> SUFFICES ASSUME Init PROVE TInv
  OBVIOUS
<1>1. screens \in Seq(Screen) /\ Len(screens) <= MaxSelections /\ requests \in Seq(Request)
  BY ScreensAssumption DEF Init
<1>2. QED
  BY <1>1, ScreensAssumption DEF Init, TInv, TypeOK, HandlesHaveTasks, TimelineId

(* insert_room_details keeps it: a new timeline gets a new number. *)
LEMMA TInsert ==
    ASSUME TInv, NEW r \in Room, InsertRoomDetails(r)
    PROVE  TInv'
<1>1. built' \in TimelineId \ {0}
  BY ScreensAssumption DEF TInv, TypeOK, TimelineId, InsertRoomDetails
<1>2. timeline' \in [Kind -> TimelineId]
  BY <1>1, IdsAreNumbers DEF TInv, TypeOK, InsertRoomDetails
<1>3. endpoints' \subseteq TimelineId \ {0} /\ building' \subseteq Thread
  BY <1>1 DEF TInv, TypeOK, InsertRoomDetails
<1>4. QED
  BY <1>1, <1>2, <1>3 DEF TInv, TypeOK, InsertRoomDetails, HandlesHaveTasks, workerVars

(* remove_room_details keeps it. *)
LEMMA TRemove ==
    ASSUME TInv, NEW r \in Room, RemoveRoomDetails(r)
    PROVE  TInv'
<1>1. timeline' \in [Kind -> TimelineId]
  BY IdsAreNumbers DEF TInv, TypeOK, RemoveRoomDetails
<1>2. endpoints' \subseteq TimelineId \ {0} /\ building' \subseteq Thread
  BY DEF TInv, TypeOK, RemoveRoomDetails
<1>3. QED
  BY <1>1, <1>2 DEF TInv, TypeOK, RemoveRoomDetails, HandlesHaveTasks, workerVars

(* The signal changes only the flag of the last screen. *)
LEMMA KillsLast ==
    ASSUME TypeOK, screens # <<>>
    PROVE  LET s == [screens EXCEPT ![Len(screens)].killed = TRUE] IN
           /\ s \in Seq(Screen) /\ Len(s) = Len(screens) /\ DOMAIN s = DOMAIN screens
           /\ \A j \in DOMAIN screens : s[j].tl = screens[j].tl /\ s[j].kind = screens[j].kind
<1> DEFINE n == Len(screens)
           f == [screens[n] EXCEPT !.killed = TRUE]
<1>1. screens \in Seq(Screen) /\ n \in DOMAIN screens /\ screens[n] \in Screen
  BY DEF TypeOK
<1>2. f \in Screen /\ f.tl = screens[n].tl /\ f.kind = screens[n].kind
  BY <1>1 DEF Screen
<1>3. [screens EXCEPT ![n].killed = TRUE] = [screens EXCEPT ![n] = f]
  BY <1>1
<1> HIDE DEF f, n
<1>4. /\ [screens EXCEPT ![n] = f] \in Seq(Screen)
      /\ Len([screens EXCEPT ![n] = f]) = Len(screens)
      /\ DOMAIN [screens EXCEPT ![n] = f] = DOMAIN screens
      /\ [screens EXCEPT ![n] = f][n] = f
      /\ \A j \in DOMAIN screens : j # n => [screens EXCEPT ![n] = f][j] = screens[j]
  BY <1>1, <1>2, ExceptType
<1>5. QED
  BY <1>2, <1>3, <1>4 DEF n

(* handle_current_active_room keeps it. *)
LEMMA TSelect ==
    ASSUME TInv, NEW k \in Kind, SelectRoom(k)
    PROVE  TInv'
<1>1. NewScreen(k) \in Screen
  BY ScreensAssumption DEF NewScreen, Screen, TimelineId
<1>2. screens' \in Seq(Screen) /\ Len(screens') <= MaxSelections
  <2>1. CASE screens = <<>> /\ screens' = << NewScreen(k) >>
    BY <1>1, <2>1, ScreensAssumption DEF SelectRoom
  <2>2. CASE screens # <<>> /\ screens' = Append([screens EXCEPT ![Len(screens)].killed = TRUE], NewScreen(k))
    <3> DEFINE s == [screens EXCEPT ![Len(screens)].killed = TRUE]
    <3>1. s \in Seq(Screen) /\ Len(s) = Len(screens)
      BY <2>2, KillsLast DEF TInv
    <3>2. screens' = Append(s, NewScreen(k))
      BY <2>2
    <3>3. Len(screens) < MaxSelections /\ Len(screens) \in Nat /\ MaxSelections \in Nat
      BY ScreensAssumption DEF SelectRoom, TInv, TypeOK
    <3> HIDE DEF s
    <3>4. QED
      BY <1>1, <3>1, <3>2, <3>3
  <2>3. CASE screens' = screens
    BY <2>3 DEF TInv, TypeOK
  <2>4. QED
    BY <2>1, <2>2, <2>3 DEF SelectRoom
<1>3. uiWorker' \in {"running", "panicked"}
  BY DEF SelectRoom, TInv, TypeOK
<1>4. QED
  BY <1>2, <1>3 DEF SelectRoom, TInv, TypeOK, HandlesHaveTasks, detailsVars, workerVars

(* submit_async_request appends a request. *)
LEMMA TRequest ==
    ASSUME TypeOK, NEW q \in Request
    PROVE  Append(requests, q) \in Seq(Request)
BY DEF TypeOK

(* Show gives the screen its timeline. *)
LEMMA TShow ==
    ASSUME TypeOK, NEW i \in DOMAIN screens, NEW tl \in TimelineId, Show(i, tl)
    PROVE  /\ screens' \in Seq(Screen) /\ Len(screens') = Len(screens)
           /\ DOMAIN screens' = DOMAIN screens
           /\ screens'[i].tl = tl /\ screens'[i].kind = screens[i].kind
           /\ \A j \in DOMAIN screens : j # i => screens'[j] = screens[j]
           /\ requests' \in Seq(Request)
<1> DEFINE f == [screens[i] EXCEPT !.at = "running", !.tl = tl]
<1>1. screens[i] \in Screen
  BY ScreensOf
<1>2. f \in Screen /\ f.tl = tl /\ f.kind = screens[i].kind
  BY <1>1 DEF Screen
<1>3. screens' = [screens EXCEPT ![i] = f]
  BY DEF Show
<1>4. Receipts(screens[i].kind, TRUE) \in Request
  BY <1>1 DEF Receipts, Request, Screen
<1>5. requests' \in Seq(Request)
  <2> DEFINE q == Receipts(screens[i].kind, TRUE)
  <2>1. requests' = Append(requests, q)
    BY DEF Show
  <2>2. q \in Request
    BY <1>4
  <2> HIDE DEF q
  <2>3. QED
    BY <2>1, <2>2, TRequest
<1> HIDE DEF f
<1>6. QED
  BY <1>2, <1>3, <1>5, ScreenChange

(* A screen goes to another place. *)
LEMMA TMove ==
    ASSUME TypeOK, NEW i \in DOMAIN screens,
           NEW p \in {"taking", "waiting", "created", "running", "ended", "panicked"},
           screens' = [screens EXCEPT ![i].at = p]
    PROVE  /\ screens' \in Seq(Screen) /\ Len(screens') = Len(screens)
           /\ DOMAIN screens' = DOMAIN screens
           /\ \A j \in DOMAIN screens :
                screens'[j].tl = screens[j].tl /\ screens'[j].kind = screens[j].kind
<1> DEFINE f == [screens[i] EXCEPT !.at = p]
<1>1. screens[i] \in Screen
  BY ScreensOf
<1>2. f \in Screen /\ f.tl = screens[i].tl /\ f.kind = screens[i].kind
  BY <1>1 DEF Screen
<1>3. screens' = [screens EXCEPT ![i] = f]
  OBVIOUS
<1> HIDE DEF f
<1>4. QED
  BY <1>2, <1>3, ScreenChange

(* save_state takes the timeline from the screen. *)
LEMMA TSave ==
    ASSUME TypeOK, NEW i \in DOMAIN screens, SaveState(i)
    PROVE  /\ screens' \in Seq(Screen) /\ Len(screens') = Len(screens)
           /\ DOMAIN screens' = DOMAIN screens
           /\ screens'[i].tl = 0 /\ screens'[i].kind = screens[i].kind
           /\ \A j \in DOMAIN screens : j # i => screens'[j] = screens[j]
<1> DEFINE f == [screens[i] EXCEPT !.at = "saved", !.tl = 0]
<1>1. screens[i] \in Screen
  BY ScreensOf
<1>2. f \in Screen /\ f.tl = 0 /\ f.kind = screens[i].kind
  BY <1>1, IdsAreNumbers DEF Screen
<1>3. screens' = [screens EXCEPT ![i] = f]
  BY DEF SaveState
<1> HIDE DEF f
<1>4. QED
  BY <1>2, <1>3, ScreenChange

(* The endpoints leave the details. *)
LEMMA TTake ==
    ASSUME TypeOK, NEW i \in DOMAIN screens, TakeEndpoints(i)
    PROVE  /\ screens' \in Seq(Screen) /\ Len(screens') = Len(screens)
           /\ requests' \in Seq(Request)
           /\ endpoints' \subseteq TimelineId \ {0}
<1>1. screens[i].kind \in Kind /\ timeline[screens[i].kind] \in TimelineId
  BY ScreensOf DEF TypeOK, Screen
<1>2. QED
  BY <1>1, TShow DEF TakeEndpoints, TypeOK

(* A step of a screen task keeps it. *)
LEMMA TScreenStep ==
    ASSUME TInv, NEW i, ScreenStep(i)
    PROVE  TInv'
<1> USE DEF TInv
<1>0. i \in DOMAIN screens /\ screens[i] \in Screen /\ screens[i].kind \in Kind /\ i \in 1..MaxSelections
  BY ScreensOf DEF ScreenStep, RestoreState, ShowTimeline, ThreadAnswered, ShowThread, EndScreen, Unsubscribe, At, Screen
<1>1. CASE RestoreState(i)
  <2>1. saved[screens[i].kind] \in TimelineId /\ saved' \in [Kind -> TimelineId]
    BY <1>0, <1>1, IdsAreNumbers DEF RestoreState, TypeOK
  <2>2. screens' \in Seq(Screen) /\ Len(screens') = Len(screens) /\ requests' \in Seq(Request)
    BY <1>0, <1>1, <2>1, TShow, TMove DEF RestoreState, TypeOK
  <2>3. QED
    BY <1>1, <2>1, <2>2 DEF RestoreState, TypeOK, HandlesHaveTasks, detailsVars, workerVars
<1>2. CASE ShowTimeline(i)
  <2>1. /\ screens' \in Seq(Screen) /\ Len(screens') = Len(screens)
        /\ requests' \in Seq(Request)
        /\ endpoints' \subseteq TimelineId \ {0}
    <3>1. CASE TakeEndpoints(i)
      BY <1>0, <3>1, TTake
    <3>2. CASE ShowNothing(i) /\ UNCHANGED <<endpoints, requests>>
      BY <1>0, <3>2, TMove DEF ShowNothing, TypeOK
    <3>3. CASE /\ screens[i].kind \in Thread
               /\ screens' = [screens EXCEPT ![i].at = "waiting"]
               /\ requests' = Append(requests, [req |-> "create", kind |-> screens[i].kind, screen |-> i])
               /\ UNCHANGED endpoints
      <4>1. [req |-> "create", kind |-> screens[i].kind, screen |-> i] \in Request
        BY <1>0, <3>3 DEF Request
      <4>2. QED
        BY <1>0, <3>3, <4>1, TMove, TRequest DEF TypeOK
    <3>4. QED
      BY <1>2, <3>1, <3>2, <3>3 DEF ShowTimeline
  <2>2. QED
    BY <1>2, <2>1 DEF ShowTimeline, TypeOK, HandlesHaveTasks, workerVars
<1>3. CASE ThreadAnswered(i)
  <2>1. screens' \in Seq(Screen) /\ Len(screens') = Len(screens)
    BY <1>0, <1>3, TMove DEF ThreadAnswered, ShowNothing
  <2>2. QED
    BY <1>3, <2>1 DEF ThreadAnswered, TypeOK, HandlesHaveTasks, detailsVars, workerVars
<1>4. CASE ShowThread(i)
  <2>1. /\ screens' \in Seq(Screen) /\ Len(screens') = Len(screens)
        /\ requests' \in Seq(Request)
        /\ endpoints' \subseteq TimelineId \ {0}
    <3>1. Receipts(screens[i].kind, FALSE) \in Request
      BY <1>0 DEF Receipts, Request
    <3>2. QED
      BY <1>0, <1>4, <3>1, TTake, TMove, TRequest DEF ShowThread, TypeOK
  <2>2. QED
    BY <1>4, <2>1 DEF ShowThread, TypeOK, HandlesHaveTasks, workerVars
<1>5. CASE EndScreen(i)
  <2>1. screens' \in Seq(Screen) /\ Len(screens') = Len(screens)
    BY <1>0, <1>5, TSave DEF EndScreen
  <2>2. saved' \in [Kind -> TimelineId]
    BY <1>0, <1>5 DEF EndScreen, SaveState, TypeOK, Screen
  <2>3. QED
    BY <1>5, <2>1, <2>2 DEF EndScreen, TypeOK, HandlesHaveTasks, detailsVars, workerVars
<1>6. CASE Unsubscribe(i)
  <2>1. Receipts(screens[i].kind, FALSE) \in Request
    BY <1>0 DEF Receipts, Request
  <2>2. screens' \in Seq(Screen) /\ Len(screens') = Len(screens) /\ requests' \in Seq(Request)
    BY <1>0, <1>6, <2>1, TMove, TRequest DEF Unsubscribe
  <2>3. QED
    BY <1>6, <2>2 DEF Unsubscribe, TypeOK, HandlesHaveTasks, detailsVars, workerVars
<1>7. QED
  BY <1>1, <1>2, <1>3, <1>4, <1>5, <1>6 DEF ScreenStep

(* An answer changes neither the number of screens nor what they hold.     *)
LEMMA TReply ==
    ASSUME TypeOK, NEW i, NEW a \in {"sent", "dropped"}, Reply(i, a)
    PROVE  /\ screens' \in Seq(Screen) /\ Len(screens') = Len(screens)
           /\ DOMAIN screens' = DOMAIN screens
           /\ \A j \in DOMAIN screens :
                screens'[j].tl = screens[j].tl /\ screens'[j].kind = screens[j].kind
<1>1. CASE i \in DOMAIN screens
  <2> DEFINE f == [screens[i] EXCEPT !.reply = a]
  <2>1. f \in Screen /\ f.tl = screens[i].tl /\ f.kind = screens[i].kind
    BY <1>1, ScreensOf DEF Screen
  <2>2. screens' = [screens EXCEPT ![i] = f]
    BY DEF Reply
  <2> HIDE DEF f
  <2>3. QED
    BY <1>1, <2>1, <2>2, ScreenChange
<1>2. CASE i \notin DOMAIN screens
  <2>1. screens' = screens
    BY <1>2 DEF TypeOK, Reply
  <2>2. QED
    BY <2>1 DEF TypeOK
<1>3. QED
  BY <1>1, <1>2

(* CreateThreadTimeline keeps it. *)
LEMMA TCreate ==
    ASSUME TInv, CreateThreadTimeline
    PROVE  TInv'
<1> USE DEF TInv
<1> DEFINE q == Head(requests)
<1>1. /\ requests' \in Seq(Request)
      /\ q.kind \in Thread /\ q.screen \in 1..MaxSelections
  BY HeadType DEF CreateThreadTimeline, TakeRequest
<1>2. /\ screens' \in Seq(Screen) /\ Len(screens') = Len(screens)
      /\ building' \subseteq Thread
      /\ creations' \subseteq Creation
  <2>1. CASE Refuse(q)
    BY <2>1, TReply DEF Refuse, TypeOK
  <2>2. CASE /\ building' = building \cup {q.kind}
             /\ creations' = creations \cup {[kind |-> q.kind, screen |-> q.screen]}
             /\ UNCHANGED screens
    BY <1>1, <2>2 DEF TypeOK, Creation
  <2>3. QED
    BY <2>1, <2>2 DEF CreateThreadTimeline
<1>3. QED
  BY <1>1, <1>2 DEF CreateThreadTimeline, TypeOK, HandlesHaveTasks

(* A receipt task is only aborted when its handle is there. *)
LEMMA TReceipts ==
    ASSUME TInv, SubscribeToReceipts
    PROVE  TInv'
<1> USE DEF TInv
<1> DEFINE k == Head(requests).kind
<1>1. requests' \in Seq(Request) /\ k \in Kind
  BY HeadType DEF SubscribeToReceipts, TakeRequest
<1>2. /\ subscribed' \subseteq Kind
      /\ receiptTasks' \in [Kind -> Nat]
      /\ \A l \in subscribed' : receiptTasks'[l] # 0
  <2>1. CASE subscribed' = subscribed \cup {k} /\ receiptTasks' = [receiptTasks EXCEPT ![k] = @ + 1]
    BY <1>1, <2>1 DEF TypeOK, HandlesHaveTasks
  <2>2. CASE Abort(k)
    BY <1>1, <2>2 DEF TypeOK, HandlesHaveTasks, Abort
  <2>3. CASE UNCHANGED <<subscribed, receiptTasks>>
    BY <2>3 DEF TypeOK, HandlesHaveTasks
  <2>4. QED
    BY <2>1, <2>2, <2>3 DEF SubscribeToReceipts
<1>3. QED
  BY <1>1, <1>2 DEF SubscribeToReceipts, TypeOK, HandlesHaveTasks, detailsVars

(* The end of the task that builds a thread timeline keeps it. *)
LEMMA TCreationEnds ==
    ASSUME TInv, NEW c \in creations, CreationEnds(c)
    PROVE  TInv'
<1> USE DEF TInv
<1>0. c.kind \in Thread /\ c.kind \in Kind
  BY DEF TypeOK, Creation, Kind
<1>1. creations' \subseteq Creation
  BY DEF CreationEnds, ThreadBuilt, ThreadFails, TypeOK
<1>2. screens' \in Seq(Screen) /\ Len(screens') = Len(screens)
  BY TReply DEF CreationEnds, ThreadBuilt, ThreadFails, RoomGone
<1>3. /\ built' \in TimelineId
      /\ timeline' \in [Kind -> TimelineId]
      /\ endpoints' \subseteq TimelineId \ {0}
      /\ building' \subseteq Thread
  <2>1. CASE /\ built < MaxTimelines
             /\ built' = built + 1
             /\ building' = building \ {c.kind}
             /\ timeline' = [timeline EXCEPT ![c.kind] = built']
             /\ endpoints' = (endpoints \ {timeline[c.kind]}) \cup {built'}
    <3>1. built' \in TimelineId \ {0}
      BY <2>1, ScreensAssumption DEF TypeOK, TimelineId
    <3>2. QED
      BY <2>1, <3>1 DEF TypeOK
  <2>2. CASE UNCHANGED <<built, timeline, endpoints>> /\ building' \subseteq building
    BY <2>2 DEF TypeOK
  <2>3. QED
    BY <2>1, <2>2 DEF CreationEnds, ThreadBuilt, ThreadFails, RoomGone, detailsVars
<1>4. QED
  BY <1>1, <1>2, <1>3 DEF CreationEnds, ThreadBuilt, ThreadFails, RoomGone, TypeOK, HandlesHaveTasks

(* Every step keeps it. *)
LEMMA TStep == TInv /\ [Next]_vars => TInv'
<1> SUFFICES ASSUME TInv, [Next]_vars PROVE TInv'
  OBVIOUS
<1>1. CASE Next
  BY <1>1, TInsert, TRemove, TSelect, TScreenStep, TCreate, TReceipts, TCreationEnds DEF Next, WorkerStep
<1>2. CASE UNCHANGED vars
  BY <1>2 DEF TInv, TypeOK, HandlesHaveTasks, vars, detailsVars, workerVars
<1>3. QED
  BY <1>1, <1>2

(* Every reachable state is well-typed; no task of a subscription is ended *)
(* that was not started, or ended twice.                                   *)
THEOREM ScreensTypeCorrect == Spec => []TypeOK
<1>1. TInv => TypeOK
  BY DEF TInv
<1>2. QED
  BY <1>1, TInit, TStep, PTL DEF Spec

----------------------------------------------------------------------------
(* One owner. The steps that hand a receiver on are Show from a saved      *)
(* state, TakeEndpoints and SaveState; the others leave the owners alone,  *)
(* or make a receiver nobody has, or forget one.                           *)

(* Nobody has a receiver at first. *)
LEMMA OwnInit == Init => Own
BY ScreensAssumption DEF Init, Own, OnlyBuilt, OneHolder, Kind

(* Details come or go: the endpoints shrink, but for a new one.            *)
LEMMA OwnDetails ==
    ASSUME TypeOK, Own,
           \/ built' = built /\ endpoints' \subseteq endpoints
           \/ built' = built + 1 /\ endpoints' \subseteq endpoints \cup {built'},
           saved' = saved, DOMAIN screens' = DOMAIN screens,
           \A i \in DOMAIN screens : screens'[i].tl = screens[i].tl
    PROVE  Own'
<1>1. /\ built \in Nat
      /\ \A k \in Kind : saved[k] \in Nat
      /\ \A i \in DOMAIN screens : screens[i].tl \in Nat
  BY ScreensOf, IdsAreNumbers DEF TypeOK, Screen
<1>2. OnlyBuilt'
  <2>1. endpoints' \subseteq 1..built' /\ built <= built'
    <3>1. endpoints \subseteq 1..built /\ built \in Nat
      BY <1>1 DEF Own, OnlyBuilt
    <3>2. CASE built' = built /\ endpoints' \subseteq endpoints
      BY <3>1, <3>2
    <3>3. CASE built' = built + 1 /\ endpoints' \subseteq endpoints \cup {built'}
      <4>1. 1..built \subseteq 1..built' /\ built' \in 1..built'
        BY <3>1, <3>3
      <4>2. QED
        BY <3>1, <3>3, <4>1
    <3>4. QED
      BY <3>2, <3>3
  <2>2. \A k \in Kind : saved'[k] <= built'
    BY <1>1, <2>1 DEF Own, OnlyBuilt
  <2>3. \A i \in DOMAIN screens' : screens'[i].tl <= built'
    BY <1>1, <2>1 DEF Own, OnlyBuilt
  <2>4. QED
    BY <2>1, <2>2, <2>3 DEF OnlyBuilt
<1>3. OneHolder'
  <2>1. ASSUME NEW id \in 1..built', id \in endpoints'
        PROVE  /\ \A k \in Kind : saved[k] # id
               /\ \A i \in DOMAIN screens : screens[i].tl # id
    <3>1. CASE id \in endpoints
      <4>1. id \in 1..built
        BY <3>1 DEF Own, OnlyBuilt
      <4>2. QED
        BY <3>1, <4>1 DEF Own, OneHolder
    <3>2. CASE id = built + 1
      BY <1>1, <3>2 DEF Own, OnlyBuilt
    <3>3. QED
      BY <2>1, <3>1, <3>2
  <2>2. QED
    BY <2>1 DEF Own, OneHolder
<1>4. QED
  BY <1>2, <1>3 DEF Own

(* A saved state goes to the screen. *)
LEMMA OwnRestore ==
    ASSUME TypeOK, Own, NEW i \in DOMAIN screens, RestoreState(i)
    PROVE  Own'
<1> DEFINE k == screens[i].kind
<1>0. /\ k \in Kind /\ saved[k] \in TimelineId
      /\ saved \in [Kind -> TimelineId]
      /\ built \in Nat
  BY ScreensOf, IdsAreNumbers DEF TypeOK, Screen
<1>1. CASE /\ saved[k] # 0
           /\ saved' = [saved EXCEPT ![k] = 0]
           /\ Show(i, saved[k])
  <2>1. /\ DOMAIN screens' = DOMAIN screens
        /\ screens'[i].tl = saved[k]
        /\ \A j \in DOMAIN screens : j # i => screens'[j] = screens[j]
    BY <1>0, <1>1, TShow
  <2>2. saved'[k] = 0 /\ \A l \in Kind : l # k => saved'[l] = saved[l]
    BY <1>0, <1>1
  <2>3. endpoints' = endpoints /\ built' = built
    BY DEF RestoreState, detailsVars
  <2>4. saved[k] \in 1..built
    BY <1>0, <1>1 DEF Own, OnlyBuilt, TimelineId
  <2> HIDE DEF k
  <2>5. OnlyBuilt'
    BY <1>0, <2>1, <2>2, <2>3, <2>4 DEF Own, OnlyBuilt
  <2>6. OneHolder'
    <3>1. ASSUME NEW id \in 1..built, id \in endpoints
          PROVE  /\ \A l \in Kind : saved'[l] # id
                 /\ \A j \in DOMAIN screens : screens'[j].tl # id
      BY <1>0, <2>1, <2>2, <3>1 DEF Own, OneHolder
    <3>2. ASSUME NEW j \in DOMAIN screens, screens'[j].tl # 0
          PROVE  /\ \A l \in Kind : saved'[l] # screens'[j].tl
                 /\ \A m \in DOMAIN screens : screens'[j].tl = screens'[m].tl => j = m
      BY <1>0, <1>1, <2>1, <2>2, <3>2 DEF Own, OneHolder
    <3>3. \A l, m \in Kind : saved'[l] # 0 /\ saved'[l] = saved'[m] => l = m
      BY <2>2 DEF Own, OneHolder
    <3>4. QED
      BY <2>1, <2>3, <3>1, <3>2, <3>3 DEF OneHolder
  <2>7. QED
    BY <2>5, <2>6 DEF Own
<1>2. CASE screens' = [screens EXCEPT ![i].at = "taking"] /\ UNCHANGED saved
  BY <1>2, TMove, OwnDetails DEF RestoreState, detailsVars
<1>3. QED
  BY <1>1, <1>2 DEF RestoreState

(* The endpoints go from the details to the screen. *)
LEMMA OwnTake ==
    ASSUME TypeOK, Own, NEW i \in DOMAIN screens, TakeEndpoints(i),
           UNCHANGED <<built, saved>>
    PROVE  Own'
<1> DEFINE t == timeline[screens[i].kind]
<1>1. t \in endpoints /\ t \in 1..built /\ t \in TimelineId
  BY DEF TakeEndpoints, Available, Own, OnlyBuilt, TypeOK
<1>2. endpoints' = endpoints \ {t}
  BY DEF TakeEndpoints
<1>3. /\ DOMAIN screens' = DOMAIN screens
      /\ screens'[i].tl = t
      /\ \A j \in DOMAIN screens : j # i => screens'[j] = screens[j]
  BY <1>1, TShow DEF TakeEndpoints
<1> HIDE DEF t
<1>4. OnlyBuilt'
  BY <1>1, <1>2, <1>3 DEF Own, OnlyBuilt
<1>5. OneHolder'
  <2>1. /\ \A k \in Kind : saved[k] # t
        /\ \A j \in DOMAIN screens : screens[j].tl # t
    BY <1>1 DEF Own, OneHolder
  <2>2. ASSUME NEW j \in DOMAIN screens, screens'[j].tl # 0
        PROVE  /\ \A k \in Kind : saved[k] # screens'[j].tl
               /\ \A m \in DOMAIN screens : screens'[j].tl = screens'[m].tl => j = m
    BY <1>3, <2>1, <2>2 DEF Own, OneHolder
  <2>3. ASSUME NEW id \in 1..built, id \in endpoints'
        PROVE  /\ \A k \in Kind : saved[k] # id
               /\ \A j \in DOMAIN screens : screens'[j].tl # id
    BY <1>2, <1>3, <2>3 DEF Own, OneHolder
  <2>4. QED
    BY <1>3, <2>2, <2>3 DEF Own, OneHolder
<1>6. QED
  BY <1>4, <1>5 DEF Own

(* The state of a screen that ends goes to the saved states. *)
LEMMA OwnSave ==
    ASSUME TypeOK, Own, NEW i \in DOMAIN screens, EndScreen(i)
    PROVE  Own'
<1> DEFINE k == screens[i].kind
           t == screens[i].tl
<1>0. k \in Kind /\ saved \in [Kind -> TimelineId] /\ built \in Nat /\ t \in TimelineId
  BY ScreensOf, IdsAreNumbers DEF TypeOK, Screen
<1>1. /\ DOMAIN screens' = DOMAIN screens
      /\ screens'[i].tl = 0
      /\ \A j \in DOMAIN screens : j # i => screens'[j] = screens[j]
  BY TSave DEF EndScreen
<1>2. endpoints' = endpoints /\ built' = built
  BY DEF EndScreen, detailsVars
<1>3. saved' = IF t = 0 THEN saved ELSE [saved EXCEPT ![k] = t]
  BY DEF EndScreen, SaveState
<1>4. /\ t <= built
      /\ t # 0 => /\ t \notin endpoints
                  /\ \A l \in Kind : saved[l] # t
                  /\ \A j \in DOMAIN screens : screens[j].tl = t => j = i
  BY <1>0 DEF Own, OnlyBuilt, OneHolder
<1> HIDE DEF k, t
<1>5. OnlyBuilt'
  BY <1>0, <1>1, <1>2, <1>3, <1>4 DEF Own, OnlyBuilt
<1>6. OneHolder'
  <2>1. ASSUME NEW id \in 1..built, id \in endpoints
        PROVE  /\ \A l \in Kind : saved'[l] # id
               /\ \A j \in DOMAIN screens : screens'[j].tl # id
    BY <1>0, <1>1, <1>3, <1>4, <2>1 DEF Own, OneHolder
  <2>2. ASSUME NEW j \in DOMAIN screens, screens'[j].tl # 0
        PROVE  /\ \A l \in Kind : saved'[l] # screens'[j].tl
               /\ \A m \in DOMAIN screens : screens'[j].tl = screens'[m].tl => j = m
    BY <1>0, <1>1, <1>3, <1>4, <2>2 DEF Own, OneHolder
  <2>3. \A l, m \in Kind : saved'[l] # 0 /\ saved'[l] = saved'[m] => l = m
    BY <1>0, <1>3, <1>4 DEF Own, OneHolder
  <2>4. QED
    BY <1>1, <1>2, <2>1, <2>2, <2>3 DEF OneHolder
<1>7. QED
  BY <1>5, <1>6 DEF Own

(* A new screen has no timeline. *)
LEMMA OwnSelect ==
    ASSUME TypeOK, Own, NEW k \in Kind, SelectRoom(k)
    PROVE  Own'
<1>0. UNCHANGED <<built, endpoints, saved>> /\ built \in Nat
  BY DEF SelectRoom, detailsVars, TypeOK, TimelineId
<1>1. CASE UNCHANGED screens
  BY <1>0, <1>1 DEF Own, OnlyBuilt, OneHolder
<1>2. CASE ~ UNCHANGED screens
  <2>1. /\ \A j \in DOMAIN screens' : screens'[j].tl # 0 => j \in DOMAIN screens /\ screens'[j].tl = screens[j].tl
        /\ \A j \in DOMAIN screens' : screens'[j].tl \in Nat
    <3>0. NewScreen(k) \in Screen /\ NewScreen(k).tl = 0
      BY IdsAreNumbers DEF NewScreen, Screen
    <3>1. CASE screens = <<>> /\ screens' = << NewScreen(k) >>
      BY <3>0, <3>1
    <3>2. CASE screens # <<>> /\ screens' = Append([screens EXCEPT ![Len(screens)].killed = TRUE], NewScreen(k))
      <4> DEFINE s == [screens EXCEPT ![Len(screens)].killed = TRUE]
                 f == NewScreen(k)
      <4>1. /\ s \in Seq(Screen) /\ Len(s) = Len(screens) /\ DOMAIN s = DOMAIN screens
            /\ \A j \in DOMAIN screens : s[j].tl = screens[j].tl
        BY <3>2, KillsLast
      <4>2. screens' = Append(s, f) /\ f \in Screen /\ f.tl = 0
        BY <3>0, <3>2
      <4> HIDE DEF s, f
      <4>3. \A j \in DOMAIN screens' : (j \in DOMAIN s /\ screens'[j] = s[j]) \/ screens'[j] = f
        BY <4>1, <4>2
      <4>4. \A j \in DOMAIN screens : screens[j].tl \in Nat
        BY ScreensOf DEF Screen, TimelineId
      <4>5. QED
        BY <4>1, <4>2, <4>3, <4>4
    <3>3. QED
      BY <1>2, <3>1, <3>2 DEF SelectRoom
  <2>2. OnlyBuilt'
    BY <1>0, <2>1 DEF Own, OnlyBuilt
  <2>3. OneHolder'
    BY <1>0, <2>1 DEF Own, OneHolder
  <2>4. QED
    BY <2>2, <2>3 DEF Own
<1>3. QED
  BY <1>1, <1>2

(* A step of a screen task keeps the owners apart. *)
LEMMA OwnScreenStep ==
    ASSUME TypeOK, Own, NEW i, ScreenStep(i)
    PROVE  Own'
<1>0. i \in DOMAIN screens
  BY DEF ScreenStep, RestoreState, ShowTimeline, ThreadAnswered, ShowThread, EndScreen, Unsubscribe, At
<1>1. CASE RestoreState(i)
  BY <1>0, <1>1, OwnRestore
<1>2. CASE EndScreen(i)
  BY <1>0, <1>2, OwnSave
<1>3. CASE TakeEndpoints(i) /\ UNCHANGED <<built, saved>>
  BY <1>0, <1>3, OwnTake
<1>4. CASE /\ \E p \in {"waiting", "created", "running", "ended", "panicked"} :
                screens' = [screens EXCEPT ![i].at = p]
           /\ UNCHANGED <<built, endpoints, saved>>
  BY <1>0, <1>4, TMove, OwnDetails
<1>5. QED
  BY <1>1, <1>2, <1>3, <1>4
     DEF ScreenStep, ShowTimeline, ThreadAnswered, ShowThread, Unsubscribe, ShowNothing, detailsVars

(* Every step does. *)
LEMMA OwnStep == TypeOK /\ Own /\ [Next]_vars => Own'
<1> SUFFICES ASSUME TypeOK, Own, [Next]_vars PROVE Own'
  OBVIOUS
<1>1. ASSUME NEW r \in Room, InsertRoomDetails(r) \/ RemoveRoomDetails(r)
      PROVE  Own'
  BY <1>1, OwnDetails DEF InsertRoomDetails, RemoveRoomDetails
<1>2. CASE WorkerStep
  BY <1>2, TReply, OwnDetails DEF WorkerStep, CreateThreadTimeline, SubscribeToReceipts, Refuse, detailsVars
<1>3. ASSUME NEW c \in creations, CreationEnds(c)
      PROVE  Own'
  BY <1>3, TReply, OwnDetails DEF CreationEnds, ThreadBuilt, ThreadFails, RoomGone, detailsVars
<1>4. CASE UNCHANGED vars
  BY <1>4 DEF vars, detailsVars, Own, OnlyBuilt, OneHolder
<1>5. QED
  BY <1>1, <1>2, <1>3, <1>4, OwnSelect, OwnScreenStep DEF Next

(* timeline.rs on take_timeline_endpoints: only a single receiver can      *)
(* exist. However screens, threads, details and requests interleave, no    *)
(* two screens, saved states or details share one.                         *)
THEOREM ReceiverHasOneHolder == Spec => []OneHolder
<1>1. Own => OneHolder
  BY DEF Own
<1>2. QED
  BY <1>1, ScreensTypeCorrect, OwnInit, OwnStep, PTL DEF Spec

----------------------------------------------------------------------------
(* The receiver is not lost. Timelines that are in the details of two      *)
(* kinds at once would be: removing one takes the endpoints of the other.  *)

Distinct ==
    /\ \A k \in Kind : timeline[k] <= built
    /\ \A k, l \in Kind : timeline[k] # 0 /\ timeline[k] = timeline[l] => k = l

(* A screen of the kind holds a timeline. *)
ShownByScreen(k) == \E i \in DOMAIN screens : screens[i].kind = k /\ screens[i].tl # 0

(* The receiver of a timeline is still in the details, or the state of the *)
(* kind is saved or shown.                                                 *)
Kept ==
    \A k \in Kind : timeline[k] # 0 =>
        timeline[k] \in endpoints \/ saved[k] # 0 \/ ShownByScreen(k)

KeptInv == Distinct /\ Kept

LEMMA KeptInit == Init => KeptInv
BY DEF Init, KeptInv, Distinct, Kept

(* What the details and numbers of a well-typed state are. *)
LEMMA DetailsOf ==
    ASSUME TypeOK
    PROVE  /\ built \in Nat
           /\ timeline \in [Kind -> TimelineId]
           /\ \A k \in Kind : timeline[k] \in Nat
           /\ endpoints \subseteq TimelineId \ {0}
           /\ Room \subseteq Kind /\ Thread \subseteq Kind
BY IdsAreNumbers DEF TypeOK, Kind

(* A screen changes neither its kind nor whether it has a timeline.        *)
LEMMA KeptByScreens ==
    ASSUME KeptInv, UNCHANGED <<timeline, endpoints, built, saved>>,
           DOMAIN screens' = DOMAIN screens,
           \A j \in DOMAIN screens :
             screens'[j].tl = screens[j].tl /\ screens'[j].kind = screens[j].kind
    PROVE  KeptInv'
<1>1. \A k \in Kind : ShownByScreen(k) => ShownByScreen(k)'
  BY DEF ShownByScreen
<1>2. Distinct'
  BY DEF KeptInv, Distinct
<1>3. QED
  BY <1>1, <1>2 DEF KeptInv, Kept

(* A timeline is built for one kind, others of the room are given up.      *)
LEMMA KeptNewTimeline ==
    ASSUME TypeOK, KeptInv, NEW k \in Kind, NEW G \in SUBSET Kind, k \in G,
           built' = built + 1,
           timeline' = [l \in Kind |-> IF l = k THEN built' ELSE IF l \in G THEN 0 ELSE timeline[l]],
           endpoints' = (endpoints \ {timeline[l] : l \in G}) \cup {built'},
           saved' = saved,
           \A l \in Kind : ShownByScreen(l) => ShownByScreen(l)'
    PROVE  KeptInv'
<1>0. /\ built \in Nat /\ \A l \in Kind : timeline[l] \in Nat /\ timeline[l] <= built
  BY DetailsOf DEF KeptInv, Distinct
<1>1. /\ timeline'[k] = built + 1
      /\ \A l \in Kind : l # k => timeline'[l] = 0 \/ (timeline'[l] = timeline[l] /\ l \notin G)
  OBVIOUS
<1>2. Distinct'
  <2>1. \A l \in Kind : timeline'[l] <= built'
    BY <1>0, <1>1
  <2>2. \A l \in Kind : l # k => timeline'[l] # built + 1
    BY <1>0, <1>1
  <2>3. \A l, m \in Kind : timeline'[l] # 0 /\ timeline'[l] = timeline'[m] => l = m
    BY <1>1, <2>2 DEF KeptInv, Distinct
  <2>4. QED
    BY <2>1, <2>3 DEF Distinct
<1>3. Kept'
  <2> SUFFICES ASSUME NEW l \in Kind, timeline'[l] # 0
               PROVE  timeline'[l] \in endpoints' \/ saved'[l] # 0 \/ ShownByScreen(l)'
    BY DEF Kept
  <2>1. CASE l = k
    BY <1>1, <2>1
  <2>2. CASE l # k
    <3>1. timeline'[l] = timeline[l] /\ l \notin G
      BY <1>1, <2>2
    <3>2. \A m \in G : timeline[m] # timeline[l]
      BY <3>1 DEF KeptInv, Distinct
    <3>3. QED
      BY <3>1, <3>2 DEF KeptInv, Kept
  <2>3. QED
    BY <2>1, <2>2
<1>4. QED
  BY <1>2, <1>3 DEF KeptInv

LEMMA KeptInsert ==
    ASSUME TypeOK, KeptInv, NEW r \in Room, InsertRoomDetails(r)
    PROVE  KeptInv'
<1>1. r \in Kind /\ r \in KindsOf(r) /\ KindsOf(r) \subseteq Kind
  BY ScreensAssumption DEF Kind, KindsOf, HomeRoom
<1>2. \A l \in Kind : ShownByScreen(l) => ShownByScreen(l)'
  BY DEF InsertRoomDetails, ShownByScreen
<1>3. QED
  BY <1>1, <1>2, KeptNewTimeline DEF InsertRoomDetails

LEMMA KeptRemove ==
    ASSUME TypeOK, KeptInv, NEW r \in Room, RemoveRoomDetails(r)
    PROVE  KeptInv'
<1> DEFINE G == KindsOf(r)
<1>1. /\ G \subseteq Kind /\ built' = built /\ saved' = saved /\ screens' = screens
      /\ timeline' = [k \in Kind |-> IF k \in G THEN 0 ELSE timeline[k]]
      /\ endpoints' = endpoints \ {timeline[k] : k \in G}
  BY DEF RemoveRoomDetails, KindsOf
<1> HIDE DEF G
<1>2. \A l \in Kind : timeline'[l] = 0 \/ (timeline'[l] = timeline[l] /\ l \notin G)
  BY <1>1
<1>3. Distinct'
  BY <1>1, <1>2, DetailsOf DEF KeptInv, Distinct
<1>4. Kept'
  <2> SUFFICES ASSUME NEW l \in Kind, timeline'[l] # 0
               PROVE  timeline'[l] \in endpoints' \/ saved'[l] # 0 \/ ShownByScreen(l)'
    BY DEF Kept
  <2>1. timeline'[l] = timeline[l] /\ l \notin G
    BY <1>2
  <2>2. \A m \in G : timeline[m] # timeline[l]
    BY <1>1, <2>1 DEF KeptInv, Distinct
  <2>3. ShownByScreen(l) => ShownByScreen(l)'
    BY <1>1 DEF ShownByScreen
  <2>4. QED
    BY <1>1, <2>1, <2>2, <2>3 DEF KeptInv, Kept
<1>5. QED
  BY <1>3, <1>4 DEF KeptInv

LEMMA KeptSelect ==
    ASSUME TypeOK, KeptInv, NEW k \in Kind, SelectRoom(k)
    PROVE  KeptInv'
<1>1. UNCHANGED <<timeline, endpoints, built, saved>>
  BY DEF SelectRoom, detailsVars
<1>2. ASSUME NEW l \in Kind, ShownByScreen(l) PROVE ShownByScreen(l)'
  <2>1. PICK i \in DOMAIN screens : screens[i].kind = l /\ screens[i].tl # 0
    BY <1>2 DEF ShownByScreen
  <2>2. i \in DOMAIN screens' /\ screens'[i].kind = l /\ screens'[i].tl # 0
    <3>1. CASE screens = <<>>
      BY <2>1, <3>1
    <3>2. CASE screens # <<>> /\ screens' = Append([screens EXCEPT ![Len(screens)].killed = TRUE], NewScreen(k))
      <4> DEFINE s == [screens EXCEPT ![Len(screens)].killed = TRUE]
                 f == NewScreen(k)
      <4>1. /\ s \in Seq(Screen) /\ DOMAIN s = DOMAIN screens
            /\ \A j \in DOMAIN screens : s[j].tl = screens[j].tl /\ s[j].kind = screens[j].kind
        BY <3>2, KillsLast
      <4>2. screens' = Append(s, f)
        BY <3>2
      <4> HIDE DEF s, f
      <4>3. i \in DOMAIN screens' /\ screens'[i] = s[i]
        BY <2>1, <4>1, <4>2
      <4>4. QED
        BY <2>1, <4>1, <4>3
    <3>3. CASE UNCHANGED screens
      BY <2>1, <3>3
    <3>4. QED
      BY <3>1, <3>2, <3>3 DEF SelectRoom
  <2>3. QED
    BY <2>2 DEF ShownByScreen
<1>3. Distinct' /\ Kept'
  BY <1>1, <1>2 DEF KeptInv, Distinct, Kept
<1>4. QED
  BY <1>3 DEF KeptInv

(* A receiver goes from the details, or from a saved state, to a screen.   *)
LEMMA KeptShow ==
    ASSUME TypeOK, KeptInv, NEW i \in DOMAIN screens, NEW tl \in TimelineId \ {0}, Show(i, tl),
           UNCHANGED <<timeline, built>>,
           \/ saved' = [saved EXCEPT ![screens[i].kind] = 0] /\ endpoints' = endpoints
           \/ saved' = saved /\ endpoints' = endpoints \ {timeline[screens[i].kind]}
    PROVE  KeptInv'
<1> PICK k : k = screens[i].kind
  OBVIOUS
<1>0. k \in Kind /\ saved \in [Kind -> TimelineId]
  BY ScreensOf DEF TypeOK, Screen
<1>1. /\ DOMAIN screens' = DOMAIN screens
      /\ screens'[i].tl = tl /\ screens'[i].kind = k
      /\ \A j \in DOMAIN screens : j # i => screens'[j] = screens[j]
  BY TShow
<1>2. ShownByScreen(k)'
  BY <1>1 DEF ShownByScreen
<1>3. \A l \in Kind : l # k /\ ShownByScreen(l) => ShownByScreen(l)'
  BY <1>1 DEF ShownByScreen
<1>4. \A l \in Kind : l # k /\ timeline[l] # 0 => (saved'[l] = saved[l]
          /\ (timeline[l] \in endpoints => timeline[l] \in endpoints'))
  BY <1>0 DEF KeptInv, Distinct
<1>5. Distinct'
  BY DEF KeptInv, Distinct
<1>6. Kept'
  BY <1>2, <1>3, <1>4 DEF KeptInv, Kept
<1>7. QED
  BY <1>5, <1>6 DEF KeptInv

(* and from a screen to the saved states.                                  *)
LEMMA KeptSave ==
    ASSUME TypeOK, KeptInv, NEW i \in DOMAIN screens, SaveState(i),
           UNCHANGED <<timeline, endpoints, built>>
    PROVE  KeptInv'
<1> PICK k, t : k = screens[i].kind /\ t = screens[i].tl
  OBVIOUS
<1>0. k \in Kind /\ saved \in [Kind -> TimelineId]
  BY ScreensOf DEF TypeOK, Screen
<1>1. /\ DOMAIN screens' = DOMAIN screens
      /\ \A j \in DOMAIN screens : j # i => screens'[j] = screens[j]
  BY TSave
<1>2. saved' = IF t = 0 THEN saved ELSE [saved EXCEPT ![k] = t]
  BY DEF SaveState
<1>3. \A l \in Kind : ShownByScreen(l) => ShownByScreen(l)' \/ (l = k /\ t # 0)
  BY <1>1 DEF ShownByScreen
<1>4. \A l \in Kind : saved[l] # 0 \/ (l = k /\ t # 0) => saved'[l] # 0
  BY <1>0, <1>2
<1>5. Distinct'
  BY DEF KeptInv, Distinct
<1>6. Kept'
  BY <1>3, <1>4 DEF KeptInv, Kept
<1>7. QED
  BY <1>5, <1>6 DEF KeptInv

LEMMA KeptScreenStep ==
    ASSUME TypeOK, KeptInv, NEW i, ScreenStep(i)
    PROVE  KeptInv'
<1>0. i \in DOMAIN screens /\ screens[i].kind \in Kind /\ saved \in [Kind -> TimelineId]
  BY ScreensOf DEF ScreenStep, RestoreState, ShowTimeline, ThreadAnswered, ShowThread, EndScreen,
                   Unsubscribe, At, TypeOK, Screen
<1>1. CASE RestoreState(i)
  <2> DEFINE k == screens[i].kind
  <2>1. CASE saved[k] # 0 /\ saved' = [saved EXCEPT ![k] = 0] /\ Show(i, saved[k])
    <3>1. saved[k] \in TimelineId \ {0} /\ UNCHANGED <<timeline, built, endpoints>>
      BY <1>0, <1>1, <2>1 DEF RestoreState, detailsVars
    <3>2. QED
      BY <1>0, <2>1, <3>1, KeptShow
  <2>2. CASE screens' = [screens EXCEPT ![i].at = "taking"] /\ UNCHANGED saved
    BY <1>0, <1>1, <2>2, TMove, KeptByScreens DEF RestoreState, detailsVars
  <2>3. QED
    BY <1>1, <2>1, <2>2 DEF RestoreState
<1>2. CASE EndScreen(i)
  BY <1>0, <1>2, KeptSave DEF EndScreen, detailsVars
<1>3. CASE TakeEndpoints(i) /\ UNCHANGED <<timeline, built, saved>>
  <2>1. timeline[screens[i].kind] \in TimelineId \ {0}
    BY <1>3 DEF TakeEndpoints, Available, TypeOK
  <2>2. QED
    BY <1>0, <1>3, <2>1, KeptShow DEF TakeEndpoints
<1>4. CASE /\ \E p \in {"waiting", "created", "running", "ended", "panicked"} :
                screens' = [screens EXCEPT ![i].at = p]
           /\ UNCHANGED <<timeline, built, endpoints, saved>>
  BY <1>0, <1>4, TMove, KeptByScreens
<1>5. QED
  BY <1>1, <1>2, <1>3, <1>4
     DEF ScreenStep, ShowTimeline, ThreadAnswered, ShowThread, Unsubscribe, ShowNothing, detailsVars

LEMMA KeptCreationEnds ==
    ASSUME TypeOK, KeptInv, NEW c \in creations, CreationEnds(c)
    PROVE  KeptInv'
<1>0. c.kind \in Thread /\ c.kind \in Kind
  BY DEF TypeOK, Creation, Kind
<1>1. /\ DOMAIN screens' = DOMAIN screens
      /\ \A j \in DOMAIN screens :
           screens'[j].tl = screens[j].tl /\ screens'[j].kind = screens[j].kind
  BY TReply DEF CreationEnds, ThreadBuilt, ThreadFails, RoomGone
<1>2. \A l \in Kind : ShownByScreen(l) => ShownByScreen(l)'
  BY <1>1 DEF ShownByScreen
<1>3. saved' = saved
  BY DEF CreationEnds, ThreadBuilt, ThreadFails
<1>4. CASE /\ built' = built + 1
           /\ timeline' = [timeline EXCEPT ![c.kind] = built']
           /\ endpoints' = (endpoints \ {timeline[c.kind]}) \cup {built'}
  <2> PICK k, G : k = c.kind /\ G = {c.kind}
    OBVIOUS
  <2>1. timeline' = [l \in Kind |-> IF l = k THEN built' ELSE IF l \in G THEN 0 ELSE timeline[l]]
    BY <1>0, <1>4, DetailsOf
  <2>2. endpoints' = (endpoints \ {timeline[l] : l \in G}) \cup {built'}
    BY <1>4
  <2>3. G \in SUBSET Kind /\ k \in G /\ k \in Kind /\ built' = built + 1
    BY <1>0, <1>4
  <2>4. QED
    BY ONLY TypeOK, KeptInv, <1>2, <1>3, <2>1, <2>2, <2>3, KeptNewTimeline
<1>5. CASE UNCHANGED <<built, timeline, endpoints>>
  BY <1>1, <1>3, <1>5, KeptByScreens
<1>6. QED
  BY <1>4, <1>5 DEF CreationEnds, ThreadBuilt, ThreadFails, RoomGone, detailsVars

LEMMA KeptStep == TypeOK /\ KeptInv /\ [Next]_vars => KeptInv'
<1> SUFFICES ASSUME TypeOK, KeptInv, [Next]_vars PROVE KeptInv'
  OBVIOUS
<1>1. CASE WorkerStep
  BY <1>1, TReply, KeptByScreens
     DEF WorkerStep, CreateThreadTimeline, SubscribeToReceipts, Refuse, detailsVars
<1>2. CASE UNCHANGED vars
  BY <1>2, KeptByScreens DEF vars, detailsVars
<1>3. QED
  BY <1>1, <1>2, KeptInsert, KeptRemove, KeptSelect, KeptScreenStep, KeptCreationEnds DEF Next

(* However the screens of a timeline follow each other, its receiver is    *)
(* not lost with them, for any rooms, threads, screens and replacements of *)
(* the details (room_screen.rs on Drop).                                   *)
THEOREM ReceiverStays == Spec => []ReceiverIsKept
<1>1. Kept => ReceiverIsKept
  BY DEF Kept, ReceiverIsKept, IsHeld, ShownByScreen
<1>2. KeptInv => Kept
  BY DEF KeptInv
<1>3. QED
  BY <1>1, <1>2, ScreensTypeCorrect, KeptInit, KeptStep, PTL DEF Spec

----------------------------------------------------------------------------
(* Threads are built once, as long as the sync task inserts details once:  *)
(* new details forget the threads that are being built.                    *)

OnceInv ==
    /\ ThreadBuiltOnce
    /\ \A c \in creations : timeline[RoomOf[c.kind]] # 0 => c.kind \in building
    /\ built = 0 => creations = {}

LEMMA OnceInit == Init => OnceInv
BY DEF Init, OnceInv, ThreadBuiltOnce

(* The room of a thread being built.                                       *)
LEMMA CreationsOf ==
    ASSUME TypeOK, NEW c \in creations
    PROVE  /\ c.kind \in Thread /\ c.kind \in Kind /\ c.kind \notin Room
           /\ RoomOf[c.kind] \in Room /\ RoomOf[c.kind] \in Kind
           /\ HomeRoom(c.kind) = RoomOf[c.kind] /\ HomeRoom(RoomOf[c.kind]) = RoomOf[c.kind]
BY ScreensAssumption DEF TypeOK, Creation, Kind, HomeRoom

LEMMA OnceStep == MaxJoins <= 1 /\ TypeOK /\ Distinct /\ OnceInv /\ [Next]_vars => OnceInv'
<1> SUFFICES ASSUME MaxJoins <= 1, TypeOK, Distinct, OnceInv, [Next]_vars PROVE OnceInv'
  OBVIOUS
<1>0. /\ \A c \in creations : timeline[c.kind] = 0
      /\ \A c, d \in creations : c.kind = d.kind => c = d
      /\ \A c \in creations : timeline[RoomOf[c.kind]] # 0 => c.kind \in building
      /\ built = 0 => creations = {}
      /\ built \in Nat /\ timeline \in [Kind -> TimelineId] /\ MaxJoins \in Nat
  BY DetailsOf, ScreensAssumption DEF OnceInv, ThreadBuiltOnce, TimelineId
<1>1. ASSUME NEW r \in Room, InsertRoomDetails(r) PROVE OnceInv'
  <2>1. built = 0 /\ built' = 1
    BY <1>0, <1>1 DEF InsertRoomDetails
  <2>2. creations' = {}
    BY <1>0, <1>1, <2>1 DEF InsertRoomDetails, workerVars
  <2>3. QED
    BY <2>1, <2>2 DEF OnceInv, ThreadBuiltOnce
<1>2. ASSUME NEW r \in Room, RemoveRoomDetails(r) PROVE OnceInv'
  <2>1. creations' = creations /\ built' = built
    BY <1>2 DEF RemoveRoomDetails, workerVars
  <2>2. ASSUME NEW c \in creations
        PROVE  /\ timeline'[c.kind] = 0
               /\ timeline'[RoomOf[c.kind]] # 0 => c.kind \in building'
    <3>1. /\ c.kind \in Kind /\ RoomOf[c.kind] \in Kind
          /\ c.kind \in KindsOf(r) <=> RoomOf[c.kind] \in KindsOf(r)
      BY CreationsOf DEF KindsOf
    <3>2. QED
      BY <1>0, <1>2, <3>1 DEF RemoveRoomDetails
  <2>3. QED
    BY <1>0, <2>1, <2>2 DEF OnceInv, ThreadBuiltOnce
<1>3. CASE CreateThreadTimeline
  <2> PICK q : q = Head(requests)
    OBVIOUS
  <2>1. q.kind \in Thread /\ q.kind \in Kind
    BY <1>3, HeadType DEF CreateThreadTimeline, TakeRequest, Kind
  <2>2. UNCHANGED <<timeline, built>>
    BY <1>3 DEF CreateThreadTimeline
  <2>3. CASE UNCHANGED <<building, creations>>
    BY <1>0, <2>2, <2>3 DEF OnceInv, ThreadBuiltOnce
  <2>4. CASE /\ MayCreate(q.kind) /\ building' = building \cup {q.kind}
             /\ creations' = creations \cup {[kind |-> q.kind, screen |-> q.screen]}
    <3>1. timeline[RoomOf[q.kind]] # 0 /\ timeline[q.kind] = 0 /\ q.kind \notin building
      BY <2>4 DEF MayCreate
    <3>2. \A d \in creations : d.kind # q.kind
      BY <1>0, <3>1
    <3>3. built # 0
      <4>1. RoomOf[q.kind] \in Kind
        BY <2>1, ScreensAssumption DEF Kind
      <4>2. QED
        BY <3>1, <4>1, DetailsOf DEF Distinct
    <3> DEFINE c == [kind |-> q.kind, screen |-> q.screen]
    <3>4. c.kind = q.kind /\ creations' = creations \cup {c}
      BY <2>4
    <3> HIDE DEF c
    <3>5. ThreadBuiltOnce'
      BY <1>0, <2>2, <3>1, <3>2, <3>4 DEF ThreadBuiltOnce
    <3>6. \A d \in creations' : timeline'[RoomOf[d.kind]] # 0 => d.kind \in building'
      BY <1>0, <2>2, <2>4, <3>4
    <3>7. QED
      BY <2>2, <3>3, <3>5, <3>6 DEF OnceInv
  <2>5. QED
    BY <1>3, <2>3, <2>4 DEF CreateThreadTimeline, Refuse
<1>4. ASSUME NEW c \in creations, CreationEnds(c) PROVE OnceInv'
  <2>1. creations' = creations \ {c}
    BY <1>4 DEF CreationEnds, ThreadBuilt, ThreadFails
  <2>2. \A d \in creations' : d \in creations /\ d.kind # c.kind /\ RoomOf[d.kind] # c.kind
    BY <1>0, <2>1, CreationsOf
  <2>3. c.kind \in Kind
    BY CreationsOf
  <2>4. /\ \A l \in Kind : l # c.kind => timeline'[l] = timeline[l]
        /\ building \ {c.kind} \subseteq building'
        /\ built' = 0 => built = 0
    BY <1>0, <1>4, <2>3 DEF CreationEnds, ThreadBuilt, ThreadFails, RoomGone, detailsVars
  <2>5. \A d \in creations' : timeline'[d.kind] = timeline[d.kind]
                              /\ timeline'[RoomOf[d.kind]] = timeline[RoomOf[d.kind]]
    BY <2>2, <2>4, CreationsOf
  <2>6. ThreadBuiltOnce'
    BY <1>0, <2>1, <2>2, <2>5 DEF ThreadBuiltOnce
  <2>7. \A d \in creations' : timeline'[RoomOf[d.kind]] # 0 => d.kind \in building'
    BY <1>0, <2>2, <2>4, <2>5
  <2>8. QED
    BY <1>0, <2>1, <2>4, <2>6, <2>7 DEF OnceInv
<1>5. CASE UNCHANGED <<timeline, building, built, creations>>
  BY <1>0, <1>5 DEF OnceInv, ThreadBuiltOnce
<1>6. ASSUME NEW k \in Kind, SelectRoom(k) PROVE OnceInv'
  BY <1>5, <1>6 DEF SelectRoom, detailsVars, workerVars
<1>7. ASSUME NEW i, ScreenStep(i) PROVE OnceInv'
  BY <1>5, <1>7 DEF ScreenStep, RestoreState, ShowTimeline, ThreadAnswered, ShowThread, EndScreen,
                    Unsubscribe, detailsVars, workerVars
<1>8. CASE SubscribeToReceipts
  BY <1>5, <1>8 DEF SubscribeToReceipts, detailsVars
<1>9. CASE UNCHANGED vars
  BY <1>5, <1>9 DEF vars, detailsVars, workerVars
<1>10. QED
  BY <1>1, <1>2, <1>3, <1>4, <1>6, <1>7, <1>8, <1>9 DEF Next, WorkerStep

(* joined_room.rs on pending_thread_timelines: a thread timeline is built  *)
(* by one task at a time and never while the room has it, for any number   *)
(* of screens that ask for it, as long as details are inserted once.       *)
THEOREM ThreadsAreBuiltOnce ==
    ASSUME MaxJoins <= 1
    PROVE  Spec => []ThreadBuiltOnce
<1>1. OnceInv => ThreadBuiltOnce
  BY DEF OnceInv
<1>2. KeptInv => Distinct
  BY DEF KeptInv
<1>3. TypeOK /\ Distinct /\ OnceInv /\ [Next]_vars => OnceInv'
  BY OnceStep
<1>4. QED
  BY <1>1, <1>2, <1>3, ScreensTypeCorrect, KeptInit, KeptStep, OnceInit, PTL DEF Spec

(* So the thread or room a screen shows keeps its timeline until the sync  *)
(* task gives up or replaces the details of the room.                      *)
THEOREM ShownTimelinesStay ==
    ASSUME MaxJoins <= 1
    PROVE  Spec => ShownTimelineStays
<1>1. ASSUME TypeOK, Distinct, OnceInv, [Next]_vars,
             NEW i \in DOMAIN screens, NEW k, k = screens[i].kind,
             screens[i].tl # 0, timeline[k] = screens[i].tl
      PROVE  timeline'[k] \in {timeline[k], 0} \/ timeline'[HomeRoom(k)] # timeline[HomeRoom(k)]
  <2>1. k \in Kind /\ HomeRoom(k) \in Kind
    BY <1>1, ScreensOf, ScreensAssumption DEF Screen, HomeRoom, Kind
  <2>2. ASSUME NEW r \in Room, InsertRoomDetails(r)
        PROVE  timeline'[k] \in {timeline[k], 0} \/ timeline'[HomeRoom(k)] # timeline[HomeRoom(k)]
    <3>1. CASE k = r
      <4>1. HomeRoom(k) = k
        BY <3>1, ScreensAssumption DEF HomeRoom
      <4>2. timeline'[k] = built + 1
        BY <2>1, <2>2, <3>1 DEF InsertRoomDetails
      <4>3. timeline[k] <= built /\ timeline[k] \in Nat /\ built \in Nat
        BY <1>1, <2>1, DetailsOf DEF Distinct
      <4>4. QED
        BY <4>1, <4>2, <4>3
    <3>2. CASE k # r
      BY <2>1, <2>2, <3>2 DEF InsertRoomDetails
    <3>3. QED
      BY <3>1, <3>2
  <2>3. ASSUME NEW r \in Room, RemoveRoomDetails(r) PROVE timeline'[k] \in {timeline[k], 0}
    BY <2>1, <2>3 DEF RemoveRoomDetails
  <2>4. ASSUME NEW c \in creations, CreationEnds(c) PROVE timeline'[k] = timeline[k]
    <3>1. timeline[c.kind] = 0 /\ c.kind \in Kind
      BY <1>1, CreationsOf DEF OnceInv, ThreadBuiltOnce
    <3>2. k # c.kind
      BY <1>1, <3>1
    <3>3. QED
      BY <1>1, <2>1, <2>4, <3>1, <3>2, DetailsOf
         DEF CreationEnds, ThreadBuilt, ThreadFails, RoomGone, detailsVars
  <2>5. ASSUME NEW l \in Kind, SelectRoom(l) PROVE timeline' = timeline
    BY <2>5 DEF SelectRoom, detailsVars
  <2>6. ASSUME NEW j, ScreenStep(j) PROVE timeline' = timeline
    BY <2>6 DEF ScreenStep, RestoreState, ShowTimeline, ThreadAnswered, ShowThread, EndScreen,
                Unsubscribe, detailsVars
  <2>7. CASE WorkerStep
    BY <2>7 DEF WorkerStep, CreateThreadTimeline, SubscribeToReceipts, detailsVars
  <2>8. CASE UNCHANGED vars
    BY <2>8 DEF vars, detailsVars
  <2>9. QED
    BY <1>1, <2>2, <2>3, <2>4, <2>5, <2>6, <2>7, <2>8 DEF Next
<1>2. TypeOK /\ Distinct /\ OnceInv /\ [Next]_vars =>
        [\A i \in DOMAIN screens :
           LET k == screens[i].kind IN
           screens[i].tl # 0 /\ timeline[k] = screens[i].tl =>
             timeline'[k] \in {timeline[k], 0} \/ timeline'[HomeRoom(k)] # timeline[HomeRoom(k)]]_vars
  <2> SUFFICES ASSUME TypeOK, Distinct, OnceInv, [Next]_vars, NEW i \in DOMAIN screens,
                      screens[i].tl # 0, timeline[screens[i].kind] = screens[i].tl
               PROVE  \/ timeline'[screens[i].kind] \in {timeline[screens[i].kind], 0}
                      \/ timeline'[HomeRoom(screens[i].kind)] # timeline[HomeRoom(screens[i].kind)]
    OBVIOUS
  <2>1. QED
    BY <1>1
<1>3. KeptInv => Distinct
  BY DEF KeptInv
<1>4. TypeOK /\ Distinct /\ OnceInv /\ [Next]_vars => OnceInv'
  BY OnceStep
<1>5. QED
  BY <1>2, <1>3, <1>4, ScreensTypeCorrect, KeptInit, KeptStep, OnceInit, PTL
     DEF Spec, ShownTimelineStays
=============================================================================
